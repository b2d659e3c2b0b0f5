# BoSLcam firmware in TLA+

TLA+ modules of the BoSLcam firmware (`src/`): a camera on an nRF9160 that takes a
picture when a timer, a pin or a web site asks for it, keeps it on an SD card and
sends it by FTP over LTE-M. TLC checks small instances of the modules; TLAPS proves
38 theorems for every value of the constants. `PROJECT.json` says which
lines of the source each definition stands for.

    tlc -workers 2 -config CaptureQueue.cfg CaptureQueue.tla
    tlapm CaptureQueueProofs.tla

## 1. The system

| component | state | operations | interacts with |
|---|---|---|---|
| Capture triggers, queue, worker (`main.c`) | `capture_q` (one place), `time_trigger_count`, two `k_timer`s, time of the last wake | `time_trigger_handler`, `network_trigger_handler`, `wake_trigger_handler`, `msgq_put_force`, `capture_worker_f`, `capture_f` | handlers in two interrupts put, the worker thread gets; the worker calls everything below |
| Watchdog (`watchdog.c`) | time since it was fed | install, start, feed | fed by `capture_f` only; resets the chip after a day |
| Network trigger (`main.c:336-377`, `http.c`) | `network_capture_count`, endpoint (address, status, buffer) | `http_get_uint32` and the functions below it | the modem, the DNS, the site |
| Modem shutdown counter (`modem.c:37-69`) | a semaphore | `on_modem_shutdown`, `shutdown_decrementer_worker` | callback of the modem library; panics, which resets the chip |
| Modem registration (`modem.c:130-441`) | `operators`, `status_g.mccmnc`, `network_searched`; in the modem: radio, selected network, system mode | `modem_network_register`, `_search`, `_select`, `_wait_registration`, `_deregister` | called by `setup`, uploads and polls; the modem works by itself in between |
| FTP upload (`ftp.c`, `patch/ftp_client.c`) | `client`, `ctrl_buf`, `ftp_inactivity`, `data_task_param`, a work queue, the keepalive timer | `ftp_write_image`, `ftp_write_status`, `ftp_open` ... `ftp_close`, `data_task`, `keepalive_handler` | the worker and the work queue share the control socket and `ctrl_buf`; the server |
| Sensor registers, exposure, gain (`ov7675.c:46-294`) | in the sensor: registers, and what of them it has latched | `ov7675_init`, freeze and unfreeze, masked writes | the SCCB bus; the sensor's own control loops write the same registers |
| Camera readout (`ov7675.c:353-433`) | the buffer, `current_line`, `lines_remaining` | `ov7675_capture_sdhc_buffered` | the sensor, line by line; the file on the card |
| Clock, image names, status file (`main.c:396-482`, `sd.c`) | the wall clock, `time_src`, status file and images on the card | `setup`, `time_source_stats_async`, `sdhc_move_image`, `sdhc_write_status`, `sdhc_load_last_status_time` | the network answers in another thread; the card outlives power losses |
| Configuration (`config.l`, `config.y`, `sd.c:120-240`) | `mcfg`, filled at boot; the parser's stack, `yytext` | `sdhc_load_config`, `yyparse`, `decrypt_password` | the card; everything reads `mcfg` |
| JPEG encoder, its memory (`jpg.c`, `tjpg.h`, `tmalloc.c`) | a band of lines, a pool (both in the capture buffer), an output buffer, the bits not yet written | `sdhc_write_jpg`, `buffer_closure_from_file`, `tjei_encode_main`, `tjei_write`, `t_malloc` | reads the image back from the card, writes another file |
| Dates and status lines (`util.c`, `common.c`) | none | `unix_date`, `strfstatus` | - |
| Reset reasons, SRAM driver, tests, boards, host scripts | - | - | - |

What is hard about it: interrupt handlers that preempt each other between two calls
on the same queue; a queue that drops tasks while the worker is busy for minutes; a
watchdog fed in one place only; two threads on one control socket and one buffer;
replies that come late, together, or never; commands to a modem that goes on by
itself; a network answer that arrives in another thread while `setup()` decides
where the time comes from; power losses between the steps of a file operation;
images read in parts from successive frames of a sensor that changes its own settings;
files read that may be cut short anywhere; and an encoder that shares one buffer with
its input, its memory and its output. `PROJECT.json` lists these hazards at
their lines, with the properties about each.

What makes each part correct:

- *queue*: a trigger is not lost unless a newer one takes its place; uploads come as
  often as configured; handlers do not recurse without bound;
- *watchdog*: a camera that can capture is not reset;
- *network trigger*: a capture for every request, none without one;
- *shutdown counter*: a panic after as many shutdowns a day as configured, not before;
- *registration*: success means registered; the strongest operator first; the camera
  gets back on the network after any failure;
- *upload*: files hold what was captured; the client is ready for the next upload;
  success means that the file is whole; every upload ends, whatever the server does but
  talk for ever;
- *sensor*: an image is taken with one exposure, that of the configuration where it sets
  one;
- *readout*: the buffer is not overrun; the file is as large as its header says, its
  lines are those of the image;
- *configuration*: every member has the value last written for it, in its section and
  up to the first error, if it can hold that; the password comes out as it went in;
- *JPEG*: the rows of the image are encoded in their order; the encoder's objects do not
  overlap; its blocks decode to what they were; the file is its output, each byte once;
- *dates*: the status line is dated by the Gregorian calendar;
- *clock*: captures have a time; the status says where it is from, and a line that says
  it is the network's is wrong once in a boot at most, unless `setup()` undoes an answer;
  images of one time do not replace those of another.

## 2. The modules

| module | models | for TLC | proofs |
|---|---|---|---|
| `CaptureMailbox` | what the queue promises: a mailbox of one place before one worker | (as a property) | |
| `CaptureQueue` | triggers, `capture_q`, worker; implements `CaptureMailbox` | itself | `CaptureQueueProofs` |
| `CaptureTiming` | `CaptureQueue` with durations of polls and captures, and the watchdog | itself | `CaptureQueueProofs` |
| `NetworkTrigger` | the poll, the HTTP endpoint, the site, resets | itself | `NetworkTriggerProofs` |
| `ModemShutdown` | the semaphore of recent shutdowns | itself | `ModemShutdownProofs` |
| `ModemRegister` | registration, search, deregistration, their callers and the modem | itself | `ModemRegisterProofs` |
| `UploadStore` | what an upload promises of the server's files | (as a property) | |
| `FtpUpload` | worker, work queue, keepalive, server, connections; implements `UploadStore` | `MCFtpUpload` | `FtpUploadProofs` |
| `FrameReadout` | reading an image in parts, and its mean | `MCFrameReadout` | `FrameReadoutProofs` |
| `SensorRegisters` | the sensor, and the programs of bus transfers that set it | | `CaptureImageProofs` |
| `ScratchPool` | the allocator of the encoder's memory | | `CaptureImageProofs` |
| `JpegEntropy` | the entropy coding of data units, as operators | | |
| `JpegEncoder` | bands, rows, blocks and output of the encoder; over `FrameReadout`, `JpegEntropy`, `ScratchPool` | | `CaptureImageProofs` |
| `Calendar` | `unix_date`, as an operator | | `CaptureImageProofs` |
| `CaptureImage` | a capture: composes `SensorRegisters`, `FrameReadout`, `JpegEncoder`, `Calendar` | `MCCaptureImage` | `CaptureImageProofs` |
| `BootClock` | where the time comes from, image names, status file | itself | `BootProofs` |
| `Configuration` | scanner, parser, `mcfg`, passwords | | `BootProofs` |
| `Boot` | from reset to captures: composes `Configuration` and `BootClock` | `MCBoot` | `BootProofs` |

Actions have the names of the functions they model where a function is one step.
Variables that only the properties read are declared as history, and no action
has one in its guard. Operators whose comment says "Mutant" are plausible bugs for one definition
below them; no action uses them.

**CaptureQueue.** The k_timer handlers run in the clock interrupt and are one step
each. The wake handler runs in the GPIO interrupt, which the clock preempts: its
first put (`wake_trigger_handler`), its get (`WakeGet`) and its retry (`WakeRetry`)
are steps, with timer handlers in between. The worker (`WorkerDone`) runs when no
handler does. A handler's put gives its task to a waiting worker directly, as
Zephyr's `k_msgq_put` does. `MailboxSteps` is the refinement: `worker` is the
worker's task, `slot` the mail, where a submission in pieces counts when its put
succeeds.

**CaptureTiming** extends it: a job of the worker takes ticks, chosen from
`PollTime` or `CaptureTime`, during which timers go on; `capture_f` feeds the
watchdog before anything else.

**NetworkTrigger** takes the poll apart at every call that can fail. `Signed` is the
conversion of the `uint32_t` count to `int32_t`; `status` and `body` are what
`recv_buf` and the endpoint keep from an earlier response.

**ModemShutdown.** `last` is the history of shutdown times the two properties read.

**ModemRegister.** `pc` is the next AT command, `attempt` the step of
`modem_network_register` (last network, configured one, any, search, operators
found). The modem registers by itself (`ModemRegisters`), also after
`modem_wait_registration` has given up; coverage changes and the SIM fails at any
time. Results are kept as -1, 0 or 1. An operator whose rsrp is not known counts as one whose
rsrq is not: the loop over the table passes over both (`modem.c:404`).

**FtpUpload.** `pc` and `cmd` are the worker's place: the command it sends and the reply it
waits for. The work queue runs one item at a time (`wq`), the data task in two halves so that
the buffer may change under it. `srv` is the control connection with the commands and replies
on their way: one `recv` returns any number of the replies that have come, and
`parse_return_code` finds its code anywhere in them. `client.pasv` is the PASV reply as it
stands in `ctrl_buf`, which the data task reads when it runs. Time is counted in poll timeouts
of 10 s. Reading the file may fail (`ReadFails`), and the server may say what nothing has
asked for (`OtherReply`), as often as it likes while the worker waits for the end of a
transfer. `luck` remembers what has gone wrong in an upload: nothing, a NOOP in between, a
fault the code sees as one, or a loss (`Loss`) it does not. `FilesAsPromised` is the
refinement: `UploadStore` knows uploads that begin, store halves of buffers and end with 0 or
-1, and no commands, replies, threads or connections. Its files are what the server has and
will have of each upload (`Arrived`). They are the beginning of what is uploaded at every
moment, also when the worker has given up and its data task goes on, and all of it when 0 is
returned. An upload that skips data (`luck = "lost"`) promises only their order; after a QUIT
that could not be sent (`left`) a task may add to an earlier file (`Stray`).

**FrameReadout** keeps of a line its number, of a buffer its mean. `ReadLine` is a line
that is stored, `SkipLine` one that is not, and a full buffer is written, with its share
of the mean, by `WriteBuffer`.

**SensorRegisters** has the calls of `ov7675.c` as sequences of transfers on the bus
(`ov7675_init`, `Freeze`, `Unfreeze`): a masked write reads the register in one transfer and
writes it in a later one. `SensorAdjusts` may come between any two: the sensor sets
exposure, gain and white balance itself while COM8 has their loops on. It
latches what its registers say at a vsync and uses that in the frame after
(`NextFrame`). Sensor and bus are external, modelled from how the code uses them.

**ScratchPool** has addresses and sizes as on the target, and the objects alive in it with
the bytes of them that are touched. **JpegEntropy** takes quantized coefficients and gives
bytes; its reference is a decoder written from the tables alone (`BlockDecodes`).
**JpegEncoder** is one step for a band, a row and a data unit; of the output it counts
the bytes, and those of a sample of data units it keeps, to decode them. Where a band
cannot be read, `read_failed` says so and the encoder goes on with the band before, as the
code does. **Calendar** counts days up as the code does; its reference is the civil calendar's
own formula (`DayNumber`). Its two loops, over years and over months, are recursive functions
on the loop's variables. Instants are pairs of a day and a second, since the `uint32_t` of
the code is beyond TLC's integers; all that a `uint32_t` has are allowed.

**CaptureImage** runs these one after the other as `capture_f` calls them; a vsync is waited
for before every frame.

**BootClock** has a step for each call of `setup()` after which the other thread may
come. That thread has two: the library sets its clock (`TimeObtained`) and then calls the
handler (`ObtainedHandler`). `sdhc_write_status` is two steps, so that power may fail between
the creation of the file and its first line. A status line has the time taken when the capture
began (`time_wall`) and the source at the moment it is formatted (`StatusLine`); `takenAt`,
`takenSrc`, `misdated` and `undone` are history that only `NetworkLabelHonest` reads.

**Configuration** is a parser by prefixes: the grammar of `config.y` is a set of entries, each
a sequence of kinds of tokens in a section, with the member of `mcfg` it sets, a pair of
section and name; a token is shifted while some entry goes on with it, takes effect with its
last, and is an error otherwise. A string is the sequence of its characters where the ciphers
need them. An integer is first what `atoi` makes of its digits, which for newlib
(`prj.conf:88`) is at most the greatest `int` (`IntMax`), and then cut to the width of its
member (`Cut`). A string may have a character 0, which the scanner takes like any other
(`config.l:23`) and `string_malloc` takes for the end (`Text`): it copies one character less
than there is before it, or, where it comes first, a length of -1 (`StringFault`). `Values`
lets `k_malloc` fail for any string. The password is decrypted as it is in C, with its
remainder of negative numbers.

**Boot** lets the clock run only after the configuration has been loaded, and the network be
asked only where the configuration has uploads. A power loss forgets `mcfg` and starts again
with the same card.

## 3. The runs

| run | question | result |
|---|---|---|
| `capture_queue` | Does `msgq_put_force`, preempted anywhere, implement the mailbox? Is its recursion bounded? Are uploads as frequent as configured? | yes; the last as long as no task that was to upload has been dropped |
| `timing_covered` | Is the watchdog fed in time, with polls and captures as short as in coverage? | yes, within two periodic intervals |
| `timing_uncovered` | And without coverage? | **no** |
| `network_trigger` | No capture unasked, every request answered? | yes; a request for counts in range and a site that keeps its address |
| `modem_shutdown` | A panic after the configured number, and when at the latest? | after `MaxDaily` in a day, before 2 `MaxDaily` |
| `modem_register` | Is 0 registered, is the strongest tried first, does the camera recover? | yes |
| `ftp_upload` | Are files made of their own data, and at every moment the beginning of what is uploaded? Is the client closed, does a served upload succeed, is an upload that says so whole, does every upload end? | yes, but for a server that sends for ever what nothing has asked for; files are of their own data and the client closed unless QUIT could not be sent, files have a beginning and are whole unless the server refused a part or reading or sending the data failed |
| `ftp_upload_in_time` | Does an upload the server completes in time succeed? | **no** |
| `frame_readout` | A capture from the sensor's setup to the JPEG. Is the image taken with one exposure, as configured? Is the buffer never overrun, the file complete, one frame exact, the mean one of the image? Is the date right? Does the encoder take every row, keep its memory apart, write each byte once, in blocks that decode? | yes |
| `frame_readout_lines` | Has an image of several frames each line once? | **no** |
| `boot_clock` | Is the configuration what the file says, whatever the file? Does `setup()` always find a time, how far is a line of NETWORK_TIME true, when are images replaced? | yes, where members can hold it; yes; but for one line of a boot, unless `setup()` undoes an answer; only after captures without network time |
| `boot_clock_sd` | Is the time in the status file used? | **no** |

### Bounds, and why they are enough

- `CaptureQueue.cfg`: intervals 2 and 3 make the timers meet in every phase; a
  decimation of 3 has a count that is neither the first nor the last; a holdout of 2
  lets a wake fall into it or after it. No counter is unbounded: only the remainder of
  `time_trigger_count` is kept.
- `CaptureTiming*.cfg`: ticks of a minute. In coverage, polls take up to one and
  captures one to three ticks, with the shipped interval of 6 and one of 3 for the shipped
  2 of the network, since polls of seconds are rounded up to a tick; the
  watchdog's timeout is two intervals there, far below a day, which makes the
  property stronger. Two polls are shorter than a network interval and 6 + 3 + 1 + 1 ticks
  shorter than the timeout, which is all the theorem about it needs. Without coverage, a
  poll of three attempts of 150 s takes 8 ticks, an image upload and a status upload 17,
  and the timeout is a day.
- `NetworkTrigger.cfg`: `Half` = 3 puts the largest count (4) beyond the positive half;
  two addresses let the site move; one reset.
- `ModemShutdown.cfg`: `MaxDaily` = 3 and five periods of 2 ticks: shutdowns at
  the start, within and across periods.
- `ModemRegister.cfg`: three networks and a table of two operators: one search finds
  more than fit. Two values of rsrq, and 99, which is
  less than any, are enough to order them. Two faults (failed
  commands, failures of the SIM, changes of coverage) besides those that
  coverage explains; the initial coverage is any.
- `FtpUpload.cfg`: an image of two parts (STOR, then APPE) and a status after it; one
  fault at any place of either, and one reply to nothing unread at a time; a transfer waits
  two timeouts instead of twelve, a
  keepalive period is one instead of six, so that its NOOP falls within a transfer.
- `CaptureImage.cfg`: the sizes of the code: 480 lines, a buffer of 153,600 bytes, VGA in
  four parts and QVGA in one. The captures vary one thing at a time: exposures that end
  in each of the three registers they are packed in, every exponent of the gain, either
  loop on or off; instants at the ends of months in years that are and are not leap years,
  with the first and the last a `uint32_t` has, and both sides of 2^31 seconds; both formats
  and resolutions for the encoder. What the sensor sets by itself is one exposure and one gain
  beside the configured ones, and two values for the white balance. Two addresses of
  the buffer, aligned and not; rows of blocks that take fewer bytes than the
  output buffer has, so that it fills within a row and across rows; data
  units with one coefficient after each run that is coded in its own way, and dense ones.
- `FrameReadoutLines.cfg`: 48 lines and a buffer scaled alike, for a short counterexample.
- `Boot.cfg`: one power loss, three ticks after the start; a clock set
  from the epoch is behind the network's, so that a later one may meet its names. The files:
  one that has every entry, cut short at every token and with every single token left
  out; the password before, after, between and without its cypher, in characters at both
  ends of the range it is shifted in; the same names in several sections; numbers above an `int`
  (here 2^30 - 1, which TLC can exceed) and above narrow members; strings with a character 0
  within and at either end. With two of the files,
  with uploads and without, the model goes on to captures; with the rest it stops at the loaded
  configuration, which is what the property is about. Nor does it go on where memory
  was short for the paths of the card.
- `BootClockSd.cfg`: time enough after a power loss to start from a status file.

`CHECK_DEADLOCK FALSE` is said of `CaptureImage` and `FrameReadoutLines` (an image is
done), of `Boot` (a configuration that was not read, or not gone on with) and of
`FtpUpload` (after the last upload).

### Fairness

- `CaptureQueue`: the worker's calls return (strong fairness of `WorkerDone`, since
  interrupts interrupt it), and handlers in progress go on.
- `NetworkTrigger`: the timer keeps polling; the network fails any number of times
  but not every time (strong fairness).
- `ModemRegister`: commands are answered and waits end, weak fairness; a modem in
  coverage registers and coverage returns; uploads go on being made (the time
  trigger). Nothing is assumed of the radio: that it is turned on again is shown.
- `FtpUpload`: the worker and the server run, and a ready work item starts. Nothing
  is assumed of the data connection or of the keepalive's poll; timeouts happen
  because the worker has nothing else to do. A work item that is ready runs
  before the server's next step and before a timeout (`Ready`): its thread has the lowest
  priority, but the others wait for the network in that time.

Safety properties do not depend on any of it.

## 4. The proofs

| theorem | states |
|---|---|
| `CaptureQueueProofs!TypeCorrect` | `Spec => []TypeOK` |
| `CaptureQueueProofs!RetriesAreBounded` | `Spec => []RetriesBounded` |
| `CaptureQueueProofs!DecimationHolds` | `Spec => []DecimationUnlessDropped` |
| `CaptureQueueProofs!QueueImplementsMailbox` | `Spec => MailboxSteps` |
| `CaptureQueueProofs!TimedTypeCorrect` | `TimedSpec => []TimedTypeOK` (of `CaptureTiming`) |
| `CaptureQueueProofs!WatchdogIsFed` | `TimedSpec => []WatchdogFed`, for short enough polls and captures |
| `NetworkTriggerProofs!TypeCorrect` | `Spec => []TypeOK` |
| `NetworkTriggerProofs!NetworkCapturesAreAsked` | `Spec => []NoCaptureUnasked` |
| `ModemShutdownProofs!TypeCorrect` | `Spec => []TypeOK` |
| `ModemShutdownProofs!PanicIsJustified` | `Spec => []PanicAfterMaxDaily` |
| `ModemShutdownProofs!NoPanicIsBounded` | `Spec => []NoPanicBound` |
| `ModemRegisterProofs!TypeCorrect` | `Spec => []TypeOK` |
| `ModemRegisterProofs!ZeroIsRegistered` | `Spec => []ZeroMeansRegistered` |
| `ModemRegisterProofs!StrongestTriedFirst` | `Spec => []StrongestFirst` |
| `FtpUploadProofs!TypeCorrect` | `Spec => []TypeOK` |
| `FtpUploadProofs!UploadCloses` | `Spec => []ClosedAfterUpload` |
| `FtpUploadProofs!DataStayWithTheirUpload` | `Spec => []NoForeignData` |
| `FtpUploadProofs!ZeroIsWhole` | `Spec => []ZeroMeansUploaded` |
| `FtpUploadProofs!ServedIsUploaded` | `Spec => []UploadedWhenServed` |
| `FtpUploadProofs!UploadsImplementStore` | `Spec => FilesAsPromised` (the specification of `UploadStore`) |
| `FrameReadoutProofs!BufferNeverOverrun` | `Spec => []BufferFits` |
| `FrameReadoutProofs!FileIsComplete` | `Spec => []FileComplete` |
| `FrameReadoutProofs!OneFrameIsExact` | `Spec => []OneFrameExact` |
| `FrameReadoutProofs!MeanIsOfImage` | `Spec => []MeanOfImage`, for images of whole buffers |
| `CaptureImageProofs!CaptureReadsFrames` | `ImageSpec => Spec` (of `FrameReadout`) |
| `CaptureImageProofs!CaptureTypeCorrect` | `ImageSpec => []ImageTypeOK` |
| `CaptureImageProofs!FramesExposedAlike` | `ImageSpec => []OneExposure` |
| `CaptureImageProofs!ConfiguredIsUsed` | `ImageSpec => []ManualAsConfigured` |
| `CaptureImageProofs!RowsStayInBand` | `ImageSpec => []RowsInBand` |
| `CaptureImageProofs!JpegIsTheImage` | `ImageSpec => []JpegFileExact` |
| `CaptureImageProofs!ScratchIsHeld` | `ImageSpec => []ScratchHeld` |
| `CaptureImageProofs!DatesAreGregorian` | `ImageSpec => []DateIsGregorian` |
| `BootProofs!BootImplementsClock` | `BootSpec => Spec` (of `BootClock`) |
| `BootProofs!BootTypeCorrect` | `BootSpec => []BootTypeOK` |
| `BootProofs!ConfigIsAsWritten` | `BootSpec => []ConfigAsWritten` |
| `BootProofs!SetupFindsATime` | `BootSpec => []NeverHalts` |
| `BootProofs!NetworkTimeIsTrue` | `BootSpec => []NetworkLabelHonest` |
| `BootProofs!ImagesAreKept` | `BootSpec => []OverwritesOnlyOffline` |

They hold for every value of the constants that meets the named assumptions of the
modules, which TLC evaluates in the runs:

- *queue, network, modem*: intervals, holdout, period, daily limit and the length of the table of
  operators are positive naturals, the decimation is a natural, the largest count fits `uint32_t`;
  networks are finitely many; durations of jobs are naturals;
- *upload*: an upload has one part or more; any numbers of faults and of timeouts waited for;
- *image*: the buffer holds a whole number of lines, an image fits the buffer or is whole buffers
  (`BuffersAssumption`: at VGA 4 of 120 lines, at QVGA one of 240), half the buffer holds a
  row of blocks, and is 11 kB or more (`PoolAssumption`; `jpg.c:72` speaks of 10 kB, and the 76,800
  bytes there are far more); the settings the sensor makes are in the ranges of its registers;
- *configuration*: a file is any sequence of tokens the scanner can give (`FilesAssumption`), a
  cypher is one of three, the greatest `int` is any natural; the model starts after the epoch.

`WatchdogIsFed` and `MeanIsOfImage` have hypotheses of their own. With polls of at most P ticks and
captures of at most C, the watchdog is fed where `P + P < NetInterval` and
`TimeInterval + C + P + P < WatchdogTimeout`: the first keeps polls from filling the queue
again and again before the periodic task, the second is the longest wait. The mean is that of
the image where all of its buffers have as many lines, as they have at VGA and QVGA.

*CaptureQueue.* `RetriesBounded` is not inductive: how often the wake handler still
has to retry depends on what may still fill the queue. `IRetries` adds that up: the failed
puts, a full queue before the next put, and each timer that is due are three at
most; a timer that has fired is not due again before a tick, and a tick passes only when
the handlers are idle. `IQueue` says that a worker that waits has an empty queue before it,
and that the queue stays full between a failed put and the get. The refinement then
is a case for each action:
a put is a `Submit` or leaves the queue full, the get of the wake handler stutters
because its own put replaces what it took, or a timer's has filled the place.

*CaptureTiming.* Its steps are steps of `CaptureQueue` or leave it alone, so the invariants above
hold of it. `IJob` bounds what is left of the worker's job. `IDue` has two cases: a capture is not
yet sure to come, and then the time trigger, which has counted down along with the watchdog, still
has to fire; or one is sure, because it is under way, is what the worker takes next, or waits behind
one poll, and that stays so, since a poll that ends before the next is due leaves the place in
the queue to the periodic task.

*NetworkTrigger.* `NoCaptureUnasked` bounds captures by requests, but a capture is
made for the count in the buffer. `ICounts` adds that the buffer is not newer than the
site, that captures are covered by the rise of the remembered count, and that a
count that has become negative stays so.

*ModemShutdown.* The two bounds need to know how old each given and not yet taken
shutdown is. `ICount` relates the semaphore to the periods since: the j-th latest of
`sem` shutdowns is recent (`IRecent`), those beyond `MaxDaily` are old (`IOld`), and the
history is in order.

*ModemRegister.* `ZeroMeansRegistered` is inductive once `IZero` adds that the modem is asked
where it is (`monitor`) only after it was seen registered. The lemmas `TryFromEnds`,
`SearchFromEnds` and `NextAttemptEnds` say that the loops over operators end a call only with
an error, whatever the tables hold and however they are sorted. For `StrongestFirst` these loops
are followed through the table: `IAttempt` says what `index` means in each attempt, `ITable` that a
search leaves the table sorted, `ITried` that all of known signal before the operator being tried
have been tried.

*FtpUpload.* The first three invariants rest on `Ind`: the work queue (`IWork`), the worker's
command (`IWorker`), the client's and the server's ends of the connection (`ISocket`,
`IServer`), parts still to come (`IFresh`), the one listening port (`IConn`), what a transfer
has got by what its data task has sent (`ITransfer`), and the number of PASVs (`IPasvs`).
`UploadCloses` follows from it. `NoForeignData` speaks of a file into which a data task writes
late, when its upload may have gone on. It needs the order of commands on their way
(`IOrder`), that a port still to be read is a later one than any connection is for (`IPorts`),
what the file and the transfer have, where the transfer of a part has not begun (`IFile`), and
that a data task that outlives its upload finds its socket closed (`IOld`). That an upload
which returns 0 is whole (`ZeroIsWhole`) has to hold over timeouts and lost connections too.
One PASV, or its reply, is on its way at a time (`IOnce`), STOR and APPE are answered before
the next transfer (`IStores`), all of a part has come when its data connection has ended
(`ICame`), and the file is the first parts up to where the worker is (`IWhole`).
`ServedIsUploaded` adds that no reply the worker takes for one belongs to another command: as
long as the server is there (`luck = "served"`), commands and replies are in lock step
(`ILock`). The refinement (`UploadsImplementStore`) needs the file at every moment, not only
at the end: that STOR, which empties it, is sent before anything is in it (`IUnstored`), and
that a worker which has given up leaves whole parts, with at most the one at hand still to
come (`IGivenUp`). From these follows that what has arrived is a beginning (`IArrived`). Then
`ArrivedSteps` says that a step adds one half of a buffer or, where the data came before the
server began to take them, both; and `EndSteps` that nothing else is seen of an upload but its
beginning and its end.

*FrameReadout.* That the file is complete is not a matter of the buffer alone: each frame
has to have enough lines of use below `current_line` to fill the buffer once more,
though one line is read again at each seam (finding 2). `IFrame` says which lines of use are
still to come in the frame, `IEnough` that with those held they are as many as remain,
`IRemaining` that what remains is whole buffers or an image smaller than one, `IFirst` that a
first buffer has the lines of the image in their places. Lines are compared in bytes in
the code and in numbers in the invariant; the arithmetic lemmas (`BytesOfLines`, `WholeLines`,
`IndexSteps`) connect the two. `IMeans` bounds the sum kept by the darkest and the brightest buffer
so far, times their number.

*CaptureImage.* Each of its steps is a step of `FrameReadout` or leaves its variables alone
(`ReadingSteps`), so the four theorems above hold of every capture. `IBand` bounds the
deepest row read by the lines of a band, with which a band fits its half of the buffer.
`IJpeg` follows the encoder through the image: the lines of the rows so far are the file's first,
those of the band held the next, unless a read has failed; `IOutput` says that what was emitted
is in the file or in the buffer. For the pool the 28 places of the encoder's set-up are
numbered (`ISteps`), with a bound on what the objects asked for from each place on can take
(`Room`); `IPool` says that the objects alive are apart, below the top, and that the room above it
is enough, whatever the alignment; the header of the scan, used beyond its size, is the last until
it is freed.

*Sensor.* The transfers of `ov7675_init` are put in places in the same way, since which of
them there are depends on the configuration. `SetUp` says, for each place, which bits of which
registers are as configured, and that the loop that could change them is off; between the read
and the write of a masked write (`HalfAt`) the bits being kept may be stale, and the invariant
says which may be. Freezing turns off the loops one by one (`Stopped`); then the sensor
latches what its registers keep saying (`IFrozen`, `IExposed`).

*Dates.* `unix_date` searches for the year, and then for the month, by taking days off. The
lemmas solve the recursive functions that model it: from year y on, the search ends in the year z
where the days taken off are those of the years before z (`YearFound`), likewise `MonthFound`. They
are by the least counterexample (`LeastNumber`), on the days left and on the months left. The
date found is then one that has the `DayNumber` of the instant.

*Boot.* `BootSpec => Spec`: whatever the configuration does, the clock makes only
steps of `BootClock`. The invariant of the clock has five parts. `IType` keeps the clock
within a run of the true time; `IValid` follows the time from the default to the last check;
`ILabel` says that a clock that is not the network's is labelled as such, except between
the setting of it and its own label, and that an answer whose handler is still to be called has
set it; `ILines` that once a line was misdated the clock is the network's from then on, so that
the times taken are true and no second line is, and that a time taken while the network was the
source is true; `IImages` that as long as no
image was named by another clock, all images are older than the clock. An
answer of the network may come at any step, which is why each part speaks of every `pc`.

*Configuration.* `ConfigAsWritten` compares `mcfg`, which the parser fills as it goes, with
the tokens of the file read as a whole. That is inductive for the tokens read so far: `IPlace`
says that the tokens of the entry begun are the last that were accepted, and in the section
named last; `IRead` that each member has the value these tokens give it, or it does not fit
(`Fits`: a number within an `int` and the member's width, a string without a character 0), or
there was no memory for it. The value meant is the one of the text, whatever `atoi`, the
assignment and `strlen` make of it: that they change nothing that fits is a step of the proof.
A token more changes what is meant only of the entry that ends with it (`MeaningOfMore`), and
there is only one (`OneEnds`): the kind of its value tells how long an entry is, no other
token of it is a value or names a section (`EntriesFormed`, checked for each entry of the
grammar), and no two entries of a section have the same tokens (`OneEntry`). Comments and
strange characters are skipped by a recursive function whose steps `KeptSteps` gives, once
more by the least counterexample. `DecryptsPassword` has a case for each cypher and each
failure; that `caesar_decrypt` undoes the host's script is `CaesarUndone`.

Only model-checked:

- everything about liveness under fairness (`MailboxFair`, `RequestAnswered`,
  `Recovers`, `UploadEnds`), which is out of the prover's reach;
- that a data unit decodes to what it was (`BlockDecodes`): the Huffman coding of `JpegEntropy`
  works on sequences of bits whose lengths depend on the data, with recursive operators that the
  provers have no means to reason about;
- what the runs that end in a counterexample show, which is false.

Every other property of a run is a theorem. One theorem is of an invariant no run checks:
`TimedTypeOK`, which `WatchdogIsFed` rests on.

## 5. What the checks found

Each has a run that ends in a counterexample, and an entry under `findings`.

1. `main.c:219`: where no network is found, a network poll takes 450 s and is due
   every 120 s. Each poll replaces the periodic task in the one-place queue, nothing feeds the
   watchdog, and the camera is reset every day.
2. `ov7675.c:395`: `current_line < line` lets the line at a seam be read twice: at VGA
   three lines are repeated, and the last three are missing.
3. `main.c:458`: `sdhc_load_last_status_time` succeeds with 6, and `setup()` takes only
   0 for success: the clock starts at 2020 although the card has a later time.
4. `ftp_client.c:393`: the keepalive's `recv` may take the 226 the upload waits
   for; the upload then times out although the server has the file.

Observations without a run of their own:

- `main.c:126`: the decimation counts submitted tasks, dropped ones included, while
  `config.txt` speaks of captured photos: uploads may be further apart. This is the
  hypothesis of `DecimationUnlessDropped`.
- `main.c:463`: the network may answer between the check for a valid time and the
  setting of the default, which then replaces the network's time. `NetworkLabelHonest`
  holds all the same, because the label of the default comes after it. But the library sets its
  clock before it calls the handler (`main.c:396`): where `setup()` sets the clock and its label
  between the two, NETWORK_TIME is said of 2020 until the next answer. `NetworkLabelHonest`
  excepts these boots (`undone`).
- `main.c:261` and `util.c:82`: a status line has the time taken when the capture began and the
  source when the line is formatted, tens of seconds later. The network's first answer in between
  gives a line of 2020 that says NETWORK_TIME. `NetworkLabelHonest` says that this is one line of
  a boot at most, and that the time is true wherever the source was the network when the
  capture began.
- `ftp_client.c:354-370`: `poll_data_task_done` counts only timeouts. A server that sends
  anything but a 226 within each 10 s keeps the worker in that loop, and then the
  watchdog resets the camera. `UploadEnds` says that no upload goes on for ever but with such a
  server; with one the model has an upload without an end.
- `modem.c:345-352`: a modem that is registered already makes `modem_network_register`
  return 1, the matches of a scanf, and so do the attempts at the configured and at any
  network; `setup()` waits for the network's time only at 0 (`ZeroMeansRegistered`
  is one-sided for this reason).
- `ftp_client.c:622-637`: when QUIT cannot be sent `ftp_close` returns without closing;
  the client stays connected, the next `ftp_open` is refused, and a data task that still
  runs may send from the next capture. `NoForeignData` and `ClosedAfterUpload` except it
  (`left`).
- `ftp.c:81-125`: a refusal (500) is not below 0 and so no error to `ftp_write_image`; nor is
  an error in reading the file, and an error of `data_task` in sending reaches nobody. Such
  an upload ends with 0 and with parts missing. `ZeroMeansUploaded` shows that these are the only
  ways (`luck = "lost"`).
- `main.c:421`: `yyparse` returns 1 for a file with an error, and `setup()` stops below 0 only:
  the camera runs with the configuration up to the error, and zeros for the rest, while
  `config.txt:5` has it that "an incorrect configuration will cause the program to lock up".
  `ConfigAsWritten` says what such a configuration is.
- `config.txt:3-4`: the order of the lines is said to be important and not to be changed. The
  grammar takes the sections, and the lines of each, in any order (`config.y:108-184`), and
  `ConfigAsWritten` is about any.
- `sd.c:215`: an error of `fs_read` is kept in a `size_t`, which is never below 0, and becomes
  a size the scanner cannot allocate.
- `sd.c:237`: with a cypher and no password, `decrypt_password` reads at the address 0, and with
  CAESAR writes there.
- `config.txt:32`: exposures are said to go to 65537; `exposure` has 16 bits, and 65536 and
  65537 become 0 and 1 without an error. `ConfigAsWritten` is about numbers that fit.
- `config.l:96`: `atoi` of a number from 2^31 on gives 2^31 - 1 with newlib (the language leaves it
  undefined), so the upper half of a `uint32_t` cannot be written.
- `config.y:195`: a character 0 in a string ends it for `strlen`, and the two characters taken away
  are then no quotes: the string loses one more character, or has the length -1.
- `common.h:311`: QQVGA is a word of the configuration, and has no BMP header.
- `jpg.c:25`: `tje_write` drops the result of `fs_write`; on a full card the JPEG is cut short.
- `tjpg.h:1154`: a band that cannot be read makes the count of buffered lines wrap; the encoder
  publishes the lines of the band before again, and the JPEG is as long as a good one.
  `RowsInBand` holds all the same; `JpegFileExact` is about the others.
- `main.c:362`: from 2^31 on the count of the site is negative, every poll is the first,
  and no request is answered.

## 6. What is not modelled

- *The transform of the encoder* (`tjpg.h`): floating-point DCT, quantization and conversion of
  colours. Its result, quantized coefficients, is the input of `JpegEntropy`. Headers are
  bytes of their length.
- *Scanner tables and parser tables*, which are generated. Integers of the configuration have
  no bound but the greatest `int`, which is a constant; TLC's run has it at 2^30 - 1.
- *Older files of the same name*: `jpg.c:45` does not truncate, so a shorter JPEG written over
  a longer one (two captures of one second) keeps the end of it; `written` counts what is
  written. A path too long for its buffer (`jpg.c:36-39`), which ends the encoding before it
  begins.
- *Errors of the SCCB bus*: `ov7675.c:46-61` drops them, and a failed read writes an uninitialised
  value back; the properties of the sensor are about transfers that succeed.
- *The SRAM branch of* `ftp_write_image` (`ftp.c:104-113`): `capture_f` uploads from the card only.
- *The flash, the power lines and the time of a frame*: nothing a property is about depends on
  them. Registers of the sensor that no setting depends on.
- *A full card*: the card takes what it is given, but loses power at any time.
- *The installation of the watchdog* (`watchdog.c`): done once at boot.
- *Formatting* of status lines and file names, except that a name is its second.
- *Client functions nothing calls* (`ftp_list`, `ftp_get`, `ftp_rename`, ...),
  `ov7675_capture`, `http_endpoint_init_ip`, and `sram.c`, which is not in the build.
- *Reset reasons, tests, boards, host scripts*: no state of the program.
- In `FtpUpload`: TLS; `ftp_mkdirs` makes one directory; a status has a file of its
  own rather than a line appended to one; the server takes the data connection before
  it says 150. In `ModemRegister`: PSM and the signal strength of the status line. In
  `NetworkTrigger`: the text of the response.

## 7. Plan

In this order, the most important behaviour first; all but 9 are done.

1. The capture queue as a mailbox, with its proofs; its timing and the watchdog.
2. Network trigger and shutdown counter, with their proofs.
3. Readout, clock and card, with their proofs.
4. Registration and upload.
5. A capture from the sensor's registers to the JPEG, at the sizes of the code; the
   encoder's bands, memory, entropy coding and output; dates.
6. The configuration, and boots that read it over power losses.
7. An abstract specification of the upload (a file is the beginning of what is uploaded)
   that `FtpUpload` implements, and the proof of it.
8. Proofs of all invariants but `BlockDecodes`, each checked by TLC first.
9. What is left: a decoder in a form that can be proved about, by an invariant of the encoder's
   output as it grows, which would make `BlockDecodes` a theorem too.
