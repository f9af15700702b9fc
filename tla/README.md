# TLA+ models of JMPXRDS

JMPXRDS is an FM multiplex generator: it takes stereo audio from JACK, builds
the MPX signal with an RDS subcarrier, and sends it to a socket and to an RTP
server. This directory models the parts of it in which several threads, or
several processes, share state, the life of a process from its start to each of
its ends, and the RDS logic that decides what is sent when and how it is coded.
The code is in `../src`.

## The system

| Part | State | Operations | Interacts with |
|---|---|---|---|
| Main program (`main.c`) | `active`, the signal handlers | main loop, termination signals, SIGUSR1/2 | modulator, RTP server |
| FM modulator (`fmmod.c`) | `active`, four mutexes, the trigger, the buffers, the control segment | initialise, JACK's process and shutdown callbacks, processing thread, destroy | all others |
| RDS encoder (`rds_encoder.c`) | `status`, two output buffers, trigger, shared state | initialise, next sample, main loop, destroy | modulator, tools |
| RDS scheduler (`rds_get_next_group`) | counters of the second, the minute and PTYN | one group per call | setters |
| RDS configuration (`rds_config.c`) | the fields and `*_set` flags in shared memory | getters and setters | encoder, tools, GUI |
| Dynamic PS / RT (`rds_dynpsrt.c`) | the text and its segments | consumer, file monitor, initialise, destroy | setters, inotify |
| RTP server (`rtp_server.c`) | `state`, the GStreamer pipeline, the receivers | initialise, send, callbacks, add/remove receiver, destroy | modulator, signals |
| Resampler (`resampler.c`) | soxr handles; a worker thread in the multi-threaded build | upsample, downsample | modulator, encoder |
| Shared memory (`utils.c`) | three named segments | create, attach, destroy, unlink all | all processes |
| Oscillator, filters | floating point state | sample by sample | modulator |
| Tools (`fmmod_tool.c`, `rds_tool.c`, `rtp_tool.c`) | none of their own, but for dynamic text | write shared memory, send signals | shared memory, main program |
| GUI (`gui/`) | what its widgets show | poll and write shared memory, plot what comes from the fifo, dynamic text | shared memory, fifo, main program |
| RTP client, GNU Radio receiver | pipelines | receive | network |

What makes it hard: four threads around one `struct fmmod_instance`, condition
variables that are signalled without their mutex, a double buffer without a
lock, `fmmod_destroy` called from `main` and from a JACK callback, cleanups
that run in two threads, failures half-way through an initialisation, names that
outlive their process, and shared memory written by other processes at any time,
without a lock, among them a GUI whose polling writes back.

## Modules

| Module | Models | Proofs |
|---|---|---|
| `Fmmod` | processing and shutdown of `fmmod.c`, main loop and signals of `main.c` | `FmmodProofs` |
| `RdsScheduler` | `rds_get_next_group`, the PS segment counter, the setters' effect on them | `RdsEncoderProofs` |
| `RdsEncoder` | `rds_get_next_sample`, `rds_main_loop`, `rds_encoder_init`, `rds_encoder_destroy` | `RdsEncoderProofs` |
| `RadioText` | `rds_set_rt` against `rds_generate_group_2` and a receiver | `RdsEncoderProofs` |
| `RtpServer` | `rtp_server_init`, the main loop, GStreamer's callbacks, `rtp_server_send_buffer`, `rtp_server_destroy` | `RtpReceiversProofs` |
| `RtpReceivers` (`MCRtpReceivers`) | adding and removing receivers, the statistics | `RtpReceiversProofs` |
| `Lifecycle` (`MCLifecycle`) | `fmmod_initialize` and every failure of it, `fmmod_destroy`, `main.c`'s signals, the segments of `utils.c`, several processes | `LifecycleProofs` |
| `DynText` (`MCDynText`), `Ticker` | `rds_dynpsrt.c` with its users `rds_tool.c` and the GUI's file chooser; `Ticker` is the abstract specification it implements | `DynTextProofs` |
| `RdsGroups` (`MCRdsGroups`) | the setters of `rds_config.c`, the contents and the coding of all groups, against a receiver | `RdsGroupsProofs` |
| `RdsBlocks` | `rds_generate_block`: offset words, generator matrix, checkword; division by the polynomial | `RdsCodingProofs` |
| `RdsClock` | the day number and the local hour of `rds_generate_group_4`; the Gregorian calendar | `RdsCodingProofs` |
| `ControlPanel` | the GUI's widgets, the tools, the fifo and its plotter | `ControlPanelProofs` |

The modules are composed by their interfaces: `Fmmod` takes the encoder and the
RTP server as resources that are used while the processing thread is in
`fmmod_process` and released in order by `fmmod_destroy`. That the processing
thread is out of `fmmod_process` by then (`NoUseAfterRelease`, proved) is the
guard of `CallDestroy` in `RdsEncoder`. `RdsEncoder` does not look into a group;
`RdsScheduler` is what one generation of a group does, and `RadioText` what its 2A
branch sends. `NoUseAfterRelease` is also why `CallDestroy` of `RtpServer` finds no
push under way. `RtpReceivers` assumes the server is up; `RtpServer` leaves the
receivers out. `Lifecycle` has all parts of a process, each as what it acquires and
releases, and the processes beside it; what happens inside `fmmod_destroy` between
threads that use a part is `Fmmod`'s. `ControlPanel` composes the GUI, a tool, the
daemon with its restarts, and `write_to_sock`; a daemon's start and end there are
those of `Lifecycle`, a signal's effect that of `RtpReceivers`.

A proof module extends all modules it is about. `RdsScheduler`, `RadioText` and `RtpServer`
share one with another module and have names of their own for the usual definitions:
`SchedulerSpec`, `RtSpec`, `ServerSpec`, and so on.

### Fmmod

One variable per thread says where it is (`cb`, `proc`, `main`, and `teardown`
for the two possible callers of `fmmod_destroy`); `owner` is the four mutexes;
a buffer holds the number of the period it was computed from, or `Torn` while
the callback writes it. Each lock or trylock starts a new action, so that every
interleaving at a lock, at a condition variable and at a read of `active` is
there. The actions follow the code: `CbSkip`, `CbBegin`, `CbFill`, `CbTrigger`
are `fmmod_process_cb`; `ProcLoop` to `ProcWake` are `fmmod_process_loop`;
`ProcSkip` to `ProcSend` are `fmmod_process` with its error paths;
`Deactivate`, `ClearActive`, `Flush`, `Release` are `fmmod_destroy`.

Assumed of the libraries: JACK calls the shutdown callback on the thread of the
process callback; `jack_deactivate` returns after a running process callback;
`pthread_cond_destroy` blocks while there is a waiter (glibc; POSIX leaves it
undefined); `pthread_cond_wait` may return without a signal.

### RdsScheduler

`sec`, `min` and `ptyn_cnt` are the static counters; `flags` are the `*_set`
fields. `basics`, `ptyns`, `rts`, `segs`, `held` and `sinceCT` are history: what
was sent in the current cycle and since the last 4A, and which flags were set
throughout the cycle. A cycle is what the code calls a second. Each branch of
the function is an action. The recursive call is part of `Restart`: it always
lands in the branch for the first four slots, and both calls increment the
counters.

### RdsEncoder

`at` says where the consumer, the generator and the destroying thread are.
Failing steps of `rds_encoder_init`, failing groups, spurious wakeups and the
`enabled` switch in shared memory are all there. The samples themselves are
left out. `rds_process_mutex` is taken by one thread only and orders nothing.

### RadioText

A text is a name and a length; a segment of `rt` stands for four characters and is
the text it came from. `rds_set_rt` runs in another process without a lock, so each
store into shared memory is a step of its own (`SetBegin`, `SetClear`, one `SetCopy`
per segment, `SetSegments`, `SetArm`; `Remove` and `Wipe` for an empty text).
`rt_set` and `rt_idx` share a byte, which the encoder loads and stores as a whole
(`IncLoad`, `IncStore`, `Wrap`, `WrapStore`): a setter in between is undone, which
the model allows and the properties name as `raced`. `RdsScheduler` takes the
setters' writes of flags as atomic. The receiver is external: it clears its buffer
when the A/B flag changes and misses any group. The filter of control characters
(`rds_config.c:310-314`) is left out: characters are not told apart.

### RtpServer

Thread `d` runs `rtp_server_init` and `fmmod_destroy`, thread `l` the main loop with the
error callback in it, `place` says where they are, `rtpsrv_state` is `rtpsrv->state`;
`send` is the processing thread in `rtp_server_send_buffer`. Each statement of
`rtp_server_destroy` that another thread can see is a step. `live` is what exists and
`made` what a pointer was set to, since pointers are not reset. External, as used:
`g_main_loop_run` marks a loop as running also after a quit; the appsrc calls back at
any time while the pipeline plays; the bus delivers errors on the main loop. `slipped`
and `revived` record the two ways past the switch at the top of `rtp_server_destroy`.

### RtpReceivers

A call is a signal handler in the middle of `rtp_server_add_receiver` or
`rtp_server_remove_receiver`; each emission and each look at the property "clients"
is a step. `Within` says which address occurs in which as a string, because `strstr`
does the comparison. `Publish` keeps to the room in `ctl->receivers` and, as the sinks
are sets here, not to the order in which clients are listed. `mishaps` are the named
conditions under which a call does not do its work. Transmission rates are left out.

### Lifecycle

`at` is where the main thread of a process is, in the order of `fmmod_initialize`
(`InitAfter`) and `fmmod_destroy` (`DestroyAfter`); `jk` is where JACK's callback is
in its own `fmmod_destroy`. `held` is what was acquired; a release whose pointer stays
leaves the resource in `dangling`, and a second one puts it into `twice`. `owner` says
whose segment a name stands for. Each failing step is an action that says what the
step cleans up itself before `fmmod_destroy` follows. `left` tells how the creator of
a segment that still has its name ended: `"orderly"` through `fmmod_destroy` or the
handlers, `"abrupt"` by a kill, a signal before the handlers, a thread that cannot be
created (`fmmod.c:1033` returns past the cleanup), a mapping without memory
(`utils.c:56`), or an exit while JACK's callback is at work. External, as used: JACK
gives a name to one client only, and drops a client at any time after its activation.

### DynText and Ticker

`cons` and `fm` are the consumer and the file monitor, `at` is the user's thread, which
also runs destroy. A text is a sequence of segments, eight characters of PS or a line
of RT; what `rds_string_sanitize` does within a line is left out, but for a line that
it leaves without characters (`Unset`). `queue` is inotify's: equal events are merged
and one `read` takes all, of which the code looks at the first. `out` is the field as
this user left it, `over` what another process put there. `Dies` is any end of the
user without destroy. Time is left out: `rds_dynpsrt_cond_sleep` ends after the delay
whatever is signalled. (RT waits `DYNPS_DELAY_SECS` too, `rds_dynpsrt.c:309`;
`DYNRT_DELAY_SECS` of `rds_encoder.h:263` is not used.)

`Ticker` is what dynamic text promises: the entries of a cycle one after the other, for
ever, a new text at any time, the fixed text when there is nothing to show or the
display is off. The refinement mapping appends the fixed text to PS's cycle, not to
RT's, and computes the position from `remaining_len` or `curr_segment`.

### RdsGroups

`st` is `struct rds_encoder_state`; the infowords, checkwords and the 104 bits of a
group are computed as in the code, with the widths of the fields. Setters get arguments
wider than their fields. The receiver is external and written from the standard:
difference decoding, division by the generator polynomial, groups recognised by block
2. Groups come in any order here, `RdsScheduler` has the order; the steps within
`rds_set_rt` are in `RadioText`. The clock is a parameter.

`RdsGroups` extends `RdsBlocks`, the coding of a block, and `RdsClock`, the formula for the
day, in which 365.25 and 30.6001 are products of integers. `RdsClock` also has what the
formula is compared with: `DayNumber` counts the years, leap days, months and days of the
Gregorian calendar.

### ControlPanel

A behaviour is about one control, chosen in `Init`: a scale, a switch, the radio
buttons, a combo box, a check box, a completion for ECC or LIC, a text, the list of
receivers. `mem` is its value in the segment of each generation of the daemon, `gui`
what the panel has attached and shows, `todo` the accesses of the running handler to
the segment, one step each, so that a tool gets in between. GTK emits a widget's signal
when polling changes it, as it does for the user: the handlers write what was polled.
The plotter runs on the same main loop: while it is in `fopen` or `fread`, nothing else
of the panel runs. `wish` is the value last asked for and `raced` records that another
process wrote while a handler ran. The values stand for themselves: percents, bits of
DI, codes, with the conversions of `rds_codes.c` (8 of LIC's 12 bits, index -1 for an
ECC without a country).

## Runs

| Run | Configuration | Result |
|---|---|---|
| `fmmod` | `Fmmod.cfg` | `NoUseAfterRelease`, `NoTornPeriod`, `LocksReturned`, `TeardownOnce`, `TriggerIsHeard`, `LastRun` hold |
| `scheduler` | `RdsScheduler.cfg` | `EveryCycle`, `ClockTimeRate` hold |
| `encoder` | `RdsEncoder.cfg` | `OrderedCleanup`, `ReadInBounds`, `GroupOnDemand`, `GameOver` hold |
| `encoder_unstuck` | `RdsEncoderUnStuck.cfg` | `UnStuck` is violated |
| `radiotext` | `RadioText.cfg` | `TextInOrder`, `FlushedText`, `OnlyText`, `TextShown` hold |
| `radiotext_full` | `RadioTextFull.cfg` | `FullMessage` is violated |
| `rtp` | `RtpServer.cfg` | `ReleasedOnce`, `SendSafe`, `InitFailureClean`, `StopLoop`, `GameOver` hold |
| `receivers` | `RtpReceivers.cfg` | `AddVerified`, `SinksAgree`, `Published` hold |
| `lifecycle` | `Lifecycle.cfg` | `SegmentsRemoved`, `ReleasedExactly`, `OwnNames`, `SecondInstance` hold |
| `dyntext` | `DynText.cfg` | `FixedShown`, `DestroyReturns`, `FileSeen`, and `TickerSpec`, the refinement, hold |
| `groups` | `RdsGroups.cfg` | `BlocksDecode`, `BasicComplete`, `FieldsDecode`, `PtynPure`, `ClockDecodes` hold |
| `panel` | `ControlPanel.cfg` | `NotReverted`, `Converges`, `PlotReturns` hold |

What the newer runs show:

* `lifecycle`: a process that ends in order leaves no name behind (`SegmentsRemoved`);
  whichever step of `fmmod_initialize` fails, everything is released, and twice only
  pieces of that step, or after a signal that met JACK's shutdown (`ReleasedExactly`); the tools never attach to the segment of
  another process than the one that serves (`OwnNames`), and one that is started beside
  it and fails leaves its names alone (`SecondInstance`).
* `dyntext`: the station's text is in the field once a user is done, and while a file for
  RT has no lines (`FixedShown`); destroy returns although nothing wakes the threads
  (`DestroyReturns`); the last change of the file is loaded although events are merged
  and dropped (`FileSeen`); all segments are shown in turn (`TickerSpec`).
* `groups`: matrix and polynomial agree (`BlocksDecode`); any four basic groups carry PS
  and DI (`BasicComplete`); fields do not overlap (`FieldsDecode`); no PTYN of two
  halves (`PtynPure`); day, hour, minute and offset (`ClockDecodes`).
* `panel`: polling does not undo what was asked for (`NotReverted`), the panel comes to
  show what is in the segment (`Converges`), and its main loop gets out of the plotter
  (`PlotReturns`).

Deadlock is not checked in the runs of `Fmmod`, `RdsEncoder` and `RtpServer`,
where the threads may end, and of `ControlPanel`, where a panel and a daemon may be
gone for good.

### What the violated properties show

* `UnStuck`: "Trigger main loop so that it gets un-stuck and can properly exit"
  (`rds_encoder.c:848`). The signal is lost on a generator that is about to
  wait, and `pthread_join` does not return.
* `FullMessage`: "we need 16 groups to transmit the full 64 char message"
  (`rds_encoder.h:258`). 16 does not fit into `rt_segments:4`; it becomes 0 and only
  the first four characters are ever sent.

### Where the properties that hold stop

Several properties name the case they exclude. TLC finds each of these cases:

* `LastRun`: a processing thread between its test of `active` (`fmmod.c:452`) and
  `pthread_cond_wait` misses the only trigger of `fmmod_destroy` and waits forever.
* `TeardownOnce`: a termination signal that meets JACK's shutdown lets both threads
  release everything.
* `OrderedCleanup`: after a failed group nothing orders the generator's
  cleanup behind the consumer or apart from `fmmod_destroy`.
* `RdsEncoder` has a step `crashed`: the status changes between the two tests of the
  generator, and `rds_main_loop` reads through the `NULL` it gets.
* `FlushedText`: a text that is set after the old one was removed does not flip the
  flag, and what it does not overwrite of the old text stays on the receiver.
* `TextInOrder`, `OnlyText`: a 2A group that overlaps with `rds_set_rt` can undo its
  `rt_set` or `rt_idx`.
* `StopLoop`: the quit is lost on a thread that has not entered the loop yet.
* `GameOver` of `RtpServer`: a callback of the appsrc replaces `FAILED` before
  `rtp_server_destroy` reads it, and nobody is signalled.
* `SinksAgree`: the removal of a half-added receiver is refused while the queue is full;
  calls for the same address overlap.
* `ReleasedOnce`: the state is tested up to three seconds before `TERMINATED` is set, two
  threads pass the test, and `gst_deinit` is called twice, against the comment at
  `rtp_server.c:423`.
* `AddVerified`: "Add to rtpsink and verify" (`rtp_server.c:283`) takes an address for
  present that is a substring of another one's; it is then not added, and 0 is returned.
* `EveryCycle` bounds PTYN from below. "Send 2 10A groups for PTYN" (`rds_encoder.c:602`)
  are three without ECC and LIC, since `ptyn_cnt` is reset in the call in which it
  reaches 2.
* `ReadInBounds` says nothing of which waveform is read: "Only mess with the unused
  output buffer" (`rds_encoder.c:644`) holds until the consumer, which switches whenever
  it has used one up, switches during the generator's work.
* `SegmentsRemoved`: the abrupt ends listed under `Lifecycle`; the next start then fails
  in `O_EXCL`.
* `OwnNames`: a tool that cannot map a segment removes its name (`utils.c:110`), and the
  name then stands for none. Nothing is said of the fifo, which the failing start of a
  second process removes (`fmmod.c:904`).
* `ReleasedExactly`: a client and a port, the buffers, the resamplers or the filters are
  released by the step that failed and again by `fmmod_destroy`.
* `FixedShown`: a user that takes over a field in which another one left a segment, or
  was killed, keeps that as the fixed text; so may the GUI, whose `gtk_main_quit` as the
  handler of `delete-event` leaves open whether its widgets are destroyed.
* `DestroyReturns`: the file was deleted and the end of its watch was read behind a
  modification: the monitor waits in `read` and destroy in `pthread_join`. A signal
  between the tool's handlers and `active = 1` (`rds_tool.c:317`) is lost; the property
  is about a destroy that has begun.
* `TickerSpec`: a PS file that becomes empty leaves its last segment in the field, a line
  of RT without characters removes RT.
* `PtynPure`: a PTYN that is set after a removal, or the second of two between groups, is
  sent under the flag the receiver has seen.
* `ClockDecodes`: minutes from 32 on lose a bit, half hours of a zone are dropped, and the
  offset is wrong while the two clocks show different days.
* `NotReverted`: a tool that writes while a handler runs is undone; a gain beyond the end
  of the scale is brought back to it.
* `Converges`: what polling cannot see, listed at `InStep`; Set stores the completion
  selected last, whatever the entry shows (`jmrg_set_button.c:44`); a panel attached to
  the segment of a daemon that is gone stays with it.
* `PlotReturns`: a plotter in `fopen` when the daemon goes waits for the next one, or for
  ever if the fifo was removed, and the panel with it.

### Bounds

* `MaxPeriods` (2): periods from that number on are not told apart. Two distinct periods
  are enough for a torn or an outdated buffer; the proofs cover every bound.
* `GroupsPerMin` (20 instead of 720): a minute of at least
  two cycles, so that 4A falls into every slot of a cycle. The proofs cover
  every value.
* `WaveLen` (3, and 2 for `UnStuck`): a waveform with a first, a
  middle and a last sample. The proofs cover every value.
* `Names` and `Lens` (one name; 3 and 9): texts of one segment and of three (a first, a
  middle and a last one), told apart by their length, each as the old and as the new
  text; 64 in `radiotext_full`, where `rt_segments` wraps. The proofs cover every set of
  names and lengths.
* `Addrs`, `Calls`, `RTP_SRV_MAX_RECEIVERS` (3, 2 and 2): an address within another
  and one apart, two calls that overlap, one address more than there is room for. Calls
  are symmetric. The proofs cover every value.
* `Procs` (2, symmetric): one that serves and one that starts beside it or after it. The
  proofs cover any number.
* `Texts` (an empty file, two segments, and an empty line of RT): replaced by
  each other at any time and any number of times. The proofs cover all texts.
* `MaxSets` (2 calls of setters in a behaviour): what a group carries depends on the last
  value of each field, and PTYN's flag on the last two. Any number of groups. `ClockSets`
  (0): 4A groups come before the first setter, since they carry none of the fields but the
  header that all groups have. The proofs cover every value of both. The values
  are at the edges of the fields and beyond; the times are the ends of months around leap
  years (1999, 2000, 2024, and 2100 up to February, where the formula ends) and the edges of hours, minutes and zones.
* `MaxActs` (3), `MaxGens` (2): a click, a tool's write and a third action to undo, a
  daemon and its restart. Any number of polls and redraws. The proof covers every value.
* `PeriodUnits`, `PipeUnits` (2 and 3): a pipe with room for one period and not for two.
* `RtpServer` has no constants; TLC's search is exhaustive.

### Fairness

Weak fairness of each thread: the operating system keeps running every thread
that is not blocked. JACK keeps delivering periods to an activated client and
the consumer keeps asking for samples, which is what a running JACK server does.
No fairness is assumed for signals, for JACK dropping the client, for calls of
destroy, for the switch in shared memory and for spurious wakeups. A thread in
`pthread_cond_destroy` with a waiter left is blocked, not delayed. In `RadioText`,
the encoder keeps sending 2A groups (`EveryCycle`), a call of `rds_set_rt` returns, and the receiver does not miss the
same segment for ever (strong fairness of its reception: an assumption on the radio
channel). In `RtpServer`, nothing is assumed of GStreamer's callbacks. In `DynText`, the
consumer, the monitor, destroy and the tool's thread go on when they can; nothing is
assumed of signals, of the file and of other processes. In `ControlPanel`, handlers,
reads and a tool that has started go on, the daemon keeps writing periods and handles its
signals; the timers of GTK's main loop all get their turn, although each is disabled
again and again while another callback runs (strong fairness of `Polled`). Nothing is
assumed of users and of the daemon's starts.

## Proofs

`tlapm` checks every theorem for all values of the constants, under the stated
assumptions on them (natural numbers, positive but for the number of receivers; lengths
of texts up to 64; `Within` a relation on `Addrs`; `Nobody` not a process; an empty text
among `Texts`; the nine kinds of controls; arguments of the setters of the widths their
C types have, texts of infowords, RT with one to sixteen segments; times from 1970 to
February 2100, after which Annex G's formula is off by one, with zones from -12 to +14
hours).

Eight liveness theorems have the form `FairSpec /\ []CanMove => P`. The provers treat
`ENABLED` as an unknown, so that weak fairness alone tells them nothing. `CanMove`
(`RtCanMove` in `RadioText`), next to each specification, supplies what is missing: where
a thread does not wait for a mutex, a signal, an event or another thread, written out as a
condition on the state, its fair action is enabled. It is there to
exclude no behaviour, and TLC confirms that it excludes none on the instances of the runs
(add `INVARIANT CanMove` to the `.cfg`). All the rest of such a proof is an argument
about steps: where a thread can be, which steps of others leave it there, where its
own step takes it, and that it does not wait there.

* `FmmodProofs`: the inductive invariant ties the owner of every mutex to where
  the threads are, says that only the callback tears the input buffer, that
  nothing is released before `active` was cleared and `proc_mutex` was taken
  afterwards, and counts the releases of each caller of `fmmod_destroy`. That
  is why an unjoined processing thread is safe: after `Flush` it cannot get
  past its test of `active`. Theorems `TypeCorrect`, `ReleaseSafety`,
  `PeriodIntegrity`, `LockDiscipline`, `SingleTeardown`.
  Liveness: once `active` is cleared, the processing thread goes from any place to the end
  of `fmmod_process` and out of its loop (`LoopEnds`), and one that waits is woken by the
  trigger under `proc_mutex` (`LastRunHappens`). While `active` is set, JACK stops calling
  only on the way to clearing it (`ClientInv`), so the callback comes back to its trigger
  (`TriggerHeard`).
* `RdsEncoderProofs`, in three parts. Of `RdsEncoder`: `PhaseInv` relates the generator's
  place to the status and to how far `rds_encoder_destroy` can be; as long as no group
  fails, the generator's own cleanup lies between the signal and the end of the join.
  Theorems `TypeCorrect`, `BoundedRead`, `CleanupSafety`. Liveness: unless
  `fmmod_destroy` interferes, a generator that failed is on its way from the head of its
  loop through its own `rds_encoder_destroy` (`FailInv`), where nothing waits before the
  signal is raised (`FailureIsTold`).
  Of `RdsScheduler`: the invariant says how the slots of a cycle are filled so far
  (`CycleInv`), which segments went out (`SegInv`), what a field that was set throughout
  has had (`HeldInv`), and that a restart, which counts twice, happens at most once in
  four groups (`CountInv`). Theorems `SchedulerTypes`, `CycleContents`,
  `ClockTimeInterval`.
  Of `RadioText`: `BufferInv` says what `rt` and `rt_segments` hold at each step of
  `rds_set_rt`, `OrderInv` how the index and the encoder's copy of its byte follow the
  groups sent, and that these are on the receiver, `QuietInv` that the encoder is idle
  while such a call runs, `FlushInv` that a receiver with the new flag has seen nothing
  but the new text. Theorems `RadioTextTypes`, `InOrder`, `Flushed`, `NoStraySegment`.
  Liveness: while a text stays, the encoder moves from each segment to its successor
  (`Rotation`), so it comes back to the first one (`FirstRecurs`) and, segment by segment, to
  every one of the at most sixteen (`AllRecur`). Strong fairness of the reception makes each
  of them arrive (`Arrival`), and none of them is lost again (`FinallyShown`).
* `RtpReceiversProofs`: a call that is not overlapped is alone (`Alone`), the sinks
  differ by its address at most (`AgreeBut`), and `AddInv` and `RemoveInv` say how at
  each step. The delicate case is an address that one sink lists only as a substring.
  `AddedInv` follows what a call has verified (`Verified`) up to its return. Theorems
  `TypeCorrect`, `SinksPaired`, `PublishedAtReturn`, `AddedIsListed`.
  A second part is about `RtpServer`, which has no constants: the proof says why, where
  TLC's search says that. `OnceInv`: unless the switch is passed twice, one thread at a
  time is in `rtp_server_destroy`, and `TERMINATED` with its place tells what is released.
  `SendInv`: until an error nobody has touched what `rtp_server_init` left. `FailedInv`:
  without a thread for the main loop, `rtp_server_init` itself has cleaned up. Theorems
  `ReleasedAtMostOnce`, `PushSafety`, `CleanFailure`. Liveness: `LoopInv` and `GameInv` say
  where the main loop's thread can be once the loop was quit, and after an error; from each
  such place it takes its next step in `rtp_server_destroy`, which never waits, or leaves
  the loop (`LoopStops`, `FailureIsSignalled`).
* `LifecycleProofs`: `SegmentsRemoved` is not inductive: why should a process own no name
  when it ends? `Local` ties the place of the main thread and of JACK's callback to what
  is held (past `d_ctl` the control segment is not, and so on), `Dangles` says that only
  the control segment's pointer can stay behind a release, `Exclusive` that two
  processes do not both have the name of a JACK client that is alive, and `Owned` that
  whose segment a name stands for still holds it, or has ended. For `ReleasedExactly`,
  `Phase` ties the handlers and the signal to the main thread's place, and `Books` keeps
  the account: what is still held is still to be freed by whoever is in `fmmod_destroy`,
  and nothing to be freed is dangling, but for pieces of the failed step. Theorems
  `TypeCorrect`, `Removed`, `Own`, `Second`, `Released`.
* `RdsCodingProofs`: the lemmas about blocks and times, for every word and every time. The
  check bits are sums of rows of the matrix, and each row is the remainder of a power of x;
  so bit by bit (`Column`) the checkword is the remainder of the infoword. `WillRemain` says
  what the bits of a block that are still to come make of the receiver's remainder; it
  holds at the start of a block, each step of the division keeps it, and at the end it says
  that the offset word remains (`RemainStart`, `RemainStep`, `RemainEnd`). For the clock,
  `Days`: Annex G's formula is the calendar's day number. In the years it is meant for, every
  fourth one is a leap year (`FourthYears`), and 30.6001 days a month, counted from March,
  make the starts of the months (`Months`). `DayOfWords` and `TimeOfWords` take a 4A group
  apart.
* `RdsGroupsProofs`: a field is at all times in `st`, in the words of the group on the line,
  and, when the receiver has had it, there. `IInv` has a conjunct for each: `HeadInv` and
  `RtInv` for the widths in `st`; `FreshInv` for where the words have each field, as long as
  no setter came after the group; `LineInv` for which bits are through, and that the
  receiver's register has them in spite of the differential coding; `LabelInv`, `BasicInv`
  and `PtynInv` for what the receiver has stored. `BasicInv` counts back from the PS counter,
  which a group on its way has moved on already. Upon these, `CheckInv` follows the
  remainder with `WillRemain`, and `ClockInv` says that the words of a 4A group are those of
  its time. Theorems
  `FieldsReceived`, `BasicReceived`, `PtynReceived`, `BlocksReceived`, `ClockReceived`.
* `DynTextProofs`: `Joined` says that a thread that was joined is at its end, `Untouched`
  that without interference the fixed text is the station's, `Cursor` bounds the position
  by the text. Theorems `TypeCorrect`, `Restored`, and `Refinement`: every step is a step of
  `Ticker` or leaves its variables alone. Liveness: `StopInv` says that
  destroy has cleared `active` before it waits for the consumer, and removed the watch
  and closed the descriptor before it waits for the monitor; so the consumer ends after
  its current segment, and the monitor, unless it is `Deserted` in its read, with the next
  event (`JoinsBoth`). `WatchInv` says that as long as there is a watch, the file and the
  monitor are there and all that can be queued is one modification, which the monitor
  answers by loading the file (`ChangeIsLoaded`).
* `ControlPanelProofs`: between polls the panel is in the middle of a handler, so the
  invariant (`Kept`) looks ahead: what is left of the handler ends with the value asked
  for (`Ends`). For a box of DI, which reads before it writes, that means that its bit is
  as shown and the others are as asked for. Segments later than the panel's own are as
  the tools left them, which is what a panel finds that is started after a restart of
  the daemon. Theorem `Unreverted`, for any number of actions and restarts.

Where a module has a type invariant, it is proved and not repeated in the runs.

Every invariant that a passing run checks is also proved. Only model-checked:

* `GroupOnDemand` and `PlotReturns`: the steps to the goal are as many as `WaveLen` or
  `PeriodUnits` says, and a proof for every value is an induction over leads-to formulas,
  which the provers cannot do. Chains of a fixed length, like the sixteen segments of RT, are
  written out.
* `Converges`: an induction as well, over the actions of the users that are left.
* The fairness of the ticker in `TickerSpec`: `ENABLED` of the ticker's action under the
  refinement mapping. `Refinement` is the part about steps.
* That `CanMove` is an invariant.

## Not modelled

* Oscillator, filters, resampling, the modulation itself: floating point arithmetic. Their
  initialisation and release are in `Lifecycle`.
* The worker thread of the resampler, which exists only in a build with
  `JMPXRDS_MT`, and the OpenGL plotter, an alternative to the one modelled.
* Text output, parsing of options, the layout and the drawing of the GUI, level bars and
  RTP statistics, which only display; the tables of `rds_codes.c` as such.
* What `rds_string_sanitize` and the setters do with control characters: characters are
  not told apart.
* The building of the GStreamer pipelines in the RTP server and in the RTP client, and the
  GNU Radio receiver, a generated flow graph: lists of library calls.
* Time: delays, timeouts and the rates of timers. A step that waits for time may come at
  any time.
* What follows an error of the RTP pipeline for a push that is under way, and a tick of
  the statistics, or a signal handler, while the sinks are released (`rtp_server.c:86`):
  nothing orders them, and no property holds of them. Calls of the receivers' functions
  that find the server not active keep a mapping of the control segment
  (`rtp_server.c:279`); mappings are not counted.
