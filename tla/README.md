# A TLA+ model of the DVB-T television application

The repository is a set-top-box application in C: it tunes to a DVB-T
multiplex, reads the PAT and the PMTs, plays the chosen channel, and reacts to a
remote control with channel keys, digits, volume keys, an info dialog and EXIT.
It is small and sequential in each function, and concurrent everywhere else: six
kinds of threads share plain static variables, condition variables are waited on
without a predicate, and timers run their handlers on threads of their own. That
is what the modules here model, and what the properties are about.

## 1. The system

| part | state | operations | threads |
|---|---|---|---|
| stream controller (`stream_controller.c`) | tables, filter and stream handles, `programNumber`, `changeChannel`, `currentChannel`, `currentDate`, `isInitialized`, `threadExit` | start-up, `startChannel`, `parseTimeTables`, `channelUp`, `channelDown`, `changeChannelKey`, `getChannelInfo`, volume, `streamControllerDeinit` | its own task; callbacks on the demultiplexer's and on the tuner's thread; called from the remote controller thread, from timer threads and from `main` |
| table parser (`tables_parser.c`) | none (fills the tables) | `parsePatTable`, `parsePmtTable`, `parseTdtTable`, `parseTotTable` | the demultiplexer's |
| application (`tv_app.c`) | `keysPressed`, `keys`, `keyTimer`, `channelInfo`, `currentDateMain`, `currentVolume` | key dispatch, digit entry, start and exit | `main`, remote controller thread, timer threads |
| graphics controller (`graphics_controller.c`) | `componentsToDraw`, values to draw, three timers, `stopDrawing` | three drawing functions, `renderThread`, removers, init and deinit | renderer, remote controller thread, timer threads, `main` |
| remote controller (`remote_controller.c`) | callback pointer, `threadExit` | event loop, register, unregister, deinit | its own |
| configuration (`loadConfigFile`) | `configFile` | read once | `main` |

How they interact: `main` starts all parts and waits for EXIT. A key runs
`remoteControllerCallback` on the remote controller thread, which calls into the
stream controller and the graphics controller. P+ and P- only set
`programNumber` and raise `changeChannel`; the task polls that flag and runs
`startChannel`. A dialled number is different: two seconds after the last digit
a timer thread runs `changeChannelKey`, which runs `startChannel` itself.
`startChannel` sets a filter, waits on `demuxCond`, and reads the PMT that the
demultiplexer's thread has parsed.

What makes each part correct: a channel request is never lost, and the pids
played and shown are those of one channel; filters, streams, devices and tables
are released on every path; the start-up ends and a locked tuner is used; the
channel dialled is the one typed; overlays come, stay for their time and go;
shutdown ends and nothing is used after it was released. `PROJECT.json` lists
the hazards at their lines.

## 2. Modules

| module | models |
|---|---|
| `StreamController` | the stream controller from the open source on |
| `ChannelSwitch` | what it promises to the user of P+ and P- |
| `StreamRefinement` | that it keeps the promise: the refinement mapping |
| `MCStreamController` | its programs for TLC |
| `StreamControllerProofs` | types, pids, and the task against freed tables |
| `StreamSafetyProofs` | its other safety invariants |
| `StreamRefinementProofs` | the refinement, step by step |
| `StreamStartup` | the start of the task |
| `TvApp`, `TvAppProofs` | `main`, the remote controller's thread, the keys and the volume; extends `StreamStartup`, whose steps run beside them; the theorems of both |
| `KeyEntry`, `KeyEntryProofs` | digit entry and its timer |
| `GraphicsController`, `GraphicsControllerProofs` | overlays, renderer and shutdown of the graphics |
| `TablesParser`, `MCTablesParser`, `TablesParserProofs` | the four parsers on the fields of a section |
| `ConfigFile`, `MCConfigFile`, `ConfigFileProofs` | `config.ini` and its parser |

`TvApp` composes by extension: its next-state relation interleaves the actions
of `StreamStartup` with its own, and each of its actions leaves the other's
variables alone except where the code shares them (a key reads `patTable` and the
player's handle). The other modules share variables with each other only through
calls, and each says in its first comment what it takes from which.

**StreamController.** Each thread has a program counter `pc[t]`; a step is one
statement that another thread can see. `stage[t]` is what the thread works on: a
table (`"pat"`, `"pmt"`, `"tdt"`, `"tot"`) while it frees a filter, sets the next
one and waits (the code writes this sequence four times; the actions
`FreeFilter`, `SetFilter`, `Wait`, `Resume` stand for all), and a kind of stream
(`"video"`, `"audio"`) while `startChannel` replaces the streams. `chan`, `idx`
and `pid` are the locals of `startChannel`. `cb` is the demultiplexer's thread in
`sectionReceivedCallback`; the parser writes a table entry by entry
(`ParsePat`, `ParsePmt`) while other threads read it. A section is what a filter
asked for, a *want*: a table and, for a PMT, a program. `PatEntry(i) = 0` stands
for a pid that carries no PMT: the NIT's in entry 0, the 0 of a slot never
written, whatever lies beside the array. `streamControllerDeinit` is the labels
`d...`, run by `main` after EXIT and by a thread whose stream could not be
created, which afterwards goes on in `startChannel` as the code does.

`demuxMutex` is left out: it guards only the wait and the signal, and the two are
single steps. The branches on `ETIMEDOUT` after `pthread_cond_wait` are dead
(that call has no timeout) and are left out. An access to a table that was freed
is undefined: the model records the thread in `fault` and stops. The stream type
of an elementary stream is `"video"`, `"audio"` or `"other"`; the date is
`"zero"`, `"torn"` or `"date"`.

**ChannelSwitch** knows a wanted program, whether it has still to be taken up,
the program being tuned and the channel that plays. **StreamRefinement** maps
`wanted` to `programNumber`; a request is pending while the key is between
`programNumber` and the flag, while the flag is up, and until `startChannel` is
called; the channel counts as current from the moment its number is stored. The
mapping needs no history: `Take` may leave the request pending, because a key in
the middle of a channel change can make the task start the same program twice.
With this, `Settle` says that the receiver settles only on a program it has taken
up, with streams of that program's PMT, and fairness that it does so in the end.

**TvApp**: `main` is its order of steps, each of which can fail where the code
has an ERRORCHECK that can; `rc` is the place of `inputEventTask`. A call of a
NULL callback or of `channelUp` without a PAT stops the model with `fault`.
`excuse` records the ways out of turn: a key before the picture or after EXIT, a
wait of `main` that returns without a signal. `Player_Volume_Set` may fail at any
time, and the code ignores it; `told` records whether the last one succeeded. The
two calls that can wait for another thread for ever, `graphicsControllerDeinit`
(its own module) and `streamControllerDeinit` once a task runs
(`StreamController`), are single steps that need not happen (`Blocked`).

**TablesParser**: a section is the list of its entries, with the lengths of the
descriptors among them (`list`, `info`), and the offset at which each entry and,
last, the CRC begins (`start`). `WellFormed` is what a broadcaster guarantees:
every entry begins where the one before it ends, and the whole fits the 12 bits
of its length. Fields carry the reserved bits
that share their bytes, so the masks matter, and the parser has a step for
`currentBufferPosition` only where an entry begins. In a TOT the code looks for
descriptors every 15 bytes; where none begins it reads any of `Bytes`. The date
formula is integer arithmetic: the quotients of doubles are never near an integer
for an MJD of 16 bits. **ConfigFile** keeps words as sequences of characters,
since what `removeWhiteSpaces` does to the last character is the point; names are
shortened to two characters. A line is its words with the blanks around them:
`Words` are what can stand between blanks, the dash and the end of the line.

**StreamStartup** has one action per library call, each of which may fail;
`pc = "free"` begins the error paths: the five copies in the source
(`stream_controller.c:390-455`) were compared by hand, do the same and are one
path here, so a slip in one copy alone is not what the model would show. `deadline` is the ten seconds. **KeyEntry**
has one action per access to `keysPressed` and `keys`. **GraphicsController**
identifies a drawn value with the call that brought it, so that a frame shows
which calls it is made of.

External code, modelled from its use: libtdp gives filters and streams from sets
of handles and refuses when there are none left; a section whose filter is set is
broadcast again and again; `pthread_cond_signal` wakes one waiting thread or is
lost; `pthread_join` fails at once on the calling thread and on one being joined.
Condition waits may return without a signal. Two facts about libraries are
parameters of StreamController, because its code depends on them: `FreeWaits`
(`Demux_Free_Filter` returns only when no callback runs) and `Spurious` (there are
spurious wake-ups). `FreeWaits = FALSE` is covered by the theorems that do not
assume `Solo` or `FreeWaits` (section 4), not by a run.

Definitions that no `Next` uses and that stand directly before an action (such as
`KeptFilter` before `Freed`) are faulty variants of it, used to confirm that each
property fails when the code is wrong.

## 3. Runs

| run | what it shows | bounds |
|---|---|---|
| `sc_switching` | P+, P-, INFO and EXIT at any moment: types, no lost request, the streams of the current channel play, date of a TDT; under fairness the receiver ends on the channel asked for, exit ends, and `ChannelSwitch` is refined, safety and fairness | a television and a radio program; one filter, two streams |
| `sc_failures` | P+ while any call fails and one PMT is too big: own pids, filters only on listed programs and only after a whole PAT, no leak, exit releases all, no freed table is used | three programs, all of `MayFail`, three filters, three streams |
| `sc_threads` | `startChannel` on two threads, P+, spurious wake-ups, one handle for both, exit at any time: the task never uses a freed table | one program, one dialler |
| `tv_app` | the whole start: released on failure, player only after a lock (or a spurious wake-up), ready as StreamController expects, it ends, the tuner's callback returns; keys in time touch nothing invalid, the three volumes agree as far as the player takes them, EXIT ends the process unless something named stops it | every call may fail; three status reports: lock, loss, lock; volumes 0 and 1, so that both ends are met |
| `ke_entry` | three digits and patience dial what was typed; typing during a dial: the count stays in 0..3, nothing of an entry outlives it, the count is reset unless a channel never starts | both kinds of users: digits 0, 1, 9, three per expiry; two digits per expiry with two timer threads |
| `gc_overlays` | late removers, spurious wake-up, shutdown: no overlay for good, each stays for its time, its last value is seen in one frame, no drawing after release, shutdown returns if it waits before the signal | three calls, two late removers |
| `tp_sections` | lists are read entry by entry whatever the descriptors, and refused exactly if they do not fit; the TOT loop ends on sections it is made for; month and year of a TDT are right | every list of up to four entries for arrays of three, section after section; all 50457 days of MJD 15079..65535 |
| `cf_layouts` | the numbers of a file laid out as the repository's `config.ini` load as written, whichever module it names | every layout of 0..2 blanks, with and without dash and newline, two lines |

Two programs, beside the NIT in entry 0, are enough for wrap-around at both ends,
and a television and a radio program for the ways in which streams replace each
other; more programs are left to the theorems, which cover the safety properties
for any number. Free filters and streams are what a leak, or a filter left set,
needs to show: `sc_failures` has them. Three status reports are
the first sequence in which a lock is lost and found again. Three calls let an
overlay be prolonged while another one is shown.

Deadlock is checked except where the code may really stop for good: `sc_switching`
(P- before the PAT is parsed leads to a filter that nothing passes),
`sc_failures` (a table that does not fit wakes nobody), `sc_threads` (two threads
wait for one signal), and the graphics (the shutdown that hangs; and with
`MaxCalls` used up nothing need happen); `tp_sections` and `cf_layouts` end where
the code returns.

These variables are histories that only the properties read: `spurious` (a wait
has returned without a signal), `late[o]` (an expiry of overlay `o` was still
being handled when the last key for `o` came), `owed[o]`, `hasty` (the user types during a dial), and `excuse`, `leaving` and
`told` of TvApp. They exempt exactly the behaviours in which the code does break
the property, listed below: such a property says that nothing else breaks it, and
does not cover the exempted hazard.

Fairness: the threads of one process are scheduled, so every thread that can step
does (weak fairness of each thread's actions); broadcast tables repeat, so a
section whose filter is set arrives; timers expire. Nothing is assumed of the
user: no key need be pressed, only a handler that has begun goes on. In TvApp
nothing is assumed of the tuner and of the remote either: no lock and no event
need come. Nor is any assumed of a call that waits without a timeout for another
thread: in TvApp `main` need not return from `graphicsControllerDeinit`
(`graphics_controller.c:134`) or from the join in `streamControllerDeinit`
(`stream_controller.c:66`), in KeyEntry a thread need not return from
`changeChannelKey`, whose `startChannel` waits at line 169. `ExitEnds` and
`EntryEnds` name these cases, a silent remote and a crash as the only ones in which
EXIT does not end the process, or the count is not reset.
`SettlesOnRequest` and `ExitCompletes` assume that the program number stays within
the PAT, which P- before the PAT is parsed can break.

### Disagreements between the code and its documents

Each of these runs violates one property, and `PROJECT.json` quotes the line.

| run | what happens |
|---|---|
| `sc_two_starters` | a dialled number during a channel change stores pids of the wrong PMT |
| `sc_torn_pmt` | the PMT is parsed again while `startChannel` walks through it: streams are missed |
| `ss_lost_lock` | a lock reported before the wait is lost and the start-up times out |
| `tp_date` | the day of the month from a TDT is wrong, for the first time on 1 May 1900, which is read as 0 May |

Others follow from the same modules, and were found with TLC while the properties
were written; the properties above are stated so as to leave them out:

* INFO during a channel change copies the number of one channel and a pid of the
  next (`stream_controller.c:144` against 237-239).
* `startChannel` removes the previous audio stream only if the new program has one
  (line 219), so a mute program keeps the sound of the one before:
  `StreamsFollowChannel` asks nothing of the audio then.
* `changeChannelKey` accepts `serviceInfoCount - 1` (line 670) and `startChannel`
  reads one entry further; `channelDown` before the PAT is parsed makes
  `programNumber` negative (line 123). `FilterOnListedProgram` is checked for P+.
* Digits typed while a channel starts join the previous number or are wiped
  (`tv_app.c:270-276`), and `keysPressed == 1;` (line 241) is not an assignment:
  a fourth digit dials 100 times its value. `DialsWhatWasTyped` is checked for
  three digits and a user who waits.
* A key just at the expiry does not prolong its overlay (`late`), and the program
  number is never drawn: `renderThread` does not read `showProgramNumber`.
* The shutdown of the graphics waits for a signal without testing any state
  (`graphics_controller.c:134`): if `renderThread` has already sent its only
  signal, `main` waits for ever. `DeinitReturnsIfSignalled` is about the other
  order.
* A spurious wake-up during the shutdown of the graphics makes `main` join the
  renderer while it holds the mutex that the renderer needs (`spurious`).
* EXIT before `main` waits is lost (`tv_app.c:96`), and without the remote's
  device nothing can end the application. After an EXIT in time the remote's
  thread still needs one more event to see `threadExit`
  (`remote_controller.c:74`), and if that event is a key press after the callback
  was unregistered, it calls NULL (line 95).
* P+ or P- before the PAT is allocated or after a start-up that failed uses a
  pointer that is not valid (`stream_controller.c:104`); volume keys before there
  is a player are shown and never played.
* After `Player_Volume_Set` has failed (`stream_controller.c:713`, 728, 738) the
  player keeps its volume under the new bar until the next volume key (`told`).
* After a timeout the start-up returns with `statusMutex` locked (line 429), and
  the next report blocks the tuner's thread: `CallbackReturns` leaves this out.
* An expiry between `timer_settime` and the flag (`graphics_controller.c:319-330`)
  would leave an overlay on for good; `Expire` assumes that these statements take
  less than the timer's three seconds.
* `parseTotTable` takes descriptors to be 15 bytes apart and reads the regions of
  each from the first (line 451); a descriptor of another kind subtracts a length
  an earlier section left (line 466), and the loop can leave its array.
* A value in `config.ini` with blanks before it and none after it is misread
  (`removeWhiteSpaces` repeats its last character or digit), and a key without `-` passes NULL on. `strcmp` is not compared with 0
  (`stream_controller.c:619`): a module that is exactly "DVB_T" is refused with
  "DTV standard not supported!" (line 625) and every other one is accepted, the
  repository's own because its word keeps the newline. `LoadedAsWritten` says
  nothing of the module.

## 4. Proofs

TLAPS proves the theorems listed in `PROJECT.json` for every value of the
constants: any number of programs, handles, timer threads, digits, calls,
entries. Each rests on an inductive invariant, a conjunction of named parts that
TLC checked on the runs' instances before it was proved; a proof that steps
preserve it has one step per action. The assumptions on the constants are
`ConstantsOK`, `StartupConstants`, `AppConstants`, `EntryConstants`,
`GraphicsConstants`, `ParserConstants` and `FilesOK`; TLC evaluates them in the
runs.

**StreamController, without hypotheses.**

* `TypeCorrect`: `TypeOK`. The types alone are not inductive: the scan of the PMT
  indexes `Pmt[pmtTable.prog]` up to `pmtTable.count`, so `TypeInv` adds that the
  count stays within the PMT the callback received (`CbInv`) and that a thread's
  label fits what it works on (`StageInv`).
* `TaskIsSafe`: `TaskNeverFaults`, with any number of diallers, failures and
  concurrent calls of `streamControllerDeinit`. `FaultInv`: the tables are freed
  only by the thread whose join of the task succeeded, hence after it has ended.

**StreamController, with the task as the only starter of channels.** The code tests
nothing after its waits, so each result names the conditions under which it can be
right: `Alone`, only the task runs `startChannel` (no dialled number;
`sc_two_starters` shows what happens otherwise); `Signalled`, moreover no wait
returns without a signal; `Solo`, moreover `Demux_Free_Filter` waits for its
callback. Failures of libtdp are allowed unless said otherwise.

Under `Alone`, with spurious wake-ups and callbacks that outlive their filter:

* `TaskInv`, on which the others build: at most one filter is set, the last one
  requested, and none between freeing and setting one (`FilterInv`); the task
  never gets past its own `pthread_join` (`DeinitInv`); its labels fit what it
  works on (`LabelInv`).
* `NothingLeaks`: a handle is zeroed only when its stream is gone, and a stream
  created only when its handle is zero (`LeakInv`). `ExitIsClean`, and with
  `FreeWaits` `NoUseAfterFree`: the order in which `main` stops the remote
  controller, joins the task, frees the filter, lets its callback return, removes
  the streams and frees the tables (`ExitInv`). Together `BaseInv`.
* `RequestsServed`: `NoLostRequest`, if filters can be set (`FiltersSet`; where
  one cannot, `startChannel` gives up and nothing repeats the request). A request
  taken up is the one `startChannel` works on and later the one it has stored
  (`RequestInv`).
* `PlayerFollows`: `StreamsFollowChannel`, if streams can be had too (`Reliable`;
  where one cannot, the code tears everything down). The player follows
  `startChannel` through removing and creating the two streams (`PlayInv`).

Under `Signalled`:

* `WholePatFirst`: until the PAT is complete only its sections arrive, so the task
  leaves the wait for it with every entry written (`PatInv`).
* `FiltersInRange`: `FilterOnListedProgram` in behaviours in which
  `programNumber` stays within the PAT; `FiltersListed` for users of P+ alone and
  a configured program that the PAT lists (`UpOnly`), who cannot leave it. P-
  before the PAT is parsed can: see section 3.

Under `Solo`, since otherwise a section of an old filter, or none, can end a wait:

* `PidsCorrect`: `PidsOfCurrentChannel`. `SoloInv` says why the wake-up can only
  come from the PMT asked for: between freeing and setting a filter no callback is
  under way (`TuneInv`); from the wake-up on, `pmtTable` holds that program
  (`ScanInv`) and the pids taken from it are its own (`PidInv`, `StoreInv`); a
  deinitialisation in the middle of `startChannel` changes none of this.
* `DateIsComplete`: while the task waits for a table, only sections of that table
  arrive (`ArriveInv`), so it publishes the date of a parsed TDT (`DateInv`).
* `Implements`: with `Reliable`, `Spec => SwitchesChannels`, the safety part of the
  refinement. Each action is a step of `ChannelSwitch` or, by `Stutters`, one it
  does not see; that a step that ends a channel change is a `Settle` needs
  `RequestInv`, `PidInv` and `PlayInv`.

**Start-up and application.** `StartTypeCorrect`, `FailureReleases`,
`ReadyCorrect`: an invariant that gives tables, devices and the holder of
`statusMutex` at each label (`StartInv`). `PlayerCorrect`: whatever follows the
wait was caused by a report of a lock or by a spurious wake-up (`LockInv`).
`AppStartsUp` shows that every step of TvApp is one of StreamStartup or leaves its
variables alone, so all four hold of the application (`AppStartupCorrect`).
`VolumesAlwaysAgree`: whatever the player refuses, a volume it takes is the one
that is shown. `KeysInTimeAreSafe`: `main` registers its callbacks before it
waits and leaves its wait only after EXIT or without a signal (`OrderInv`), so a
key that is being handled met the picture and the callbacks, or came out of turn
(`KeyInv`).

**GraphicsController.** One invariant, `GraphicsInv`, gives all five theorems.
`TimerInv` relates flag, timer, removers and call of each overlay; `StopInv`
orders the shutdown: `main` goes past `pthread_join` only when `renderThread` has
ended. For the action property `SeenBeforeRemoved`, `ValueInv` says that flag and
values stay as the last call left them until they were seen, and `FrameInv` that
the frame being drawn is going to show them before the timer's time is over.

**KeyEntry.** `EntryInv` bounds the count that one thread raises and another
resets: what `inputChannelNumber` is about to store is the count it has tested,
or the count was reset meanwhile. `PatientUserServed` assumes `MaxDigits <= 3`,
since a fourth digit is counted as a third one (section 3). `PatientInv`: while no
timer thread runs the keys hold what was typed (`TypingInv`); while one runs it is
alone (`AloneInv`) and has read the digits up to its place (`DialInv`).
`EntryStaysPending`, for any number of digits and threads: a step that leaves a
digit or a count behind has armed the timer, or leaves a thread that has that slot
still to clear (`StillToReset`).

**TablesParser**, for well-formed sections of any number of entries and arrays of
any length that an 8-bit counter can count. The masks give back what the
broadcaster put in (`LengthDecodes`, `PidDecodes`, ...), so the loop of the PAT and the PMT stands
before entry `count + 1` with `parsedLength` one past its offset (`ListInv`), which
is at most the section's length exactly while there are entries (`MoreEntries`);
`ListsAreParsed` follows. `DescriptorsAreCounted`: on sections made for it, what is
left to parse is the distance to the CRC and descriptors stand at `10 + 15 *
count` (`TotInv`). `ParserTypeCorrect` includes that the date formula gives one of
twelve months for every MJD (`DateInRange`).

`MonthsOfTheDays`: `MonthOfTheDay`, for every day from March 1900 on that 16 bits
count. The model's calendar goes on day by day, month lengths and leap years
included; the code inverts a formula. The proof counts years and months from
March, as the standard does, so that the leap day is the last of its year. Then
the day's MJD has a closed form, the sum of the days of the years and of the
months before it, and each day of the calendar keeps to it (`CalendarInv`,
`CountGoesOn`: within a month, into the next one, into March after either
February). That the code's quotients undo it (`FormulaInverts`) follows from what
a year and a month add to the sum (`OneYearOn`, `DayOfTheYear`). The day is another matter
(`tp_date`): the code takes 14987 and the resulting month and year where the
standard has 14956 and the intermediate ones, and is one too few in May, July,
October and December, one or two too many in January and February.

**ConfigFile**, for files of any number of lines, blanks and characters.
`LoadsAsWritten`: `LoadedAsWritten`. The loop of `removeWhiteSpaces` leaves the
last place of a word that it shifts as it was. The proof shows what stands there
for the layouts of `LaidOut`: a blank or a newline behind the value
(`BlanksBehind`, `NewlineBehind`), at which `atoi` stops, so that it reads the
digits of the value as written (`NumberBefore`). A key is not shifted at all
(`KeyRead`). That there is a first character that is no blank, a first that is no
digit and a last line for a key comes from the well-foundedness of the naturals
(`LeastExists`). What number the digits make is never needed: `Decimal` stays
opaque, and its range is the premise `Fits`, the numbers that fit the `int` of
`atoi` and, for the program, an `int16_t`.

**Only model-checked.** Liveness under fairness is out of the prover's reach:
`SettlesOnRequest`, `ExitCompletes`, `SwitchesInTheEnd`, `StartupEnds`,
`CallbackReturns`, `ExitEnds`, `OverlaysDisappear`, `DeinitReturnsIfSignalled`,
`EntryEnds`. Every invariant and every safety action property of the passing runs
is stated by a theorem.

## 5. Not modelled

Printing and layout (`printPatTable` and the like, what `renderThread` paints);
the surfaces that the volume bar leaks, one per frame; header fields of the tables
that nothing reads; the texts and offsets of local time offset infos;
`removeChannelDial` and `showChannelDial`, which nothing uses; `vezba_5.c`,
`test.c` and `mjd.c`, which the makefile does not build. A PAT, PMT or TOT that is
cut short is not modelled: libtdp hands over whole sections. Lines of `config.ini`
are shorter than the buffer of `fgets`. In GraphicsController a timer does not
expire before the call that armed it has ended, nor before two frames were drawn
(it runs three or four seconds), and keys before `graphicsControllerInit` are left
out; in KeyEntry keyTimer does not expire while `inputChannelNumber` runs.

## 6. Plan

What is left is to weaken one more hypothesis: `PidsOfCurrentChannel` for a
dialled number that comes while the task is in its loop.
