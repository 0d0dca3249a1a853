# ArduinoPo: verification project

TLA+ models of the robot sketches in this repository and of the parts of the vendored libraries they lean on,
model-checked with TLC and, in part, proved with TLAPS. Paths are relative to the repository (`src/` in
`PROJECT.json`).

## 1. The system

The repository is a workshop: some thirty Arduino sketches and the libraries they were built with. Its core is a
swimming robot with DYNAMIXEL servos on one half-duplex bus, filmed by an externally triggered camera, and logging
to an SD card. There is no operating system: `setup()` runs once, `loop()` runs for ever, one timer interrupt runs
beside it, power may go at any time, and bus and card may fail at any call.

| Component | State | Operations | Hard behaviour | Correct when |
|---|---|---|---|---|
| Timed sequence (`dlx_gait_timed.ino`, `loop()`, `cameraTriggerPulse()`) | phase flags and start times, `gaitIndex`, last commanded pose, `cameraTriggerActive` | one pass per call of `loop()`: pre-home, gait, post-home or idle; the 100 Hz interrupt | passes stall in bus round trips and SD writes; interrupt and pass share a flag; `millis()` wraps | the camera covers every motion, transitions finish, the run starts at home |
| Always-on gaits (`animal_gait_with_fins.ino`, `animal_gait_body_only.ino`) | gait and log clocks, where the ease began, last commanded pose | one pass per call of `loop()`, with no end | the clock comes round many times in a run; a gait ends while its ease is under way | gaits and rows keep their times, no joint jumps |
| Logger (`updateLogging()`, `logRow()`) | servo and field index, cycle start, buffer | one register read per pass, one row per cycle | a cycle spans passes of any length and may be cut off by the window's end | a row is of one cycle, stamped with its start; the rate is bounded |
| Run counter and file (`setup()`, `setupSD()`; all gait sketches and `dxlCoordLog.ino`) | two EEPROM bytes, the file on the card | read and bump the counter, header, marker, rows | power loss between any two steps, a card that fails or single operations that do | rows of different runs can be told apart |
| SD file system (`libraries/SD`) | one block of cache, two FATs, directory, file handle | open, print, close, remove | crash or failing access between any two block accesses; a full card | what was closed is there, chains stay apart |
| DYNAMIXEL host: packets (`libraries/Dynamixel2Arduino`, `dxl_c/protocol.c`) | parser state, unread bytes, table of models | `write()`, `read()`, `readControlTableItem()`, `rxStatusPacket()`, both parsers | lost bytes, lost and late answers, stuffed bytes; state that outlives a call | the link recovers; what is read was measured |
| DYNAMIXEL host: calls (`utility/master.cpp`) | info structures, packet buffers, last instruction built | sync, bulk and single calls, ping, write without answer | several calls share one buffer and one serial port; built packets are sent again | a call sends its own packet and takes its own answers |
| DYNAMIXEL slave (`utility/slave.cpp`) | control table, id and protocol among its items | instructions from the bus, setters of the sketch | a packet that writes many items of which some are refused; a slave that changes whom it answers | what was written is read back, the slave stays reachable |
| Toggle recorder (`MPU5060ToggleAsh.ino`) | button samples, file number, one `File`, servo modes | start, record a row, stop, rest | two loops sample one button; resets; lost calls | one push does one thing, files hold one recording, servos rest |
| LED, button and servo bench sketches | a flag at most | straight-line loops | none | - |

Interactions: `loop()` writes goal positions over the DYNAMIXEL host and then lets the logger read one register over
the same bus; the logger appends its rows through the SD library under the run number that `setup()` took from
EEPROM; the interrupt only reads the flag `loop()` writes.

## 2. Modules

| Module | Models | Correspondence |
|---|---|---|
| `GaitLogger` | `updateLogging()`, `logRow()` | `StartCycle`, `ContinueCycle` and the early returns are the disjuncts of `UpdateLogging`; variables keep the source's names. A sample is the clock value of the pass that read it. |
| `TimedGait` (extends `GaitLogger`) | `loop()` and the interrupt of the timed sequence | `Pass` is one call of `loop()`, everything up to the next `millis()`; `TimerTick` is one timer period with its interrupt. `MotorPass` calls `UpdateLogging`, as the code does at its end. |
| `AnimalGait` (extends `GaitLogger`) | `loop()` of the two always-on gaits | `Pass` is one call of `loop()`: gait table, an ease per joint, one step of the logger. |
| `RunFile` | the abstract log file: header, marker and rows, with a run number in each row or without; a row stands in its own run's section. `lossy` and `torn` say how much of it is still promised | - |
| `RunLog` | `setup()`'s counter, `setupSD()`, `logRow()`'s file access, power switch | one action per call that touches EEPROM or card, since power may go in between; `File` is the `INSTANCE` of `RunFile`. `checksOpens` is the sketch: the gaits give up when a file does not open and number their rows; `dxlCoordLog.ino` goes on and does not (`RowLine`). |
| `CardFile` | the abstract card: per file what the program sees and what a power loss leaves | - |
| `SdFat` | `SdFile`, `SdVolume`, `File`, `SD` | `Open`, `Write`, `Close`, `Remove` begin a call; each further action is one access of the cache, in the order of the code, `FlushBlock` and `FlushMirror` the writes it needs first. `Abstract` is the `INSTANCE` of `CardFile`. |
| `DxlLink`, `MCDxlLink` | host, protocol 1.0, and the wire; two servos and the bus traffic of two passes | `Transmit`, `Receive`, `TimesOut` are the phases of a call; `Parse` is the parser, one operator per state; `Deliver` is the servo and UART. |
| `Dxl2Packet` | the status packet of protocol 2.0: `add_param_to_dxl2_0_packet()`, CRC, `parse_dxl2_0_packet()` | real bytes; the parser is one operator per state |
| `Dxl2Link`, `MCDxl2Link` (extend `Dxl2Packet`) | `read()` calls over a wire that loses bytes and delays answers | `Ask`, `Receive`, `TimesOut` are the phases of a call, `Arrive` the UART |
| `DxlGroup`, `MCDxlGroup` | the calls of `Master`, packet by packet | one action per kind of call; `MustBuild` is the condition under which a packet is built anew, `Disturb` remembers whom building one has cost its packet; `Accepts` and `Take` say which answers a call takes |
| `Slave`, `MCSlave` | `Slave`: control table and instructions | `ProcessWrite`, `ProcessRead`, `ProcessPing` are whole handlers with the answer; the setters and the sketch's own items are actions too |
| `ToggleRecorder` | `MPU5060ToggleAsh.ino`, finger, reset button, lossy bus | the pass that starts a recording is cut where time passes (`OpenFile`, `ToPositions`, `ToVelocity`, `RecordRow`); any other pass is `RestPass`. |
| `TimedGaitProofs`, `AnimalGaitProofs`, `RunLogProofs`, `SdFatProofs`, `Dxl2LinkProofs`, `DxlGroupProofs`, `SlaveProofs`, `ToggleRecorderProofs` | proofs about the module of that name | - |

How they fit together: `GaitLogger` is the part both gait modules use. `RunLog` takes from `SdFat` that a line is in
the file after `close()` or not at all, and that single failures may leave part of a line. `Dxl2Link` shows what
happens to the bytes of an answer; `DxlGroup` takes answers as wholes and asks which call takes them.

Every model has operators called variants: each is a plausible slip in the code. No specification uses them; with one
put in the place of the right definition, TLC finds the property listed for it in `PROJECT.json` violated, which
shows that the property does say something about the code.

### What the models abstract

- `TimedGait`: a tick is a timer period. Only comparisons and unsigned differences of times matter, so the origin of
  the clock is `sequenceStartMillis`, and the clock wraps at `ClockMod`. Poses are named shapes; a pose strictly
  between two shapes is "between". The rounding of the float interpolation and of `(int)` is below this: that a
  pose is not home is said of `lastCommanded*`, the unrounded target. IMU values and debug prints are left out.
  A row's members `start`, `at`, `stored` are bookkeeping of the model, not columns.
- `AnimalGait`: positions are whole numbers, `Ease` is the code's `smoothstep` and `lerp` rounded down. The camera
  interrupt shares nothing with `loop()` in these sketches and is left out.
- `RunLog`: a line is in the file after `close()`, in part after a failing card operation, or not at all; the
  entry of a new file is written at once, by `open()`. `boot` is bookkeeping: the power-up that wrote the line. The
  three lines that `dxlCoordLog.ino` prints for a cycle between one `open()` and one `close()` are one row.
- `SdFat`: a block is written whole or not at all. One file is open at a time, opened with `FILE_WRITE`, as in all
  sketches that log; a print is shorter than a block, so `write()` never bypasses the cache; the directory is one
  block with room for all files. Printed units are numbered so that each is found again. `ahead`, `gone` and `broken`
  remember the damage an interrupted call has done, after which `CardFile` promises nothing.
- `DxlLink`: packets lose bytes or do not come; bytes are not altered. An answer comes within the time limit
  or not at all (`Dxl2Link` has late ones). A servo reports no error. Once a byte is stored through a null pointer
  the program's behaviour is undefined; `stray` remembers it and the recovery properties claim nothing afterwards.
  Of the model numbers in the library's table only the servo's own can match what is in the buffer. `last.ok` is
  what `rxStatusPacket()` says; `write()`'s further look at the error byte changes only its result, which the
  sketches ignore.
- `Dxl2Link`: an answer comes in one piece, and its call may give up before it, inside it or behind it; the request is
  taken to arrive. `due`, `forged`, `stuffed`, `misfit`, `cut`, `checked` and `since` are bookkeeping.
- `DxlGroup`: a packet is its instruction, the info structure it was built for and the list of servos. Answers to
  one packet come in its order, since the bus is half duplex. The number of servos that fit a buffer is `MaxXels`.
  `disturbed` is bookkeeping.
- `Slave`: the bytes of packets are those of the other modules; buffers suffice. `host` is bookkeeping: what somebody
  who saw every answer takes the items to be.
- `ToggleRecorder`: servo calls to all servos in a row are one step that may miss some of them. Rows are on the card
  once the file is closed.

## 3. Runs

| Run | Asks | Result |
|---|---|---|
| `TimedGait` | Do camera, motors, homing and logger keep to each other whatever the passes' lengths? | holds |
| `AnimalGait` | Do gaits and rows keep their times through every wrap of the clock, and do joints move without jumps? | holds |
| `RunLog` | Do EEPROM and file keep the promise of `RunFile` over power losses and failing card operations, and can two power-ups share a run number? | holds; numbers are shared only when power fails between the two bytes of the counter. The promise is weaker for rows without a number |
| `SdFat` | Does the library implement `CardFile` whatever access fails and wherever power goes? | holds |
| `SdRetry` | Is what a successful print printed in the file? | no: not after a print that failed behind a step to another cluster |
| `DxlLink` | Does the protocol 1.0 link come back into step after lost bytes and answers? | yes |
| `Dxl2Link` | Does the protocol 2.0 link accept only what was sent, store only inside its buffer, and recover? | it recovers from losses; it accepts only what was sent as long as no call gave up inside an answer (`cut`); it stores outside a buffer only when the packet began under a larger one |
| `Dxl2Late` | Is the value of a read without error one the servo gave? | no: after a call that gave up inside an answer, the next one takes the rest of it, behind zeros |
| `DxlGroup` | Does each call send its own packet and take its own answers? | yes, but for infos that `Disturb` names, and for answers out of place |
| `Slave` | Is what was written read back, and does the slave stay reachable? | yes; it goes deaf only by taking the id 253 of protocol 1 into protocol 2 |
| `SlaveReadOnly` | Are model number and firmware version read-only? | no: the old value of the item decides, not the protocol |
| `ToggleRecorder` | One push one thing, one recording per file, servos at rest? | holds |

The three violation runs quote, in `PROJECT.json`, the line of the repository that says otherwise.

Code and words also part in places that no run refutes, because the models state what the code does:

- "post-home ease finishes exactly here" (`dxl_gait_timed.ino:134`, and `:145`): it never does. The window is half open
  and as long as the ease, which begins with the first pass in it. This is a theorem for all times and pass lengths
  (`PostHomeNeverArrives`), and `HomeWhenGaitStarts` has to say what of home is left.
- "This block runs exactly once" (`dxl_gait_timed.ino:709`): once per 49.7 days. When `millis() - sequenceStartMillis`
  comes round, camera, motors and log run again by themselves. `TimedGait` runs through the wrap; its state properties
  hold in every lap, and `HomeWhenGaitStarts` and `FirstRowAtZero` are about the first.
- The example `indirect_address.ino` (`libraries/Dynamixel2Arduino/examples/advanced`) has two infos for sync writes
  without buffers of their own and marks only `sw_infos` in `loop()`. From the third `loop()` on, when `syncRead()` sends
  its packet again and no longer sets `inst_idx`, the step named `setIndirectAddress` sends the packet of `sw_infos`:
  the case that `OwnPacket` leaves out.
- `dxlCoordLog.ino:112` sets `sdReady` before header and marker are written. If the marker's `open()` fails, the rows,
  which have no run column, stand in the section of the run before, and nothing in the file says so.

### Bounds

- `TimedGait`: passes of 2 to 3 ticks, windows of 3, 20 and 3 ticks, gaits of 5, a cycle of 3 reads. A window is at
  least one longest pass, as in the code, where a window is 500 ms and a pass some 25 to 100 ms; the gait table goes
  round; the log gets several rows; the clock wraps and the sequence restarts. Properties that speak of the time since
  reset have `firstLap` as a premise. The proofs lift the bounds.
- `AnimalGait`: a clock of 19 values, passes of 1, 2 or 4, gaits of 5 and 4, eases of 3 and 2. No behaviour is cut
  off: the state space is finite because the clock is, so the run covers any number of wraps, and a stall of 4 is
  longer than any ease. Bend and swing are large enough for every ease to have values of its own in between.
- `RunLog`: with bytes of three values there are nine values of the counter, and every start value of the EEPROM is
  tried, so the counter passes the blank value in the middle of behaviours. Three power-ups, five lines and two faults
  see a file made, appended to and damaged in every order.
- `SdFat`: two files, three clusters of one block of three units, FAT blocks of two entries, prints of up to two
  units, four units in all, two troubles. So a print crosses a block and cluster, a chain crosses FAT blocks, two
  files compete for clusters, the card gets full, and a second trouble hits what the first one left.
  With a third trouble the run takes four times as long and holds too; that is what it takes to fail a print on a file
  that two failures have left with a cluster but no contents, the case that moves `curCluster_` without a new cluster.
- `DxlLink`: bytes of 16 values suffice for ids, lengths and a position with `0xFF` in it; three faults are
  enough for a fault while the parser is still out of step from an earlier one, and for a lost answer besides.
  `CountedCalls` is the number of calls after which recovery is claimed.
- `Dxl2Link`: three calls, one answer that loses a byte or all, one call that gives up before the end of what is to come;
  buffers of 4 and 6 bytes against answers of 2 to 4 parameters, before stuffing, that hold `FF FF FD` at the end, in the
  middle and not at all. `Settled`, three calls, is what recovery may take, and with two `BackInStep` fails. Four calls
  hold too and take five minutes. `Dxl2Late` needs two calls, one of them late, and no loss or stuffing.
- `DxlGroup`: two servos, three info structures (two on the master's buffer, one with its own), a list of both, which
  fits, and one of three, which does not and is never sent; an array of two for a broadcast ping, which the answers fill
  or, one being lost, do not; four calls, one answer lost and one call that leaves answers behind. Four calls are what the
  wrong packet takes: one built, the buffer used for something else, another built in a buffer of its own, the first sent
  again. The theorems lift the bounds.
- `Slave`: two items of the sketch besides the four default ones, one longer than the backup (32 bytes in the code, 2
  here) and one laid around another; write packets over single items and over four of them at once. Tables, packets
  and addresses are arbitrary in the proofs.
- `ToggleRecorder`: four pushes, two power-ups, two lost calls, two servos; file numbers from 3 on have names too
  long to open.

TLC's deadlock check is on for `TimedGait`, `AnimalGait` and `DxlLink`, which go on for ever. It is off where the
bounded supply of calls, power-ups or lines runs out (`RunLog`, `SdFat`, `SdRetry`, `Dxl2Link`, `Dxl2Late`,
`DxlGroup`), where a table may be full and no packet be for the slave (`Slave`, `SlaveReadOnly`), and in
`ToggleRecorder`, whose `setup()` waits for ever without its IMU.

### Fairness

`TimedGait` assumes `WF_vars(Next)`: `loop()` is called again when it returns, and time passes. `ToggleRecorder`
assumes `WF_vars(Sketch)` for the sketch alone: nobody has to push the button, reset the board or lose a call.
`SdFat` assumes `WF_vars(Step)`: a call that has begun runs on while there is power; nobody has to make a call. The
other modules claim no liveness: power may stay off, answers may stay away.

## 4. Proofs

`TimedGaitProofs` (assumptions: `SequenceAssumption`, `LoggerAssumption`, which only order the times and say that a
sequence fits into the clock):

- `TypeCorrect`: types, and no read beyond the servos.
- `SequenceCorrect`: the inductive invariant `SequenceInv`. The properties are about flags; the flags only make sense
  against the clock, so the invariant ties each flag to the time since the pass that last set it, which is at most
  `MaxPass` ago (`remaining` says how much of it is left). Its parts: `CameraInv` (the camera flag is that of the
  pass under way), `GaitInv` (what the eases have commanded by now), `PostHomeInv` (the ease started no earlier than
  the window).
- `CameraAlwaysCovers`, `PulsesAreSteady`, `TransitionsFinish`: the run's `CameraCoversMotors`, `PulseTrain` and
  `PoseHeldBeforeNext` for all times, servos and fields.
- `PostHomeNeverArrives`: `PostHomeFallsShort`, which no run checks, for the same: what the comments at
  `dxl_gait_timed.ino:134` and `:145` promise never happens.
- `GaitStartsAtHome`: `HomeWhenGaitStarts`, from `HomeInv`: in the first run the robot is at home until the motor window
  opens, and so is the pose a pre-home ease under way started from. The second half is what makes it inductive.
- `RowsStartAtZero`: `FirstRowAtZero`, from `FirstRowInv`: until the first row, either no cycle has begun and the motors
  do not run, or the cycle under way began in the pass that started them. The proof needs more than that
  `LOG_INTERVAL_MS` has passed since the reset: the clock must not have come round since, or the time since
  `lastLogTime` would again be too short (`DueAtOnce`).

`ToggleRecorderProofs` (assumption `RecorderAssumption`, the bounds' types):

- `LightTellsTruth` and `RecordingsApart`: an open file implies a recording under way or `pushbutton` still set, so no
  file is opened over an open one; and the files that hold a recording of this power-up have numbers up to the
  count of clicks, which grows with each opening, so no number serves twice.
- `TypeCorrect`: the types.
- `PushDoesOneThing`: until the finger lifts, the last sample stays 0.
- `RecordingTurns`: with no call lost, each of any number of servos has torque and velocity mode.

`AnimalGaitProofs` (assumptions `AnimalAssumption`, `LoggerAssumption`: passes, gaits and cycles fit into the clock, and are not empty):

- `TypeCorrect`, and `JointsAreSlow`: the run's `NoJump`. Its invariant `EaseInv` says that the last command of a joint
  is the value of the ease at the last pass. So a command moves by what the ease gains between two passes, and a change
  of gait starts where the last one was. The ease is a cubic polynomial rounded down; its slope is bounded by lemmas
  about polynomials of integers, for every length and swing.
- `TimesAreKept`: `KeepsTime`, for any number of wraps. `CycleInv` gives the read with number `n` of a cycle the clock of
  `n` to `n * MaxPass` after the cycle's start, modulo the clock; without such a bound on both sides a cycle that went
  round the clock would look short.

`RunLogProofs` (assumption `CounterAssumption`; of its parts `MaxBoots < ByteMod * ByteMod` is needed, since the numbers come
round after 65535 power-ups and two runs then do share one):

- `RunInvariant`, `TypeCorrect`, `RunsApart` (the run's `RunsDistinguished`). The invariant `RunInv`: lines stand in
  the order of the power-ups that wrote them (`OrderInv`); the number of an earlier run lies
  behind the counter, on the cycle of numbers without the blank value, by at most one step per power-up since, and
  further the earlier the run (`CounterInv`, as long as no power loss fell between the two bytes); a logging run has
  its section (`SectionInv`).
- `KeepsItsPromise`: the refinement `KeepsPromise`. Each step of `RunLog` is a step of `RunFile` or changes nothing of it.
  A row without a number belongs to the run by where it stands: in its section or, once a card operation has failed, where
  no line has the run's number yet or the last number in the file is the run's.

`SdFatProofs` (assumption `GeometryAssumption`: a card has clusters, a cluster blocks, a block room for more than a
print; `NoName`, which stands for the contents of an absent file, is the contents of none):

- `FilesApart`: `ChainsApart`, and `TypeCorrect`, for any accesses that fail and any losses of power, up to a `remove()` cut
  short (`gone`) or a print on a handle that a failed one left ahead of its position (`broken`: what `SdRetry` shows, and
  what the sketches do, which print on); of what comes after either, nothing is claimed. `FatInv` is about two
  FATs and two directories, those on the card (`CardChains`) and those seen through the cache (`SeenChains`), because each
  write of a block turns the first into the second and a loss of power the second into the first. In each, no cluster
  points at a free one and no two at the same (`Linked`), and each entry is alone at the head of a chain that leads as
  far as its size needs (`Entries`); the seen directory is taken as it will be once the open file is closed, and the
  entry as written may lag behind (`EntryInv`). The rest says what makes the next write keep this: where in its
  chain the open file is, at least (`CursorInv`, `SeekInv`), that a cluster marked and not yet linked belongs to nobody
  (`NewClusterInv`), that what `remove()` frees next is a head that no entry else names (`FreedInv`), and that an
  entry over freed clusters is what the cache writes next (`RemovalInv`). Invariant and types need each other: that
  `file.cur` is a cluster at all follows from the chains. `Chain`, a recursive function, appears only in the last
  step, where its values are shown to be the steps along the FAT; a path from a head passes no cluster twice, so
  a chain that leads `n` clusters on has `n + 1`.
- `KeepsItsFiles`: `KeepsFiles`, that the library implements `CardFile`, under the same troubles. While no failure has
  damaged files, `KeepInv` holds on top of `FatInv`: what of the print under way is stored stands behind the end of the
  file, unit by unit (`PendingInv`); the handle is in its chain where its position says, and exactly there, unless an
  earlier call failed (`ExactInv`); what the cache has yet to write is no unit that an entry on the card counts
  (`AgreeInv`); the entry is behind the handle only while `close()` has it to write (`HandleInv`). `Contents` is
  compared by what `Holds` says of single units: a unit is in the cluster that `Leads` gives, so a FAT write that cuts no
  chain, or a block of data that is no file's, leaves the contents of every file (`ContentsKept`); the last block of a
  print makes them longer by it (`ContentsLonger`). Each step is then one of `Saves`, `Creates`, `Extends`, `Empties`,
  `Erases` and `Forgets`, the steps of `CardFile` (`StepKept`, `StepsAre`). That a loss of power may take a file back to
  what the card has of it, and no further, rests on `CardView` never changing but by a write of the directory.
- `LittleIsLost`: `LostChains`. A chain is `Lost` when no entry of a file that holds something names its head; what a
  call has in hand (`Pending`: the cluster it links or frees next, the first cluster of a file it prints its first
  units to) is not lost yet. `LostInv` counts both FATs (`LostBound`): as the program sees it at most two chains per
  trouble are lost, and on the card two more, because the next loss of power leaves what a call has in hand to
  nobody. A step loses nothing when every new head is in hand, and what is let go is owned or no head any more
  (`LostMove`). Two things are needed besides: that a `remove()` which clears the entry has freed its first cluster
  (`FreedFirst`), and that a print which finds the card full holds no first cluster it took (`FullCardLoses`). The
  second is where a print being shorter than a block counts (`Fitting`): a longer one could take the first cluster of
  a new file, fill it, find no second, and leave a file of size 0 whose chain `remove()` does not free.
- `ClosedFilesAreSaved`: `ClosedIsSaved`, whatever calls and power losses came before. On top of `FatInv` and `KeepInv`
  it needs only that no call which leaves no file open leaves a dirty block behind (`IdleInv`).

`Dxl2LinkProofs` (assumption `LinkAssumption`: payloads are bytes, no longer than any buffer,
and with their stuffing short enough for the length field):

- `TypeCorrect`: over any bytes, lost or late, the parser never collects more than the length field announced, and its
  CRC, computed by the shifts of `update_dxl_crc()`, is a 16-bit word.
- `CallsStayInStep`: `InStep`. With nothing lost, late, too long or stuffed inside, each read succeeds with the servo's
  value. The invariant says that the parser behind the first `k` bytes of an answer is `At(p, k)`, a table with one
  line per field of the packet; a lemma per field shows that `Parse` goes from each line to the next, the CRC and
  the stuffing of the sender included. Stuffing and CRC are recursive functions; induction over them goes by the
  library's theorem that `<` is well founded on `Nat`, used as a fact about sets, for which no operator has to be
  instantiated.
- `ParametersFit`: `WithinBuffer`. `FitsInv`: while parameters come, the length of the packet is no more than the capacity
  it was held against (`checked`), and the parser stores behind what it has, never beyond that length (`StoredAt`, with
  `Roomy` of the types). So a byte behind the buffer takes a packet under way from a call with a larger one; the calls
  of one buffer size, or a parser between packets, are safe whatever the bytes.

`DxlGroupProofs` (assumption `GroupAssumption`):

- `ResentPacketIsOwn`: `OwnPacket`, for any servos, infos and lists. The condition in the code looks only at a flag and at
  the last instruction; when this is enough is the invariant `GroupInv`: `BufferInv` says that a completed, unmarked info
  with a buffer of its own has its packet there, and one on the master's buffer has it there when `inst_idx` is its
  instruction and it is not `disturbed`. Disturbed are the infos of the same instruction when a packet is built in the
  master's buffer, or in an own buffer while `inst_idx` is another, which makes the code believe again what was
  overwritten; and all of them after `setPacketBuffer()`. For a disturbed and unmarked info nothing is claimed, and TLC
  finds the wrong packet without this premise.
- `TypeCorrect`, `CallsStayInStep`: `InStep`. `CallInv` says what a call has taken, `FlowInv` that what is on the wire
  and in the UART while in step is what the call still waits for, in its order; and that a broadcast ping which ran out
  its time leaves neither.

`SlaveProofs` (assumption `SlaveAssumption`: sizes and bytes are what they are in the code):

- `TypeCorrect`: items keep their size and place; the protocol is 1 or 2, and the id never the broadcast id.
- `ItemsApart`: two items overlap only when the later was laid around the earlier, for every order of additions.
- `AlwaysReachable`: `StaysReachable`, for every packet and callback: the one step that makes a slave deaf to its own id
  goes from protocol 1 to protocol 2 and ends with the id 253, which protocol 2 does not have. Nothing in the code
  prevents it. The proof needs the types and that the default items do not move.
- `WrittenIsRead`: `ReadBack`. `HostInv`: what the host takes an item to be is what the item is, while no other item
  lies over it; a refused write of several items and the sketch's own writing make the host forget it.

Only model-checked: liveness (`SequenceRuns`, `HeldPushStops`, `ServosComeToRest`, `CallsReturn`: out of the
prover's reach); of `DxlLink` its `TypeOK` and `BackInStep`; of `Dxl2Link` `BackInStep` and `Genuine`. Both depend on
which byte strings share a CRC and are claimed of the payloads of the run only.

## 5. Not modelled

- DYNAMIXEL host: `fastSyncRead()` and its parser, which no sketch calls; `regWrite()`, `action()`, `reboot()`,
  `factoryReset()` and `clear()`, which are further calls of one servo; the older sync and bulk calls with parameter
  structures, which build their packet every time; unit conversions.
- SD: reading, subdirectories and the growth of a directory, writes of a whole block past the cache, more than one
  open file, `Sd2Card` (the SPI protocol of the card).
- `dxlCoordLog.ino`: its run counter and file are `RunLog` with `checksOpens = FALSE`, its log cycle is `GaitLogger`
  with three servos of three fields; the positions it commands, a sine and copies of what was read, are not modelled.
- The bench sketches: one input mapped to one output per pass.
- The device libraries (Adafruit displays and sensors, WiFi101, SoftPWM, ezButton, ...): most of the lines under
  `libraries/` by far, third-party code of other devices that takes no part in the robot's behaviour. They are why
  the share of all lines that the project covers stays small.
- `EEPROM`, `TimerOne`, `HardwareSerial` and the servos are not in the repository; they are modelled from how the
  code uses them.

## 6. Plan

1. Proofs: the types of `DxlLink`.
2. `SdFat`: reading, a directory that grows, two open files.
3. Composition of `Dxl2Link` with `Slave` as the one that answers.
4. `DxlGroup`: `regWrite()` and `action()`, which keep state in the servo.
