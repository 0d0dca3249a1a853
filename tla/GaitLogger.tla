----------------------------- MODULE GaitLogger -----------------------------
(***************************************************************************)
(* The servo-reading log machine of the gait sketches (updateLogging() and *)
(* logRow()).  A log cycle reads one register of one servo per loop pass,  *)
(* over the same half-duplex bus the gait writes to, and completes one row *)
(* once every register has been read.                                      *)
(*                                                                         *)
(* Times are values of millis(), an unsigned counter modulo ClockMod.  A   *)
(* register read is recorded by the clock value of the pass that made it;  *)
(* the number it returned (0 when the servo did not answer) is not told    *)
(* apart here.                                                             *)
(***************************************************************************)
EXTENDS Integers

CONSTANTS
  NServos,      (* length of ALL_MOTOR_IDS                                  *)
  NFields,      (* FIELD_COUNT, the registers read of each servo            *)
  LogInterval,  (* LOG_INTERVAL_MS                                          *)
  ClockMod,     (* 2^32 in the code                                         *)
  NoRow         (* no row has been completed yet                            *)

VARIABLES
  sdReady,             (* setupSD() succeeded                               *)
  loggingInProgress,
  logServoIndex,
  logFieldIndex,
  logCycleStartTime,
  lastLogTime,
  logBuffer,
  row                  (* the last completed row: the file only grows       *)

loggerVars == <<sdReady, loggingInProgress, logServoIndex, logFieldIndex,
                logCycleStartTime, lastLogTime, logBuffer, row>>

Time == 0 .. ClockMod - 1
Servos == 0 .. NServos - 1
Fields == 0 .. NFields - 1

(* A row has the timestamp column ts and the samples; the other members     *)
(* are bookkeeping: the passes that started and wrote it, and whether       *)
(* SD.open() succeeded, without which the row is dropped silently.          *)
Row == [start : Time, at : Time, ts : Time, stored : BOOLEAN,
        samples : [Servos -> [Fields -> Time]]]

ASSUME LoggerAssumption ==
  /\ NServos \in Nat \ {0}
  /\ NFields \in Nat \ {0}
  /\ LogInterval \in Nat
  /\ ClockMod \in Nat \ {0}
  /\ NoRow \notin Row

LoggerTypeOK ==
  /\ sdReady \in BOOLEAN
  /\ loggingInProgress \in BOOLEAN
  /\ logServoIndex \in 0 .. NServos
  /\ logFieldIndex \in Fields
  /\ logCycleStartTime \in Time
  /\ lastLogTime \in Time
  /\ logBuffer \in [Servos -> [Fields -> Time]]
  /\ row \in Row \cup {NoRow}

(* The next read is inside ALL_MOTOR_IDS and logBuffer, also when the       *)
(* logging phase was cut short in the middle of a cycle and resumes later.  *)
ReadsInBounds == loggingInProgress => logServoIndex \in Servos

(* a - b on unsigned longs.                                                 *)
Minus(a, b) == IF a >= b THEN a - b ELSE a - b + ClockMod

(* The globals are zero-initialised: zero is the clock value at reset.      *)
InitLogger(reset) ==
  /\ sdReady \in BOOLEAN
  /\ loggingInProgress = FALSE
  /\ logServoIndex = 0
  /\ logFieldIndex = 0
  /\ logCycleStartTime = reset
  /\ lastLogTime = reset
  /\ logBuffer = [s \in Servos |-> [f \in Fields |-> reset]]
  /\ row = NoRow
-----------------------------------------------------------------------------
(* Variants of the operations below, each with a plausible slip; no         *)
(* specification uses them.                                                 *)
LogRowAtWrite(now, runStart) ==
  \E stored \in BOOLEAN :
    row' = [start |-> logCycleStartTime', at |-> now, ts |-> Minus(now, runStart),
            stored |-> stored, samples |-> logBuffer']

(* logRow(): the timestamp is that of the cycle's start, everything else    *)
(* is taken at the pass that completes the cycle.                           *)
LogRow(now, runStart) ==
  \E stored \in BOOLEAN :
    row' = [start |-> logCycleStartTime', at |-> now,
            ts |-> Minus(logCycleStartTime', runStart),
            stored |-> stored, samples |-> logBuffer']

(* ">" for ">=" against FIELD_COUNT.                                        *)
ReadFieldOffByOne(now, s, f, runStart) ==
  /\ logBuffer' = [logBuffer EXCEPT ![s][f] = now]
  /\ IF f + 1 > NFields
     THEN logFieldIndex' = 0 /\ logServoIndex' = s + 1
     ELSE logFieldIndex' = f + 1 /\ logServoIndex' = s
  /\ IF logServoIndex' >= NServos
     THEN loggingInProgress' = FALSE /\ LogRow(now, runStart)
     ELSE loggingInProgress' = TRUE /\ UNCHANGED row

(* One register read, then the advance of the two indices.                  *)
ReadField(now, s, f, runStart) ==
  /\ logBuffer' = [logBuffer EXCEPT ![s][f] = now]
  /\ IF f + 1 >= NFields
     THEN logFieldIndex' = 0 /\ logServoIndex' = s + 1
     ELSE logFieldIndex' = f + 1 /\ logServoIndex' = s
  /\ IF logServoIndex' >= NServos
     THEN loggingInProgress' = FALSE /\ LogRow(now, runStart)
     ELSE loggingInProgress' = TRUE /\ UNCHANGED row

CycleDue(now) == ~loggingInProgress /\ Minus(now, lastLogTime) >= LogInterval

StartCycle(now, runStart) ==
  /\ CycleDue(now)
  /\ logCycleStartTime' = now
  /\ lastLogTime' = now
  /\ ReadField(now, 0, 0, runStart)

(* The servo index reset on every pass.                                     *)
ContinueCycleReset(now, runStart) ==
  /\ loggingInProgress
  /\ UNCHANGED <<logCycleStartTime, lastLogTime>>
  /\ ReadField(now, 0, logFieldIndex, runStart)

ContinueCycle(now, runStart) ==
  /\ loggingInProgress
  /\ UNCHANGED <<logCycleStartTime, lastLogTime>>
  /\ ReadField(now, logServoIndex, logFieldIndex, runStart)

(* updateLogging(), called once per loop pass with the pass's millis().     *)
UpdateLogging(now, runStart) ==
  \/ sdReady /\ UNCHANGED sdReady /\ StartCycle(now, runStart)
  \/ sdReady /\ UNCHANGED sdReady /\ ContinueCycle(now, runStart)
  \/ /\ ~sdReady \/ ~(loggingInProgress \/ CycleDue(now))
     /\ UNCHANGED loggerVars
=============================================================================
