--------------------------- MODULE TimedGaitProofs ---------------------------
(***************************************************************************)
(* What holds of TimedGait for every value of its constants.               *)
(***************************************************************************)
EXTENDS TimedGait, TLAPS

LEMMA MinusType == \A a, b \in Time : Minus(a, b) \in Time
  BY LoggerAssumption DEF Minus, Time

(* A register read keeps the logger well typed.                             *)
LEMMA ReadFieldType ==
  ASSUME LoggerTypeOK, NEW now \in Time, NEW s \in Servos, NEW f \in Fields,
         NEW runStart \in Time, logCycleStartTime' \in Time, lastLogTime' \in Time,
         sdReady' = sdReady, ReadField(now, s, f, runStart)
  PROVE  LoggerTypeOK' /\ ReadsInBounds'
<1>1. logBuffer' \in [Servos -> [Fields -> Time]]
  BY DEF ReadField, LoggerTypeOK
<1>2. /\ logServoIndex' \in 0 .. NServos /\ logFieldIndex' \in Fields
      /\ loggingInProgress' \in BOOLEAN /\ ReadsInBounds'
  <2>1. /\ logServoIndex' \in 0 .. NServos /\ logFieldIndex' \in Fields
    BY LoggerAssumption DEF ReadField, Servos, Fields
  <2>2. CASE logServoIndex' >= NServos
    BY <2>1, <2>2 DEF ReadField, ReadsInBounds
  <2>3. CASE ~(logServoIndex' >= NServos)
    <3>1. logServoIndex' \in Servos
      BY <2>1, <2>3, LoggerAssumption DEF Servos
    <3>2. loggingInProgress' = TRUE
      BY <2>3 DEF ReadField
    <3>3. QED
      BY <2>1, <3>1, <3>2 DEF ReadsInBounds
  <2>4. QED
    BY <2>2, <2>3
<1>3. row' \in Row \cup {NoRow}
  <2>1. CASE row' = row
    BY <2>1 DEF LoggerTypeOK
  <2>2. CASE LogRow(now, runStart)
    <3>1. PICK stored \in BOOLEAN :
            row' = [start |-> logCycleStartTime', at |-> now,
                    ts |-> Minus(logCycleStartTime', runStart),
                    stored |-> stored, samples |-> logBuffer']
      BY <2>2 DEF LogRow
    <3>2. Minus(logCycleStartTime', runStart) \in Time
      BY MinusType
    <3>3. QED
      BY <1>1, <3>1, <3>2 DEF Row
  <2>3. QED
    BY <2>1, <2>2 DEF ReadField
<1>4. QED
  BY <1>1, <1>2, <1>3 DEF LoggerTypeOK

LEMMA UpdateLoggingType ==
  ASSUME LoggerTypeOK, ReadsInBounds, NEW now \in Time, NEW runStart \in Time,
         UpdateLogging(now, runStart)
  PROVE  LoggerTypeOK' /\ ReadsInBounds'
<1>1. CASE sdReady /\ UNCHANGED sdReady /\ StartCycle(now, runStart)
  <2>1. 0 \in Servos /\ 0 \in Fields
    BY LoggerAssumption DEF Servos, Fields
  <2>2. QED
    BY <1>1, <2>1, ReadFieldType DEF StartCycle
<1>2. CASE sdReady /\ UNCHANGED sdReady /\ ContinueCycle(now, runStart)
  <2>1. /\ logServoIndex \in Servos /\ logFieldIndex \in Fields
        /\ logCycleStartTime' \in Time /\ lastLogTime' \in Time
    BY <1>2 DEF ContinueCycle, ReadsInBounds, LoggerTypeOK
  <2>2. ReadField(now, logServoIndex, logFieldIndex, runStart)
    BY <1>2 DEF ContinueCycle
  <2>3. QED
    BY <1>2, <2>1, <2>2, ReadFieldType
<1>3. CASE UNCHANGED loggerVars
  BY <1>3 DEF loggerVars, LoggerTypeOK, ReadsInBounds
<1>4. QED
  BY <1>1, <1>2, <1>3 DEF UpdateLogging

(* The inductive part of the type invariant: a cycle in progress has a      *)
(* register left to read, so the indices stay inside the buffer.            *)
TypeInv == TypeOK /\ ReadsInBounds

LEMMA EaseTypes ==
  ASSUME NEW from \in Pose, NEW t \in Int
  PROVE  /\ HomeEased(from, t) \in Pose
         /\ \A g \in Gaits : GaitEased(from, g, t) \in Pose
  BY DEF HomeEased, GaitEased, Ease, Pose, BodyShapes, FinShapes, HomePose, GaitPose

(* Type correctness, and no read outside ALL_MOTOR_IDS and logBuffer: the   *)
(* indices of updateLogging() are in range also when the motor window       *)
(* closed in the middle of a cycle and the cycle is taken up again.         *)
THEOREM TypeCorrect == Spec => [](TypeOK /\ ReadsInBounds)
<1>1. Init => TypeInv
  <2> SUFFICES ASSUME Init PROVE TypeInv
    OBVIOUS
  <2>1. 0 \in Time /\ ClockMod - SetupTime \in Time /\ 0 \in 0 .. MaxPass
    BY LoggerAssumption, SequenceAssumption DEF Time
  <2>2. LoggerTypeOK
    <3>1. PICK reset \in Time : InitLogger(reset)
      BY <2>1 DEF Init
    <3>2. logBuffer \in [Servos -> [Fields -> Time]]
      BY <3>1 DEF InitLogger
    <3>3. /\ logServoIndex \in 0 .. NServos /\ logFieldIndex \in Fields
          /\ logCycleStartTime \in Time /\ lastLogTime \in Time
      BY <3>1, LoggerAssumption DEF InitLogger, Fields
    <3>4. QED
      BY <3>1, <3>2, <3>3 DEF InitLogger, LoggerTypeOK
  <2>3. ReadsInBounds
    BY DEF Init, InitLogger, ReadsInBounds
  <2>4. HomePose \in Pose /\ 0 \in Gaits
    BY DEF HomePose, Pose, BodyShapes, FinShapes, Gaits
  <2>5. TypeOK
    BY <2>1, <2>2, <2>4 DEF Init, TypeOK
  <2>6. QED
    BY <2>3, <2>5 DEF TypeInv
<1>2. TypeInv /\ [Next]_vars => TypeInv'
  <2> SUFFICES ASSUME TypeInv, [Next]_vars PROVE TypeInv'
    OBVIOUS
  <2> USE DEF TypeInv
  <2>1. CASE Pass
    <3>1. /\ remaining' \in 0 .. MaxPass /\ cameraTriggerActive' \in BOOLEAN
          /\ elapsed' \in Time /\ firstLap' \in BOOLEAN /\ pulse' \in BOOLEAN
      BY <2>1, SequenceAssumption DEF Pass, TypeOK, CameraOn
    <3>2. CASE PreHomePass(elapsed)
      <4>1. preHomeStartTime' \in Time /\ preHomeSwitch' \in Pose
        BY <3>2 DEF PreHomePass, TypeOK
      <4>2. Minus(elapsed, preHomeStartTime') \in Int
        BY <4>1, MinusType DEF TypeOK, Time
      <4>3. lastCommanded' \in Pose
        BY <3>2, <4>1, <4>2, EaseTypes DEF PreHomePass
      <4>4. LoggerTypeOK' /\ ReadsInBounds'
        BY <3>2 DEF PreHomePass, loggerVars, LoggerTypeOK, ReadsInBounds, TypeOK
      <4>5. QED
        BY <3>1, <3>2, <4>1, <4>3, <4>4 DEF PreHomePass, gaitVars, TypeOK
    <3>3. CASE MotorPass(elapsed)
      <4>1. /\ gaitStartTime' \in Time /\ runStartMillis' \in Time
            /\ gaitIndex' \in Gaits /\ switchPose' \in Pose
        BY <3>3 DEF MotorPass, EnterGait, gaitVars, TypeOK, Gaits
      <4>2. Minus(elapsed, gaitStartTime') \in Int
        BY <4>1, MinusType DEF TypeOK, Time
      <4>3. lastCommanded' \in Pose
        BY <3>3, <4>1, <4>2, EaseTypes DEF MotorPass
      <4>4. LoggerTypeOK' /\ ReadsInBounds'
        BY <3>3, <4>1, UpdateLoggingType DEF MotorPass, TypeOK
      <4>5. QED
        BY <3>1, <3>3, <4>1, <4>3, <4>4 DEF MotorPass, TypeOK
    <3>4. CASE PostHomePass(elapsed)
      <4>1. postHomeStartTime' \in Time /\ postHomeSwitch' \in Pose
        BY <3>4 DEF PostHomePass, TypeOK
      <4>2. Minus(elapsed, postHomeStartTime') \in Int
        BY <4>1, MinusType DEF TypeOK, Time
      <4>3. lastCommanded' \in Pose
        BY <3>4, <4>1, <4>2, EaseTypes DEF PostHomePass
      <4>4. LoggerTypeOK' /\ ReadsInBounds'
        BY <3>4 DEF PostHomePass, loggerVars, LoggerTypeOK, ReadsInBounds, TypeOK
      <4>5. QED
        BY <3>1, <3>4, <4>1, <4>3, <4>4 DEF PostHomePass, gaitVars, TypeOK
    <3>5. CASE IdlePass(elapsed)
      BY <3>1, <3>5 DEF IdlePass, gaitVars, loggerVars, TypeOK, LoggerTypeOK, ReadsInBounds
    <3>6. QED
      BY <2>1, <3>2, <3>3, <3>4, <3>5 DEF Pass
  <2>2. CASE TimerTick
    <3>1. elapsed' \in Time /\ remaining' \in 0 .. MaxPass
      BY <2>2, SequenceAssumption, LoggerAssumption DEF TimerTick, TypeOK, Time
    <3>2. QED
      BY <2>2, <3>1 DEF TimerTick, TypeOK, LoggerTypeOK, ReadsInBounds,
                        preVars, postVars, gaitVars, loggerVars
  <2>3. CASE UNCHANGED vars
    BY <2>3 DEF vars, clockVars, TypeOK, LoggerTypeOK, ReadsInBounds,
                preVars, postVars, gaitVars, loggerVars
  <2>4. QED
    BY <2>1, <2>2, <2>3 DEF Next
<1>3. QED
  BY <1>1, <1>2, PTL DEF Spec, TypeInv
-----------------------------------------------------------------------------
(***************************************************************************)
(* The inductive invariant behind the camera and pose theorems.  It says    *)
(* how far the clock can run before the next pass looks at it again.        *)
(***************************************************************************)

(* While the flag is set the window is open or its last pass still runs;    *)
(* while it is clear, the window has not opened by the end of the pass, or  *)
(* is over.                                                                 *)
CameraInv ==
  /\ cameraTriggerActive =>
       CameraStart <= elapsed /\ elapsed + remaining < CameraStop + MaxPass
  /\ ~cameraTriggerActive =>
       elapsed + remaining < CameraStart + MaxPass \/ CameraStop <= elapsed
  /\ motorPhaseActive \/ postHomeActive => cameraTriggerActive

(* A gait that is still easing was entered recently.                        *)
GaitInv ==
  motorPhaseActive =>
    /\ MotorStart <= gaitStartTime /\ gaitStartTime <= elapsed
    /\ lastCommanded.body # GaitPose(gaitIndex).body =>
         elapsed + remaining < gaitStartTime + BodyEase + MaxPass
    /\ lastCommanded.fins # GaitPose(gaitIndex).fins =>
         elapsed + remaining < gaitStartTime + FinDelayOf(gaitIndex) + FinEase + MaxPass

(* The post-home ease started inside its window.                            *)
PostHomeInv ==
  postHomeActive => MotorStop <= postHomeStartTime /\ postHomeStartTime <= elapsed

(* "post-home ease finishes exactly here" (t = SEQ_CAMERA_STOP_MS), says    *)
(* the table of times (dxl_gait_timed.ino:134, and :145 of its length).     *)
(* The code does not: no pass inside the window reaches the end of its      *)
(* ease, so the pose commanded last is never the home pose.                 *)
PostHomeFallsShort ==
  postHomeActive /\ postHomeSwitch # HomePose => lastCommanded # HomePose

SequenceInv == CameraInv /\ PulseTrain /\ GaitInv /\ PostHomeInv /\ PostHomeFallsShort

LEMMA Schedule ==
  /\ CameraStart \in Nat /\ MotorStart \in Nat /\ MotorStop \in Nat /\ CameraStop \in Nat
  /\ CameraStart <= MotorStart /\ MotorStart <= MotorStop /\ MotorStop <= CameraStop
  /\ MotorStart = CameraStart + HomeEase /\ CameraStop = MotorStop + HomeEase
  /\ MaxPass \in Nat \ {0} /\ ClockMod \in Nat /\ CameraStop + MaxPass < ClockMod
  /\ HomeEase \in Nat \ {0} /\ BodyEase \in Nat \ {0} /\ FinEase \in Nat \ {0}
  /\ FinDelay \in Nat
  BY SequenceAssumption, LoggerAssumption DEF MotorStart, MotorStop, CameraStop

(* The three steps of arithmetic the lemmas below take.                     *)
LEMMA SumBound == \A a, b, c, m \in Int : a < c /\ b <= m => a + b < c + m
  OBVIOUS

LEMMA SumDifference == \A a, b, c \in Int : a - b < c => a < b + c
  OBVIOUS

LEMMA DifferenceBound == \A a, b, c, d \in Int : c <= b /\ a < c + d => a - b < d
  OBVIOUS

(* An ease arrives when length ticks have passed, and not before, unless it *)
(* had nowhere to go.                                                       *)
LEMMA EaseArrives ==
  ASSUME NEW from, NEW to, NEW t \in Int, NEW length \in Nat \ {0},
         Ease(from, to, t, length) # to
  PROVE  t < length
  BY DEF Ease

LEMMA EaseFallsShort ==
  ASSUME NEW from, NEW to, NEW t \in Int, NEW length \in Nat, t < length,
         from # to, to # "between"
  PROVE  Ease(from, to, t, length) # to
  BY DEF Ease

LEMMA HomeNotReached ==
  ASSUME NEW from \in Pose, from # HomePose, NEW t \in Int, t < HomeEase
  PROVE  HomeEased(from, t) # HomePose
<1>1. from.body # HomePose.body \/ from.fins # HomePose.fins
  BY DEF Pose, HomePose
<1>2. /\ HomePose.body # "between" /\ HomePose.fins # "between"
      /\ HomeEase \in Nat
  BY SequenceAssumption DEF HomePose
<1>3. \/ HomeEased(from, t).body # HomePose.body
      \/ HomeEased(from, t).fins # HomePose.fins
  BY <1>1, <1>2, EaseFallsShort DEF HomeEased
<1>4. QED
  BY <1>3

LEMMA PassCamera ==
  ASSUME TypeOK, SequenceInv, Pass
  PROVE  CameraInv' /\ PulseTrain'
<1>1. /\ elapsed \in Nat /\ remaining' \in Nat /\ remaining' <= MaxPass
      /\ elapsed' \in Nat /\ elapsed' = elapsed /\ pulse' = pulse
  BY SequenceAssumption DEF Pass, TypeOK, Time
<1>2. cameraTriggerActive' = CameraOn(elapsed)
  BY DEF Pass
<1>3. motorPhaseActive' \/ postHomeActive' => CameraOn(elapsed)
  BY Schedule, <1>1 DEF Pass, PreHomePass, MotorPass, PostHomePass, IdlePass,
     InMotorWindow, InPostHomeWindow, CameraOn
<1>4. PulseTrain'
  BY <1>1 DEF SequenceInv, PulseTrain
<1>5. /\ CameraStart \in Int /\ CameraStop \in Int /\ CameraStart <= CameraStop
      /\ MaxPass \in Int /\ elapsed' \in Int /\ remaining' \in Int
  BY <1>1, Schedule
<1>6. CASE CameraOn(elapsed)
  <2>1. CameraStart <= elapsed' /\ elapsed' < CameraStop
    BY <1>1, <1>6 DEF CameraOn
  <2>2. elapsed' + remaining' < CameraStop + MaxPass
    BY <1>1, <1>5, <2>1, SumBound
  <2>3. cameraTriggerActive'
    BY <1>2, <1>6
  <2>4. QED
    BY <1>4, <2>1, <2>2, <2>3 DEF CameraInv
<1>7. CASE ~CameraOn(elapsed)
  <2>1. elapsed' < CameraStart \/ CameraStop <= elapsed'
    BY <1>1, <1>5, <1>7 DEF CameraOn
  <2>2. elapsed' + remaining' < CameraStart + MaxPass \/ CameraStop <= elapsed'
    BY <1>1, <1>5, <2>1, SumBound
  <2>3. ~cameraTriggerActive' /\ ~motorPhaseActive' /\ ~postHomeActive'
    BY <1>2, <1>3, <1>7
  <2>4. QED
    BY <1>4, <2>2, <2>3 DEF CameraInv
<1>8. QED
  BY <1>6, <1>7

LEMMA PassGait ==
  ASSUME TypeOK, TypeOK', SequenceInv, Pass
  PROVE  GaitInv'
<1> SUFFICES ASSUME motorPhaseActive' PROVE GaitInv'
  BY DEF GaitInv
<1>1. MotorPass(elapsed) /\ InMotorWindow(elapsed)
  BY DEF Pass, PreHomePass, MotorPass, PostHomePass, IdlePass
<1>2. /\ elapsed \in Nat /\ remaining = 0 /\ remaining' \in Nat /\ remaining' <= MaxPass
      /\ elapsed' = elapsed /\ MotorStart <= elapsed /\ gaitStartTime' \in Nat
      /\ gaitIndex' \in Gaits /\ switchPose' \in Pose
  BY <1>1, SequenceAssumption, Schedule DEF Pass, TypeOK, Time, InMotorWindow
<1>3. MotorStart <= gaitStartTime' /\ gaitStartTime' <= elapsed
  BY <1>1, <1>2 DEF MotorPass, EnterGait, gaitVars, SequenceInv, GaitInv
<1>4. lastCommanded' = GaitEased(switchPose', gaitIndex', elapsed - gaitStartTime')
  BY <1>1, <1>2, <1>3 DEF MotorPass, Minus
<1>5. ASSUME lastCommanded'.body # GaitPose(gaitIndex').body
      PROVE  elapsed' + remaining' < gaitStartTime' + BodyEase + MaxPass
  <2>1. lastCommanded'.body = Ease(switchPose'.body, GaitPose(gaitIndex').body,
                                   elapsed - gaitStartTime', BodyEase)
    BY <1>4 DEF GaitEased
  <2>2. BodyEase \in Nat \ {0} /\ MaxPass \in Nat
    BY Schedule
  <2>3. elapsed - gaitStartTime' \in Int /\ elapsed' \in Nat
    BY <1>2
  <2>4. elapsed - gaitStartTime' < BodyEase
    BY <1>5, <2>1, <2>2, <2>3, EaseArrives
  <2>5. /\ elapsed \in Int /\ gaitStartTime' \in Int /\ BodyEase \in Int
        /\ elapsed' \in Int /\ remaining' \in Int /\ MaxPass \in Int
        /\ gaitStartTime' + BodyEase \in Int
    BY <1>2, <2>2
  <2>6. elapsed < gaitStartTime' + BodyEase
    BY <2>4, <2>5, SumDifference
  <2>7. QED
    BY <1>2, <2>5, <2>6, SumBound
<1>6. ASSUME lastCommanded'.fins # GaitPose(gaitIndex').fins
      PROVE  elapsed' + remaining' <
               gaitStartTime' + FinDelayOf(gaitIndex') + FinEase + MaxPass
  <2>1. FinDelayOf(gaitIndex') \in Nat
    BY Schedule DEF FinDelayOf
  <2>2. lastCommanded'.fins = Ease(switchPose'.fins, GaitPose(gaitIndex').fins,
                                   elapsed - gaitStartTime' - FinDelayOf(gaitIndex'), FinEase)
    BY <1>4 DEF GaitEased
  <2>3. FinEase \in Nat \ {0} /\ MaxPass \in Nat
    BY Schedule
  <2>4. elapsed - gaitStartTime' - FinDelayOf(gaitIndex') < FinEase
    BY <1>2, <1>6, <2>1, <2>2, <2>3, EaseArrives
  <2>5. QED
    BY <1>2, <2>1, <2>3, <2>4
<1>7. QED
  BY <1>2, <1>3, <1>5, <1>6 DEF GaitInv

LEMMA PassPostHome ==
  ASSUME TypeOK, TypeOK', SequenceInv, Pass
  PROVE  PostHomeInv' /\ PostHomeFallsShort'
<1> SUFFICES ASSUME postHomeActive' PROVE PostHomeInv' /\ PostHomeFallsShort'
  BY DEF PostHomeInv, PostHomeFallsShort
<1>1. PostHomePass(elapsed) /\ InPostHomeWindow(elapsed)
  BY DEF Pass, PreHomePass, MotorPass, PostHomePass, IdlePass
<1>2. /\ elapsed \in Nat /\ elapsed' = elapsed /\ postHomeStartTime' \in Nat
      /\ MotorStop <= elapsed /\ elapsed < CameraStop /\ postHomeSwitch' \in Pose
  BY <1>1, Schedule DEF Pass, TypeOK, Time, InPostHomeWindow
<1>3. MotorStop <= postHomeStartTime' /\ postHomeStartTime' <= elapsed
  BY <1>1, <1>2 DEF PostHomePass, SequenceInv, PostHomeInv
<1>4. lastCommanded' = HomeEased(postHomeSwitch', elapsed - postHomeStartTime')
  BY <1>1, <1>2, <1>3 DEF PostHomePass, Minus
<1>5. elapsed - postHomeStartTime' < HomeEase
  <2>1. /\ MotorStop \in Nat /\ CameraStop \in Nat /\ HomeEase \in Nat
        /\ CameraStop = MotorStop + HomeEase
    BY Schedule
  <2>2. /\ elapsed \in Int /\ postHomeStartTime' \in Int /\ MotorStop \in Int
        /\ HomeEase \in Int
    BY <1>2, <2>1
  <2>3. QED
    BY <1>2, <1>3, <2>1, <2>2, DifferenceBound
<1>6. PostHomeFallsShort'
  BY <1>2, <1>4, <1>5, HomeNotReached DEF PostHomeFallsShort
<1>7. QED
  BY <1>2, <1>3, <1>6 DEF PostHomeInv

LEMMA TickPreserves ==
  ASSUME TypeOK, SequenceInv, TimerTick
  PROVE  SequenceInv'
<1>1. /\ elapsed \in Nat /\ remaining \in Nat /\ remaining > 0 /\ elapsed < ClockMod
      /\ remaining <= MaxPass /\ remaining' = remaining - 1
      /\ gaitStartTime \in Nat /\ postHomeStartTime \in Nat
  BY SequenceAssumption, Schedule DEF TimerTick, TypeOK, Time
<1>2. UNCHANGED <<cameraTriggerActive, motorPhaseActive, postHomeActive, gaitIndex,
                  gaitStartTime, lastCommanded, postHomeStartTime, postHomeSwitch>>
  BY DEF TimerTick, gaitVars, postVars
<1>3. CASE elapsed + 1 = ClockMod
  <2>1. elapsed' = 0 /\ ~cameraTriggerActive
    BY <1>1, <1>3, Schedule DEF TimerTick, SequenceInv, CameraInv
  <2>2. ~motorPhaseActive /\ ~postHomeActive /\ pulse' = FALSE
    BY <2>1 DEF SequenceInv, CameraInv, TimerTick, TypeOK
  <2>3. elapsed' + remaining' < CameraStart + MaxPass
    BY <1>1, <2>1, Schedule
  <2>4. PulseTrain'
    BY <2>1, <2>2, Schedule DEF PulseTrain
  <2>5. QED
    BY <1>2, <2>1, <2>2, <2>3, <2>4
       DEF SequenceInv, CameraInv, GaitInv, PostHomeInv, PostHomeFallsShort
<1>4. CASE elapsed + 1 # ClockMod
  <2>1. elapsed' = elapsed + 1 /\ elapsed' + remaining' = elapsed + remaining
    BY <1>1, <1>4 DEF TimerTick
  <2>2. CameraInv'
    BY <1>1, <1>2, <2>1, Schedule DEF SequenceInv, CameraInv
  <2>3. PulseTrain'
    <3>1. pulse' = cameraTriggerActive
      BY DEF TimerTick
    <3>2. CASE cameraTriggerActive
      BY <1>1, <2>1, <3>1, <3>2, Schedule DEF SequenceInv, CameraInv, PulseTrain
    <3>3. CASE ~cameraTriggerActive
      BY <1>1, <2>1, <3>1, <3>3, Schedule DEF SequenceInv, CameraInv, PulseTrain
    <3>4. QED
      BY <3>2, <3>3
  <2>4. GaitInv'
    BY <1>1, <1>2, <2>1 DEF SequenceInv, GaitInv
  <2>5. PostHomeInv' /\ PostHomeFallsShort'
    BY <1>1, <1>2, <2>1 DEF SequenceInv, PostHomeInv, PostHomeFallsShort
  <2>6. QED
    BY <2>2, <2>3, <2>4, <2>5 DEF SequenceInv
<1>5. QED
  BY <1>3, <1>4

(* The invariant holds of every behaviour: the schedule of the camera, of   *)
(* the gaits and of the post-home ease as loop() carries it out.            *)
THEOREM SequenceCorrect == Spec => []SequenceInv
<1>1. Init => SequenceInv
  BY Schedule DEF Init, SequenceInv, CameraInv, PulseTrain, GaitInv, PostHomeInv,
     PostHomeFallsShort
<1>2. TypeOK /\ TypeOK' /\ SequenceInv /\ [Next]_vars => SequenceInv'
  <2> SUFFICES ASSUME TypeOK, TypeOK', SequenceInv, [Next]_vars PROVE SequenceInv'
    OBVIOUS
  <2>1. CASE Pass
    BY <2>1, PassCamera, PassGait, PassPostHome DEF SequenceInv
  <2>2. CASE TimerTick
    BY <2>2, TickPreserves
  <2>3. CASE UNCHANGED vars
    BY <2>3 DEF vars, clockVars, gaitVars, postVars, SequenceInv, CameraInv, PulseTrain,
                GaitInv, PostHomeInv, PostHomeFallsShort
  <2>4. QED
    BY <2>1, <2>2, <2>3 DEF Next
<1>3. QED
  BY <1>1, <1>2, TypeCorrect, PTL DEF Spec

(* The motors only run under a rolling camera, for every schedule and every *)
(* length of a pass: loop() decides both from the one clock value it reads. *)
THEOREM CameraAlwaysCovers == Spec => []CameraCoversMotors
<1>1. SequenceInv => CameraCoversMotors
  BY DEF SequenceInv, CameraInv, CameraCoversMotors
<1>2. QED
  BY <1>1, SequenceCorrect, PTL

(* The pulse train covers the camera window and nothing beyond one stalled  *)
(* pass, whatever loop() is doing when cameraTriggerPulse() runs.           *)
THEOREM PulsesAreSteady == Spec => []PulseTrain
<1>1. SequenceInv => PulseTrain
  BY DEF SequenceInv
<1>2. QED
  BY <1>1, SequenceCorrect, PTL

(* "post-home ease finishes exactly here" (dxl_gait_timed.ino:134), and     *)
(* "post-home ease ends, camera stops" (:145): it never does.  No choice of *)
(* HOME_EASE_MS or pass length lets the post-home ease of loop() arrive:    *)
(* its last pass is always short of the home pose.                          *)
THEOREM PostHomeNeverArrives == Spec => []PostHomeFallsShort
<1>1. SequenceInv => PostHomeFallsShort
  BY DEF SequenceInv
<1>2. QED
  BY <1>1, SequenceCorrect, PTL

(* A gait that may hold its pose longer than a pass is never cut short.     *)
LEMMA GaitOverHeld ==
  ASSUME TypeOK, SequenceInv, ShortStalls, Pass, motorPhaseActive, motorPhaseActive',
         gaitIndex' # gaitIndex
  PROVE  lastCommanded = GaitPose(gaitIndex)
<1>1. MotorPass(elapsed) /\ remaining = 0
  BY DEF Pass, PreHomePass, MotorPass, PostHomePass, IdlePass
<1>2. GaitOver(elapsed)
  BY <1>1 DEF MotorPass, gaitVars
<1>3. /\ elapsed \in Int /\ gaitStartTime \in Int /\ gaitStartTime <= elapsed
      /\ gaitIndex \in Gaits /\ lastCommanded \in Pose
  BY DEF TypeOK, Time, SequenceInv, GaitInv
<1>4. Duration(gaitIndex) \in Int /\ gaitStartTime + Duration(gaitIndex) < elapsed
  BY <1>2, <1>3, SequenceAssumption DEF GaitOver, Minus, Duration
<1>5. /\ BodyEase \in Int /\ FinEase \in Int /\ MaxPass \in Int
      /\ FinDelayOf(gaitIndex) \in Int
  BY Schedule DEF FinDelayOf
<1>6. /\ BodyEase + MaxPass <= Duration(gaitIndex)
      /\ FinDelayOf(gaitIndex) + FinEase + MaxPass <= Duration(gaitIndex)
  BY <1>5 DEF ShortStalls, Duration, FinDelayOf
<1>7. lastCommanded.body = GaitPose(gaitIndex).body
  BY <1>1, <1>3, <1>4, <1>5, <1>6 DEF SequenceInv, GaitInv
<1>8. lastCommanded.fins = GaitPose(gaitIndex).fins
  BY <1>1, <1>3, <1>4, <1>5, <1>6 DEF SequenceInv, GaitInv
<1>9. QED
  BY <1>3, <1>7, <1>8 DEF Pose, GaitPose

(* Every transition finishes: when stalls are shorter than the time a pose  *)
(* is held, loop() leaves no gait before its whole pose was commanded.      *)
THEOREM TransitionsFinish == Spec => PoseHeldBeforeNext
<1>1. TypeOK /\ SequenceInv /\ [Next]_vars =>
        [ShortStalls /\ motorPhaseActive /\ motorPhaseActive' /\ gaitIndex' # gaitIndex
           => lastCommanded = GaitPose(gaitIndex)]_vars
  <2> SUFFICES ASSUME TypeOK, SequenceInv, [Next]_vars, ShortStalls,
                      motorPhaseActive, motorPhaseActive', gaitIndex' # gaitIndex
               PROVE  lastCommanded = GaitPose(gaitIndex)
    OBVIOUS
  <2>1. Pass
    BY DEF Next, TimerTick, gaitVars, vars
  <2>2. QED
    BY <2>1, GaitOverHeld
<1>2. QED
  BY <1>1, TypeCorrect, SequenceCorrect, PTL DEF Spec, PoseHeldBeforeNext
-----------------------------------------------------------------------------
(* In the first run the robot has not left home before the motor window:    *)
(* nothing but a gait moves it away, and the pre-home ease starts from home. *)
HomeInv ==
  firstLap =>
    \/ motorPhaseActive /\ MotorStart <= elapsed
    \/ MotorStop <= elapsed
    \/ lastCommanded = HomePose /\ (preHomeActive => preHomeSwitch = HomePose)

(* An ease from home to home stays there, at any time.                      *)
LEMMA HomeStays ==
  ASSUME NEW t \in Int
  PROVE  HomeEased(HomePose, t) = HomePose
BY Schedule DEF HomeEased, HomePose, Ease

LEMMA PassHome ==
  ASSUME TypeOK, HomeInv, Pass
  PROVE  HomeInv'
<1> SUFFICES ASSUME firstLap PROVE HomeInv'
  BY DEF HomeInv, Pass
<1>1. /\ elapsed' = elapsed /\ firstLap' = firstLap /\ elapsed \in Nat
      /\ MotorStart \in Nat /\ MotorStop \in Nat /\ CameraStop \in Nat
  BY Schedule DEF Pass, TypeOK, Time
<1>2. CASE PreHomePass(elapsed)
  <2>1. elapsed < MotorStart /\ elapsed < MotorStop
    BY <1>1, <1>2, Schedule DEF PreHomePass, InPreHomeWindow
  <2>2. lastCommanded = HomePose /\ (preHomeActive => preHomeSwitch = HomePose)
    BY <1>1, <2>1 DEF HomeInv
  <2>3. preHomeSwitch' = HomePose
    BY <1>2, <2>2 DEF PreHomePass
  <2>4. preHomeStartTime' \in Int /\ ClockMod \in Int
    BY <1>1, <1>2, LoggerAssumption DEF PreHomePass, TypeOK, Time
  <2>5. Minus(elapsed, preHomeStartTime') \in Int
    BY <1>1, <2>4 DEF Minus
  <2>6. lastCommanded' = HomePose
    BY <1>2, <2>3, <2>5, HomeStays DEF PreHomePass
  <2>7. QED
    BY <2>3, <2>6 DEF HomeInv
<1>3. CASE MotorPass(elapsed)
  BY <1>1, <1>3 DEF MotorPass, InMotorWindow, HomeInv
<1>4. CASE PostHomePass(elapsed)
  BY <1>1, <1>4 DEF PostHomePass, InPostHomeWindow, HomeInv
<1>5. CASE IdlePass(elapsed)
  <2>1. elapsed < CameraStart \/ CameraStop <= elapsed
    BY <1>1, <1>5, Schedule DEF IdlePass, CameraOn
  <2>2. CASE CameraStop <= elapsed
    BY <1>1, <2>2, Schedule DEF HomeInv
  <2>3. CASE elapsed < CameraStart
    <3>1. ~(MotorStart <= elapsed) /\ ~(MotorStop <= elapsed)
      BY <1>1, <2>3, Schedule
    <3>2. QED
      BY <1>5, <3>1 DEF HomeInv, IdlePass
  <2>4. QED
    BY <2>1, <2>2, <2>3
<1>6. QED
  BY <1>2, <1>3, <1>4, <1>5 DEF Pass

LEMMA TickHome ==
  ASSUME TypeOK, HomeInv, TimerTick
  PROVE  HomeInv'
<1> SUFFICES ASSUME firstLap' PROVE HomeInv'
  BY DEF HomeInv
<1>1. firstLap /\ elapsed' = elapsed + 1 /\ elapsed \in Nat
  <2>1. firstLap' = (firstLap /\ elapsed + 1 # ClockMod)
    BY DEF TimerTick
  <2>2. firstLap /\ elapsed + 1 # ClockMod
    BY <2>1
  <2>3. elapsed' = elapsed + 1
    BY <2>2 DEF TimerTick
  <2>4. elapsed \in Nat
    BY Schedule DEF TypeOK, Time
  <2>5. QED
    BY <2>2, <2>3, <2>4
<1>2. MotorStart \in Nat /\ MotorStop \in Nat
  BY Schedule
<1>3. UNCHANGED <<motorPhaseActive, lastCommanded, preHomeActive, preHomeSwitch>>
  BY DEF TimerTick, preVars
<1>4. QED
  BY <1>1, <1>2, <1>3 DEF HomeInv

(* A gait only starts inside its window, before MotorStop.                  *)
LEMMA StartsAtHome ==
  ASSUME TypeOK, HomeInv, Pass, firstLap, motorPhaseActive', ~motorPhaseActive
  PROVE  lastCommanded = HomePose
<1>1. InMotorWindow(elapsed)
  BY DEF Pass, PreHomePass, MotorPass, PostHomePass, IdlePass
<1>2. elapsed \in Nat /\ MotorStop \in Nat
  BY Schedule DEF TypeOK, Time
<1>3. QED
  BY <1>1, <1>2 DEF InMotorWindow, HomeInv

(* The first run's gait starts from the home pose for every schedule and    *)
(* pass length, also when one long pass of loop() skips the pre-home window. *)
THEOREM GaitStartsAtHome == Spec => HomeWhenGaitStarts
<1>1. Init => HomeInv
  BY DEF Init, HomeInv
<1>2. TypeOK /\ HomeInv /\ [Next]_vars => HomeInv'
  <2> SUFFICES ASSUME TypeOK, HomeInv, [Next]_vars PROVE HomeInv'
    OBVIOUS
  <2>1. CASE Pass
    BY <2>1, PassHome
  <2>2. CASE TimerTick
    BY <2>2, TickHome
  <2>3. CASE UNCHANGED vars
    BY <2>3 DEF vars, clockVars, preVars, HomeInv
  <2>4. QED
    BY <2>1, <2>2, <2>3 DEF Next
<1>3. TypeOK /\ HomeInv /\ [Next]_vars =>
        [firstLap /\ motorPhaseActive' /\ ~motorPhaseActive
           => lastCommanded = HomePose]_vars
  <2> SUFFICES ASSUME TypeOK, HomeInv, [Next]_vars,
                      firstLap, motorPhaseActive', ~motorPhaseActive
               PROVE  lastCommanded = HomePose
    OBVIOUS
  <2>1. Pass
    BY DEF Next, TimerTick, vars
  <2>2. QED
    BY <2>1, StartsAtHome
<1>4. QED
  BY <1>1, <1>2, <1>3, TypeCorrect, PTL DEF Spec, HomeWhenGaitStarts
-----------------------------------------------------------------------------
(* Until the first row of the first run: no cycle has begun before the      *)
(* motors, and the first one began in the pass that started them.           *)
FirstRowInv ==
  firstLap /\ DueAtOnce /\ sdReady /\ row = NoRow =>
    \/ /\ ~motorPhaseActive /\ ~loggingInProgress
       /\ lastLogTime = ClockMod - SetupTime
    \/ /\ loggingInProgress /\ logCycleStartTime = runStartMillis
       /\ motorPhaseActive \/ MotorStop <= elapsed

(* A register read leaves the cycle in progress or completes a row, which   *)
(* has the time from the run's start to the cycle's.                        *)
LEMMA ReadCompletes ==
  ASSUME TypeOK', NEW now \in Time, NEW s, NEW f, NEW runStart \in Time,
         ReadField(now, s, f, runStart)
  PROVE  \/ loggingInProgress' /\ row' = row
         \/ row' \in Row /\ row'.ts = Minus(logCycleStartTime', runStart)
<1>1. CASE loggingInProgress' = TRUE /\ UNCHANGED row
  BY <1>1
<1>2. CASE LogRow(now, runStart)
  <2>1. PICK stored \in BOOLEAN :
          row' = [start |-> logCycleStartTime', at |-> now,
                  ts |-> Minus(logCycleStartTime', runStart),
                  stored |-> stored, samples |-> logBuffer']
    BY <1>2 DEF LogRow
  <2>2. logCycleStartTime' \in Time /\ logBuffer' \in [Servos -> [Fields -> Time]]
    BY DEF TypeOK, LoggerTypeOK
  <2>3. Minus(logCycleStartTime', runStart) \in Time
    BY <2>2, MinusType
  <2>4. QED
    BY <2>1, <2>2, <2>3 DEF Row
<1>3. QED
  BY <1>1, <1>2 DEF ReadField

(* The first pass of the first motor window finds a cycle due.              *)
LEMMA FirstCycleDue ==
  ASSUME TypeOK, DueAtOnce, InMotorWindow(elapsed), ~loggingInProgress,
         lastLogTime = ClockMod - SetupTime
  PROVE  CycleDue(elapsed)
<1>1. /\ elapsed \in Nat /\ SetupTime \in Nat /\ ClockMod \in Nat /\ LogInterval \in Nat
      /\ MotorStart \in Nat /\ MotorStop \in Nat
  BY Schedule, SequenceAssumption, LoggerAssumption DEF TypeOK, Time
<1>2. /\ ~(elapsed >= ClockMod - SetupTime)
      /\ elapsed - (ClockMod - SetupTime) + ClockMod >= LogInterval
  BY <1>1 DEF DueAtOnce, InMotorWindow
<1>3. QED
  BY <1>2 DEF CycleDue, Minus

LEMMA NoTimeBetween == \A a \in Time : Minus(a, a) = 0
  BY DEF Minus, Time

(* A pass of the motor window keeps the invariant, and a first row it       *)
(* completes has the timestamp 0.                                           *)
LEMMA MotorFirstRow ==
  ASSUME TypeOK, TypeOK', FirstRowInv, MotorPass(elapsed), elapsed' = elapsed,
         firstLap, DueAtOnce, row = NoRow
  PROVE  /\ sdReady /\ row' = NoRow =>
              /\ loggingInProgress' /\ logCycleStartTime' = runStartMillis'
              /\ motorPhaseActive'
         /\ row' # NoRow => row'.ts = 0
<1>1. /\ elapsed \in Time /\ runStartMillis' \in Time /\ InMotorWindow(elapsed)
      /\ elapsed < MotorStop /\ MotorStop \in Nat /\ elapsed \in Nat
  BY Schedule DEF TypeOK, Time, MotorPass, InMotorWindow
<1>2. CASE ~sdReady
  BY <1>2 DEF MotorPass, UpdateLogging, StartCycle, loggerVars
<1>3. CASE sdReady /\ ~motorPhaseActive
  <2>1. ~loggingInProgress /\ lastLogTime = ClockMod - SetupTime
    BY <1>1, <1>3 DEF FirstRowInv
  <2>2. CycleDue(elapsed)
    BY <1>1, <2>1, FirstCycleDue
  <2>3. StartCycle(elapsed, runStartMillis')
    BY <1>3, <2>1, <2>2 DEF MotorPass, UpdateLogging, ContinueCycle
  <2>4. runStartMillis' = elapsed /\ motorPhaseActive'
    BY <1>3 DEF MotorPass
  <2>5. logCycleStartTime' = elapsed /\ ReadField(elapsed, 0, 0, runStartMillis')
    BY <2>3 DEF StartCycle
  <2>6. \/ loggingInProgress' /\ row' = row
        \/ row' \in Row /\ row'.ts = Minus(logCycleStartTime', runStartMillis')
    BY <1>1, <2>5, ReadCompletes
  <2>7. Minus(elapsed, elapsed) = 0
    BY <1>1, NoTimeBetween
  <2>8. QED
    BY <2>4, <2>5, <2>6, <2>7, LoggerAssumption
<1>4. CASE sdReady /\ motorPhaseActive
  <2>1. loggingInProgress /\ logCycleStartTime = runStartMillis
    BY <1>1, <1>4 DEF FirstRowInv
  <2>2. ContinueCycle(elapsed, runStartMillis')
    BY <1>4, <2>1 DEF MotorPass, UpdateLogging, StartCycle, CycleDue
  <2>3. runStartMillis' = runStartMillis /\ motorPhaseActive'
    BY <1>4 DEF MotorPass, gaitVars
  <2>4. /\ logCycleStartTime' = runStartMillis'
        /\ ReadField(elapsed, logServoIndex, logFieldIndex, runStartMillis')
    BY <2>1, <2>2, <2>3 DEF ContinueCycle
  <2>5. \/ loggingInProgress' /\ row' = row
        \/ row' \in Row /\ row'.ts = Minus(logCycleStartTime', runStartMillis')
    BY <1>1, <2>4, ReadCompletes
  <2>6. Minus(runStartMillis', runStartMillis') = 0
    BY <1>1, NoTimeBetween
  <2>7. QED
    BY <2>3, <2>4, <2>5, <2>6, LoggerAssumption
<1>5. QED
  BY <1>2, <1>3, <1>4

LEMMA PassFirstRow ==
  ASSUME TypeOK, TypeOK', SequenceInv, FirstRowInv, Pass
  PROVE  /\ FirstRowInv'
         /\ firstLap /\ DueAtOnce /\ row = NoRow /\ row' # NoRow => row'.ts = 0
<1>1. elapsed' = elapsed /\ firstLap' = firstLap /\ elapsed \in Nat
  BY DEF Pass, TypeOK, Time
<1>2. CASE MotorPass(elapsed)
  <2>1. row' = NoRow => row = NoRow
    <3>1. SUFFICES ASSUME row # NoRow, row' = NoRow PROVE FALSE
      OBVIOUS
    <3>2. row' # row /\ row' \notin Row
      BY <3>1, LoggerAssumption
    <3>3. runStartMillis' \in Time /\ elapsed \in Time
      BY DEF TypeOK
    <3>4. \E s, f : ReadField(elapsed, s, f, runStartMillis')
      BY <1>2, <3>2
         DEF MotorPass, UpdateLogging, StartCycle, ContinueCycle, loggerVars
    <3>5. QED
      BY <3>2, <3>3, <3>4, ReadCompletes
  <2>2. sdReady' = sdReady
    BY <1>2 DEF MotorPass, UpdateLogging, loggerVars
  <2>3. QED
    BY <1>1, <1>2, <2>1, <2>2, MotorFirstRow DEF FirstRowInv
<1>3. CASE PreHomePass(elapsed) \/ PostHomePass(elapsed) \/ IdlePass(elapsed)
  <2>1. /\ UNCHANGED <<sdReady, row, loggingInProgress, lastLogTime, logCycleStartTime>>
        /\ runStartMillis' = runStartMillis /\ ~motorPhaseActive'
    BY <1>3 DEF PreHomePass, PostHomePass, IdlePass, loggerVars, gaitVars
  <2>2. motorPhaseActive => MotorStop <= elapsed
    <3>1. motorPhaseActive => MotorStart <= elapsed
      BY <1>1, Schedule DEF SequenceInv, GaitInv, TypeOK, Time
    <3>2. MotorStart <= elapsed => MotorStop <= elapsed
      BY <1>1, <1>3, Schedule
         DEF PreHomePass, PostHomePass, IdlePass, InPreHomeWindow, InPostHomeWindow, CameraOn
    <3>3. QED
      BY <3>1, <3>2
  <2>3. QED
    BY <1>1, <2>1, <2>2 DEF FirstRowInv
<1>4. QED
  BY <1>2, <1>3 DEF Pass

LEMMA TickFirstRow ==
  ASSUME TypeOK, FirstRowInv, TimerTick
  PROVE  FirstRowInv'
<1>1. UNCHANGED <<loggerVars, motorPhaseActive, runStartMillis>>
  BY DEF TimerTick, gaitVars
<1>2. firstLap' => firstLap /\ elapsed' = elapsed + 1
  BY DEF TimerTick, TypeOK
<1>3. elapsed \in Nat /\ MotorStop \in Nat
  BY Schedule DEF TypeOK, Time
<1>4. QED
  BY <1>1, <1>2, <1>3 DEF FirstRowInv, loggerVars

(* The first row is of the instant the motors start, for every schedule and *)
(* pass length: the first cycle is due in the pass that starts the run, and *)
(* its row is written before loop() can start another run.                  *)
THEOREM RowsStartAtZero == Spec => FirstRowAtZero
<1>1. Init => FirstRowInv
  BY DEF Init, InitLogger, FirstRowInv
<1>2. TypeOK /\ TypeOK' /\ SequenceInv /\ FirstRowInv /\ [Next]_vars => FirstRowInv'
  <2> SUFFICES ASSUME TypeOK, TypeOK', SequenceInv, FirstRowInv, [Next]_vars
               PROVE  FirstRowInv'
    OBVIOUS
  <2>1. CASE Pass
    BY <2>1, PassFirstRow
  <2>2. CASE TimerTick
    BY <2>2, TickFirstRow
  <2>3. CASE UNCHANGED vars
    BY <2>3 DEF vars, clockVars, gaitVars, loggerVars, FirstRowInv
  <2>4. QED
    BY <2>1, <2>2, <2>3 DEF Next
<1>3. TypeOK /\ TypeOK' /\ SequenceInv /\ FirstRowInv /\ [Next]_vars =>
        [firstLap /\ DueAtOnce /\ row = NoRow /\ row' # NoRow => row'.ts = 0]_vars
  <2> SUFFICES ASSUME TypeOK, TypeOK', SequenceInv, FirstRowInv, [Next]_vars, row' # row
               PROVE  firstLap /\ DueAtOnce /\ row = NoRow /\ row' # NoRow => row'.ts = 0
    BY DEF vars, loggerVars
  <2>1. Pass
    BY DEF Next, TimerTick, vars, loggerVars
  <2>2. QED
    BY <2>1, PassFirstRow
<1>4. QED
  BY <1>1, <1>2, <1>3, TypeCorrect, SequenceCorrect, PTL DEF Spec, FirstRowAtZero
=============================================================================
