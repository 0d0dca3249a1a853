------------------------------ MODULE TimedGait ------------------------------
(***************************************************************************)
(* dxl_gait_timed.ino: a swimming robot that is filmed.  One run is        *)
(*   camera on + ease to home | gait and logging | ease to home | all off  *)
(* each phase gated by elapsed = millis() - sequenceStartMillis, which     *)
(* loop() samples once per pass.  A pass lasts MinPass..MaxPass ticks: its *)
(* delay(20), its blocking bus round trips and its SD write.  The camera   *)
(* is triggered by a timer interrupt that fires throughout, also in the    *)
(* middle of a stalled pass, and shares one flag with loop().              *)
(*                                                                         *)
(* The code only compares and subtracts unsigned clock values, so the      *)
(* model takes sequenceStartMillis as the origin of the clock: "elapsed"   *)
(* is the value of both.  It wraps at ClockMod.  One tick is one timer     *)
(* period (10 ms in the code).                                             *)
(***************************************************************************)
EXTENDS GaitLogger

CONSTANTS
  CameraStart,   (* SEQ_CAMERA_START_MS                                     *)
  HomeEase,      (* HOME_EASE_MS                                            *)
  RunDuration,   (* SEQ_RUN_DURATION_MS                                     *)
  BodyEase,      (* easeTime of every gait                                  *)
  FinEase,       (* FIN_EASE_TIME                                           *)
  FinDelay,      (* finDelay of the S gaits; the C gaits have none          *)
  CDuration,     (* duration of the C gaits                                 *)
  SDuration,     (* duration of the S gaits                                 *)
  SetupTime,     (* millis() when setup() returns                           *)
  MinPass,       (* the least and the greatest length of a loop() pass      *)
  MaxPass

MotorStart == CameraStart + HomeEase
MotorStop  == MotorStart + RunDuration
CameraStop == MotorStop + HomeEase

ASSUME SequenceAssumption ==
  /\ CameraStart \in Nat /\ RunDuration \in Nat /\ FinDelay \in Nat
  /\ HomeEase \in Nat \ {0} /\ BodyEase \in Nat \ {0} /\ FinEase \in Nat \ {0}
  /\ CDuration \in Nat /\ SDuration \in Nat
  /\ SetupTime \in Nat /\ MinPass \in Nat \ {0} /\ MaxPass \in Nat
  /\ MinPass <= MaxPass
  /\ CameraStop + MaxPass < ClockMod
  /\ SetupTime \in 1 .. ClockMod

VARIABLES
  elapsed,               (* millis() - sequenceStartMillis, now             *)
  remaining,             (* ticks left of the current loop() pass           *)
  firstLap,              (* the clock has not come round yet                *)
  cameraTriggerActive,
  pulse,                 (* the last timer interrupt pulsed the camera      *)
  preHomeActive, preHomeStartTime, preHomeSwitch,
  postHomeActive, postHomeStartTime, postHomeSwitch,
  motorPhaseActive, gaitIndex, gaitStartTime, switchPose,
  runStartMillis,
  lastCommanded          (* pose last written to the four servos            *)

clockVars  == <<elapsed, remaining, firstLap>>
preVars    == <<preHomeActive, preHomeStartTime, preHomeSwitch>>
postVars   == <<postHomeActive, postHomeStartTime, postHomeSwitch>>
gaitVars   == <<gaitIndex, gaitStartTime, switchPose, runStartMillis>>
vars == <<clockVars, cameraTriggerActive, pulse, preVars, postVars,
          motorPhaseActive, gaitVars, lastCommanded, loggerVars>>
-----------------------------------------------------------------------------
(***************************************************************************)
(* Poses.  A pose is the shape of the body (joints 1 and 7) and of the fins *)
(* (10 and 11): one of the shapes the code names, or "between" two of them. *)
(***************************************************************************)
Gaits == 0 .. 3

BodyShapes == {"home", "C-right", "S-right", "C-left", "S-left", "between"}
FinShapes  == {"home", "right planted", "left planted", "between"}
Pose == [body : BodyShapes, fins : FinShapes]

HomePose == [body |-> "home", fins |-> "home"]

(* The table GAITS.                                                         *)
GaitPose(g) ==
  [body |-> CASE g = 0 -> "C-right" [] g = 1 -> "S-right"
              [] g = 2 -> "C-left"  [] OTHER -> "S-left",
   fins |-> IF g \in {1, 2} THEN "left planted" ELSE "right planted"]

Duration(g) == IF g \in {0, 2} THEN CDuration ELSE SDuration
FinDelayOf(g) == IF g \in {0, 2} THEN 0 ELSE FinDelay

(* lerp(from, to, smoothstep(t / length)): smoothstep clamps t to [0, 1].   *)
Ease(from, to, t, length) ==
  IF t <= 0 THEN from ELSE IF t >= length \/ from = to THEN to ELSE "between"

(* Variant: eased to the first gait's pose.                                 *)
EasedToGait(from, t) ==
  [body |-> Ease(from.body, GaitPose(0).body, t, HomeEase),
   fins |-> Ease(from.fins, GaitPose(0).fins, t, HomeEase)]

HomeEased(from, t) ==
  [body |-> Ease(from.body, HomePose.body, t, HomeEase),
   fins |-> Ease(from.fins, HomePose.fins, t, HomeEase)]

GaitEased(from, g, t) ==
  [body |-> Ease(from.body, GaitPose(g).body, t, BodyEase),
   fins |-> Ease(from.fins, GaitPose(g).fins, t - FinDelayOf(g), FinEase)]
-----------------------------------------------------------------------------
(* Variants of the camera's window: off with the motors, on after them.     *)
CameraOnUntilMotorStop(now) == CameraStart <= now /\ now < MotorStop
CameraOnLate(now)           == MotorStart < now /\ now < CameraStop

(* The windows of loop(), on the elapsed time a pass has sampled.           *)
CameraOn(now)         == CameraStart <= now /\ now < CameraStop
InPreHomeWindow(now)  == CameraStart <= now /\ now < MotorStart
InMotorWindow(now)    == MotorStart <= now /\ now < MotorStop
InPostHomeWindow(now) == MotorStop <= now /\ now < CameraStop

(* setup() has just commanded the home pose; the zero-initialised time      *)
(* globals lie SetupTime before the origin.                                 *)
Init ==
  /\ elapsed = 0 /\ remaining = 0 /\ firstLap = TRUE
  /\ cameraTriggerActive = FALSE /\ pulse = FALSE
  /\ preHomeActive = FALSE /\ postHomeActive = FALSE /\ motorPhaseActive = FALSE
  /\ lastCommanded = HomePose /\ switchPose = HomePose
  /\ preHomeSwitch = HomePose /\ postHomeSwitch = HomePose
  /\ gaitIndex = 0
  /\ LET reset == ClockMod - SetupTime IN
       /\ preHomeStartTime = reset /\ postHomeStartTime = reset
       /\ gaitStartTime = reset /\ runStartMillis = reset
       /\ InitLogger(reset)

PreHomePass(now) ==
  /\ InPreHomeWindow(now)
  /\ preHomeActive' = TRUE
  /\ IF preHomeActive THEN UNCHANGED <<preHomeStartTime, preHomeSwitch>>
     ELSE preHomeStartTime' = now /\ preHomeSwitch' = lastCommanded
  /\ lastCommanded' = HomeEased(preHomeSwitch', Minus(now, preHomeStartTime'))
  /\ motorPhaseActive' = FALSE /\ postHomeActive' = FALSE
  /\ UNCHANGED <<postHomeStartTime, postHomeSwitch, gaitVars, loggerVars>>

(* Starting a gait: the first one when the window opens, the next one when  *)
(* the current one's duration is over.                                      *)
EnterGait(g, now) ==
  /\ gaitIndex' = g /\ gaitStartTime' = now /\ switchPose' = lastCommanded

(* Variant: timed from the start of the run.                                *)
GaitOverSinceRun(now) == Minus(now, runStartMillis) > Duration(gaitIndex)

GaitOver(now) == Minus(now, gaitStartTime) > Duration(gaitIndex)

MotorPass(now) ==
  /\ InMotorWindow(now)
  /\ motorPhaseActive' = TRUE
  /\ \/ /\ ~motorPhaseActive
        /\ EnterGait(0, now)
        /\ runStartMillis' = now
     \/ /\ motorPhaseActive /\ GaitOver(now)
        /\ EnterGait((gaitIndex + 1) % 4, now)
        /\ UNCHANGED runStartMillis
     \/ /\ motorPhaseActive /\ ~GaitOver(now)
        /\ UNCHANGED gaitVars
  /\ lastCommanded' = GaitEased(switchPose', gaitIndex', Minus(now, gaitStartTime'))
  /\ UpdateLogging(now, runStartMillis')
  /\ preHomeActive' = FALSE /\ postHomeActive' = FALSE
  /\ UNCHANGED <<preHomeStartTime, preHomeSwitch, postHomeStartTime, postHomeSwitch>>

PostHomePass(now) ==
  /\ InPostHomeWindow(now)
  /\ postHomeActive' = TRUE
  /\ IF postHomeActive THEN UNCHANGED <<postHomeStartTime, postHomeSwitch>>
     ELSE postHomeStartTime' = now /\ postHomeSwitch' = lastCommanded
  /\ lastCommanded' = HomeEased(postHomeSwitch', Minus(now, postHomeStartTime'))
  /\ motorPhaseActive' = FALSE /\ preHomeActive' = FALSE
  /\ UNCHANGED <<preHomeStartTime, preHomeSwitch, gaitVars, loggerVars>>

IdlePass(now) ==
  /\ ~CameraOn(now)
  /\ preHomeActive' = FALSE /\ motorPhaseActive' = FALSE /\ postHomeActive' = FALSE
  /\ UNCHANGED <<preHomeStartTime, preHomeSwitch, postHomeStartTime, postHomeSwitch,
                 gaitVars, lastCommanded, loggerVars>>

(* loop(): everything a pass computes depends on the clock value it read    *)
(* first and on no state the interrupt writes; its length is the time until *)
(* the next pass reads the clock.                                           *)
Pass ==
  /\ remaining = 0
  /\ remaining' \in MinPass .. MaxPass
  /\ cameraTriggerActive' = CameraOn(elapsed)
  /\ \/ PreHomePass(elapsed)
     \/ MotorPass(elapsed)
     \/ PostHomePass(elapsed)
     \/ IdlePass(elapsed)
  /\ UNCHANGED <<elapsed, firstLap, pulse>>

(* One timer period passes and cameraTriggerPulse() runs.                   *)
TimerTick ==
  /\ remaining > 0
  /\ remaining' = remaining - 1
  /\ elapsed' = IF elapsed + 1 = ClockMod THEN 0 ELSE elapsed + 1
  /\ firstLap' = (firstLap /\ elapsed + 1 # ClockMod)
  /\ pulse' = cameraTriggerActive
  /\ UNCHANGED <<cameraTriggerActive, preVars, postVars, motorPhaseActive,
                 gaitVars, lastCommanded, loggerVars>>

Next == Pass \/ TimerTick

Spec == Init /\ [][Next]_vars

(* loop() is called again as soon as it returns, and time passes.           *)
FairSpec == Spec /\ WF_vars(Next)
-----------------------------------------------------------------------------
TypeOK ==
  /\ LoggerTypeOK
  /\ elapsed \in Time /\ remaining \in 0 .. MaxPass
  /\ firstLap \in BOOLEAN /\ cameraTriggerActive \in BOOLEAN /\ pulse \in BOOLEAN
  /\ preHomeActive \in BOOLEAN /\ postHomeActive \in BOOLEAN
  /\ motorPhaseActive \in BOOLEAN
  /\ preHomeStartTime \in Time /\ postHomeStartTime \in Time
  /\ gaitStartTime \in Time /\ runStartMillis \in Time
  /\ gaitIndex \in Gaits
  /\ preHomeSwitch \in Pose /\ postHomeSwitch \in Pose
  /\ switchPose \in Pose /\ lastCommanded \in Pose

(* The pulse train "stays steady even while loop() is stalled": every timer *)
(* period of the camera window pulses, but for the stall that may be under  *)
(* way as it opens, and no pulse comes outside it, but for the stall that   *)
(* may be under way as it closes (cameraTriggerPulse() against loop()).     *)
PulseTrain ==
  /\ pulse => CameraStart < elapsed /\ elapsed < CameraStop + MaxPass
  /\ CameraStart + MaxPass <= elapsed /\ elapsed <= CameraStop => pulse

(* The motors only run while the camera films them, whatever the length of  *)
(* the passes and however late a window's first pass comes.                 *)
CameraCoversMotors == motorPhaseActive => cameraTriggerActive

(* A stall shorter than the time a gait holds its pose.                     *)
ShortStalls ==
  /\ BodyEase + MaxPass <= SDuration
  /\ BodyEase + MaxPass <= CDuration
  /\ FinDelay + FinEase + MaxPass <= SDuration
  /\ FinEase + MaxPass <= CDuration

(* The comment on struct Gait: a duration of at least the ease time lets    *)
(* each transition finish.  It does when stalls are short: a gait is left   *)
(* only after its full pose, body and fins, was commanded.                  *)
PoseHeldBeforeNext ==
  [][ShortStalls /\ motorPhaseActive /\ motorPhaseActive' /\ gaitIndex' # gaitIndex
     => lastCommanded = GaitPose(gaitIndex)]_vars

(* "the robot is exactly at home the instant the gait sequence takes over". *)
(* It is in the first run after a reset, also when a stall swallows the     *)
(* whole pre-home window.                                                   *)
HomeWhenGaitStarts ==
  [][firstLap /\ motorPhaseActive' /\ ~motorPhaseActive => lastCommanded = HomePose]_vars

(* What makes the first cycle due at once: millis() has run for             *)
(* LOG_INTERVAL_MS when the motors start, and not yet come round.           *)
DueAtOnce ==
  LogInterval <= SetupTime + MotorStart /\ SetupTime + MotorStop <= ClockMod

(* The file's first row lines up with the first commanded movement.         *)
FirstRowAtZero ==
  [][firstLap /\ DueAtOnce /\ row = NoRow /\ row' # NoRow => row'.ts = 0]_vars

(* A sequence that is started goes through: the motors start, the camera    *)
(* stops after them, and a card that works gets rows, although the log is   *)
(* cut off in the middle of a cycle when its window closes.                 *)
SequenceRuns ==
  /\ <>motorPhaseActive
  /\ motorPhaseActive ~> ~cameraTriggerActive
  /\ sdReady ~> row # NoRow
=============================================================================
