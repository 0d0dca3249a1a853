--------------------------- MODULE ToggleRecorder ----------------------------
(***************************************************************************)
(* MPU5060ToggleAsh.ino: a push button starts a recording, which opens a   *)
(* file, takes all servos to random positions, sets them turning and       *)
(* writes a row at a time until the button is pushed again.                *)
(*                                                                         *)
(* Around the sketch: a finger, which the sketch notices only where it     *)
(* samples the pin; the reset button, which clears RAM but neither card    *)
(* nor servos; a bus that may lose a call; and a card that may refuse to   *)
(* open a file.  What is printed to a file is on the card once the file is *)
(* closed.                                                                 *)
(***************************************************************************)
EXTENDS Naturals, FiniteSets

CONSTANTS
  Servos,
  MaxName,      (* 999: a greater number makes more than eight characters    *)
  MaxPresses,   (* bounds: pushes of the button, resets, and passes with a   *)
  MaxBoots,     (* lost bus call                                             *)
  MaxFaults

ASSUME RecorderAssumption ==
  /\ IsFiniteSet(Servos) /\ MaxName \in Nat /\ MaxPresses \in Nat
  /\ MaxBoots \in Nat \ {0} /\ MaxFaults \in Nat

VARIABLES
  button, presses,            (* the pin: 0 while pushed                     *)
  upSince,                    (* the pin was 1 since a recording last ended   *)
  boots,
  card,                       (* of each file, the power-ups that wrote it   *)
  torque, mode, faults,       (* of each servo; calls lost                   *)
  at,                         (* where loop() stands                         *)
  buttonStateNow, buttonStatePrev, pushbutton, buttonPressCount,
  file,                       (* number of the open file, 0 when none is     *)
  LED

finger == <<button, presses>>
flags  == <<buttonStateNow, buttonStatePrev, pushbutton>>
vars   == <<finger, upSince, boots, card, torque, mode, faults, at, flags,
            buttonPressCount, file, LED>>

Modes == {"OP_POSITION", "OP_VELOCITY"}
Files == 1 .. MaxPresses
-----------------------------------------------------------------------------
(* The globals after a reset, and setup(), which never returns without an   *)
(* MPU6050.                                                                 *)
Globals ==
  [now |-> 0, prev |-> 0, pushed |-> 0, count |-> 1, file |-> 0, led |-> FALSE]

Init ==
  /\ button \in {0, 1} /\ presses = 0 /\ upSince = TRUE /\ boots = 1
  /\ card = [n \in Files |-> {}]
  /\ torque \in [Servos -> BOOLEAN] /\ mode \in [Servos -> Modes] /\ faults = 0
  /\ at \in {"loop", "no_MPU"}
  /\ buttonStateNow = Globals.now /\ buttonStatePrev = Globals.prev
  /\ pushbutton = Globals.pushed /\ buttonPressCount = Globals.count
  /\ file = Globals.file /\ LED = Globals.led

Reset ==
  /\ boots < MaxBoots /\ boots' = boots + 1
  /\ at' \in {"loop", "no_MPU"}
  /\ buttonStateNow' = Globals.now /\ buttonStatePrev' = Globals.prev
  /\ pushbutton' = Globals.pushed /\ buttonPressCount' = Globals.count
  /\ file' = Globals.file /\ LED' = Globals.led
  /\ UNCHANGED <<finger, upSince, card, torque, mode, faults>>

Push ==
  /\ button = 1 /\ presses < MaxPresses
  /\ button' = 0 /\ presses' = presses + 1
  /\ UNCHANGED <<upSince, boots, card, torque, mode, faults, at, flags,
                 buttonPressCount, file, LED>>

LetGo ==
  /\ button = 0
  /\ button' = 1 /\ upSince' = TRUE
  /\ UNCHANGED <<presses, boots, card, torque, mode, faults, at, flags,
                 buttonPressCount, file, LED>>

(* The servos a round of calls to all of them reaches.                      *)
Reached(sets) ==
  \/ (\A S \in sets : S = Servos) /\ UNCHANGED faults
  \/ (\E S \in sets : S # Servos) /\ faults < MaxFaults /\ faults' = faults + 1

Off(reached) == [s \in Servos |-> torque[s] /\ s \notin reached]

(* Variant: the mode set with the torque still on.                          *)
SetModeTorqued(m) ==
  \E chg, on \in SUBSET Servos :
    /\ Reached({chg, on})
    /\ mode' = [s \in Servos |-> IF s \in chg /\ ~torque[s] THEN m ELSE mode[s]]
    /\ torque' = [s \in Servos |-> torque[s] \/ s \in on]

(* torqueOff(), setOperatingMode() and torqueOn(), each for all servos.  A  *)
(* servo refuses another mode while its torque is on.                       *)
SetMode(m) ==
  \E off, chg, on \in SUBSET Servos :
    /\ Reached({off, chg, on})
    /\ mode' = [s \in Servos |-> IF s \in chg /\ ~Off(off)[s] THEN m ELSE mode[s]]
    /\ torque' = [s \in Servos |-> Off(off)[s] \/ s \in on]

(* Variant: no edge asked for.                                              *)
StartedOnLevel == button = 0 /\ pushbutton = 0

Started == buttonStatePrev = 1 /\ button = 0 /\ pushbutton = 0

(* Variant: counted in the name and once more.                              *)
CountClickTwice == buttonPressCount' = buttonPressCount + 2

(* Variant: starting over rather than run out of short names.               *)
CountClickRound == buttonPressCount' = (buttonPressCount % MaxName) + 1

CountClick == buttonPressCount' = buttonPressCount + 1

(* The pass sees the button go down: the file is opened for appending, its  *)
(* name taken from the number of clicks so far.                             *)
OpenFile ==
  /\ at = "loop" /\ Started
  /\ buttonStateNow' = button
  /\ CountClick
  /\ \/ buttonPressCount <= MaxName /\ file' = buttonPressCount
     \/ file' = 0
  /\ at' = "position"
  /\ UNCHANGED <<finger, upSince, boots, card, torque, mode, faults,
                 buttonStatePrev, pushbutton, LED>>

ToPositions ==
  /\ at = "position"
  /\ SetMode("OP_POSITION")
  /\ at' = "velocity"
  /\ UNCHANGED <<finger, upSince, boots, card, flags, buttonPressCount, file, LED>>

(* A pass ends by remembering the last sample of the pin.                   *)
EndPass == at' = "loop" /\ buttonStatePrev' = buttonStateNow'

ToVelocity ==
  /\ at = "velocity"
  /\ SetMode("OP_VELOCITY")
  /\ UNCHANGED buttonStateNow
  /\ IF file # 0 THEN at' = "record" /\ UNCHANGED buttonStatePrev ELSE EndPass
  /\ UNCHANGED <<finger, upSince, boots, card, pushbutton, buttonPressCount, file, LED>>

(* Variant: the pull-up forgotten.                                          *)
PushedAgainHigh == button = 1

PushedAgain == button = 0

(* A row, and the pin is sampled again.                                     *)
RecordRow ==
  /\ at = "record"
  /\ LED' = TRUE
  /\ buttonStateNow' = button
  /\ IF PushedAgain THEN pushbutton' = 1 /\ upSince' = FALSE /\ EndPass
     ELSE UNCHANGED <<pushbutton, upSince, at, buttonStatePrev>>
  /\ UNCHANGED <<finger, boots, card, torque, mode, faults, buttonPressCount, file>>

CloseFile == file' = 0

(* Variant: the servos left on.                                             *)
TorqueKept == UNCHANGED <<torque, faults>>

TorqueOff == \E off \in SUBSET Servos : Reached({off}) /\ torque' = Off(off)

LightOff == LED' = FALSE

(* Any other pass closes the file, open or not, and lets the servos rest.   *)
RestPass ==
  /\ at = "loop" /\ ~Started
  /\ buttonStateNow' = button
  /\ pushbutton' = 0
  /\ CloseFile
  /\ card' = IF file = 0 \/ file' # 0 THEN card ELSE [card EXCEPT ![file] = @ \cup {boots}]
  /\ TorqueOff
  /\ LightOff
  /\ EndPass
  /\ UNCHANGED <<finger, upSince, boots, mode, buttonPressCount>>

Sketch == OpenFile \/ ToPositions \/ ToVelocity \/ RecordRow \/ RestPass

Next == Sketch \/ Push \/ LetGo \/ Reset

(* loop() is called again as soon as it returns, and its calls return.      *)
Spec == Init /\ [][Next]_vars /\ WF_vars(Sketch)
-----------------------------------------------------------------------------
TypeOK ==
  /\ button \in {0, 1} /\ presses \in 0 .. MaxPresses /\ upSince \in BOOLEAN
  /\ boots \in 1 .. MaxBoots
  /\ card \in [Files -> SUBSET (1 .. MaxBoots)]
  /\ torque \in [Servos -> BOOLEAN] /\ mode \in [Servos -> Modes]
  /\ faults \in 0 .. MaxFaults
  /\ at \in {"loop", "position", "velocity", "record", "no_MPU"}
  /\ buttonStateNow \in {0, 1} /\ buttonStatePrev \in {0, 1}
  /\ pushbutton \in {0, 1} /\ buttonPressCount \in 1 .. MaxPresses + 1
  /\ file \in 0 .. MaxPresses /\ LED \in BOOLEAN

(* One push does one thing: the push that ends a recording does not start   *)
(* the next one too, however long it is held (buttonStatePrev is set from   *)
(* the sample of the recording's own loop).                                 *)
OnePushOneThing == [][OpenFile => upSince]_vars

(* A recording that runs with no bus call lost turns every servo: the mode  *)
(* is changed while the torque is off, on again after it.                   *)
AllTurning ==
  at = "record" /\ faults = 0 => \A s \in Servos : torque[s] /\ mode[s] = "OP_VELOCITY"

(* The light tells the operator that a file is open, also right after the   *)
(* recording's last row.                                                    *)
LitMeansOpen == LED => file # 0

(* A button held down ends the recording and has its file closed.           *)
HeldPushStops ==
  /\ at = "record" /\ button = 0 ~> at # "record" \/ button = 1
  /\ pushbutton = 1 ~> file = 0

(* Once recordings stop being made, no servo keeps turning, though the bus  *)
(* lose some of the calls: torqueOff() is repeated with every pass.         *)
ServosComeToRest == <>[](at = "loop") => <>[](\A s \in Servos : ~torque[s])

(* "Each file has a unique number according to the number of clicks": within*)
(* a power-up no file is opened for a second recording; and the one global  *)
(* File is not opened over a file that was never closed, whose rows would   *)
(* be lost, however the button bounces between the samples (loop(): the     *)
(* file is closed in a later pass than the one that stops the recording).   *)
(* After a reset the clicks are counted from 1 again, over the files of the *)
(* power-up before.                                                         *)
OneRecordingPerFile ==
  [][file' # 0 /\ file' # file => file = 0 /\ boots \notin card[file']]_vars
=============================================================================
