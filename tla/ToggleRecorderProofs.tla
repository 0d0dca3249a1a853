------------------------- MODULE ToggleRecorderProofs -------------------------
(***************************************************************************)
(* What ToggleRecorder promises for any number of servos, pushes, resets   *)
(* and lost calls: where the file is open, what a push does, and which     *)
(* servos a recording finds turning.                                       *)
(***************************************************************************)
EXTENDS ToggleRecorder, TLAPS

(* Between the push that starts a recording and the pass that ends it.      *)
Busy == at \in {"position", "velocity", "record"}

(* A file is open while a recording is made, and until the pass after it;   *)
(* the light only comes on in between.                                      *)
FileInv ==
  /\ file # 0 => Busy \/ pushbutton = 1
  /\ at = "record" => file # 0
  /\ LED => file # 0

(* Until it is let go, the push that ended a recording is neither an edge   *)
(* nor able to become one.                                                  *)
PushInv ==
  /\ Busy => upSince
  /\ ~upSince => button = 0 /\ buttonStatePrev = 0

LEMMA FileInit == Init => FileInv
  BY DEF Init, Globals, FileInv, Busy

LEMMA FileStep == FileInv /\ [Next]_vars => FileInv'
<1> SUFFICES ASSUME FileInv, [Next]_vars PROVE FileInv'
  OBVIOUS
<1> USE DEF FileInv, Busy
<1>1. CASE OpenFile
  BY <1>1 DEF OpenFile, Started
<1>2. CASE ToPositions
  BY <1>2 DEF ToPositions, flags
<1>3. CASE ToVelocity
  BY <1>3 DEF ToVelocity, EndPass
<1>4. CASE RecordRow
  BY <1>4 DEF RecordRow, EndPass
<1>5. CASE RestPass
  BY <1>5 DEF RestPass, CloseFile, LightOff, EndPass
<1>6. CASE Push
  BY <1>6 DEF Push, flags
<1>7. CASE LetGo
  BY <1>7 DEF LetGo, flags
<1>8. CASE Reset
  BY <1>8 DEF Reset, Globals
<1>9. CASE UNCHANGED vars
  BY <1>9 DEF vars, flags
<1> QED
  BY <1>1, <1>2, <1>3, <1>4, <1>5, <1>6, <1>7, <1>8, <1>9 DEF Next, Sketch

(* The light means an open file, in every pass of every recording (RecordRow*)
(* sets it, the pass that closes the file clears it).                       *)
THEOREM LightTellsTruth == Spec => []LitMeansOpen
<1>1. FileInv => LitMeansOpen
  BY DEF FileInv, LitMeansOpen
<1> QED
  BY FileInit, FileStep, <1>1, PTL DEF Spec

(* The files a power-up has written have numbers below its count of clicks, *)
(* and there are no more clicks than pushes: a click is an edge the pass    *)
(* before has not seen.                                                     *)
CardInv ==
  /\ card \in [Files -> SUBSET Nat] /\ boots \in Nat
  /\ \A n \in Files : \A b \in card[n] : b <= boots
  /\ \A n \in Files : boots \in card[n] => n < buttonPressCount
  /\ file \in Files \cup {0} /\ file < buttonPressCount
  /\ buttonPressCount \in Nat \ {0} /\ presses \in Nat /\ presses <= MaxPresses
  /\ buttonPressCount <= presses + 1
  /\ at = "loop" /\ button = 0 /\ buttonStatePrev = 1 => buttonPressCount <= presses
  /\ at \in {"position", "velocity"} => buttonStateNow = 0

LEMMA CardInit == Init => CardInv
<1> SUFFICES ASSUME Init PROVE CardInv
  OBVIOUS
<1>1. card = [n \in Files |-> {}] /\ boots = 1 /\ presses = 0
  BY DEF Init
<1>2. /\ file = 0 /\ buttonPressCount = 1 /\ buttonStatePrev = 0
      /\ at \notin {"position", "velocity"}
  BY DEF Init, Globals
<1>3. card \in [Files -> SUBSET Nat] /\ \A n \in Files : card[n] = {}
  BY <1>1
<1> QED
  BY <1>1, <1>2, <1>3, RecorderAssumption DEF CardInv

LEMMA CardStep == CardInv /\ [Next]_vars => CardInv'
<1> SUFFICES ASSUME CardInv, [Next]_vars PROVE CardInv'
  OBVIOUS
<1> USE RecorderAssumption DEF CardInv, Files
<1>1. CASE OpenFile
  BY <1>1 DEF OpenFile, Started, CountClick, finger
<1>2. CASE ToPositions
  BY <1>2 DEF ToPositions, finger, flags
<1>3. CASE ToVelocity
  BY <1>3 DEF ToVelocity, EndPass, finger
<1>4. CASE RecordRow
  BY <1>4 DEF RecordRow, EndPass, PushedAgain, finger
<1>5. CASE RestPass
  <2>1. file' = 0 /\ UNCHANGED <<boots, presses, button, buttonPressCount>>
    BY <1>5 DEF RestPass, CloseFile, finger
  <2>2. card' = IF file = 0 THEN card ELSE [card EXCEPT ![file] = @ \cup {boots}]
    BY <1>5, <2>1 DEF RestPass
  <2>3. at' = "loop" /\ buttonStatePrev' = button
    BY <1>5 DEF RestPass, EndPass
  <2>4. card' \in [Files -> SUBSET Nat]
    BY <2>2
  <2>5. \A n \in Files : \A b \in card'[n] : b \in card[n] \/ (b = boots /\ n = file)
    BY <2>2
  <2>6. /\ \A n \in Files : \A b \in card'[n] : b <= boots'
        /\ \A n \in Files : boots' \in card'[n] => n < buttonPressCount'
    BY <2>1, <2>5
  <2> QED
    BY <2>1, <2>3, <2>4, <2>6
<1>6. CASE Push
  BY <1>6 DEF Push, flags
<1>7. CASE LetGo
  BY <1>7 DEF LetGo, flags
<1>8. CASE Reset
  <2>1. /\ card' = card /\ boots' = boots + 1 /\ presses' = presses
        /\ at' \notin {"position", "velocity"}
    BY <1>8 DEF Reset, finger
  <2>2. buttonStatePrev' = 0 /\ buttonPressCount' = 1 /\ file' = 0
    BY <1>8 DEF Reset, Globals
  <2>3. \A n \in Files : \A b \in card'[n] : b \in Nat /\ b <= boots
    BY <2>1
  <2>4. \A n \in Files : boots' \notin card'[n]
    BY <2>1, <2>3
  <2>5. \A n \in Files : \A b \in card'[n] : b <= boots'
    BY <2>1, <2>3
  <2> QED
    BY <2>1, <2>2, <2>4, <2>5
<1>9. CASE UNCHANGED vars
  BY <1>9 DEF vars, flags, finger
<1> QED
  BY <1>1, <1>2, <1>3, <1>4, <1>5, <1>6, <1>7, <1>8, <1>9 DEF Next, Sketch

(* Within a power-up every file holds one recording, and none is opened     *)
(* while one is open, for any number of pushes and names.                   *)
THEOREM RecordingsApart == Spec => OneRecordingPerFile
<1>1. ASSUME FileInv, CardInv, [Next]_vars, file' # 0, file' # file
      PROVE  file = 0 /\ boots \notin card[file']
  <2>1. CASE OpenFile
    <3>1. file = 0
      BY <2>1 , <1>1 DEF OpenFile, Started, FileInv, Busy
    <3>2. file' = buttonPressCount /\ buttonPressCount \in Files
      BY <2>1, <1>1, RecorderAssumption DEF OpenFile, Started, CardInv, Files
    <3> QED
      BY <1>1, <3>1, <3>2 DEF CardInv
  <2>2. CASE RestPass
    BY <1>1, <2>2 DEF RestPass, CloseFile
  <2>3. CASE Reset
    BY <1>1, <2>3 DEF Reset, Globals
  <2>4. ToPositions \/ ToVelocity \/ RecordRow \/ Push \/ LetGo \/ UNCHANGED vars
        => file' = file
    BY DEF ToPositions, ToVelocity, RecordRow, Push, LetGo, vars
  <2> QED
    BY <1>1, <2>1, <2>2, <2>3, <2>4 DEF Next, Sketch
<1>2. FileInv /\ CardInv /\ [Next]_vars
      => [file' # 0 /\ file' # file => file = 0 /\ boots \notin card[file']]_vars
  BY <1>1
<1> QED
  BY FileInit, FileStep, CardInit, CardStep, <1>2, PTL DEF Spec, OneRecordingPerFile
-----------------------------------------------------------------------------
LEMMA PushInit == Init => PushInv
  BY DEF Init, Globals, PushInv, Busy

LEMMA PushStep == PushInv /\ [Next]_vars => PushInv'
<1> SUFFICES ASSUME PushInv, [Next]_vars PROVE PushInv'
  OBVIOUS
<1> USE DEF PushInv, Busy
<1>1. CASE OpenFile
  BY <1>1 DEF OpenFile, Started, finger
<1>2. CASE ToPositions
  BY <1>2 DEF ToPositions, finger, flags
<1>3. CASE ToVelocity
  BY <1>3 DEF ToVelocity, EndPass, finger
<1>4. CASE RecordRow
  BY <1>4 DEF RecordRow, EndPass, PushedAgain, finger
<1>5. CASE RestPass
  BY <1>5 DEF RestPass, EndPass, finger
<1>6. CASE Push
  BY <1>6 DEF Push, flags
<1>7. CASE LetGo
  BY <1>7 DEF LetGo, flags
<1>8. CASE Reset
  <2>1. buttonStatePrev' = 0 /\ button' = button /\ upSince' = upSince
    BY <1>8 DEF Reset, Globals, finger
  <2>2. at' \in {"loop", "no_MPU"}
    BY <1>8 DEF Reset
  <2> QED
    BY <2>1, <2>2
<1>9. CASE UNCHANGED vars
  BY <1>9 DEF vars, flags, finger
<1> QED
  BY <1>1, <1>2, <1>3, <1>4, <1>5, <1>6, <1>7, <1>8, <1>9 DEF Next, Sketch

(* The push that ends a recording, however long it is held, does not start  *)
(* the next one (loop()'s edge detection across the recording's own loop).  *)
THEOREM PushDoesOneThing == Spec => OnePushOneThing
<1>1. PushInv /\ [Next]_vars => [OpenFile => upSince]_vars
  BY DEF PushInv, OpenFile, Started
<1> QED
  BY PushInit, PushStep, <1>1, PTL DEF Spec, OnePushOneThing
-----------------------------------------------------------------------------
(* A round of calls that leaves the number of faults at 0 lost none.        *)
LEMMA NoFaultNoLoss ==
  ASSUME NEW sets, faults \in Nat, Reached(sets), faults' = 0
  PROVE  faults = 0 /\ \A S \in sets : S = Servos
  BY DEF Reached

LEMMA FaultsStep ==
  ASSUME NEW sets, faults \in Nat, Reached(sets)
  PROVE  faults' \in Nat
  BY DEF Reached

(* setOperatingMode() between torqueOff() and torqueOn(), nothing lost.     *)
LEMMA ModeTaken ==
  ASSUME NEW m \in Modes, faults \in Nat, SetMode(m), faults' = 0
  PROVE  \A s \in Servos : torque'[s] /\ mode'[s] = m
<1>1. PICK off \in SUBSET Servos, chg \in SUBSET Servos, on \in SUBSET Servos :
        /\ Reached({off, chg, on})
        /\ mode' = [s \in Servos |-> IF s \in chg /\ ~Off(off)[s] THEN m ELSE mode[s]]
        /\ torque' = [s \in Servos |-> Off(off)[s] \/ s \in on]
  BY DEF SetMode
<1>2. off = Servos /\ chg = Servos /\ on = Servos
  BY <1>1, NoFaultNoLoss
<1>3. \A s \in Servos : ~Off(off)[s]
  BY <1>2 DEF Off
<1> QED
  BY <1>1, <1>2, <1>3

TurningInv == faults \in Nat /\ AllTurning

LEMMA TurningStep == TurningInv /\ [Next]_vars => TurningInv'
<1> SUFFICES ASSUME TurningInv, [Next]_vars PROVE TurningInv'
  OBVIOUS
<1> USE DEF TurningInv, AllTurning
<1>1. CASE OpenFile
  BY <1>1 DEF OpenFile
<1>2. CASE ToPositions
  <2>1. faults' \in Nat
    BY <1>2, FaultsStep DEF ToPositions, SetMode
  <2> QED
    BY <1>2, <2>1 DEF ToPositions
<1>3. CASE ToVelocity
  <2>1. faults' \in Nat
    BY <1>3, FaultsStep DEF ToVelocity, SetMode
  <2>2. faults' = 0 => \A s \in Servos : torque'[s] /\ mode'[s] = "OP_VELOCITY"
    BY <1>3, ModeTaken DEF ToVelocity, Modes
  <2> QED
    BY <2>1, <2>2
<1>4. CASE RecordRow
  BY <1>4 DEF RecordRow, EndPass
<1>5. CASE RestPass
  <2>1. faults' \in Nat
    BY <1>5, FaultsStep DEF RestPass, TorqueOff
  <2> QED
    BY <1>5, <2>1 DEF RestPass, EndPass
<1>6. CASE Push
  BY <1>6 DEF Push
<1>7. CASE LetGo
  BY <1>7 DEF LetGo
<1>8. CASE Reset
  BY <1>8 DEF Reset
<1>9. CASE UNCHANGED vars
  BY <1>9 DEF vars
<1> QED
  BY <1>1, <1>2, <1>3, <1>4, <1>5, <1>6, <1>7, <1>8, <1>9 DEF Next, Sketch

(* While a recording is made and no call was lost, every servo turns.       *)
THEOREM RecordingTurns == Spec => []AllTurning
<1>1. Init => TurningInv
  <2>1. Init => faults = 0 /\ at # "record"
    BY DEF Init
  <2> QED
    BY <2>1 DEF TurningInv, AllTurning
<1>2. TurningInv => AllTurning
  BY DEF TurningInv
<1> QED
  BY <1>1, TurningStep, <1>2, PTL DEF Spec
-----------------------------------------------------------------------------
(* What the finger, the reset button, the card and the bus may do.          *)
AroundOK ==
  /\ button \in {0, 1} /\ presses \in 0 .. MaxPresses /\ upSince \in BOOLEAN
  /\ boots \in 1 .. MaxBoots /\ faults \in 0 .. MaxFaults
  /\ card \in [Files -> SUBSET (1 .. MaxBoots)]
  /\ torque \in [Servos -> BOOLEAN] /\ mode \in [Servos -> Modes]

(* What the sketch keeps in RAM; its counts are bounded by the pushes.      *)
SketchOK ==
  /\ at \in {"loop", "position", "velocity", "record", "no_MPU"}
  /\ buttonStateNow \in {0, 1} /\ buttonStatePrev \in {0, 1}
  /\ pushbutton \in {0, 1} /\ LED \in BOOLEAN

LEMMA ServosKeepTypes ==
  ASSUME torque \in [Servos -> BOOLEAN], mode \in [Servos -> Modes],
         faults \in 0 .. MaxFaults
  PROVE  /\ \A m \in Modes : SetMode(m) =>
              /\ torque' \in [Servos -> BOOLEAN] /\ mode' \in [Servos -> Modes]
              /\ faults' \in 0 .. MaxFaults
         /\ TorqueOff => torque' \in [Servos -> BOOLEAN] /\ faults' \in 0 .. MaxFaults
<1>1. ASSUME NEW sets, Reached(sets) PROVE faults' \in 0 .. MaxFaults
  BY <1>1, RecorderAssumption DEF Reached
<1>2. ASSUME NEW m \in Modes, SetMode(m)
      PROVE  /\ torque' \in [Servos -> BOOLEAN] /\ mode' \in [Servos -> Modes]
             /\ faults' \in 0 .. MaxFaults
  <2>1. PICK off \in SUBSET Servos, chg \in SUBSET Servos, on \in SUBSET Servos :
          /\ Reached({off, chg, on})
          /\ mode' = [s \in Servos |-> IF s \in chg /\ ~Off(off)[s] THEN m ELSE mode[s]]
          /\ torque' = [s \in Servos |-> Off(off)[s] \/ s \in on]
    BY <1>2 DEF SetMode
  <2>2. torque' \in [Servos -> BOOLEAN]
    <3>1. \A s \in Servos : (Off(off)[s] \/ s \in on) \in BOOLEAN
      OBVIOUS
    <3> QED
      BY <2>1, <3>1
  <2>3. mode' \in [Servos -> Modes]
    BY <2>1
  <2> QED
    BY <1>1, <2>1, <2>2, <2>3
<1>3. ASSUME TorqueOff
      PROVE  torque' \in [Servos -> BOOLEAN] /\ faults' \in 0 .. MaxFaults
  <2>1. PICK off \in SUBSET Servos : Reached({off}) /\ torque' = Off(off)
    BY <1>3 DEF TorqueOff
  <2>2. \A s \in Servos : (torque[s] /\ s \notin off) \in BOOLEAN
    OBVIOUS
  <2>3. torque' \in [Servos -> BOOLEAN]
    BY <2>1, <2>2 DEF Off
  <2> QED
    BY <1>1, <2>1, <2>3
<1> QED
  BY <1>2, <1>3

LEMMA AroundStep ==
  ASSUME AroundOK, file \in 0 .. MaxPresses, [Next]_vars
  PROVE  AroundOK'
<1> USE DEF AroundOK
<1>1. CASE OpenFile
  BY <1>1 DEF OpenFile, finger
<1>2. CASE ToPositions
  BY <1>2, ServosKeepTypes DEF ToPositions, finger, Modes
<1>3. CASE ToVelocity
  BY <1>3, ServosKeepTypes DEF ToVelocity, finger, Modes
<1>4. CASE RecordRow
  BY <1>4 DEF RecordRow, finger
<1>5. CASE RestPass
  <2>1. UNCHANGED <<button, presses, upSince, boots, mode>>
    BY <1>5 DEF RestPass, finger
  <2>2. torque' \in [Servos -> BOOLEAN] /\ faults' \in 0 .. MaxFaults
    BY <1>5, ServosKeepTypes DEF RestPass
  <2>3. card' = card \/ (file \in Files /\ card' = [card EXCEPT ![file] = @ \cup {boots}])
    BY <1>5, RecorderAssumption DEF RestPass, Files
  <2>4. card' \in [Files -> SUBSET (1 .. MaxBoots)]
    BY <2>3
  <2> QED
    BY <2>1, <2>2, <2>4
<1>6. CASE Push
  BY <1>6, RecorderAssumption DEF Push
<1>7. CASE LetGo
  BY <1>7 DEF LetGo
<1>8. CASE Reset
  BY <1>8, RecorderAssumption DEF Reset, finger
<1>9. CASE UNCHANGED vars
  BY <1>9 DEF vars, finger
<1> QED
  BY <1>1, <1>2, <1>3, <1>4, <1>5, <1>6, <1>7, <1>8, <1>9 DEF Next, Sketch

LEMMA SketchStep ==
  ASSUME SketchOK, button \in {0, 1}, [Next]_vars
  PROVE  SketchOK'
<1> USE DEF SketchOK
<1>1. CASE OpenFile
  BY <1>1 DEF OpenFile
<1>2. CASE ToPositions
  BY <1>2 DEF ToPositions, flags
<1>3. CASE ToVelocity
  BY <1>3 DEF ToVelocity, EndPass
<1>4. CASE RecordRow
  BY <1>4 DEF RecordRow, EndPass
<1>5. CASE RestPass
  BY <1>5 DEF RestPass, EndPass, LightOff
<1>6. CASE Push
  BY <1>6 DEF Push, flags
<1>7. CASE LetGo
  BY <1>7 DEF LetGo, flags
<1>8. CASE Reset
  <2>1. /\ buttonStateNow' = 0 /\ buttonStatePrev' = 0 /\ pushbutton' = 0 /\ LED' = FALSE
        /\ at' \in {"loop", "no_MPU"}
    BY <1>8 DEF Reset, Globals
  <2> QED
    BY <2>1
<1>9. CASE UNCHANGED vars
  BY <1>9 DEF vars, flags
<1> QED
  BY <1>1, <1>2, <1>3, <1>4, <1>5, <1>6, <1>7, <1>8, <1>9 DEF Next, Sketch

(* Every variable keeps its type for any number of servos, pushes, resets   *)
(* and lost calls; the click count, which numbers the files, never runs     *)
(* ahead of the pushes of the finger.                                       *)
THEOREM TypeCorrect == Spec => []TypeOK
<1> DEFINE Inv == AroundOK /\ SketchOK /\ CardInv
<1>1. CardInv => file \in 0 .. MaxPresses /\ buttonPressCount \in 1 .. MaxPresses + 1
  BY RecorderAssumption DEF CardInv, Files
<1>2. Init => Inv
  <2> SUFFICES ASSUME Init PROVE AroundOK /\ SketchOK
    BY CardInit
  <2>1. AroundOK
    <3>1. card \in [Files -> SUBSET (1 .. MaxBoots)]
      BY DEF Init
    <3> QED
      BY <3>1, RecorderAssumption DEF Init, AroundOK
  <2>2. SketchOK
    <3>1. /\ buttonStateNow = 0 /\ buttonStatePrev = 0 /\ pushbutton = 0 /\ LED = FALSE
          /\ at \in {"loop", "no_MPU"}
      BY DEF Init, Globals
    <3> QED
      BY <3>1 DEF SketchOK
  <2> QED
    BY <2>1, <2>2
<1>3. Inv /\ [Next]_vars => Inv'
  <2> SUFFICES ASSUME Inv, [Next]_vars PROVE Inv'
    OBVIOUS
  <2>1. AroundOK'
    BY <1>1, AroundStep
  <2>2. SketchOK'
    BY SketchStep DEF AroundOK
  <2> QED
    BY <2>1, <2>2, CardStep
<1>4. Inv => TypeOK
  BY <1>1 DEF AroundOK, SketchOK, TypeOK
<1> QED
  BY <1>2, <1>3, <1>4, PTL DEF Spec
=============================================================================
