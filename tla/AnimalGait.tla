----------------------------- MODULE AnimalGait ------------------------------
(***************************************************************************)
(* animal_gait_with_fins.ino and animal_gait_body_only.ino: the gaits and  *)
(* the log from the end of setup() to the end of the power, which may be   *)
(* after the clock has come round.  loop() samples millis() once, advances *)
(* the gait, commands every joint and makes one step of the logger.  The   *)
(* camera's timer interrupt shares nothing with loop() in these sketches.  *)
(*                                                                         *)
(* Positions are whole numbers in a unit of the model's choosing, rounded  *)
(* down; the sketches ease in float and cast to ticks when they write.     *)
(***************************************************************************)
EXTENDS GaitLogger

CONSTANTS
  Joints,        (* the servo ids: {1, 7}, with fins {1, 7, 10, 11}         *)
  Bend,          (* the offset of a body joint from its centre, at 0        *)
  FinSwing,      (* from the planted position of a fin, 0, to the lifted one*)
  BodyEase, FinEase, FinDelay,
  CDuration, SDuration,
  PassLengths,   (* the times from one pass to the next                     *)
  Boots,         (* values of millis() at the end of setup()                *)
  SetupRest      (* the time setup() takes after it has set runStartMillis  *)

Body == Joints \cap {1, 7}
Fins == Joints \ Body
MaxPass == CHOOSE d \in PassLengths : \A e \in PassLengths : e <= d

ASSUME AnimalAssumption ==
  /\ Joints \subseteq {1, 7, 10, 11}
  /\ Bend \in Nat /\ FinSwing \in Nat
  /\ BodyEase \in Nat \ {0} /\ FinEase \in Nat \ {0} /\ FinDelay \in Nat
  /\ CDuration \in Nat /\ SDuration \in Nat
  /\ PassLengths \subseteq Nat \ {0}
  /\ MaxPass \in PassLengths /\ \A d \in PassLengths : d <= MaxPass
  /\ Boots \subseteq Time /\ SetupRest \in Time
  /\ CDuration + MaxPass < ClockMod /\ SDuration + MaxPass < ClockMod

VARIABLES
  now,             (* the clock at the last pass                            *)
  runStartMillis,
  gaitIndex, gaitStartTime,
  switchPos,       (* where the joints were commanded to when the gait began*)
  lastCommanded

vars == <<now, runStartMillis, gaitIndex, gaitStartTime, switchPos, lastCommanded,
          loggerVars>>
-----------------------------------------------------------------------------
Gaits == 0 .. 3

(* The table GAITS: C-right, S-right, C-left, S-left.  The head, joint 1,   *)
(* leads; one fin lifts as the other is planted.                            *)
Target(g, j) ==
  CASE j = 1  -> IF g \in {0, 3} THEN Bend ELSE -Bend
    [] j = 7  -> IF g \in {0, 1} THEN Bend ELSE -Bend
    [] j = 10 -> IF g \in {0, 3} THEN 0 ELSE FinSwing
    [] j = 11 -> IF g \in {0, 3} THEN FinSwing ELSE 0

Duration(g) == IF g \in {0, 2} THEN CDuration ELSE SDuration

(* lerp(from, to, smoothstep(t / length)).                                  *)
Ease(from, to, t, length) ==
  IF t <= 0 THEN from
  ELSE IF t >= length THEN to
  ELSE from + ((to - from) * t * t * (3 * length - 2 * t))
                \div (length * length * length)

Eased(j, from, g, t) ==
  IF j \in Body THEN Ease(from, Target(g, j), t, BodyEase)
  ELSE Ease(from, Target(g, j),
            t - (IF g \in {0, 2} THEN 0 ELSE FinDelay), FinEase)

(* setup() has just commanded the body straight and both fins planted.      *)
Init ==
  /\ now \in Boots /\ gaitStartTime = now
  /\ runStartMillis = Minus(now, SetupRest)
  /\ gaitIndex = 0
  /\ lastCommanded = [j \in Joints |-> 0] /\ switchPos = lastCommanded
  /\ InitLogger(0)

(* Variant: the deadline compared with the clock, wrong when it has wrapped.*)
GaitOverAtDeadline ==
  now' > (gaitStartTime + Duration(gaitIndex)) % ClockMod

GaitOver == Minus(now', gaitStartTime) > Duration(gaitIndex)

NextGait ==
  /\ gaitIndex' = (gaitIndex + 1) % 4
  /\ gaitStartTime' = now'
  /\ switchPos' = lastCommanded

(* Variant: not reset when the gait changes.                                *)
ElapsedKept == Minus(now', gaitStartTime)

ElapsedInGait == Minus(now', gaitStartTime')

(* loop().                                                                  *)
Pass ==
  /\ \E d \in PassLengths : now' = (now + d) % ClockMod
  /\ \/ GaitOver /\ NextGait
     \/ ~GaitOver /\ UNCHANGED <<gaitIndex, gaitStartTime, switchPos>>
  /\ lastCommanded' =
       [j \in Joints |-> Eased(j, switchPos'[j], gaitIndex', ElapsedInGait)]
  /\ UpdateLogging(now', runStartMillis)
  /\ UNCHANGED runStartMillis

Next == Pass

Spec == Init /\ [][Next]_vars
-----------------------------------------------------------------------------
TypeOK ==
  /\ LoggerTypeOK /\ ReadsInBounds
  /\ {now, runStartMillis, gaitStartTime} \subseteq Time
  /\ gaitIndex \in Gaits
  /\ {switchPos, lastCommanded} \subseteq
       [Joints -> (-Bend .. Bend) \cup (0 .. FinSwing)]

(* A gait is held for its duration and at most one pass longer, and then    *)
(* the next one of the table begins.                                        *)
GaitInTime ==
  LET age == Minus(now', gaitStartTime)
  IN IF gaitStartTime' = gaitStartTime
     THEN age <= Duration(gaitIndex) /\ gaitIndex' = gaitIndex
     ELSE /\ age > Duration(gaitIndex) /\ age <= Duration(gaitIndex) + MaxPass
          /\ gaitIndex' = (gaitIndex + 1) % 4

(* A row's samples come from the passes of its own cycle, one per pass in   *)
(* order, and its time is that of the cycle's start since the run's.        *)
RowOfOneCycle(r) ==
  /\ Minus(r.start, runStartMillis) = r.ts
  /\ \A s \in Servos, f \in Fields :
       LET nth == s * NFields + f
       IN \E age \in nth .. nth * MaxPass : r.samples[s][f] = (r.start + age) % ClockMod

(* Cycles start LOG_INTERVAL_MS apart and at most one pass late, or one     *)
(* cycle of stalled passes.                                                 *)
InTurn(r, before) ==
  LET gap == Minus(r.start, before.start)
  IN /\ LogInterval <= gap
     /\ gap < LogInterval + MaxPass \/ gap <= NServos * NFields * MaxPass

(* Gaits and rows keep their times, whatever the lengths of the passes and  *)
(* also when millis() comes round under them: only differences of clock     *)
(* values are ever compared (loop(), updateLogging()).                      *)
KeepsTime ==
  [][/\ GaitInTime
     /\ row' # row => RowOfOneCycle(row') /\ (row # NoRow => InTurn(row', row))]_vars

(* No joint is commanded faster than its ease: from pass to pass a command  *)
(* moves by at most the greatest slope of smoothstep times the time gone by *)
(* (and the rounding), also in the pass that changes the gait, however far  *)
(* the ease before had got (switchPos1 = lastCommandedPos1).                *)
Slope(j) ==
  IF j \in Body THEN <<2 * Bend, BodyEase>> ELSE <<FinSwing, FinEase>>

NoJump ==
  [][\A j \in Joints :
       LET swing == Slope(j)[1]  length == Slope(j)[2]
           moved == lastCommanded'[j] - lastCommanded[j]
       IN \A by \in {moved, -moved} :
            2 * length * (by - 1) <= 3 * swing * Minus(now', now)]_vars
=============================================================================
