---------------------------- MODULE RunLogProofs ----------------------------
(***************************************************************************)
(* The run counter and the log file, for counters of any width: as long as *)
(* no more runs are made than there are numbers, EEPROM and file keep the  *)
(* promise of RunFile, whatever is lost with the power and whichever card  *)
(* operations fail.                                                        *)
(***************************************************************************)
EXTENDS RunLog, SequenceTheorems, TLAPS

Stored == high * ByteMod + low

(* The run has its number, and the EEPROM does not have all of it; the      *)
(* EEPROM has it.                                                           *)
Counting == at \in {"put_low", "put_high"}
Counted == at \in {"SD_begin", "header", "close_header", "marker", "close_marker",
                   "loop", "close_row"}
Unlogged == at \in {"read_counter", "put_low", "put_high", "SD_begin", "header",
                    "close_header", "marker", "close_marker"}

Numbers == {i \in DOMAIN file : HasNumber(i)}

(* Types, and what the steps of setup() find when they begin.               *)
ShapeInv ==
  /\ TypeOK
  /\ at # "off" => boots >= 1
  /\ Counting \/ Counted => runNumber \in 1 .. Blank
  /\ at = "close_header" => pending = <<[kind |-> "header", boot |-> boots]>>
  /\ at = "close_marker" =>
       pending = <<[kind |-> "marker", run |-> runNumber, boot |-> boots]>>
  /\ at = "close_row" => pending = <<RowLine>>

(* The lines stand in the order of the power-ups that wrote them, and each  *)
(* power-up has one number.                                                 *)
OrderInv ==
  /\ \A i \in Numbers : file[i].boot <= boots
  /\ \A i, j \in Numbers : i <= j => file[i].boot <= file[j].boot
  /\ \A i, j \in Numbers : file[i].boot = file[j].boot => file[i].run = file[j].run
  /\ Counted => \A i \in Numbers : file[i].boot = boots => file[i].run = runNumber
  /\ Unlogged => \A i \in Numbers : file[i].boot < boots
  /\ Numbers # {} => \E i \in Numbers : \A j \in Numbers : j <= i

(* How many runs ago n was the number, if the last was s.  The numbers go   *)
(* round, so this is what tells two power-ups apart.                        *)
Last == IF Counting THEN runNumber ELSE Stored
Steps(n, s) == IF n <= s THEN s - n ELSE s - n + Blank

(* Every power-up takes the counter one step on at most, extra of which are *)
(* still to come, so that a number lies no further back than its power-up;  *)
(* and what an earlier power-up wrote lies further back.                    *)
Distances(l, extra) ==
  /\ \A i \in Numbers :
       /\ file[i].run \in 1 .. Blank
       /\ Steps(file[i].run, l) + extra <= boots - file[i].boot
  /\ \A i, j \in Numbers :
       file[i].boot < file[j].boot => Steps(file[i].run, l) > Steps(file[j].run, l)

OldBefore(l) ==
  \A i \in Numbers : file[i].boot < boots => Steps(file[i].run, l) >= 1

Extra == IF at = "read_counter" THEN 1 ELSE 0

CounterInv ==
  /\ Counted => runNumber = Stored
  /\ at = "put_low" => runNumber = NextRun(Stored)
  /\ at = "put_high" => low = runNumber % ByteMod
  /\ Distances(Last, Extra)
  /\ Counting \/ Counted => OldBefore(Last)

(* The file ends in a section of the run under way.                         *)
InSection ==
  \E i \in DOMAIN file :
    /\ file[i] = [kind |-> "marker", run |-> runNumber, boot |-> boots]
    /\ \A j \in i + 1 .. Len(file) : file[j].kind \in {"row", "bare_row"}

(* While no single operation has failed, the file is empty until its header *)
(* is written, no line of it is spoilt, and a logging run has its section.  *)
SectionInv ==
  /\ ~exists => file = <<>>
  /\ at \in {"close_header", "close_marker", "close_row"} => exists
  /\ Unlogged => ~sdReady
  /\ at = "close_row" => sdReady
  /\ faults = 0 =>
       /\ at \in {"header", "close_header"} => file = <<>>
       /\ \A i \in DOMAIN file : file[i].kind \in {"header", "marker", "row", "bare_row"}
       /\ at \in {"loop", "close_row"} /\ sdReady => InSection

RunInv == ShapeInv /\ OrderInv /\ (~torn => CounterInv) /\ SectionInv
-----------------------------------------------------------------------------
(* Arithmetic of the counter's bytes.                                       *)
LEMMA DivMod ==
  ASSUME NEW n \in Nat, NEW b \in Nat \ {0}
  PROVE  n = (n \div b) * b + (n % b) /\ n % b \in 0 .. b - 1 /\ n \div b \in Nat
  OBVIOUS

LEMMA HighByte ==
  ASSUME NEW n \in Nat, NEW b \in Nat \ {0}, n < b * b
  PROVE  n \div b \in 0 .. b - 1
<1> DEFINE q == n \div b
<1>1. q \in Nat /\ q * b <= n
  BY DivMod
<1>2. ASSUME q >= b PROVE FALSE
  <2> HIDE DEF q
  <2>1. q * b >= b * b
    BY <1>1, <1>2
  <2> QED
    BY <2>1, <1>1
<1> QED
  BY <1>1, <1>2

LEMMA TwoBytes ==
  ASSUME NEW b \in Nat \ {0}, NEW h \in 0 .. b - 1, NEW l \in 0 .. b - 1
  PROVE  h * b + l \in 0 .. b * b - 1
<1>1. h * b \in Nat /\ b * b \in Nat /\ h * b <= (b - 1) * b
  OBVIOUS
<1>2. (b - 1) * b = b * b - b
  OBVIOUS
<1> QED
  BY <1>1, <1>2

LEMMA CounterRange ==
  /\ Blank \in Nat /\ Blank >= 3 /\ Counter = 0 .. Blank
  /\ MaxBoots \in Nat /\ MaxBoots <= Blank
<1>1. ByteMod * ByteMod \in Nat /\ ByteMod * ByteMod >= 2 * ByteMod
  BY CounterAssumption
<1> QED
  BY <1>1, CounterAssumption DEF Blank, Counter

LEMMA StoredRange ==
  ASSUME TypeOK
  PROVE  Stored \in Counter /\ NextRun(Stored) \in 1 .. Blank
<1>1. Stored \in 0 .. ByteMod * ByteMod - 1
  BY TwoBytes, CounterAssumption DEF TypeOK, Stored
<1> QED
  BY <1>1, CounterRange DEF Counter, Blank, NextRun
-----------------------------------------------------------------------------
(* What a step may do to the lines of the file.                             *)
LEMMA LineParts ==
  ASSUME NEW l \in Line
  PROVE  /\ l.kind \in {"header", "bare_row", "fragment", "spoilt", "marker", "row"}
         /\ l.boot \in 1 .. MaxBoots
         /\ l.kind \in {"marker", "row"} => l.run \in Counter
  BY DEF Line

LEMMA FileParts ==
  ASSUME TypeOK
  PROVE  /\ Len(file) \in Nat /\ DOMAIN file = 1 .. Len(file)
         /\ \A i \in DOMAIN file : file[i] \in Line
         /\ boots \in Nat /\ boots <= MaxBoots /\ runNumber \in Counter
         /\ faults \in Nat
<1>1. file \in Seq(Line)
  BY DEF TypeOK
<1>2. /\ Len(file) \in Nat /\ DOMAIN file = 1 .. Len(file)
      /\ \A i \in DOMAIN file : file[i] \in Line
  BY <1>1, LenProperties, ElementOfSeq
<1>3. boots \in Nat /\ boots <= MaxBoots
  <2>1. boots \in 0 .. MaxBoots
    BY DEF TypeOK
  <2> QED
    BY <2>1, CounterRange
<1>4. runNumber \in Counter
  BY DEF TypeOK
<1>5. faults \in Nat
  <2>1. faults \in 0 .. MaxFaults
    BY DEF TypeOK
  <2> QED
    BY <2>1, CounterAssumption
<1> QED
  BY <1>2, <1>3, <1>4, <1>5

(* An unfinished line is spoilt by what comes behind it; the others stay.   *)
Repaired ==
  /\ Len(file') = Len(file)
  /\ \A i \in 1 .. Len(file) :
       \/ file'[i] = file[i]
       \/ /\ file[i].kind = "fragment" /\ file'[i].kind = "spoilt"
          /\ file'[i].boot = file[i].boot

LEMMA BehindStep ==
  ASSUME TypeOK, NEW l \in Line, l.kind # "spoilt",
         file' = Behind(<<l>>)
  PROVE  /\ file' \in Seq(Line)
         /\ \/ file' = Append(file, l)
            \/ Repaired /\ \E i \in DOMAIN file : file[i].kind = "fragment"
<1> DEFINE n == Len(file)
<1>0. file \in Seq(Line) /\ n \in Nat
  BY FileParts DEF TypeOK
<1>1. CASE file # <<>> /\ file[n].kind = "fragment"
  <2>1. n \in DOMAIN file /\ n \in 1 .. Len(file)
    <3>1. n # 0
      BY <1>0, <1>1, EmptySeq
    <3> QED
      BY <1>0, <3>1, FileParts
  <2>2. file' = [file EXCEPT ![n].kind = IF l.kind = "fragment" THEN @ ELSE "spoilt"]
    BY <1>1 DEF Behind
  <2>3. file[n] \in [kind : {"header", "bare_row", "fragment", "spoilt"}, boot : 1 .. MaxBoots]
    BY <1>1, <2>1, FileParts DEF Line
  <2> DEFINE new == [file[n] EXCEPT !.kind = IF l.kind = "fragment" THEN "fragment" ELSE "spoilt"]
  <2>4. /\ file' = [file EXCEPT ![n] = new]
        /\ new \in Line /\ new.boot = file[n].boot
        /\ new.kind = "spoilt" \/ new = file[n]
    <3>1. CASE l.kind = "fragment"
      <4>1. new = file[n]
        BY <1>1, <2>3, <3>1
      <4>2. file' = [file EXCEPT ![n] = file[n]]
        BY <1>1, <2>2, <2>3, <3>1
      <4> QED
        BY <2>1, <4>1, <4>2, FileParts
    <3>2. CASE l.kind # "fragment"
      <4>1. file' = [file EXCEPT ![n] = new]
        BY <2>2, <3>2
      <4>2. new = [kind |-> "spoilt", boot |-> file[n].boot]
        BY <2>3, <3>2
      <4> QED
        BY <2>3, <4>1, <4>2 DEF Line
    <3> QED
      BY <3>1, <3>2
  <2>5. /\ file' \in Seq(Line) /\ Len(file') = Len(file)
        /\ \A i \in 1 .. Len(file) : file'[i] = IF i = n THEN new ELSE file[i]
    <3> HIDE DEF new, n
    <3> QED
      BY <1>0, <2>1, <2>4, ExceptSeq
  <2> QED
    BY <1>1, <2>1, <2>4, <2>5 DEF Repaired
<1>2. CASE ~(file # <<>> /\ file[n].kind = "fragment")
  <2>1. file' = file \o <<l>>
    BY <1>2 DEF Behind
  <2>2. file' = Append(file, l) /\ file' \in Seq(Line)
    BY <1>0, <2>1
  <2> QED
    BY <2>2
<1> QED
  BY <1>1, <1>2

(* close() after the line l was printed.                                    *)
LEMMA CloseStep ==
  ASSUME ShapeInv, NEW l \in Line, l.kind # "spoilt", pending = <<l>>, at # "off",
         NEW next, CloseTo(next)
  PROVE  /\ file' \in Seq(Line)
         /\ \/ UNCHANGED file /\ Fault
            \/ /\ Repaired /\ \E i \in DOMAIN file : file[i].kind = "fragment"
               /\ UNCHANGED faults \/ Fault
            \/ file' = Append(file, l) /\ UNCHANGED faults
            \/ /\ file' = Append(file, [kind |-> "fragment", boot |-> boots])
               /\ Fault
<1>1. CASE file' = Behind(pending) /\ UNCHANGED faults
  BY <1>1, BehindStep DEF ShapeInv
<1>2. CASE file' = Behind(<<[kind |-> "fragment", boot |-> boots]>>) /\ Fault
  <2> DEFINE f == [kind |-> "fragment", boot |-> boots]
  <2>1. f \in Line /\ f.kind = "fragment"
    <3>1. boots \in Nat /\ boots <= MaxBoots /\ boots >= 1 /\ MaxBoots \in Nat
      BY FileParts, CounterRange DEF ShapeInv
    <3> QED
      BY <3>1 DEF Line
  <2> QED
    BY <1>2, <2>1, BehindStep DEF ShapeInv
<1>3. CASE file' = file /\ Fault
  BY <1>3 DEF ShapeInv, TypeOK
<1> QED
  BY <1>1, <1>2, <1>3 DEF CloseTo
-----------------------------------------------------------------------------
(* Types.                                                                   *)
LEMMA ShapeInit == Init => ShapeInv
<1> SUFFICES ASSUME Init PROVE ShapeInv
  OBVIOUS
<1>1. 0 \in 0 .. MaxBoots /\ 0 \in 0 .. MaxFaults /\ 0 \in Counter
  BY CounterRange, CounterAssumption
<1>2. file \in Seq(Line) /\ pending = <<>>
  BY DEF Init
<1>3. TypeOK
  BY <1>1, <1>2 DEF Init, TypeOK
<1> QED
  BY <1>3 DEF Init, ShapeInv, Counting, Counted

(* What TypeOK says of all but the file and the line pending.               *)
Scalars ==
  /\ checksOpens \in BOOLEAN
  /\ low \in 0 .. ByteMod - 1 /\ high \in 0 .. ByteMod - 1 /\ exists \in BOOLEAN
  /\ at \in {"off", "read_counter", "put_low", "put_high", "SD_begin", "header",
             "close_header", "marker", "close_marker", "loop", "close_row"}
  /\ boots \in 0 .. MaxBoots
  /\ runNumber \in Counter /\ sdReady \in BOOLEAN
  /\ faults \in 0 .. MaxFaults /\ torn \in BOOLEAN

LEMMA ScalarsType ==
  /\ TypeOK => /\ Scalars /\ file \in Seq(Line)
               /\ pending \in {<<>>} \cup {<<l>> : l \in Line}
  /\ Scalars' /\ file' \in Seq(Line) /\ pending' \in {<<>>} \cup {<<l>> : l \in Line}
       => TypeOK'
  BY DEF TypeOK, Scalars

LEMMA FaultStep ==
  ASSUME Scalars, UNCHANGED faults \/ Fault
  PROVE  faults' \in 0 .. MaxFaults
<1>1. faults \in 0 .. MaxFaults
  BY DEF Scalars
<1> QED
  BY <1>1, CounterAssumption DEF Fault

LEMMA Bounds ==
  ASSUME ShapeInv
  PROVE  /\ boots \in Nat /\ boots <= MaxBoots /\ MaxBoots \in Nat
         /\ at # "off" => boots \in 1 .. MaxBoots
         /\ runNumber \in Counter /\ runNumber \in Nat
         /\ runNumber < ByteMod * ByteMod
<1>1. TypeOK
  BY DEF ShapeInv
<1>2. boots \in Nat /\ boots <= MaxBoots /\ runNumber \in Counter
  BY <1>1, FileParts
<1>3. at # "off" => boots >= 1
  BY DEF ShapeInv
<1>4. runNumber \in Nat /\ runNumber < ByteMod * ByteMod
  BY <1>2, CounterAssumption DEF Counter
<1> QED
  BY <1>2, <1>3, <1>4, CounterRange

(* The steps of setup() and loop() that touch neither file nor line.        *)
LEMMA QuietShape ==
  ASSUME ShapeInv, UNCHANGED <<file, pending>>,
         Scalars', at' # "off" => boots' >= 1,
         (Counting \/ Counted)' => runNumber' \in 1 .. Blank,
         at' \notin {"close_header", "close_marker", "close_row"}
  PROVE  ShapeInv'
<1>1. TypeOK /\ file' = file /\ pending' = pending
  BY DEF ShapeInv
<1>2. file' \in Seq(Line) /\ pending' \in {<<>>} \cup {<<l>> : l \in Line}
  BY <1>1, ScalarsType
<1>3. TypeOK'
  BY <1>2, ScalarsType
<1> QED
  BY <1>3 DEF ShapeInv

LEMMA OpenShape ==
  ASSUME ShapeInv, NEW next \in {"close_header", "close_marker", "close_row"}, Counted,
         NEW line \in Line, OpenFor(line, next), sdReady' \in BOOLEAN,
         next = "close_header" => line = [kind |-> "header", boot |-> boots],
         next = "close_marker" => line = [kind |-> "marker", run |-> runNumber, boot |-> boots],
         next = "close_row" => line = RowLine
  PROVE  ShapeInv'
<1>1. pending' = <<line>> /\ pending' \in {<<l>> : l \in Line} /\ at' = next
  BY DEF OpenFor
<1>2. TypeOK'
  <2>1. Scalars /\ file \in Seq(Line)
    BY ScalarsType DEF ShapeInv
  <2>2. Scalars' /\ file' = file
    BY <1>1, <2>1 DEF Scalars, OpenFor, rom, past
  <2> QED
    BY <1>1, <2>1, <2>2, ScalarsType
<1>3. at # "off" /\ UNCHANGED <<boots, runNumber>> /\ RowLine' = RowLine
  BY DEF Counted, OpenFor, RowLine
<1> QED
  BY <1>1, <1>2, <1>3 DEF ShapeInv

LEMMA CloseShape ==
  ASSUME ShapeInv, NEW l \in Line, l.kind # "spoilt", pending = <<l>>, Counted,
         NEW next \in {"marker", "loop"}, CloseTo(next), sdReady' \in BOOLEAN
  PROVE  ShapeInv'
<1>1. file' \in Seq(Line) /\ (UNCHANGED faults \/ Fault)
  BY CloseStep DEF Counted
<1>2. faults' \in 0 .. MaxFaults
  BY <1>1, FaultStep, ScalarsType DEF ShapeInv
<1>3. Scalars'
  <2>1. Scalars
    BY ScalarsType DEF ShapeInv
  <2> QED
    BY <1>2, <2>1 DEF Scalars, CloseTo, rom
<1>4. TypeOK'
  BY <1>1, <1>3, ScalarsType DEF CloseTo
<1>5. at # "off" /\ at' = next /\ UNCHANGED <<boots, runNumber>>
  BY DEF Counted, CloseTo
<1> QED
  BY <1>4, <1>5 DEF ShapeInv

(* The lines that are printed are lines.                                    *)
LEMMA Printed ==
  ASSUME ShapeInv, at # "off"
  PROVE  /\ [kind |-> "header", boot |-> boots] \in Line
         /\ [kind |-> "marker", run |-> runNumber, boot |-> boots] \in Line
         /\ RowLine \in Line
         /\ \/ RowLine = [kind |-> "row", run |-> runNumber, boot |-> boots]
            \/ RowLine = [kind |-> "bare_row", boot |-> boots]
         /\ RowLine.kind \in {"row", "bare_row"}
<1>1. boots \in 1 .. MaxBoots /\ runNumber \in Counter
  BY Bounds
<1> QED
  BY <1>1 DEF Line, RowLine

LEMMA ShapeStep == ShapeInv /\ [Next]_vars => ShapeInv'
<1> SUFFICES ASSUME ShapeInv, [Next]_vars PROVE ShapeInv'
  OBVIOUS
<1>0. Scalars
  BY ScalarsType DEF ShapeInv
<1>1. CASE PowerUp
  <2>1. boots' \in 0 .. MaxBoots /\ boots' >= 1 /\ 0 \in Counter
    <3>1. boots < MaxBoots /\ boots' = boots + 1
      BY <1>1 DEF PowerUp
    <3> QED
      BY <3>1, Bounds, CounterRange
  <2>2. TypeOK'
    <3>1. Scalars'
      BY <1>0, <1>1, <2>1 DEF PowerUp, Scalars, rom, card, past
    <3>2. file' \in Seq(Line)
      BY <1>1 DEF PowerUp, card, ShapeInv, TypeOK
    <3> QED
      BY <1>1, <3>1, <3>2, ScalarsType DEF PowerUp
  <2> QED
    BY <1>1, <2>1, <2>2 DEF PowerUp, ShapeInv, Counting, Counted
<1>2. CASE PowerLoss
  <2>1. Scalars'
    BY <1>0, <1>2 DEF PowerLoss, Scalars, rom, card, ram
  <2> QED
    BY <1>2, <2>1, QuietShape DEF PowerLoss, card, ram, Counting, Counted
<1>3. CASE ReadCounter
  <2>1. runNumber' \in 1 .. Blank
    BY <1>3, StoredRange DEF ReadCounter, ShapeInv, Stored
  <2>2. Scalars'
    <3>1. runNumber' \in Counter
      BY <2>1, CounterRange
    <3> QED
      BY <1>0, <1>3, <3>1 DEF ReadCounter, Scalars, rom, card, past
  <2>3. boots' >= 1
    BY <1>3 DEF ReadCounter, ShapeInv
  <2> QED
    BY <1>3, <2>1, <2>2, <2>3, QuietShape DEF ReadCounter, card
<1>4. CASE PutLow
  <2>2. low' \in 0 .. ByteMod - 1
    BY <1>4, Bounds, DivMod, CounterAssumption DEF PutLow
  <2>3. Scalars'
    BY <1>0, <1>4, <2>2 DEF PutLow, Scalars, card, ram, past
  <2> QED
    BY <1>4, <2>3, QuietShape DEF PutLow, card, ram, ShapeInv, Counting
<1>5. CASE PutHigh
  <2>2. high' \in 0 .. ByteMod - 1
    BY <1>5, Bounds, HighByte, CounterAssumption DEF PutHigh
  <2>3. Scalars'
    BY <1>0, <1>5, <2>2 DEF PutHigh, Scalars, card, ram, past
  <2> QED
    BY <1>5, <2>3, QuietShape DEF PutHigh, card, ram, ShapeInv, Counting
<1>6. CASE SdFails
  <2>1. Scalars'
    BY <1>0, <1>6 DEF SdFails, Scalars, rom, card, ram, past
  <2> QED
    BY <1>6, <2>1, QuietShape DEF SdFails, card, ram, ShapeInv, Counted
<1>7. CASE SdBegins
  <2>1. faults' \in 0 .. MaxFaults /\ at' \in {"marker", "header"}
    BY <1>0, <1>7, FaultStep DEF SdBegins
  <2>2. Scalars'
    BY <1>0, <1>7, <2>1 DEF SdBegins, Scalars, rom, card, ram
  <2> QED
    BY <1>7, <2>1, <2>2, QuietShape DEF SdBegins, card, ram, ShapeInv, Counted
<1>8. CASE OpenFails
  <2>1. faults' \in 0 .. MaxFaults /\ at' \in {"marker", "loop"} /\ sdReady' \in BOOLEAN
    BY <1>0, <1>8, FaultStep DEF OpenFails, Scalars
  <2>2. Scalars'
    BY <1>0, <1>8, <2>1 DEF OpenFails, Scalars, rom, card
  <2> QED
    BY <1>8, <2>1, <2>2, QuietShape DEF OpenFails, card, ShapeInv, Counted
<1>9. CASE OpenHeader \/ OpenMarker \/ OpenRow
  <2>1. Counted /\ sdReady' \in BOOLEAN
    BY <1>0, <1>9 DEF OpenHeader, OpenMarker, OpenRow, OpenFor, Counted, Scalars
  <2>2. at # "off"
    BY <2>1 DEF Counted
  <2> QED
    BY <1>9, <2>1, <2>2, Printed, OpenShape DEF OpenHeader, OpenMarker, OpenRow
<1>10. CASE CloseHeader
  BY <1>0, <1>10, Printed, CloseShape DEF CloseHeader, ShapeInv, Counted, Scalars
<1>11. CASE CloseMarker
  BY <1>11, Printed, CloseShape DEF CloseMarker, ShapeInv, Counted
<1>12. CASE CloseRow
  BY <1>0, <1>12, Printed, CloseShape DEF CloseRow, ShapeInv, Counted, Scalars
<1>13. CASE UNCHANGED vars
  BY <1>13 DEF vars, rom, card, ram, past, ShapeInv, TypeOK, Counting, Counted, RowLine
<1> QED
  BY <1>1, <1>2, <1>3, <1>4, <1>5, <1>6, <1>7, <1>8, <1>9, <1>10, <1>11, <1>12, <1>13
  DEF Next
-----------------------------------------------------------------------------
(* How a step changes what carries a number.                                *)
SameNumbers ==
  /\ Numbers' = Numbers
  /\ \A i \in Numbers : file'[i].run = file[i].run /\ file'[i].boot = file[i].boot

NewNumber ==
  /\ Numbers' = Numbers \cup {Len(file) + 1}
  /\ \A i \in Numbers : file'[i].run = file[i].run /\ file'[i].boot = file[i].boot
  /\ file'[Len(file) + 1].run = runNumber /\ file'[Len(file) + 1].boot = boots

LEMMA NumberParts ==
  ASSUME TypeOK, NEW i \in Numbers
  PROVE  /\ i \in 1 .. Len(file) /\ i <= Len(file)
         /\ file[i].run \in Counter /\ file[i].boot \in 1 .. MaxBoots
  BY FileParts, LineParts DEF Numbers, HasNumber

LEMMA KeptNumbers ==
  ASSUME TypeOK, UNCHANGED file \/ Repaired, file' \in Seq(Line)
  PROVE  SameNumbers
<1>1. CASE UNCHANGED file
  BY <1>1 DEF SameNumbers, Numbers, HasNumber
<1>2. CASE Repaired
  <2>1. DOMAIN file' = DOMAIN file /\ DOMAIN file = 1 .. Len(file)
    BY <1>2, FileParts, LenProperties DEF Repaired
  <2> QED
    BY <1>2, <2>1 DEF Repaired, SameNumbers, Numbers, HasNumber
<1> QED
  BY <1>1, <1>2

LEMMA AppendParts ==
  ASSUME TypeOK, NEW l \in Line, file' = Append(file, l)
  PROVE  /\ Len(file') = Len(file) + 1
         /\ DOMAIN file' = 1 .. Len(file) + 1 /\ DOMAIN file = 1 .. Len(file)
         /\ Len(file) \in Nat
         /\ \A i \in 1 .. Len(file) : file'[i] = file[i]
         /\ file'[Len(file) + 1] = l
<1>1. file \in Seq(Line) /\ Len(file) \in Nat /\ DOMAIN file = 1 .. Len(file)
  BY FileParts DEF TypeOK
<1> QED
  BY <1>1, AppendProperties

LEMMA AppendNumbers ==
  ASSUME TypeOK, NEW l \in Line, file' = Append(file, l)
  PROVE  /\ l.kind \in {"header", "bare_row", "fragment"} => SameNumbers
         /\ l.kind \in {"marker", "row"} /\ l.run = runNumber /\ l.boot = boots
              => NewNumber
<1> DEFINE n == Len(file) + 1
<1>1. /\ DOMAIN file' = DOMAIN file \cup {n} /\ n \notin DOMAIN file
      /\ \A i \in DOMAIN file : file'[i] = file[i]
      /\ file'[n] = l
  BY AppendParts
<1> HIDE DEF n
<1>2. ASSUME l.kind \in {"header", "bare_row", "fragment"} PROVE SameNumbers
  BY <1>1, <1>2 DEF SameNumbers, Numbers, HasNumber
<1>3. ASSUME l.kind \in {"marker", "row"}, l.run = runNumber, l.boot = boots
      PROVE  NewNumber
  <2>1. Numbers' = Numbers \cup {n}
    BY <1>1, <1>3 DEF Numbers, HasNumber
  <2>2. \A i \in Numbers : file'[i] = file[i]
    BY <1>1 DEF Numbers
  <2> QED
    BY <1>1, <1>3, <2>1, <2>2 DEF NewNumber, n
<1> QED
  BY <1>2, <1>3

LEMMA CloseNumbers ==
  ASSUME ShapeInv, NEW l \in Line, pending = <<l>>, at # "off", NEW next, CloseTo(next),
         \/ l.kind \in {"header", "bare_row"}
         \/ l.kind \in {"marker", "row"} /\ l.run = runNumber /\ l.boot = boots
  PROVE  SameNumbers \/ (l.kind \in {"marker", "row"} /\ NewNumber)
<1>1. TypeOK
  BY DEF ShapeInv
<1>2. [kind |-> "fragment", boot |-> boots] \in Line
  BY Bounds DEF Line
<1>3. CASE file' \in Seq(Line) /\ (UNCHANGED file \/ Repaired)
  BY <1>1, <1>3, KeptNumbers
<1>4. CASE file' = Append(file, l)
  BY <1>1, <1>4, AppendNumbers
<1>5. CASE file' = Append(file, [kind |-> "fragment", boot |-> boots])
  BY <1>1, <1>2, <1>5, AppendNumbers
<1> QED
  BY <1>3, <1>4, <1>5, CloseStep
-----------------------------------------------------------------------------
(* The order of the lines.                                                  *)
LEMMA OrderSame ==
  ASSUME OrderInv, SameNumbers, UNCHANGED boots, Unlogged' => Unlogged,
         Counted' => Unlogged \/ (Counted /\ UNCHANGED runNumber),
         ShapeInv
  PROVE  OrderInv'
<1>1. TypeOK /\ boots \in Nat
  BY Bounds DEF ShapeInv
<1>2. \A i \in Numbers : file[i].boot \in Nat
  BY <1>1, NumberParts, CounterRange
<1> QED
  BY <1>1, <1>2 DEF OrderInv, SameNumbers

LEMMA OrderNew ==
  ASSUME OrderInv, NewNumber, UNCHANGED <<boots, runNumber>>, Counted, ~Unlogged',
         ShapeInv
  PROVE  OrderInv'
<1> DEFINE n == Len(file) + 1
<1>1. TypeOK /\ boots \in Nat
  BY Bounds DEF ShapeInv
<1>2. \A i \in Numbers : file[i].boot \in Nat /\ i \in Nat /\ i < n
  <2>1. Len(file) \in Nat
    BY <1>1, FileParts
  <2> QED
    BY <1>1, <2>1, NumberParts, CounterRange
<1>3. n \in Nat
  BY <1>1, FileParts
<1>4. /\ Numbers' = Numbers \cup {n}
      /\ \A i \in Numbers : file'[i].run = file[i].run /\ file'[i].boot = file[i].boot
      /\ file'[n].run = runNumber /\ file'[n].boot = boots
  BY DEF NewNumber
<1> HIDE DEF n
<1>5. \A i \in Numbers' : file'[i].boot <= boots /\ (file'[i].boot = boots => file'[i].run = runNumber)
  BY <1>1, <1>4 DEF OrderInv
<1>6. \A i, j \in Numbers' : i <= j => file'[i].boot <= file'[j].boot
  BY <1>1, <1>2, <1>3, <1>4 DEF OrderInv
<1>7. \A i, j \in Numbers' : file'[i].boot = file'[j].boot => file'[i].run = file'[j].run
  BY <1>4, <1>5 DEF OrderInv
<1>8. \E i \in Numbers' : \A j \in Numbers' : j <= i
  BY <1>2, <1>3, <1>4
<1> QED
  BY <1>5, <1>6, <1>7, <1>8 DEF OrderInv

(* Only close() changes the file, by a number of the run or by no number.   *)
LEMMA NumbersStep ==
  ASSUME ShapeInv, [Next]_vars
  PROVE  \/ SameNumbers /\ ~(CloseHeader \/ CloseMarker \/ CloseRow)
         \/ SameNumbers /\ (CloseHeader \/ CloseMarker \/ CloseRow)
         \/ NewNumber /\ (CloseMarker \/ CloseRow)
<1>1. TypeOK
  BY DEF ShapeInv
<1>2. CASE CloseHeader
  BY <1>2, Printed, CloseNumbers DEF CloseHeader, ShapeInv
<1>3. CASE CloseMarker
  BY <1>3, Printed, CloseNumbers DEF CloseMarker, ShapeInv
<1>4. CASE CloseRow
  BY <1>4, Printed, CloseNumbers DEF CloseRow, ShapeInv
<1>5. CASE ~(CloseHeader \/ CloseMarker \/ CloseRow)
  <2>1. UNCHANGED file
    BY <1>5 DEF Next, vars, card, PowerUp, PowerLoss, ReadCounter, PutLow, PutHigh, SdFails,
                SdBegins, OpenFails, OpenHeader, OpenMarker, OpenRow, OpenFor
  <2>2. file \in Seq(Line)
    BY <1>1 DEF TypeOK
  <2> QED
    BY <1>1, <1>5, <2>1, <2>2, KeptNumbers
<1> QED
  BY <1>2, <1>3, <1>4, <1>5

LEMMA OrderStep ==
  ASSUME ShapeInv, OrderInv, [Next]_vars
  PROVE  OrderInv'
<1>1. CASE NewNumber /\ (CloseMarker \/ CloseRow)
  BY <1>1, OrderNew DEF CloseMarker, CloseRow, CloseTo, Counted, Unlogged
<1>2. CASE SameNumbers /\ (CloseHeader \/ CloseMarker \/ CloseRow)
  BY <1>2, OrderSame DEF CloseHeader, CloseMarker, CloseRow, CloseTo, Counted, Unlogged
<1>3. CASE SameNumbers /\ PowerUp
  <2>1. TypeOK /\ boots \in Nat /\ boots' = boots + 1
    BY <1>3, Bounds DEF ShapeInv, PowerUp
  <2>2. \A i \in Numbers : file[i].boot \in Nat
    BY <2>1, NumberParts, CounterRange
  <2>3. ~Counted'
    BY <1>3 DEF PowerUp, Counted
  <2> QED
    BY <1>3, <2>1, <2>2, <2>3 DEF OrderInv, SameNumbers
<1>4. CASE SameNumbers /\ ~(CloseHeader \/ CloseMarker \/ CloseRow) /\ ~PowerUp
  <2>1. UNCHANGED boots
    BY <1>4 DEF Next, vars, PowerLoss, ReadCounter, PutLow, PutHigh, SdFails, SdBegins,
                OpenFails, OpenHeader, OpenMarker, OpenRow, OpenFor
  <2>2. Unlogged' => Unlogged
    BY <1>4 DEF Next, vars, PowerLoss, ReadCounter, PutLow, PutHigh, SdFails, SdBegins,
                OpenFails, OpenHeader, OpenMarker, OpenRow, OpenFor, Unlogged
  <2>3. Counted' => Unlogged \/ (Counted /\ UNCHANGED runNumber)
    BY <1>4 DEF Next, vars, ram, PowerLoss, ReadCounter, PutLow, PutHigh, SdFails, SdBegins,
                OpenFails, OpenHeader, OpenMarker, OpenRow, OpenFor, Unlogged, Counted
  <2> QED
    BY <1>4, <2>1, <2>2, <2>3, OrderSame
<1> QED
  BY <1>1, <1>2, <1>3, <1>4, NumbersStep
-----------------------------------------------------------------------------
(* Distances on the circle of numbers.                                      *)
LEMMA StepsRange ==
  ASSUME NEW n \in 1 .. Blank, NEW s \in Counter
  PROVE  /\ Steps(n, s) \in 0 .. Blank - 1
         /\ Steps(n, s) + 1 < Blank => Steps(n, NextRun(s)) = Steps(n, s) + 1
         /\ Steps(n, NextRun(s)) >= 1 => Steps(n, NextRun(s)) = Steps(n, s) + 1
         /\ s # 0 => Steps(s, s) = 0
         /\ Steps(n, s) = 0 /\ s # 0 => n = s
<1>1. Blank \in Nat /\ Blank >= 3 /\ n \in Nat /\ n >= 1 /\ n <= Blank /\ s \in Nat /\ s <= Blank
  BY CounterRange
<1>2. CASE s = Blank
  <2>1. NextRun(s) = 1 /\ Steps(n, s) = Blank - n
    BY <1>1, <1>2 DEF NextRun, Steps
  <2>2. Steps(n, NextRun(s)) = IF n = 1 THEN 0 ELSE 1 - n + Blank
    BY <1>1, <2>1 DEF Steps
  <2>3. Steps(s, s) = 0
    BY <1>1 DEF Steps
  <2> HIDE DEF Blank
  <2> QED
    BY <1>1, <1>2, <2>1, <2>2, <2>3
<1>3. CASE s # Blank
  <2>1. NextRun(s) = s + 1
    BY <1>3 DEF NextRun
  <2> QED
    BY <1>1, <1>3, <2>1 DEF Steps
<1> QED
  BY <1>2, <1>3

(* The lines' numbers and power-ups, as numbers.                            *)
LEMMA NumberTypes ==
  ASSUME ShapeInv, CounterInv
  PROVE  /\ Last \in Counter /\ boots \in Nat
         /\ \A i \in Numbers :
              /\ file[i].boot \in Nat /\ file[i].boot >= 1
              /\ file[i].run \in 1 .. Blank
              /\ Steps(file[i].run, Last) \in 0 .. Blank - 1
<1>1. TypeOK /\ boots \in Nat
  BY Bounds DEF ShapeInv
<1>2. Last \in Counter
  BY <1>1, Bounds, StoredRange DEF Last
<1>3. \A i \in Numbers : file[i].boot \in Nat /\ file[i].boot >= 1
  BY <1>1, NumberParts, CounterRange
<1>4. \A i \in Numbers : file[i].run \in 1 .. Blank
  BY DEF CounterInv, Distances
<1>5. \A i \in Numbers : Steps(file[i].run, Last) \in 0 .. Blank - 1
  BY <1>2, <1>4, StepsRange
<1> QED
  BY <1>1, <1>2, <1>3, <1>4, <1>5

LEMMA Sooner ==
  ASSUME NEW s \in Int, NEW b \in Int, NEW c \in Int, NEW e \in 0 .. 1, NEW f \in 0 .. 1,
         f <= e, s + e <= c - b
  PROVE  s + f <= c - b
  OBVIOUS

LEMMA ExtraStep ==
  ASSUME at' = "read_counter" => at = "read_counter"
  PROVE  Extra \in 0 .. 1 /\ Extra' \in 0 .. 1 /\ Extra' <= Extra
<1>1. Extra \in 0 .. 1
  BY DEF Extra
<1>2. Extra' \in 0 .. 1
  BY DEF Extra
<1>3. Extra' <= Extra
  BY DEF Extra
<1> QED
  BY <1>1, <1>2, <1>3

(* A step that changes neither the last number nor the lines' numbers.      *)
LEMMA CounterSame ==
  ASSUME CounterInv, SameNumbers, UNCHANGED boots, Last' = Last,
         at' = "read_counter" => at = "read_counter",
         (Counting \/ Counted)' => Counting \/ Counted,
         Counted' => runNumber' = Stored',
         at' = "put_low" => runNumber' = NextRun(Stored)',
         at' = "put_high" => low' = runNumber' % ByteMod,
         ShapeInv
  PROVE  CounterInv'
<1>1. Extra \in 0 .. 1 /\ Extra' \in 0 .. 1 /\ Extra' <= Extra
  BY ExtraStep
<1>2. /\ Numbers' = Numbers
      /\ \A i \in Numbers : file'[i].run = file[i].run /\ file'[i].boot = file[i].boot
      /\ Last' = Last /\ boots' = boots
  BY DEF SameNumbers
<1>3. /\ boots \in Nat
      /\ \A i \in Numbers : /\ file[i].boot \in Nat
                            /\ file[i].run \in 1 .. Blank
                            /\ Steps(file[i].run, Last) \in 0 .. Blank - 1
  BY NumberTypes
<1>4. Distances(Last, Extra)
  BY DEF CounterInv
<1> HIDE DEF Last
<1>5. \A i \in Numbers : Steps(file[i].run, Last) + Extra' <= boots - file[i].boot
  <2>1. ASSUME NEW i \in Numbers
        PROVE  Steps(file[i].run, Last) + Extra' <= boots - file[i].boot
    <3>1. Steps(file[i].run, Last) \in Int /\ file[i].boot \in Int /\ boots \in Int
      <4>1. Blank - 1 \in Int
        BY CounterRange
      <4>2. \A x \in 0 .. Blank - 1 : x \in Int
        BY <4>1
      <4> QED
        BY <1>3, <4>2
    <3>2. Steps(file[i].run, Last) + Extra <= boots - file[i].boot
      BY <1>4 DEF Distances
    <3> QED
      BY <1>1, <3>1, <3>2, Sooner
  <2> QED
    BY <2>1
<1>6. Distances(Last, Extra)'
  BY <1>2, <1>3, <1>4, <1>5 DEF Distances, Steps
<1>7. (Counting \/ Counted)' => OldBefore(Last)'
  BY <1>2 DEF CounterInv, OldBefore, Steps
<1> QED
  BY <1>6, <1>7 DEF CounterInv

(* The number of the run is written behind those of earlier runs.           *)
LEMMA CounterNew ==
  ASSUME ShapeInv, OrderInv, CounterInv, NewNumber, Counted, Counted',
         UNCHANGED <<boots, runNumber, low, high>>
  PROVE  CounterInv'
<1> DEFINE n == Len(file) + 1
           r == runNumber
<1>1. /\ Numbers' = Numbers \cup {n}
      /\ \A i \in Numbers : file'[i].run = file[i].run /\ file'[i].boot = file[i].boot
      /\ file'[n].run = r /\ file'[n].boot = boots
  BY DEF NewNumber
<1>2. Last = r /\ Last' = r /\ boots' = boots /\ Extra = 0 /\ Extra' = 0
  BY DEF CounterInv, Last, Stored, Counting, Counted, Extra
<1>3. r \in 1 .. Blank /\ r \in Nat /\ Steps(r, r) = 0
  BY CounterRange DEF ShapeInv, Steps
<1>4. /\ boots \in Nat
      /\ \A i \in Numbers : /\ file[i].boot \in Nat /\ file[i].boot <= boots
                            /\ file[i].run \in 1 .. Blank
                            /\ Steps(file[i].run, r) \in Int
  <2>1. boots \in Nat /\ \A i \in Numbers : Steps(file[i].run, r) \in 0 .. Blank - 1
    BY <1>2, NumberTypes
  <2>2. Blank - 1 \in Nat
    BY CounterRange
  <2> QED
    BY <2>1, <2>2, NumberTypes DEF OrderInv
<1>5. /\ \A i \in Numbers : Steps(file[i].run, r) <= boots - file[i].boot
      /\ \A i, j \in Numbers :
           file[i].boot < file[j].boot => Steps(file[i].run, r) > Steps(file[j].run, r)
      /\ \A i \in Numbers : file[i].boot < boots => Steps(file[i].run, r) >= 1
  <2>1. Distances(r, 0) /\ OldBefore(r)
    BY <1>2 DEF CounterInv
  <2>2. \A i \in Numbers : Steps(file[i].run, r) + 0 <= boots - file[i].boot
    BY <2>1 DEF Distances
  <2>3. \A i \in Numbers : Steps(file[i].run, r) <= boots - file[i].boot
    BY <1>4, <2>2
  <2> QED
    BY <2>1, <2>3 DEF Distances, OldBefore
<1> HIDE DEF n, r
<1>6. \A i \in Numbers' :
        /\ file'[i].run \in 1 .. Blank
        /\ Steps(file'[i].run, r) \in Int
        /\ file'[i].boot \in Nat /\ file'[i].boot <= boots
        /\ Steps(file'[i].run, r) <= boots - file'[i].boot
        /\ file'[i].boot < boots => Steps(file'[i].run, r) >= 1
  BY <1>1, <1>3, <1>4, <1>5
<1>7. \A i, j \in Numbers' :
        file'[i].boot < file'[j].boot => Steps(file'[i].run, r) > Steps(file'[j].run, r)
  <2>1. SUFFICES ASSUME NEW i \in Numbers', NEW j \in Numbers', file'[i].boot < file'[j].boot
                 PROVE  Steps(file'[i].run, r) > Steps(file'[j].run, r)
    OBVIOUS
  <2>2. CASE j = n
    <3>1. file'[i].boot < boots /\ Steps(file'[i].run, r) >= 1
      BY <1>1, <1>6, <2>1, <2>2
    <3> QED
      BY <1>1, <1>3, <1>6, <2>2, <3>1
  <2>3. CASE j # n
    <3>1. j \in Numbers /\ file'[j].boot <= boots
      BY <1>1, <1>6, <2>3
    <3>2. i # n
      BY <1>1, <1>4, <1>6, <2>1, <3>1
    <3>3. i \in Numbers
      BY <1>1, <3>2
    <3> QED
      BY <1>1, <1>5, <2>1, <3>1, <3>3
  <2> QED
    BY <2>2, <2>3
<1>8. Distances(Last, Extra)'
  <2>1. \A i \in Numbers' : Steps(file'[i].run, r) + 0 <= boots - file'[i].boot
    BY <1>6
  <2> QED
    BY <1>2, <1>6, <1>7, <2>1 DEF Distances, Steps
<1>9. OldBefore(Last)'
  BY <1>2, <1>6 DEF OldBefore, Steps
<1> QED
  BY <1>2, <1>8, <1>9 DEF CounterInv, Counted, Stored, r

(* A step of the counter itself: the last number moves by d, and what is    *)
(* still to come by as much the other way.                                  *)
LEMMA CounterMoves ==
  ASSUME ShapeInv, CounterInv, SameNumbers, NEW d \in {-1, 0, 1},
         NEW k \in 0 .. 1, boots' = boots + k, Extra' \in Nat, Extra \in Nat,
         \A i \in Numbers : Steps(file[i].run, Last') = Steps(file[i].run, Last) + d,
         d + Extra' <= Extra + k
  PROVE  Distances(Last, Extra)'
<1> DEFINE l == Last
           m == Last'
<1>1. /\ boots \in Nat
      /\ \A i \in Numbers : /\ file[i].boot \in Nat
                            /\ file[i].run \in 1 .. Blank
                            /\ Steps(file[i].run, l) \in Int
  <2>1. Blank - 1 \in Nat
    BY CounterRange
  <2> QED
    BY <2>1, NumberTypes
<1>2. /\ \A i \in Numbers : Steps(file[i].run, l) + Extra <= boots - file[i].boot
      /\ \A i, j \in Numbers :
           file[i].boot < file[j].boot => Steps(file[i].run, l) > Steps(file[j].run, l)
  BY DEF CounterInv, Distances
<1>3. \A i \in Numbers : Steps(file[i].run, m) = Steps(file[i].run, l) + d
  OBVIOUS
<1>4. /\ Numbers' = Numbers
      /\ \A i \in Numbers : file'[i].run = file[i].run /\ file'[i].boot = file[i].boot
  BY DEF SameNumbers
<1> HIDE DEF l, m
<1>5. \A i \in Numbers : Steps(file[i].run, m) + Extra' <= boots' - file[i].boot
  <2>1. SUFFICES ASSUME NEW i \in Numbers
                 PROVE  Steps(file[i].run, m) + Extra' <= boots' - file[i].boot
    OBVIOUS
  <2> DEFINE s == Steps(file[i].run, l)
             t == Steps(file[i].run, m)
             b == file[i].boot
  <2>2. s \in Int /\ b \in Int /\ t = s + d /\ s + Extra <= boots - b
    BY <1>1, <1>2, <1>3
  <2>3. t + Extra' <= boots' - b
    <3> HIDE DEF s, t, b
    <3> QED
      BY <1>1, <2>2
  <2> QED
    BY <2>3
<1>6. \A i, j \in Numbers :
        file[i].boot < file[j].boot => Steps(file[i].run, m) > Steps(file[j].run, m)
  BY <1>1, <1>2, <1>3
<1> QED
  BY <1>1, <1>4, <1>5, <1>6 DEF Distances, Steps, m

LEMMA CounterStep ==
  ASSUME ShapeInv, OrderInv, CounterInv, [Next]_vars, ~torn'
  PROVE  CounterInv'
<1>0. TypeOK /\ boots \in Nat /\ boots <= Blank /\ Blank \in Nat /\ Stored \in Counter
  BY Bounds, CounterRange, StoredRange DEF ShapeInv
<1>1. CASE PowerUp
  <2>1. /\ Last' = Last /\ boots' = boots + 1 /\ Extra' = 1 /\ Extra = 0
        /\ ~Counting' /\ ~Counted'
    BY <1>1 DEF PowerUp, rom, Last, Stored, Counting, Counted, Extra
  <2>2. SameNumbers
    BY <1>1, NumbersStep DEF PowerUp, CloseMarker, CloseRow
  <2>3. \A i \in Numbers : Steps(file[i].run, Last') = Steps(file[i].run, Last) + 0
    <3>1. \A i \in Numbers : Steps(file[i].run, Last) \in 0 .. Blank - 1
      BY NumberTypes
    <3>2. Blank - 1 \in Nat
      BY CounterRange
    <3> QED
      BY <2>1, <3>1, <3>2
  <2>4. Distances(Last, Extra)'
    BY <2>1, <2>2, <2>3, CounterMoves
  <2> QED
    BY <1>1, <2>1, <2>4 DEF PowerUp, CounterInv
<1>2. CASE ReadCounter
  <2>1. /\ Last' = NextRun(Last) /\ Last = Stored /\ boots' = boots /\ Extra' = 0
        /\ Extra = 1 /\ ~Counted' /\ runNumber' = NextRun(Stored)' /\ at' = "put_low"
    BY <1>2 DEF ReadCounter, rom, Last, Stored, Counting, Counted, Extra, NextRun
  <2>2. SameNumbers
    BY <1>2, NumbersStep DEF ReadCounter, CloseMarker, CloseRow
  <2>3. \A i \in Numbers : Steps(file[i].run, Last') = Steps(file[i].run, Last) + 1
    <3>1. SUFFICES ASSUME NEW i \in Numbers
                   PROVE  Steps(file[i].run, Last') = Steps(file[i].run, Last) + 1
      OBVIOUS
    <3> DEFINE s == Steps(file[i].run, Last)
    <3>2. s + 1 <= boots - file[i].boot
      BY <2>1 DEF CounterInv, Distances
    <3>3. file[i].boot \in Nat /\ file[i].boot >= 1 /\ s \in 0 .. Blank - 1
      BY NumberTypes
    <3>4. s + 1 < Blank
      <4> HIDE DEF s
      <4> QED
        BY <1>0, <3>2, <3>3
    <3> QED
      BY <2>1, <3>4, NumberTypes, StepsRange
  <2>4. Distances(Last, Extra)'
    <3>1. boots' = boots + 0
      BY <1>0, <2>1
    <3> QED
      BY <2>1, <2>2, <2>3, <3>1, CounterMoves
  <2>5. OldBefore(Last)'
    <3>1. \A i \in Numbers : Steps(file[i].run, Last') >= 1
      <4>1. \A i \in Numbers : Steps(file[i].run, Last) \in 0 .. Blank - 1
        BY NumberTypes
      <4> QED
        BY <1>0, <2>3, <4>1
    <3> QED
      BY <2>1, <2>2, <3>1 DEF OldBefore, SameNumbers, Steps
  <2> QED
    BY <2>1, <2>4, <2>5 DEF CounterInv
<1>3. CASE PowerLoss /\ at = "put_low"
  <2>1. /\ Last = NextRun(Stored) /\ Last' = Stored /\ boots' = boots /\ Extra' = 0
        /\ Extra = 0 /\ at' = "off"
    BY <1>3 DEF PowerLoss, rom, Last, Stored, Counting, Extra, CounterInv
  <2>2. SameNumbers
    BY <1>3, NumbersStep DEF PowerLoss, CloseMarker, CloseRow
  <2>3. \A i \in Numbers : Steps(file[i].run, Last') = Steps(file[i].run, Last) + (-1)
    <3>1. SUFFICES ASSUME NEW i \in Numbers
                   PROVE  Steps(file[i].run, Last') = Steps(file[i].run, Last) + (-1)
      OBVIOUS
    <3>2. file[i].boot < boots /\ Counting
      BY <1>3 DEF OrderInv, Unlogged, Counting
    <3>3. Steps(file[i].run, Last) >= 1
      BY <3>2 DEF CounterInv, OldBefore
    <3>4. file[i].run \in 1 .. Blank /\ Stored \in Counter
      BY <1>0, NumberTypes
    <3>5. /\ Steps(file[i].run, NextRun(Stored)) = Steps(file[i].run, Stored) + 1
          /\ Steps(file[i].run, Stored) \in 0 .. Blank - 1
      BY <2>1, <3>3, <3>4, StepsRange
    <3> QED
      BY <1>0, <2>1, <3>5
  <2>4. Distances(Last, Extra)'
    <3>1. boots' = boots + 0
      BY <1>0, <2>1
    <3> QED
      BY <2>1, <2>2, <2>3, <3>1, CounterMoves
  <2> QED
    BY <2>1, <2>4 DEF CounterInv, Counting, Counted
<1>4. CASE PowerLoss /\ at # "put_low"
  <2>1. at # "put_high" /\ at' = "off"
    BY <1>4 DEF PowerLoss
  <2>2. SameNumbers
    <3>1. UNCHANGED file /\ file' \in Seq(Line)
      BY <1>0, <1>4 DEF PowerLoss, card, TypeOK
    <3> QED
      BY <1>0, <3>1, KeptNumbers
  <2>3. Last' = Last /\ UNCHANGED boots
    BY <1>4, <2>1 DEF PowerLoss, rom, Last, Stored, Counting
  <2> QED
    BY <2>1, <2>2, <2>3, CounterSame DEF Counting, Counted
<1>5. CASE PutLow
  <2>1. /\ at = "put_low" /\ at' = "put_high" /\ low' = runNumber' % ByteMod
        /\ runNumber' = runNumber /\ boots' = boots
    BY <1>5 DEF PutLow, ram
  <2>2. SameNumbers
    BY <1>5, NumbersStep DEF PutLow, CloseMarker, CloseRow
  <2>3. Last' = Last
    BY <2>1 DEF Last, Counting
  <2> QED
    BY <2>1, <2>2, <2>3, CounterSame DEF Counting, Counted
<1>6. CASE PutHigh
  <2>1. /\ at = "put_high" /\ at' = "SD_begin" /\ high' = runNumber \div ByteMod
        /\ runNumber' = runNumber /\ boots' = boots /\ low' = low
    BY <1>6 DEF PutHigh, ram
  <2>2. SameNumbers
    BY <1>6, NumbersStep DEF PutHigh, CloseMarker, CloseRow
  <2>3. Stored' = runNumber
    <3>1. low = runNumber % ByteMod
      BY <2>1 DEF CounterInv
    <3>2. runNumber \in Nat /\ ByteMod \in Nat \ {0}
      BY Bounds, CounterAssumption
    <3>3. runNumber = (runNumber \div ByteMod) * ByteMod + (runNumber % ByteMod)
      BY <3>2, DivMod
    <3> QED
      BY <2>1, <3>1, <3>3 DEF Stored
  <2>4. Last' = Last
    BY <2>1, <2>3 DEF Last, Counting
  <2> QED
    BY <2>1, <2>2, <2>3, <2>4, CounterSame DEF Counting, Counted
<1>7. CASE NewNumber /\ (CloseMarker \/ CloseRow)
  <2>1. Counted /\ Counted' /\ UNCHANGED <<boots, runNumber, low, high>>
    BY <1>7 DEF CloseMarker, CloseRow, CloseTo, rom, Counted
  <2> QED
    BY <1>7, <2>1, CounterNew
<1>8. CASE SameNumbers /\ (CloseHeader \/ CloseMarker \/ CloseRow)
  <2>1. Counted /\ Counted' /\ UNCHANGED <<boots, runNumber, low, high>>
    BY <1>8 DEF CloseHeader, CloseMarker, CloseRow, CloseTo, rom, Counted
  <2>2. Last' = Last /\ Stored' = Stored /\ runNumber' = Stored'
    BY <2>1 DEF Last, Stored, Counting, Counted, CounterInv
  <2> QED
    BY <1>8, <2>1, <2>2, CounterSame DEF Counting, Counted
<1>9. CASE SdFails \/ SdBegins \/ OpenFails \/ OpenHeader \/ OpenMarker \/ OpenRow
  <2>1. Counted /\ Counted' /\ UNCHANGED <<boots, runNumber, low, high>>
    BY <1>9 DEF SdFails, SdBegins, OpenFails, OpenHeader, OpenMarker, OpenRow, OpenFor, rom,
                ram, Counted
  <2>2. Last' = Last /\ Stored' = Stored /\ runNumber' = Stored'
    BY <2>1 DEF Last, Stored, Counting, Counted, CounterInv
  <2>3. SameNumbers
    <3>1. at \notin {"close_marker", "close_row"}
      BY <1>9 DEF SdFails, SdBegins, OpenFails, OpenHeader, OpenMarker, OpenRow
    <3>2. ~(CloseMarker \/ CloseRow)
      BY <3>1 DEF CloseMarker, CloseRow
    <3> QED
      BY <3>2, NumbersStep
  <2> QED
    BY <2>1, <2>2, <2>3, CounterSame DEF Counting, Counted
<1>10. CASE UNCHANGED vars
  <2>1. UNCHANGED <<at, boots, runNumber, low, high, file>>
    BY <1>10 DEF vars, rom, card, ram
  <2>2. Last' = Last /\ Stored' = Stored /\ SameNumbers
    BY <2>1 DEF Last, Stored, Counting, SameNumbers, Numbers, HasNumber
  <2> QED
    BY <2>1, <2>2, CounterSame DEF Counting, Counted, CounterInv, NextRun
<1> QED
  BY <1>1, <1>2, <1>3, <1>4, <1>5, <1>6, <1>7, <1>8, <1>9, <1>10, NumbersStep DEF Next
-----------------------------------------------------------------------------
(* The sections of the file.                                                *)
LEMMA CloseClean ==
  ASSUME ShapeInv, SectionInv, NEW l \in Line, l.kind # "spoilt", pending = <<l>>,
         at # "off", NEW next, CloseTo(next), faults' = 0
  PROVE  faults = 0 /\ file' = Append(file, l)
<1>1. faults \in Nat
  BY FileParts DEF ShapeInv
<1>2. ~Fault
  BY <1>1 DEF Fault
<1>3. faults = 0
  BY <1>2 DEF CloseTo
<1>4. \A i \in DOMAIN file : file[i].kind # "fragment"
  BY <1>3 DEF SectionInv
<1> QED
  BY <1>2, <1>3, <1>4, CloseStep

(* A whole line more, and the section goes on or begins.                    *)
LEMMA CloseSection ==
  ASSUME ShapeInv, SectionInv, NEW l \in Line, l.kind \in {"header", "marker", "row", "bare_row"},
         pending = <<l>>, Counted, NEW next \in {"marker", "loop"}, CloseTo(next),
         at \in {"close_header", "close_marker", "close_row"},
         next = "loop" /\ sdReady' =>
           \/ l = [kind |-> "marker", run |-> runNumber, boot |-> boots]
           \/ l.kind \in {"row", "bare_row"} /\ at = "close_row",
         next = "marker" => ~sdReady'
  PROVE  SectionInv'
<1>1. exists /\ exists' /\ at # "off" /\ l.kind # "spoilt"
  BY DEF SectionInv, CloseTo, Counted
<1>2. UNCHANGED <<runNumber, boots>> /\ at' = next
  BY DEF CloseTo
<1>3. ASSUME faults' = 0
      PROVE  /\ \A i \in DOMAIN file' : file'[i].kind \in {"header", "marker", "row", "bare_row"}
             /\ next = "loop" /\ sdReady' => InSection'
  <2> DEFINE n == Len(file) + 1
  <2>1. faults = 0 /\ file' = Append(file, l)
    BY <1>1, <1>3, CloseClean
  <2>2. TypeOK
    BY DEF ShapeInv
  <2>3. /\ Len(file') = n /\ n \in Nat /\ Len(file) \in Nat
        /\ DOMAIN file' = 1 .. n /\ DOMAIN file = 1 .. Len(file)
        /\ \A i \in 1 .. Len(file) : file'[i] = file[i]
        /\ file'[n] = l
    BY <2>1, <2>2, AppendParts
  <2>4. \A i \in DOMAIN file' : file'[i].kind \in {"header", "marker", "row", "bare_row"}
    <3>1. \A i \in DOMAIN file : file[i].kind \in {"header", "marker", "row", "bare_row"}
      BY <2>1 DEF SectionInv
    <3>2. DOMAIN file' = DOMAIN file \cup {n}
      BY <2>3
    <3> QED
      BY <2>3, <3>1, <3>2
  <2>5. ASSUME l = [kind |-> "marker", run |-> runNumber, boot |-> boots]
        PROVE  InSection'
    <3>1. n \in DOMAIN file' /\ \A j \in n + 1 .. Len(file') : FALSE
      BY <2>3
    <3> QED
      BY <1>2, <2>3, <2>5, <3>1 DEF InSection
  <2>6. ASSUME l.kind \in {"row", "bare_row"}, at = "close_row"
        PROVE  InSection'
    <3>1. InSection
      BY <2>1, <2>6 DEF SectionInv
    <3>2. PICK i \in DOMAIN file :
            /\ file[i] = [kind |-> "marker", run |-> runNumber, boot |-> boots]
            /\ \A j \in i + 1 .. Len(file) : file[j].kind \in {"row", "bare_row"}
      BY <3>1 DEF InSection
    <3>3. i \in DOMAIN file' /\ i \in Nat /\ file'[i] = file[i]
      BY <2>3
    <3>4. \A j \in i + 1 .. n : file'[j].kind \in {"row", "bare_row"}
      <4>1. SUFFICES ASSUME NEW j \in i + 1 .. n
                     PROVE  file'[j].kind \in {"row", "bare_row"}
        OBVIOUS
      <4>2. CASE j = n
        BY <2>3, <2>6, <4>2
      <4>3. CASE j # n
        <5>1. j \in i + 1 .. Len(file) /\ j \in 1 .. Len(file)
          BY <2>3, <3>3, <4>3
        <5> QED
          BY <2>3, <3>2, <5>1
      <4> QED
        BY <4>2, <4>3
    <3> QED
      BY <1>2, <2>3, <3>2, <3>3, <3>4 DEF InSection
  <2> QED
    BY <2>4, <2>5, <2>6
<1> QED
  BY <1>1, <1>2, <1>3 DEF SectionInv, Unlogged

LEMMA SectionStep ==
  ASSUME ShapeInv, SectionInv, [Next]_vars
  PROVE  SectionInv'
<1>0. faults \in Nat
  BY FileParts DEF ShapeInv
<1>1. CASE CloseHeader
  BY <1>1, Printed, CloseSection DEF CloseHeader, ShapeInv, Counted, SectionInv, Unlogged
<1>2. CASE CloseMarker
  BY <1>2, Printed, CloseSection DEF CloseMarker, ShapeInv, Counted
<1>3. CASE CloseRow
  BY <1>3, Printed, CloseSection DEF CloseRow, ShapeInv, Counted
<1>4. CASE ~(CloseHeader \/ CloseMarker \/ CloseRow)
  <2>1. UNCHANGED file
    BY <1>4 DEF Next, vars, card, PowerUp, PowerLoss, ReadCounter, PutLow, PutHigh, SdFails,
                SdBegins, OpenFails, OpenHeader, OpenMarker, OpenRow, OpenFor
  <2>2. /\ exists => exists'
        /\ faults' = 0 => faults = 0
    BY <1>0, <1>4 DEF Next, vars, card, past, PowerUp, PowerLoss, ReadCounter, PutLow, PutHigh,
                SdFails, SdBegins, OpenFails, OpenHeader, OpenMarker, OpenRow, OpenFor, Fault
  <2>3. at' \in {"close_header", "close_marker", "close_row"} => exists'
    BY <1>4 DEF Next, vars, card, PowerUp, PowerLoss, ReadCounter, PutLow, PutHigh,
                SdFails, SdBegins, OpenFails, OpenHeader, OpenMarker, OpenRow, OpenFor,
                SectionInv
  <2>4. /\ Unlogged' => ~sdReady'
        /\ at' = "close_row" => sdReady'
    <3>0. (Unlogged => ~sdReady) /\ (at = "close_row" => sdReady)
      BY DEF SectionInv
    <3>1. CASE PowerUp \/ PowerLoss \/ SdFails \/ OpenRow
      BY <3>1 DEF PowerUp, PowerLoss, SdFails, OpenRow, OpenFor, Unlogged
    <3>3. CASE OpenFails
      <4>1. /\ sdReady' = (at = "marker" /\ ~checksOpens)
            /\ at' = "loop" \/ (at' = "marker" /\ at = "header")
        BY <3>3 DEF OpenFails
      <4>2. at' = "marker" /\ at = "header" => ~sdReady'
        BY <4>1
      <4> QED
        BY <4>1, <4>2 DEF Unlogged
    <3>2. CASE \/ ReadCounter \/ PutLow \/ PutHigh \/ SdBegins \/ OpenHeader \/ OpenMarker
               \/ UNCHANGED vars
      <4>1. /\ sdReady' = sdReady /\ (Unlogged' => Unlogged)
            /\ at' = "close_row" => at = "close_row"
        BY <3>2 DEF ReadCounter, PutLow, PutHigh, SdBegins, OpenHeader, OpenMarker, OpenFor,
                    vars, ram, Unlogged
      <4> QED
        BY <3>0, <4>1
    <3> QED
      BY <1>4, <3>1, <3>2, <3>3 DEF Next
  <2>5. faults' = 0 /\ at' \in {"header", "close_header"} =>
          file = <<>> \/ at \in {"header", "close_header"}
    BY <1>0, <1>4 DEF Next, vars, PowerUp, PowerLoss, ReadCounter, PutLow, PutHigh,
                SdFails, SdBegins, OpenFails, OpenHeader, OpenMarker, OpenRow, OpenFor,
                SectionInv, Fault
  <2>6. ASSUME faults' = 0, at' \in {"loop", "close_row"}, sdReady'
        PROVE  /\ at \in {"loop", "close_row"} /\ sdReady
               /\ UNCHANGED <<runNumber, boots>>
    <3>1. ~(PowerUp \/ PowerLoss \/ ReadCounter \/ PutLow \/ PutHigh \/ SdBegins
              \/ OpenHeader \/ OpenMarker)
      BY <2>6 DEF PowerUp, PowerLoss, ReadCounter, PutLow, PutHigh, SdBegins, OpenHeader,
                  OpenMarker, OpenFor
    <3>2. ~SdFails
      BY <2>6 DEF SdFails, ram, SectionInv, Unlogged
    <3>3. ~OpenFails
      <4>1. SUFFICES ASSUME OpenFails PROVE FALSE
        OBVIOUS
      <4>2. sdReady' = (at = "marker" /\ ~checksOpens)
        BY <4>1 DEF OpenFails
      <4>3. ~checksOpens
        BY <2>6, <4>2
      <4>4. Fault
        BY <4>1, <4>3 DEF OpenFails
      <4> QED
        BY <1>0, <2>6, <4>4 DEF Fault
    <3>4. CASE OpenRow
      BY <3>4 DEF OpenRow, OpenFor
    <3>5. CASE UNCHANGED vars
      BY <2>6, <3>5 DEF vars, ram
    <3> QED
      BY <1>4, <3>1, <3>2, <3>3, <3>4, <3>5 DEF Next
  <2>7. ASSUME faults' = 0, at' \in {"loop", "close_row"}, sdReady' PROVE InSection'
    BY <2>1, <2>2, <2>6, <2>7 DEF SectionInv, InSection
  <2> QED
    BY <2>1, <2>2, <2>3, <2>4, <2>5, <2>7 DEF SectionInv
<1> QED
  BY <1>1, <1>2, <1>3, <1>4
-----------------------------------------------------------------------------
(* The invariant.                                                           *)
LEMMA RunInit == Init => RunInv
<1> SUFFICES ASSUME Init PROVE RunInv
  OBVIOUS
<1>1. ShapeInv /\ Numbers = {} /\ at = "off" /\ file = <<>>
  BY ShapeInit DEF Init, Numbers
<1>2. OrderInv /\ CounterInv
  BY <1>1 DEF OrderInv, CounterInv, Counted, Counting, Unlogged, Distances, OldBefore
<1>3. SectionInv
  BY <1>1 DEF Init, SectionInv, Unlogged
<1> QED
  BY <1>1, <1>2, <1>3 DEF RunInv

LEMMA RunStep == RunInv /\ [Next]_vars => RunInv'
<1> SUFFICES ASSUME RunInv, [Next]_vars PROVE RunInv'
  OBVIOUS
<1>1. ~torn' => ~torn
  BY DEF Next, vars, past, PowerUp, PowerLoss, ReadCounter, PutLow, PutHigh, SdFails, SdBegins,
         OpenFails, OpenHeader, OpenMarker, OpenRow, OpenFor, CloseHeader, CloseMarker,
         CloseRow, CloseTo
<1>2. ~torn' => CounterInv'
  BY <1>1, CounterStep DEF RunInv
<1> QED
  BY <1>2, ShapeStep, OrderStep, SectionStep DEF RunInv

LEMMA RunInvariant == Spec => []RunInv
BY RunInit, RunStep, PTL DEF Spec

(* The variables of the counter, the card and the sketch keep their types:  *)
(* EEPROM holds bytes, and the run number is one of the 65535 that          *)
(* setup() counts through.                                                  *)
THEOREM TypeCorrect == Spec => []TypeOK
<1>1. RunInv => TypeOK
  BY DEF RunInv, ShapeInv
<1> QED
  BY <1>1, RunInvariant, PTL

LEMMA NumbersApart == RunInv => RunsDistinguished
<1> SUFFICES ASSUME RunInv, ~torn, NEW i \in Numbers, NEW j \in Numbers,
                    file[i].run = file[j].run
             PROVE  file[i].boot = file[j].boot
  BY DEF RunsDistinguished, Numbers
<1>1. /\ file[i].boot \in Nat /\ file[j].boot \in Nat
      /\ Steps(file[i].run, Last) \in 0 .. Blank - 1
      /\ Steps(file[j].run, Last) \in 0 .. Blank - 1
  BY NumberTypes DEF RunInv
<1>2. /\ file[i].boot < file[j].boot =>
           Steps(file[i].run, Last) > Steps(file[j].run, Last)
      /\ file[j].boot < file[i].boot =>
           Steps(file[j].run, Last) > Steps(file[i].run, Last)
  BY DEF RunInv, CounterInv, Distances
<1>3. Blank - 1 \in Nat
  BY CounterRange
<1> QED
  BY <1>1, <1>2, <1>3

(* Rows and markers with one run number come from one power-up, for         *)
(* counters of any width, as long as no more runs are made than there are   *)
(* numbers: setup() counts up before it logs, past the value of a blank     *)
(* EEPROM without using it, and a power loss at any step but between the    *)
(* two bytes of EEPROM.put() repeats no number that is in the file.         *)
THEOREM RunsApart == Spec => []RunsDistinguished
BY RunInvariant, NumbersApart, PTL
-----------------------------------------------------------------------------
(* The file as its reader sees it.                                          *)
ReadAs(f) == [i \in DOMAIN f |-> Written(f[i])]
ReadLine == File!Header \cup File!Marker \cup File!RunRow \cup File!Spoilt

LEMMA WrittenLine ==
  ASSUME NEW l \in Line
  PROVE  /\ Written(l) \in ReadLine
         /\ l.kind \in {"header", "bare_row"} => Written(l) = [kind |-> l.kind]
         /\ l.kind \in {"fragment", "spoilt"} => Written(l) = [kind |-> "spoilt"]
         /\ l.kind \in {"marker", "row"} =>
              Written(l) = [kind |-> l.kind, run |-> l.run] /\ l.run \in Counter
<1>1. CASE l.kind \in {"header", "bare_row"}
  BY <1>1 DEF Written, ReadLine, File!Header, File!RunRow
<1>2. CASE l.kind \in {"fragment", "spoilt"}
  BY <1>2 DEF Written, ReadLine, File!Spoilt
<1>3. CASE l.kind \in {"marker", "row"}
  <2>1. Written(l) = [kind |-> l.kind, run |-> l.run] /\ l.run \in Counter
    BY <1>3, LineParts DEF Written
  <2> QED
    BY <1>3, <2>1 DEF ReadLine, File!Marker, File!RunRow
<1> QED
  BY <1>1, <1>2, <1>3, LineParts

LEMMA Reading ==
  ASSUME NEW f \in Seq(Line)
  PROVE  /\ ReadAs(f) \in Seq(ReadLine)
         /\ Len(ReadAs(f)) = Len(f) /\ Len(f) \in Nat
         /\ DOMAIN ReadAs(f) = 1 .. Len(f) /\ DOMAIN f = 1 .. Len(f)
         /\ \A i \in 1 .. Len(f) : ReadAs(f)[i] = Written(f[i]) /\ f[i] \in Line
<1>1. Len(f) \in Nat /\ DOMAIN f = 1 .. Len(f) /\ \A i \in 1 .. Len(f) : f[i] \in Line
  BY LenProperties, ElementOfSeq
<1>2. ReadAs(f) = [i \in 1 .. Len(f) |-> Written(f[i])]
  BY <1>1 DEF ReadAs
<1>3. \A i \in 1 .. Len(f) : Written(f[i]) \in ReadLine
  BY <1>1, WrittenLine
<1> HIDE DEF ReadAs
<1>4. ReadAs(f) \in Seq(ReadLine)
  BY <1>1, <1>2, <1>3
<1> QED
  BY <1>1, <1>2, <1>4, LenProperties

LEMMA ReadAppend ==
  ASSUME NEW f \in Seq(Line), NEW l \in Line
  PROVE  ReadAs(Append(f, l)) = Append(ReadAs(f), Written(l))
<1> DEFINE g == Append(f, l)
           r == ReadAs(f)
           s == Append(r, Written(l))
<1>1. /\ g \in Seq(Line) /\ Len(g) = Len(f) + 1
      /\ \A i \in 1 .. Len(f) : g[i] = f[i]
      /\ g[Len(f) + 1] = l
  BY AppendProperties
<1>2. r \in Seq(ReadLine) /\ Len(r) = Len(f) /\ Len(f) \in Nat
      /\ \A i \in 1 .. Len(f) : r[i] = Written(f[i])
  BY Reading
<1>3. /\ s \in Seq(ReadLine) /\ Len(s) = Len(f) + 1
      /\ \A i \in 1 .. Len(f) : s[i] = r[i]
      /\ s[Len(f) + 1] = Written(l)
  BY <1>2, AppendProperties, WrittenLine
<1>4. /\ ReadAs(g) \in Seq(ReadLine) /\ Len(ReadAs(g)) = Len(f) + 1
      /\ \A i \in 1 .. Len(f) + 1 : ReadAs(g)[i] = Written(g[i])
  BY <1>1, Reading
<1> HIDE DEF g, r, s, ReadAs
<1>5. \A i \in 1 .. Len(f) + 1 : ReadAs(g)[i] = s[i]
  BY <1>1, <1>2, <1>3, <1>4
<1>6. ReadAs(g) = s
  BY <1>3, <1>4, <1>5, SeqEqual
<1> QED
  BY <1>6 DEF g, r, s

LEMMA ReadNumbers ==
  ASSUME TypeOK
  PROVE  /\ AsRead = ReadAs(file)
         /\ File!Numbered = Numbers
         /\ \A i \in Numbers : /\ AsRead[i] = [kind |-> file[i].kind, run |-> file[i].run]
                                /\ AsRead[i].kind = file[i].kind
                                /\ AsRead[i].run = file[i].run
         /\ DOMAIN AsRead = DOMAIN file /\ Len(AsRead) = Len(file)
         /\ \A i \in DOMAIN file : AsRead[i] = Written(file[i]) /\ file[i] \in Line
<1>1. AsRead = ReadAs(file) /\ file \in Seq(Line)
  BY DEF AsRead, ReadAs, TypeOK
<1>2. /\ DOMAIN AsRead = DOMAIN file /\ Len(AsRead) = Len(file)
      /\ \A i \in DOMAIN file : AsRead[i] = Written(file[i]) /\ file[i] \in Line
  BY <1>1, Reading
<1>3. \A i \in DOMAIN file :
        /\ AsRead[i].kind \in {"marker", "row"} <=> HasNumber(i)
        /\ HasNumber(i) => AsRead[i] = [kind |-> file[i].kind, run |-> file[i].run]
  BY <1>2, WrittenLine, LineParts DEF HasNumber
<1>4. \A i \in Numbers :
        AsRead[i].kind = file[i].kind /\ AsRead[i].run = file[i].run
  <2>1. SUFFICES ASSUME NEW i \in Numbers
                 PROVE  AsRead[i].kind = file[i].kind /\ AsRead[i].run = file[i].run
    OBVIOUS
  <2>2. AsRead[i] = [kind |-> file[i].kind, run |-> file[i].run]
    BY <1>3 DEF Numbers
  <2> HIDE DEF AsRead
  <2> QED
    BY <2>2
<1> QED
  BY <1>1, <1>2, <1>3, <1>4 DEF File!Numbered, Numbers

(* No line of an earlier run has the number of the run.                     *)
LEMMA EarlierNumbers ==
  ASSUME RunInv, ~torn, Counted, NEW i \in Numbers, file[i].boot < boots
  PROVE  file[i].run # runNumber
<1>1. CounterInv /\ ShapeInv
  BY DEF RunInv
<1>2. Last = runNumber
  BY <1>1 DEF CounterInv, Last, Counting, Counted
<1>3. Steps(file[i].run, runNumber) >= 1
  BY <1>1, <1>2 DEF CounterInv, OldBefore
<1>4. runNumber \in Nat /\ Steps(runNumber, runNumber) = 0
  BY <1>1, Bounds DEF Steps
<1> QED
  BY <1>3, <1>4

LEMMA MarkerNew ==
  ASSUME RunInv, at = "close_marker"
  PROVE  File!New(runNumber)
<1>1. TypeOK
  BY DEF RunInv, ShapeInv
<1>2. \A i \in Numbers : file[i].boot < boots
  BY DEF RunInv, OrderInv, Unlogged
<1>3. ~torn => \A i \in Numbers : file[i].run # runNumber
  BY <1>2, EarlierNumbers DEF Counted
<1> QED
  BY <1>1, <1>3, ReadNumbers DEF File!New

LEMMA RowPlaced ==
  ASSUME RunInv, at = "close_row", faults \in Nat
  PROVE  \/ File!InSectionOf(runNumber)
         \/ faults > 0 /\ (File!New(runNumber) \/ File!Continues(runNumber))
<1>0. TypeOK /\ Counted
  BY DEF RunInv, ShapeInv, Counted
<1>1. CASE faults = 0
  <2>1. PICK i \in DOMAIN file :
          /\ file[i] = [kind |-> "marker", run |-> runNumber, boot |-> boots]
          /\ \A j \in i + 1 .. Len(file) : file[j].kind \in {"row", "bare_row"}
    BY <1>1 DEF RunInv, SectionInv, InSection
  <2>2. i \in Numbers /\ AsRead[i] = [kind |-> "marker", run |-> runNumber]
    <3>1. i \in Numbers /\ file[i].kind = "marker" /\ file[i].run = runNumber
      BY <2>1 DEF Numbers, HasNumber
    <3> QED
      BY <1>0, <3>1, ReadNumbers
  <2>3. \A j \in i + 1 .. Len(file) : AsRead[j].kind \in {"row", "bare_row"}
    <3>1. SUFFICES ASSUME NEW j \in i + 1 .. Len(file)
                   PROVE  AsRead[j].kind \in {"row", "bare_row"}
      OBVIOUS
    <3>2. j \in DOMAIN file /\ file[j].kind \in {"row", "bare_row"}
      BY <1>0, <2>1, FileParts
    <3>3. AsRead[j] = Written(file[j]) /\ file[j] \in Line
      BY <1>0, <3>2, ReadNumbers
    <3> QED
      BY <3>2, <3>3, WrittenLine
  <2> QED
    BY <1>0, <2>2, <2>3, ReadNumbers DEF File!InSectionOf
<1>2. CASE faults # 0 /\ ~File!New(runNumber)
  <2>1. ~torn /\ \E i \in Numbers : file[i].run = runNumber
    BY <1>0, <1>2, ReadNumbers DEF File!New
  <2>2. PICK k \in Numbers : file[k].run = runNumber
    BY <2>1
  <2>3. PICK i \in Numbers : \A j \in Numbers : j <= i
    BY <2>2 DEF RunInv, OrderInv
  <2>4. /\ boots \in Nat /\ file[k].boot \in Nat /\ file[i].boot \in Nat
    BY NumberTypes, <2>1 DEF RunInv
  <2>5. /\ file[k].boot <= boots /\ file[i].boot <= boots
        /\ file[k].boot <= file[i].boot
    BY <2>3 DEF RunInv, OrderInv
  <2>6. ~(file[k].boot < boots)
    BY <1>0, <2>1, <2>2, EarlierNumbers
  <2>7. file[i].boot = boots
    BY <2>4, <2>5, <2>6
  <2>8. file[i].run = runNumber
    BY <1>0, <2>7 DEF RunInv, OrderInv
  <2>9. File!Continues(runNumber)
    BY <1>0, <2>3, <2>8, ReadNumbers DEF File!Continues
  <2> QED
    BY <1>2, <2>9
<1> QED
  BY <1>1, <1>2

LEMMA PromiseInit == Init => File!Init
<1> SUFFICES ASSUME Init PROVE File!Init
  OBVIOUS
<1>1. file = <<>> /\ faults = 0 /\ torn = FALSE /\ runNumber \in Counter
  BY ShapeInit DEF Init, ShapeInv, TypeOK
<1>2. AsRead = <<>>
  BY <1>1 DEF AsRead
<1>3. (faults > 0) = FALSE
  BY <1>1
<1> QED
  BY <1>1, <1>2, <1>3 DEF File!Init

(* A close() of line l adds l to what is read, or spoils a line, or changes *)
(* nothing there.                                                           *)
LEMMA CloseRead ==
  ASSUME ShapeInv, NEW l \in Line, l.kind # "spoilt", pending = <<l>>, at # "off",
         NEW next, CloseTo(next)
  PROVE  /\ torn' = torn /\ (faults > 0 => faults' > 0) /\ runNumber' = runNumber
         /\ \/ AsRead' = AsRead
            \/ AsRead' = Append(AsRead, Written(l)) /\ faults' = faults
            \/ AsRead' = Append(AsRead, [kind |-> "spoilt"]) /\ faults' > 0
<1>0. TypeOK /\ file \in Seq(Line) /\ AsRead = ReadAs(file) /\ faults \in Nat
  BY ReadNumbers, FileParts DEF ShapeInv, TypeOK
<1>1. /\ torn' = torn /\ (faults > 0 => faults' > 0) /\ (Fault => faults' > 0)
      /\ runNumber' = runNumber
  <2>1. UNCHANGED faults \/ Fault
    BY DEF CloseTo
  <2> QED
    BY <1>0, <2>1 DEF CloseTo, Fault
<1>2. AsRead' = ReadAs(file')
  BY DEF AsRead, ReadAs
<1>3. CASE UNCHANGED file
  BY <1>0, <1>1, <1>2, <1>3
<1>4. CASE Repaired /\ file' \in Seq(Line)
  <2>1. \A i \in 1 .. Len(file) : Written(file'[i]) = Written(file[i])
    <3>1. SUFFICES ASSUME NEW i \in 1 .. Len(file)
                   PROVE  Written(file'[i]) = Written(file[i])
      OBVIOUS
    <3>2. file[i] \in Line /\ file'[i] \in Line
      BY <1>0, <1>4, ElementOfSeq DEF Repaired
    <3> QED
      BY <1>4, <3>2, WrittenLine DEF Repaired
  <2>2. /\ ReadAs(file) \in Seq(ReadLine) /\ ReadAs(file') \in Seq(ReadLine)
        /\ Len(ReadAs(file)) = Len(file) /\ Len(ReadAs(file')) = Len(file)
        /\ \A i \in 1 .. Len(file) : ReadAs(file)[i] = Written(file[i])
        /\ \A i \in 1 .. Len(file) : ReadAs(file')[i] = Written(file'[i])
    BY <1>0, <1>4, Reading DEF Repaired
  <2>3. ReadAs(file') = ReadAs(file)
    BY <2>1, <2>2, SeqEqual
  <2> QED
    BY <1>0, <1>1, <1>2, <2>3
<1>5. CASE file' = Append(file, l) /\ UNCHANGED faults
  <2>1. AsRead' = Append(AsRead, Written(l))
    BY <1>0, <1>2, <1>5, ReadAppend
  <2> QED
    BY <1>1, <1>5, <2>1
<1>6. CASE file' = Append(file, [kind |-> "fragment", boot |-> boots]) /\ Fault
  <2> DEFINE f == [kind |-> "fragment", boot |-> boots]
  <2>1. f \in Line /\ f.kind = "fragment"
    BY Bounds DEF Line
  <2>2. AsRead' = Append(AsRead, Written(f))
    BY <1>0, <1>2, <1>6, <2>1, ReadAppend
  <2>3. Written(f) = [kind |-> "spoilt"]
    BY <2>1, WrittenLine
  <2> QED
    BY <1>1, <1>6, <2>2, <2>3
<1> QED
  BY <1>3, <1>4, <1>5, <1>6, CloseStep

LEMMA PromiseStep ==
  RunInv /\ [Next]_vars => [File!Next]_<<AsRead, runNumber, faults > 0, torn>>
<1> SUFFICES ASSUME RunInv, [Next]_vars
             PROVE  File!Next \/ UNCHANGED <<AsRead, runNumber, faults > 0, torn>>
  OBVIOUS
<1>0. ShapeInv /\ TypeOK /\ faults \in Nat /\ runNumber' \in Counter
  BY FileParts, ShapeStep DEF RunInv, ShapeInv, TypeOK
<1>1. ASSUME AsRead' = AsRead, faults > 0 => faults' > 0, torn => torn'
      PROVE  File!Next
  BY <1>0, <1>1 DEF File!Next, File!Suffer
<1>2. ASSUME AsRead' = Append(AsRead, [kind |-> "spoilt"]), faults' > 0, torn' = torn,
               runNumber' = runNumber
      PROVE  File!Next
  <2>1. File!AppendSpoilt
    BY <1>2 DEF File!AppendSpoilt, File!Spoilt
  <2> QED
    BY <1>2, <2>1 DEF File!Next
<1>3. CASE ~(CloseHeader \/ CloseMarker \/ CloseRow)
  <2>0. torn => torn'
    BY <1>3 DEF Next, vars, past, PowerUp, PowerLoss, ReadCounter, PutLow, PutHigh,
                SdFails, SdBegins, OpenFails, OpenHeader, OpenMarker, OpenRow, OpenFor
  <2>1. UNCHANGED file
    BY <1>3 DEF Next, vars, card, PowerUp, PowerLoss, ReadCounter, PutLow, PutHigh,
                SdFails, SdBegins, OpenFails, OpenHeader, OpenMarker, OpenRow, OpenFor
  <2>2. UNCHANGED faults \/ Fault
    BY <1>3 DEF Next, vars, card, past, PowerUp, PowerLoss, ReadCounter, PutLow, PutHigh,
                SdFails, SdBegins, OpenFails, OpenHeader, OpenMarker, OpenRow, OpenFor
  <2>3. faults > 0 => faults' > 0
    BY <1>0, <2>2 DEF Fault
  <2>4. AsRead' = AsRead
    BY <2>1 DEF AsRead
  <2> QED
    BY <1>1, <2>0, <2>3, <2>4
<1>4. CASE CloseHeader
  <2> DEFINE l == [kind |-> "header", boot |-> boots]
  <2>1. /\ l \in Line /\ l.kind = "header" /\ pending = <<l>> /\ CloseTo("marker")
        /\ at = "close_header" /\ at # "off"
    BY <1>0, <1>4, Printed DEF CloseHeader, ShapeInv
  <2>2. ASSUME AsRead' = Append(AsRead, Written(l)), faults' = faults, torn' = torn,
               runNumber' = runNumber
        PROVE  File!Next
    <3>1. Written(l) = [kind |-> "header"]
      BY <2>1, WrittenLine
    <3>2. AsRead = <<>> \/ faults > 0
      <4>1. faults = 0 => file = <<>>
        BY <2>1 DEF RunInv, SectionInv
      <4> QED
        BY <1>0, <4>1 DEF AsRead
    <3>3. File!AppendHeader
      BY <2>2, <3>1, <3>2 DEF File!AppendHeader, File!Header
    <3> QED
      BY <2>2, <3>3 DEF File!Next
  <2> HIDE DEF l
  <2> QED
    BY <1>0, <1>1, <1>2, <2>1, <2>2, CloseRead
<1>5. CASE CloseMarker
  <2> DEFINE l == [kind |-> "marker", run |-> runNumber, boot |-> boots]
  <2>1. /\ l \in Line /\ l.kind = "marker" /\ pending = <<l>> /\ CloseTo("loop")
        /\ at = "close_marker" /\ at # "off" /\ l.run = runNumber
    BY <1>0, <1>5, Printed DEF CloseMarker, ShapeInv
  <2>2. ASSUME AsRead' = Append(AsRead, Written(l)), faults' = faults, torn' = torn,
               runNumber' = runNumber
        PROVE  File!Next
    <3>1. Written(l) = [kind |-> "marker", run |-> runNumber] /\ runNumber \in Counter
      BY <2>1, WrittenLine
    <3>2. File!New(runNumber)
      BY <2>1, MarkerNew
    <3>3. [kind |-> "marker", run |-> runNumber] \in File!Marker
      BY <3>1 DEF File!Marker
    <3>4. File!AppendMarker
      BY <2>2, <3>1, <3>2, <3>3 DEF File!AppendMarker
    <3> QED
      BY <2>2, <3>4 DEF File!Next
  <2> HIDE DEF l
  <2> QED
    BY <1>0, <1>1, <1>2, <2>1, <2>2, CloseRead
<1>6. CASE CloseRow
  <2> DEFINE l == RowLine
  <2>1. /\ l \in Line /\ pending = <<l>> /\ CloseTo("loop")
        /\ at = "close_row" /\ at # "off"
        /\ \/ l = [kind |-> "row", run |-> runNumber, boot |-> boots]
           \/ l = [kind |-> "bare_row", boot |-> boots]
    BY <1>0, <1>6, Printed DEF CloseRow, ShapeInv
  <2> HIDE DEF l
  <2>2. ASSUME AsRead' = Append(AsRead, Written(l)), faults' = faults, torn' = torn,
               runNumber' = runNumber
        PROVE  File!Next
    <3>1. \/ Written(l) = [kind |-> "row", run |-> runNumber] /\ runNumber \in Counter
          \/ Written(l) = [kind |-> "bare_row"]
      BY <2>1, WrittenLine
    <3>2. \/ File!InSectionOf(runNumber)
          \/ faults > 0 /\ (File!New(runNumber) \/ File!Continues(runNumber))
      BY <1>0, <2>1, RowPlaced
    <3>3. /\ Written(l) \in File!RunRow
          /\ Written(l).kind = "row" => Written(l).run = runNumber
      BY <3>1 DEF File!RunRow
    <3>4. File!AppendRow
      BY <2>2, <3>2, <3>3 DEF File!AppendRow
    <3> QED
      BY <2>2, <3>4 DEF File!Next
  <2>3. l.kind # "spoilt"
    BY <2>1
  <2> QED
    BY <1>0, <1>1, <1>2, <2>1, <2>2, <2>3, CloseRead
<1> QED
  BY <1>3, <1>4, <1>5, <1>6

(* EEPROM, file and sketch implement RunFile, across any number of          *)
(* power-ups that have a number of their own: the file only grows, a marker *)
(* that setup() writes opens a section with a new number, and a row stands  *)
(* in the section of its run.  After a card operation failed, the last line *)
(* with a number before a row is its own run's, or no line is, and then the *)
(* row of dxlCoordLog.ino, which has none, is read as the run's before.     *)
THEOREM KeepsItsPromise == Spec => KeepsPromise
<1>1. Init => File!Init
  BY PromiseInit
<1>2. RunInv /\ [Next]_vars => [File!Next]_<<AsRead, runNumber, faults > 0, torn>>
  BY PromiseStep
<1> QED
  BY <1>1, <1>2, RunInvariant, PTL DEF Spec, KeepsPromise, File!Spec
=============================================================================
