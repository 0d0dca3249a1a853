------------------------------- MODULE RunLog --------------------------------
(***************************************************************************)
(* One robot, one card, many power-ups: the run counter of the gait        *)
(* sketches' setup() in EEPROM, the log file that setupSD() prepares and   *)
(* logRow() extends, and the power switch, which may go off between any    *)
(* two steps.  RAM is lost with the power, the EEPROM and the card are not.*)
(*                                                                         *)
(* The SD library keeps what is printed in RAM until close() writes the    *)
(* last block and then the directory entry with the new length, so a line  *)
(* is in the file after close() or not at all (module SdFat shows this);   *)
(* but creating a file writes its empty directory entry at once.  When a   *)
(* card operation fails, print by print, part of a line may be left.       *)
(***************************************************************************)
EXTENDS Naturals, Sequences

CONSTANTS
  ByteMod,       (* 256: an unsigned int is two bytes of EEPROM              *)
  MaxBoots,      (* bounds: power-ups, lines of the file, and card           *)
  MaxLines,      (* operations that fail                                     *)
  MaxFaults

(* There are ByteMod * ByteMod - 1 run numbers, 65535 in the code; that     *)
(* many power-ups later they come again.                                    *)
ASSUME CounterAssumption ==
  /\ ByteMod \in Nat \ {0, 1}
  /\ MaxBoots \in Nat /\ MaxBoots < ByteMod * ByteMod
  /\ MaxLines \in Nat /\ MaxFaults \in Nat

(* The values of an unsigned int, and the one a blank EEPROM reads as.      *)
Counter == 0 .. ByteMod * ByteMod - 1
Blank   == ByteMod * ByteMod - 1

VARIABLES
  checksOpens,   (* setupSD() gives up when SD.open() fails; the setup() of  *)
                 (* dxlCoordLog.ino does not: the sketch the robot runs      *)
  low, high,     (* EEPROM bytes EEPROM_RUN_COUNTER_ADDR and the next one    *)
  exists,        (* the card holds LOG_FILENAME                              *)
  file,          (* its lines; boot, the power-up that wrote a line, is not  *)
                 (* in the file                                              *)
  at,            (* where setup() or loop() stands; "off" without power      *)
  boots,
  runNumber, sdReady,
  pending,       (* the line printed to the open File, <<>> when none is    *)
                 (* open                                                     *)
  faults,        (* card operations that failed                              *)
  torn           (* the power failed between the two bytes of EEPROM.put()   *)

rom  == <<low, high>>
card == <<exists, file>>
ram  == <<runNumber, sdReady, pending>>
past == <<faults, torn>>
vars == <<checksOpens, rom, card, at, boots, ram, past>>

(* A bare row has no run column.  A fragment is the part of a line before   *)
(* the print that failed; the next line printed ends up behind it on the    *)
(* same line, which is then spoilt.                                         *)
Line == [kind : {"header", "bare_row", "fragment", "spoilt"}, boot : 1 .. MaxBoots]
        \cup [kind : {"marker", "row"}, run : Counter, boot : 1 .. MaxBoots]

Init ==
  /\ checksOpens \in BOOLEAN
  /\ low \in 0 .. ByteMod - 1 /\ high \in 0 .. ByteMod - 1
  /\ exists = FALSE /\ file = <<>>
  /\ at = "off" /\ boots = 0
  /\ runNumber = 0 /\ sdReady = FALSE /\ pending = <<>>
  /\ faults = 0 /\ torn = FALSE

Fault == faults < MaxFaults /\ faults' = faults + 1
-----------------------------------------------------------------------------
(* A reset: the globals have their initial values.                          *)
PowerUp ==
  /\ at = "off" /\ boots < MaxBoots
  /\ boots' = boots + 1
  /\ at' = "read_counter"
  /\ runNumber' = 0 /\ sdReady' = FALSE /\ pending' = <<>>
  /\ UNCHANGED <<checksOpens, rom, card, past>>

PowerLoss ==
  /\ at # "off"
  /\ torn' = (torn \/ at = "put_high")
  /\ at' = "off"
  /\ UNCHANGED <<checksOpens, rom, card, boots, ram, faults>>

(* EEPROM.get(), the check for a blank EEPROM, and the increment.           *)
NextRun(stored) == IF stored = Blank THEN 1 ELSE stored + 1

ReadCounter ==
  /\ at = "read_counter"
  /\ runNumber' = NextRun(high * ByteMod + low)
  /\ at' = "put_low"
  /\ UNCHANGED <<checksOpens, rom, card, boots, sdReady, pending, past>>

(* Variant: more than a byte written to a byte.                             *)
PutLowWide ==
  /\ at = "put_low"
  /\ low' = runNumber
  /\ at' = "put_high"
  /\ UNCHANGED <<checksOpens, high, card, boots, ram, past>>

(* EEPROM.put() updates the bytes in the order of their addresses.          *)
PutLow ==
  /\ at = "put_low"
  /\ low' = runNumber % ByteMod
  /\ at' = "put_high"
  /\ UNCHANGED <<checksOpens, high, card, boots, ram, past>>

(* Variant: the second byte never written.                                  *)
PutHighForgotten ==
  /\ at = "put_high"
  /\ at' = "SD_begin"
  /\ UNCHANGED <<checksOpens, rom, card, boots, ram, past>>

PutHigh ==
  /\ at = "put_high"
  /\ high' = runNumber \div ByteMod
  /\ at' = "SD_begin"
  /\ UNCHANGED <<checksOpens, low, card, boots, ram, past>>

(* SD.begin() fails without a card: the run goes on without a log.          *)
SdFails ==
  /\ at = "SD_begin"
  /\ at' = "loop"
  /\ UNCHANGED <<checksOpens, rom, card, boots, ram, past>>

(* SD.begin() and SD.exists(), which also answers no when it cannot read    *)
(* the directory.                                                           *)
SdBegins ==
  /\ at = "SD_begin"
  /\ \/ exists /\ at' = "marker" /\ UNCHANGED faults
     \/ ~exists /\ at' = "header" /\ UNCHANGED faults
     \/ exists /\ at' = "header" /\ Fault
  /\ UNCHANGED <<checksOpens, rom, card, boots, ram, torn>>

(* SD.open(LOG_FILENAME, FILE_WRITE): the file exists from here on.         *)
OpenFor(line, next) ==
  /\ exists' = TRUE
  /\ pending' = <<line>>
  /\ at' = next
  /\ UNCHANGED <<checksOpens, rom, file, boots, runNumber, sdReady, past>>

(* Lines behind an unfinished one.                                          *)
Behind(lines) ==
  LET n == Len(file) IN
    IF file # <<>> /\ lines # <<>> /\ file[n].kind = "fragment"
    THEN [file EXCEPT ![n].kind = IF lines[1].kind = "fragment" THEN @ ELSE "spoilt"]
    ELSE file \o lines

(* The prints and close(): the line is in the file, or part of it, or none. *)
CloseTo(next) ==
  /\ \/ file' = Behind(pending) /\ UNCHANGED faults
     \/ file' = Behind(<<[kind |-> "fragment", boot |-> boots]>>) /\ Fault
     \/ file' = file /\ Fault
  /\ pending' = <<>>
  /\ at' = next
  /\ UNCHANGED <<checksOpens, rom, exists, boots, runNumber, torn>>

OpenHeader ==
  /\ at = "header"
  /\ OpenFor([kind |-> "header", boot |-> boots], "close_header")

CloseHeader ==
  /\ at = "close_header"
  /\ CloseTo("marker")
  /\ UNCHANGED sdReady

OpenMarker ==
  /\ at = "marker"
  /\ OpenFor([kind |-> "marker", run |-> runNumber, boot |-> boots], "close_marker")

CloseMarker ==
  /\ at = "close_marker"
  /\ CloseTo("loop")
  /\ sdReady' = TRUE

(* Variant: a failing open is no reason to give up in any sketch.           *)
OpenIgnored ==
  /\ at \in {"header", "marker"}
  /\ sdReady' = (at = "marker")
  /\ at' = IF at = "header" THEN "marker" ELSE "loop"
  /\ IF checksOpens THEN UNCHANGED faults ELSE Fault
  /\ UNCHANGED <<checksOpens, rom, card, boots, runNumber, pending, torn>>

(* SD.open() returns no File: setupSD() returns false and the run is not    *)
(* logged, so that nothing is missing; dxlCoordLog.ino skips the line and   *)
(* stays ready.                                                             *)
OpenFails ==
  /\ at \in {"header", "marker"}
  /\ sdReady' = (at = "marker" /\ ~checksOpens)
  /\ at' = IF at = "header" /\ ~checksOpens THEN "marker" ELSE "loop"
  /\ IF checksOpens THEN UNCHANGED faults ELSE Fault
  /\ UNCHANGED <<checksOpens, rom, card, boots, runNumber, pending, torn>>

(* logRow() prints the run number into every row, dxlCoordLog.ino does not. *)
RowLine ==
  IF checksOpens THEN [kind |-> "row", run |-> runNumber, boot |-> boots]
  ELSE [kind |-> "bare_row", boot |-> boots]

(* A row that SD.open() fails for is dropped, which is a stutter.           *)
OpenRow ==
  /\ at = "loop" /\ sdReady /\ Len(file) < MaxLines
  /\ OpenFor(RowLine, "close_row")

CloseRow ==
  /\ at = "close_row"
  /\ CloseTo("loop")
  /\ UNCHANGED sdReady

Next ==
  \/ PowerUp \/ PowerLoss
  \/ ReadCounter \/ PutLow \/ PutHigh
  \/ SdFails \/ SdBegins \/ OpenFails
  \/ OpenHeader \/ CloseHeader \/ OpenMarker \/ CloseMarker
  \/ OpenRow \/ CloseRow

Spec == Init /\ [][Next]_vars
-----------------------------------------------------------------------------
(* The file is all a reader has: boot is not in it.                         *)
Written(l) ==
  CASE l.kind \in {"header", "bare_row"} -> [kind |-> l.kind]
    [] l.kind \in {"fragment", "spoilt"} -> [kind |-> "spoilt"]
    [] l.kind \in {"marker", "row"} -> [kind |-> l.kind, run |-> l.run]

AsRead == [i \in DOMAIN file |-> Written(file[i])]

File == INSTANCE RunFile
  WITH Runs <- Counter, lines <- AsRead, run <- runNumber, lossy <- faults > 0

(* EEPROM and file together keep the promise of RunFile, across any number  *)
(* of power-ups: the whole of it while only power or whole card fail, and   *)
(* the rest of it also when single card operations do, or when power fails  *)
(* inside the counter.  (A marker that dxlCoordLog.ino could not open the   *)
(* file for leaves its bare rows in the section of the run before.)         *)
KeepsPromise == File!Spec

TypeOK ==
  /\ checksOpens \in BOOLEAN
  /\ low \in 0 .. ByteMod - 1 /\ high \in 0 .. ByteMod - 1
  /\ exists \in BOOLEAN /\ file \in Seq(Line)
  /\ at \in {"off", "read_counter", "put_low", "put_high", "SD_begin", "header",
             "close_header", "marker", "close_marker", "loop", "close_row"}
  /\ boots \in 0 .. MaxBoots
  /\ runNumber \in Counter /\ sdReady \in BOOLEAN
  /\ pending \in {<<>>} \cup {<<l>> : l \in Line}
  /\ faults \in 0 .. MaxFaults /\ torn \in BOOLEAN

HasNumber(i) == file[i].kind \in {"marker", "row"}

(* "rows from different runs are distinguished by the 'run' column and the  *)
(* marker rows": what carries one run number comes from one power-up, also  *)
(* when the counter comes round past the value a blank EEPROM reads as and  *)
(* when card operations fail, unless power fails between the counter's      *)
(* bytes.                                                                   *)
RunsDistinguished ==
  ~torn => \A i, j \in DOMAIN file :
    HasNumber(i) /\ HasNumber(j) /\ file[i].run = file[j].run => file[i].boot = file[j].boot
=============================================================================
