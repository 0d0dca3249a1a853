------------------------------- MODULE RunFile -------------------------------
(***************************************************************************)
(* What the log file of the gait sketches promises its reader: it only     *)
(* grows, a line at a time; it falls into the sections of the runs, each   *)
(* opened by a marker with a run number of its own; and a row stands in    *)
(* the section of the run that measured it.  Losing power is invisible: it *)
(* ends the section, unless it hits the counter itself.  After a card      *)
(* operation has failed there may be gaps and spoilt lines, and sections   *)
(* without their marker.  The rows of a run still stand together, and where*)
(* they have a run column their reader can tell; where they have none, the *)
(* rows of a run without its marker are read as those of the run before.   *)
(***************************************************************************)
EXTENDS Naturals, Sequences

CONSTANTS Runs      (* the values of the run number                          *)

VARIABLES
  lines,            (* the lines a card reader finds in the file             *)
  run,              (* the number of the run under way                       *)
  lossy,            (* a card operation has failed while others went on      *)
  torn              (* power has failed inside the update of the counter     *)

Header == [kind : {"header"}]
Marker == [kind : {"marker"}, run : Runs]
RunRow == [kind : {"row"}, run : Runs] \cup [kind : {"bare_row"}]
Spoilt == [kind : {"spoilt"}]

Numbered == {i \in DOMAIN lines : lines[i].kind \in {"marker", "row"}}

(* No line has the number yet.                                              *)
New(n) == torn \/ \A i \in Numbered : lines[i].run # n

(* The section at the end of the file is that of run n.                     *)
InSectionOf(n) ==
  \E i \in Numbered :
    /\ lines[i] = [kind |-> "marker", run |-> n]
    /\ \A j \in i + 1 .. Len(lines) : lines[j].kind \in {"row", "bare_row", "spoilt"}

(* The last line with a number has number n.                                *)
Continues(n) ==
  \E i \in Numbered : lines[i].run = n /\ \A j \in Numbered : j <= i

Init == lines = <<>> /\ run \in Runs /\ lossy = FALSE /\ torn = FALSE

AppendHeader ==
  /\ lines = <<>> \/ lossy
  /\ \E l \in Header : lines' = Append(lines, l)

AppendMarker ==
  \E l \in Marker : l.run = run /\ New(run) /\ lines' = Append(lines, l)

(* A row of the run under way, with its number or without one.              *)
AppendRow ==
  \E l \in RunRow :
    /\ l.kind = "row" => l.run = run
    /\ InSectionOf(run) \/ (lossy /\ (New(run) \/ Continues(run)))
    /\ lines' = Append(lines, l)

AppendSpoilt ==
  /\ lossy'
  /\ \E l \in Spoilt : lines' = Append(lines, l)

(* A run ends, another gets its number; an operation fails.                 *)
Suffer ==
  /\ run' \in Runs
  /\ lossy => lossy'
  /\ torn => torn'
  /\ lines' = lines

Next ==
  \/ AppendHeader /\ UNCHANGED <<run, lossy, torn>>
  \/ AppendMarker /\ UNCHANGED <<run, lossy, torn>>
  \/ AppendRow /\ UNCHANGED <<run, lossy, torn>>
  \/ AppendSpoilt /\ UNCHANGED <<run, torn>>
  \/ Suffer

Spec == Init /\ [][Next]_<<lines, run, lossy, torn>>
=============================================================================
