------------------------------ MODULE CardFile -------------------------------
(***************************************************************************)
(* The files of a card as the sketches rely on them.  What the program     *)
(* reads back (volatile) runs ahead of what a loss of power leaves         *)
(* (durable): a print extends the first, and the second catches up all at  *)
(* once, never by part of what was printed.  Only trouble, a card access   *)
(* that fails or a loss of power, throws the program back to the durable   *)
(* contents.  All of this is promised while the file system is sound.      *)
(***************************************************************************)
EXTENDS Naturals, Sequences

CONSTANTS Files,
          NoFile      (* in the place of the contents of an absent file      *)

VARIABLES
  volatile, durable,  (* the contents of the files, for the program and      *)
                      (* after a loss of power                               *)
  out,                (* what the print under way prints                     *)
  trouble,            (* failed accesses and losses of power so far          *)
  sound               (* no failure has come at a point that damages files   *)

Init == volatile = [f \in Files |-> NoFile] /\ durable = volatile

Create(f) ==
  /\ volatile[f] = NoFile
  /\ volatile' = [volatile EXCEPT ![f] = <<>>]
  /\ durable' = durable

Extend(f) ==
  /\ volatile[f] # NoFile
  /\ volatile' = [volatile EXCEPT ![f] = @ \o out]
  /\ durable' = durable

Save ==
  /\ volatile' = volatile
  /\ \A f \in Files : durable'[f] \in {durable[f], volatile[f]}

Forget ==
  /\ trouble' > trouble
  /\ \A f \in Files : volatile'[f] \in {volatile[f], durable[f]}
  /\ durable' = durable

(* Removing a file empties it first, and that at once.                      *)
Empty(f) ==
  /\ volatile[f] # NoFile
  /\ volatile' = [volatile EXCEPT ![f] = <<>>]
  /\ durable' = [durable EXCEPT ![f] = <<>>]

Erase(f) ==
  /\ volatile[f] = <<>>
  /\ volatile' = [volatile EXCEPT ![f] = NoFile]
  /\ durable' = durable

Next ==
  \/ Save \/ Forget
  \/ \E f \in Files : Create(f) \/ Extend(f) \/ Empty(f) \/ Erase(f)
  \/ ~sound'

Spec == Init /\ [][Next]_<<volatile, durable>>
=============================================================================
