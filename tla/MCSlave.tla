------------------------------- MODULE MCSlave -------------------------------
(* The slave of the example slave_callback, with a wide item that has no    *)
(* backup and one laid around another.  Packets write single items, the     *)
(* whole of the default items from the firmware version to the protocol,    *)
(* and the items of the sketch.                                             *)
EXTENDS Slave

Model == <<5, 80>>
ItemPlaces == {<<20, 2>>, <<21, 1>>, <<19, 4>>}
WritePackets ==
  {[addr |-> 7, data |-> <<n>>] : n \in {253, 254}}
    \cup {[addr |-> 9, data |-> <<n>>] : n \in {1, 3}}
    \cup {[addr |-> 6, data |-> d] : d \in {<<9, 2, 0, 3>>, <<9, 253, 0, 2>>}}
    \cup {[addr |-> 0, data |-> <<1, 1>>], [addr |-> 20, data |-> <<7, 8>>],
          [addr |-> 19, data |-> <<1, 2, 3, 4>>]}
ReadPackets == {[addr |-> 6, len |-> 4], [addr |-> 19, len |-> 4]}
=============================================================================
