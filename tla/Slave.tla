-------------------------------- MODULE Slave --------------------------------
(***************************************************************************)
(* DYNAMIXEL::Slave: a board that answers on the bus like a servo.  Its    *)
(* control table is a list of items; the id, the protocol and the firmware *)
(* version of the slave are items themselves, so that a write packet can   *)
(* change whom the slave answers to and in which protocol.                 *)
(***************************************************************************)
EXTENDS Naturals, Sequences, FiniteSets

CONSTANTS
  ModelNumber,        (* the two bytes of model_num                          *)
  AddrLimit,          (* CONTROL_ITEM_ADDR_LIMIT                             *)
  MaxItems,           (* CONTROL_ITEM_MAX                                    *)
  MaxBackup,          (* size of backup_data                                 *)
  Places,             (* where the sketch adds items: <<address, length>>    *)
  Writes, Reads,      (* what packets ask: [addr, data], [addr, len]         *)
  Ids,                (* whom they are sent to                               *)
  Bytes               (* what the sketch gives to setID() and                *)
                      (* setFirmwareVersion()                                *)

Byte == 0 .. 255
BROADCAST == 254

ASSUME SlaveAssumption ==
  /\ ModelNumber \in Byte \X Byte
  /\ {AddrLimit, MaxItems} \subseteq Nat /\ MaxItems >= 4 /\ AddrLimit >= 10
  /\ MaxBackup \in Nat \ {0}
  /\ Places \subseteq Nat \X Nat
  /\ \A w \in Writes : w.addr \in Nat /\ w.data \in Seq(Byte) /\ w.data # <<>>
  /\ \A r \in Reads : r.addr \in Nat /\ r.len \in Nat
  /\ Ids \subseteq Byte /\ Bytes \subseteq Byte

VARIABLES
  table,              (* control_table_: [addr, len, value] of each item     *)
  answer,             (* the last packet and the answer to it                *)
  host                (* what a host that saw every answer takes the items   *)
                      (* to be: a value, or <<>> when it cannot know         *)

vars == <<table, answer, host>>

(* addDefaultControlItem()                                                  *)
MODEL == 1
FIRMWARE == 2
ID == 3
PROTOCOL == 4

Item(addr, len, value) == [addr |-> addr, len |-> len, value |-> value]
id == table[ID].value[1]
protocol == table[PROTOCOL].value[1]

Silence == [kind |-> "none", addr |-> 0, len |-> 0, err |-> FALSE, data |-> <<>>]

Init ==
  /\ table = << Item(0, 2, ModelNumber), Item(6, 1, <<1>>),
                Item(7, 1, <<1>>), Item(9, 1, <<2>>) >>
  /\ answer = Silence
  /\ host = [k \in DOMAIN table |-> <<>>]

Put(k, value) ==
  /\ table' = [table EXCEPT ![k].value = value]
  /\ host' = [host EXCEPT ![k] = <<>>]
  /\ answer' = Silence

(* setID(), setFirmwareVersion(), setPortProtocolVersion(), and the sketch  *)
(* that sets the variable of one of its items.                              *)
SetID(n) ==
  /\ n < IF protocol = 2 THEN 253 ELSE BROADCAST
  /\ Put(ID, <<n>>)

SetFirmwareVersion(n) == Put(FIRMWARE, <<n>>)

SetPortProtocolVersion(version) == Put(PROTOCOL, <<version>>)

Update(k, n) == k > PROTOCOL /\ Put(k, [j \in 1 .. table[k].len |-> n])

(* Variant: only the first address is looked at.                            *)
StartIsInOtherItem(start, end, other) ==
  start >= other.addr /\ start < other.addr + other.len

(* isAddrInOtherItem()                                                      *)
IsAddrInOtherItem(start, end, other) ==
  \/ start >= other.addr /\ start < other.addr + other.len
  \/ end > other.addr /\ end <= other.addr + other.len

(* addControlItem(), with isEnoughSpaceInControlTable(), which looks at the *)
(* entry that is still to be filled, where address and length are 0.        *)
AddControlItem(start, len) ==
  /\ Len(table) < MaxItems
  /\ start <= AddrLimit /\ len > 0 /\ len <= AddrLimit
  /\ \A k \in DOMAIN table : ~IsAddrInOtherItem(start, start + len, table[k])
  /\ table' = Append(table, Item(start, len, [j \in 1 .. len |-> 0]))
  /\ host' = Append(host, <<>>)
  /\ answer' = Silence
----------------------------------------------------------------------------
(* rxInstPacket(): a packet of the other protocol is not understood, and    *)
(* protocol 2 has no id 253.                                                *)
Hears(to) == to = id /\ (protocol = 2 => to < 253)

(* isAddrInRange(): the item is inside the addresses of the packet.         *)
Inside(item, addr, len) == item.addr >= addr /\ item.addr + item.len <= addr + len

Covered(addr, len) == {k \in DOMAIN table : Inside(table[k], addr, len)}
Touched(w) == Covered(w.addr, Len(w.data))
New(k, w) == SubSeq(w.data, table[k].addr - w.addr + 1,
                    table[k].addr - w.addr + table[k].len)

(* Variants: the id is not validated; it is validated as in protocol 1.     *)
RefusedButId(k, w) ==
  \/ k = PROTOCOL /\ New(k, w)[1] \notin {1, 2}
  \/ k \in {MODEL, FIRMWARE} /\ table[k].value[1] \in {1, 2}
RefusedAsInOne(k, w) ==
  \/ k = ID /\ New(k, w)[1] >= BROADCAST
  \/ k = PROTOCOL /\ New(k, w)[1] \notin {1, 2}
  \/ k \in {MODEL, FIRMWARE} /\ table[k].value[1] \in {1, 2}

(* What the slave itself refuses to write; the items that may only be read  *)
(* are told by their old value.                                             *)
Refused(k, w) ==
  \/ k = ID /\ New(k, w)[1] >= IF protocol = 2 THEN 253 ELSE BROADCAST
  \/ k = PROTOCOL /\ New(k, w)[1] \notin {1, 2}
  \/ k \in {MODEL, FIRMWARE} /\ table[k].value[1] \in {1, 2}

(* Variant: the error is forgotten after each item.                         *)
RestoredNever(k, bad) == FALSE

(* One error is kept to the end of the packet: from the item it came from   *)
(* on every item is restored, if its backup holds it.                       *)
Restored(k, bad) == (\E b \in bad : b <= k) /\ table[k].len <= MaxBackup

(* processInstWrite(); vetoed: the items for which the callback of the      *)
(* sketch reports an error.                                                 *)
ProcessWrite(to, w, vetoed) ==
  /\ Hears(to)
  /\ vetoed \subseteq Touched(w)
  /\ LET bad == {k \in Touched(w) : Refused(k, w)} \cup vetoed
         alone == Cardinality(Touched(w)) = 1 /\ \A k \in Touched(w) : table[k].len <= MaxBackup
     IN /\ table' = [k \in DOMAIN table |->
                       IF k \in Touched(w) /\ ~Restored(k, bad)
                       THEN [table[k] EXCEPT !.value = New(k, w)] ELSE table[k]]
        /\ host' = [k \in DOMAIN table |->
                      IF k \in Touched(w)
                      THEN IF bad = {} THEN New(k, w) ELSE IF alone THEN host[k] ELSE <<>>
                      ELSE host[k]]
        /\ answer' = [Silence EXCEPT !.kind = "write", !.addr = w.addr,
                                     !.len = Len(w.data), !.err = bad # {}]

(* processInstRead(): bytes outside the items are 0.  From the item on for  *)
(* which the callback of the sketch reports an error (stop) nothing is      *)
(* copied.                                                                  *)
Copied(r, stop) == {k \in Covered(r.addr, r.len) : k < stop}

At(k, a) == a >= table[k].addr /\ a < table[k].addr + table[k].len

ReadByte(a, copied) ==
  LET here == {k \in copied : At(k, a)}
  IN IF here = {} THEN 0
     ELSE LET k == CHOOSE k \in here : \A l \in here : l <= k
          IN table[k].value[a - table[k].addr + 1]

ProcessRead(to, r, stop) ==
  /\ Hears(to)
  /\ answer' = [kind |-> "read", addr |-> r.addr, len |-> r.len,
                err |-> stop \in DOMAIN table,
                data |-> [j \in 1 .. r.len |->
                            ReadByte(r.addr + j - 1, Copied(r, stop))]]
  /\ UNCHANGED <<table, host>>

(* processInstPing(): protocol 1 answers without parameters.                *)
ProcessPing(to) ==
  /\ Hears(to)
  /\ answer' = [Silence EXCEPT !.kind = "ping",
                 !.data = IF protocol = 1 THEN <<>>
                          ELSE table[MODEL].value \o table[FIRMWARE].value]
  /\ UNCHANGED <<table, host>>

Next ==
  \/ \E n \in Bytes : SetID(n) \/ SetFirmwareVersion(n)
  \/ \E version \in {1, 2} : SetPortProtocolVersion(version)
  \/ \E k \in DOMAIN table, n \in Bytes : Update(k, n)
  \/ \E place \in Places : AddControlItem(place[1], place[2])
  \/ \E to \in Ids :
       \/ \E w \in Writes : \E vetoed \in SUBSET Touched(w) : ProcessWrite(to, w, vetoed)
       \/ \E r \in Reads :
            \E stop \in Covered(r.addr, r.len) \cup {Len(table) + 1} : ProcessRead(to, r, stop)
       \/ ProcessPing(to)

Spec == Init /\ [][Next]_vars
----------------------------------------------------------------------------
(* The items keep their size and the default items their place; the         *)
(* protocol is one of the two and the id is not the broadcast id, whoever   *)
(* wrote them.                                                              *)
TypeOK ==
  /\ Len(table) \in 4 .. MaxItems
  /\ \A k \in DOMAIN table : table[k].value \in [1 .. table[k].len -> Byte]
  /\ <<table[MODEL].addr, table[FIRMWARE].addr, table[ID].addr, table[PROTOCOL].addr>>
       = <<0, 6, 7, 9>>
  /\ protocol \in {1, 2} /\ id < BROADCAST
  /\ DOMAIN host = DOMAIN table

(* Two items share an address only when the one added later begins before   *)
(* the other and ends behind it: the test of addControlItem() finds every   *)
(* other overlap.                                                           *)
Overlap(i, j) == i.addr < j.addr + j.len /\ j.addr < i.addr + i.len
OverlapsOnlyAround ==
  \A k, l \in DOMAIN table :
    k < l /\ Overlap(table[k], table[l]) =>
      /\ table[l].addr < table[k].addr
      /\ table[k].addr + table[k].len < table[l].addr + table[l].len

(* No step but one makes a slave that hears packets with its id deaf to     *)
(* them, whatever else a packet wrote and whichever item was refused: from  *)
(* protocol 1, where 253 is an id, to protocol 2, where it is none.  The    *)
(* protocol is not looked at against the id, nor the id of a packet against *)
(* the protocol the same packet writes.                                     *)
StaysReachable ==
  [][Hears(id) => Hears(id)' \/ (protocol = 1 /\ protocol' = 2 /\ id' = 253)]_vars

(* A read that covers an item, no later item over it, returns what the last *)
(* write of that item that was answered without error wrote, also when      *)
(* writes of the item alone were answered with an error since.              *)
ReadBack ==
  answer.kind = "read" /\ ~answer.err =>
    \A k \in Covered(answer.addr, answer.len) :
      host[k] # <<>> /\ (\A l \in DOMAIN table : l > k => ~Overlap(table[k], table[l]))
        => SubSeq(answer.data, table[k].addr - answer.addr + 1,
                  table[k].addr - answer.addr + table[k].len) = host[k]

(* "model number if Read Only", "firmware is Read Only": no packet changes  *)
(* them.                                                                    *)
ReadOnly ==
  [][answer'.kind = "write" =>
       /\ table'[MODEL].value = table[MODEL].value
       /\ table'[FIRMWARE].value = table[FIRMWARE].value]_vars
=============================================================================
