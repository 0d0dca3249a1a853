----------------------------- MODULE SlaveProofs -----------------------------
(***************************************************************************)
(* What the slave promises for every control table the sketch may build    *)
(* and every packet: the table stays well formed, items overlap only in    *)
(* the one way addControlItem() does not look for, and no write makes the  *)
(* slave deaf.                                                             *)
(***************************************************************************)
EXTENDS Slave, SequenceTheorems, FiniteSetTheorems, TLAPS

Entry == [addr : Nat, len : Nat \ {0}, value : Seq(Byte)]

Sized(item) == item.value \in [1 .. item.len -> Byte]

(* The table is a list of items whose values have their length; the first   *)
(* four are the default ones.                                               *)
TableInv ==
  /\ table \in Seq(Entry) /\ Len(table) \in 4 .. MaxItems
  /\ \A k \in DOMAIN table : Sized(table[k])
  /\ table[MODEL].addr = 0 /\ table[FIRMWARE].addr = 6
  /\ table[ID].addr = 7 /\ table[PROTOCOL].addr = 9
  /\ table[FIRMWARE].len = 1 /\ table[ID].len = 1 /\ table[PROTOCOL].len = 1
  /\ id < BROADCAST /\ protocol \in {1, 2}
  /\ DOMAIN host = DOMAIN table

(* Only values change.                                                      *)
SameExtents ==
  /\ DOMAIN table' = DOMAIN table
  /\ \A k \in DOMAIN table :
       table'[k].addr = table[k].addr /\ table'[k].len = table[k].len

LEMMA TableInit == Init => TableInv
<1> SUFFICES ASSUME Init PROVE TableInv
  OBVIOUS
<1>1. table = << Item(0, 2, ModelNumber), Item(6, 1, <<1>>),
                 Item(7, 1, <<1>>), Item(9, 1, <<2>>) >>
  BY DEF Init
<1>2. /\ ModelNumber \in Seq(Byte) /\ ModelNumber \in [1 .. 2 -> Byte]
      /\ <<1>> \in [1 .. 1 -> Byte] /\ <<2>> \in [1 .. 1 -> Byte]
      /\ <<1>> \in Seq(Byte) /\ <<2>> \in Seq(Byte)
  <2>1. PICK a \in Byte, b \in Byte : ModelNumber = <<a, b>>
    BY SlaveAssumption
  <2>2. <<a, b>> \in Seq(Byte)
    OBVIOUS
  <2>3. <<a, b>> \in [1 .. 2 -> Byte]
    OBVIOUS
  <2>4. 1 \in Byte /\ 2 \in Byte
    BY DEF Byte
  <2>5. /\ <<1>> \in [1 .. 1 -> Byte] /\ <<2>> \in [1 .. 1 -> Byte]
        /\ <<1>> \in Seq(Byte) /\ <<2>> \in Seq(Byte)
    BY <2>4
  <2> QED
    BY <2>1, <2>2, <2>3, <2>5
<1>3. /\ Item(0, 2, ModelNumber) \in Entry /\ Item(6, 1, <<1>>) \in Entry
      /\ Item(7, 1, <<1>>) \in Entry /\ Item(9, 1, <<2>>) \in Entry
  BY <1>2 DEF Item, Entry
<1>4. table \in Seq(Entry) /\ Len(table) = 4 /\ DOMAIN table = 1 .. 4
  BY <1>1, <1>3
<1>5. /\ table[1] = Item(0, 2, ModelNumber) /\ table[2] = Item(6, 1, <<1>>)
      /\ table[3] = Item(7, 1, <<1>>) /\ table[4] = Item(9, 1, <<2>>)
  BY <1>1
<1>6. \A k \in DOMAIN table : Sized(table[k])
  <2>1. /\ Sized(table[1]) /\ Sized(table[2]) /\ Sized(table[3]) /\ Sized(table[4])
    BY <1>2, <1>5 DEF Item, Sized
  <2> QED
    BY <1>4, <2>1
<1>7. DOMAIN host = DOMAIN table
  BY DEF Init
<1>8. id = 1 /\ protocol = 2
  BY <1>5 DEF id, protocol, ID, PROTOCOL, Item
<1> QED
  BY <1>4, <1>5, <1>6, <1>7, <1>8, SlaveAssumption
  DEF TableInv, Item, MODEL, FIRMWARE, ID, PROTOCOL, BROADCAST

(* A table with the same extents and fitting values is a table again.       *)
LEMMA ValuesStep ==
  ASSUME TableInv, SameExtents, DOMAIN host' = DOMAIN table,
         table' \in Seq(Entry),
         \A k \in DOMAIN table : Sized(table'[k]),
         id' < BROADCAST, protocol' \in {1, 2}
  PROVE  TableInv'
<1>1. Len(table') = Len(table) /\ DOMAIN table = 1 .. Len(table)
  BY DEF SameExtents, TableInv
<1>2. {MODEL, FIRMWARE, ID, PROTOCOL} \subseteq DOMAIN table
  BY <1>1 DEF TableInv, MODEL, FIRMWARE, ID, PROTOCOL
<1> QED
  BY <1>1, <1>2 DEF TableInv, SameExtents

LEMMA Indices ==
  ASSUME TableInv
  PROVE  /\ DOMAIN table = 1 .. Len(table) /\ Len(table) \in Nat
         /\ {MODEL, FIRMWARE, ID, PROTOCOL} \subseteq DOMAIN table
         /\ \A k \in DOMAIN table : table[k] \in Entry
  BY SlaveAssumption DEF TableInv, MODEL, FIRMWARE, ID, PROTOCOL

LEMMA PutStep ==
  ASSUME TableInv, NEW k \in DOMAIN table, NEW value \in Seq(Byte), Put(k, value),
         value \in [1 .. table[k].len -> Byte],
         k = ID => value[1] < BROADCAST, k = PROTOCOL => value[1] \in {1, 2}
  PROVE  TableInv' /\ SameExtents
<1>1. table' = [table EXCEPT ![k].value = value]
  BY DEF Put
<1>2. /\ DOMAIN table' = DOMAIN table
      /\ table'[k] = [table[k] EXCEPT !.value = value]
      /\ \A l \in DOMAIN table : l # k => table'[l] = table[l]
  BY <1>1, Indices
<1>3. /\ table'[k] \in Entry /\ Sized(table'[k])
      /\ table'[k].addr = table[k].addr /\ table'[k].len = table[k].len
      /\ table'[k].value = value
  BY <1>2, Indices DEF Entry, Sized
<1>4. SameExtents
  BY <1>2, <1>3 DEF SameExtents
<1>5. table' \in Seq(Entry)
  <2>1. \A l \in 1 .. Len(table) : table'[l] \in Entry
    BY <1>2, <1>3, Indices
  <2>2. table' = [l \in 1 .. Len(table) |-> table'[l]]
    BY <1>1, Indices
  <2> QED
    BY <2>1, <2>2, Indices
<1>6. \A l \in DOMAIN table : Sized(table'[l])
  BY <1>2, <1>3 DEF TableInv
<1>7. id' < BROADCAST /\ protocol' \in {1, 2}
  BY <1>2, <1>3, Indices DEF TableInv, id, protocol
<1>8. DOMAIN host' = DOMAIN table
  BY DEF Put, TableInv
<1> QED
  BY <1>4, <1>5, <1>6, <1>7, <1>8, ValuesStep

(* What a packet brings an item it covers has the length of the item.       *)
LEMMA NewValue ==
  ASSUME TableInv, NEW w \in Writes, NEW k \in Touched(w)
  PROVE  /\ New(k, w) \in Seq(Byte) /\ New(k, w) \in [1 .. table[k].len -> Byte]
<1> DEFINE m == table[k].addr - w.addr + 1
           n == table[k].addr - w.addr + table[k].len
<1>1. /\ w.addr \in Nat /\ w.data \in Seq(Byte)
      /\ table[k].addr \in Nat /\ table[k].len \in Nat \ {0}
  BY SlaveAssumption, Indices DEF Touched, Covered, Entry
<1>2. m \in Int /\ n \in Int /\ 1 <= m /\ n <= Len(w.data) /\ n - m + 1 = table[k].len
  BY <1>1 DEF Touched, Covered, Inside
<1>3. \A i \in m .. n : w.data[i] \in Byte
  BY <1>1, <1>2
<1>4. /\ SubSeq(w.data, m, n) \in Seq(Byte)
      /\ Len(SubSeq(w.data, m, n)) = table[k].len
  BY <1>1, <1>2, <1>3, SubSeqProperties
<1>5. New(k, w) \in Seq(Byte) /\ Len(New(k, w)) = table[k].len
  BY <1>4 DEF New
<1>6. \A q \in Seq(Byte) : q \in [1 .. Len(q) -> Byte]
  OBVIOUS
<1> QED
  BY <1>5, <1>6

LEMMA WriteStep ==
  ASSUME TableInv, NEW to \in Ids, NEW w \in Writes, NEW vetoed \in SUBSET Touched(w),
         ProcessWrite(to, w, vetoed)
  PROVE  /\ TableInv' /\ SameExtents
         /\ \A k \in {ID, PROTOCOL} :
              \/ table'[k] = table[k]
              \/ table'[k].value = New(k, w) /\ ~Refused(k, w)
<1> DEFINE bad == {k \in Touched(w) : Refused(k, w)} \cup vetoed
           Set(k) == k \in Touched(w) /\ ~Restored(k, bad)
<1>1. table' = [k \in DOMAIN table |->
                  IF Set(k) THEN [table[k] EXCEPT !.value = New(k, w)] ELSE table[k]]
  BY DEF ProcessWrite
<1>2. DOMAIN host' = DOMAIN table
  BY DEF ProcessWrite
<1>3. \A k \in DOMAIN table :
        /\ table'[k] \in Entry /\ Sized(table'[k])
        /\ table'[k].addr = table[k].addr /\ table'[k].len = table[k].len
        /\ table'[k] = table[k] \/ (Set(k) /\ table'[k].value = New(k, w))
  <2> SUFFICES ASSUME NEW k \in DOMAIN table
               PROVE  /\ table'[k] \in Entry /\ Sized(table'[k])
                      /\ table'[k].addr = table[k].addr /\ table'[k].len = table[k].len
                      /\ table'[k] = table[k] \/ (Set(k) /\ table'[k].value = New(k, w))
    OBVIOUS
  <2>1. table[k] \in Entry /\ Sized(table[k])
    BY Indices DEF TableInv
  <2>2. CASE Set(k)
    <3>1. New(k, w) \in Seq(Byte) /\ New(k, w) \in [1 .. table[k].len -> Byte]
      BY <2>2, NewValue
    <3>2. table'[k] = [table[k] EXCEPT !.value = New(k, w)]
      BY <1>1, <2>2
    <3> HIDE DEF Set
    <3> QED
      BY <2>1, <2>2, <3>1, <3>2 DEF Entry, Sized
  <2>3. CASE ~Set(k)
    BY <1>1, <2>1, <2>3
  <2> QED
    BY <2>2, <2>3
<1>4. table' \in Seq(Entry)
  <2>1. \A k \in 1 .. Len(table) : table'[k] \in Entry
    BY <1>3, Indices
  <2>2. table' = [k \in 1 .. Len(table) |-> table'[k]]
    BY <1>1, Indices
  <2> QED
    BY <2>1, <2>2, Indices
<1>5. SameExtents
  BY <1>1, <1>3 DEF SameExtents
(* The id and the protocol are one byte long, so their backup holds them    *)
(* and a value that is refused is not kept.                                 *)
<1>6. ASSUME NEW k \in {ID, PROTOCOL}, Set(k)
      PROVE  ~Refused(k, w)
  <2>1. table[k].len = 1 /\ k \in DOMAIN table /\ k \in Nat
    BY Indices DEF TableInv, ID, PROTOCOL
  <2>2. table[k].len <= MaxBackup
    BY <2>1, SlaveAssumption
  <2>3. \A b \in bad : ~(b <= k)
    BY <1>6, <2>2 DEF Restored
  <2> QED
    BY <1>6, <2>1, <2>3
<1>7. \A k \in {ID, PROTOCOL} :
        \/ table'[k] = table[k]
        \/ table'[k].value = New(k, w) /\ ~Refused(k, w)
  BY <1>3, <1>6, Indices
<1>8. id' < BROADCAST
  <2>1. CASE table'[ID] = table[ID]
    BY <2>1 DEF id, TableInv
  <2>2. CASE table'[ID].value = New(ID, w) /\ ~Refused(ID, w)
    <3>1. /\ id' = New(ID, w)[1]
          /\ ~(New(ID, w)[1] >= IF protocol = 2 THEN 253 ELSE BROADCAST)
      BY <2>2 DEF id, Refused
    <3>2. id' \in Byte
      <4>1. table'[ID] \in Entry /\ Sized(table'[ID]) /\ table'[ID].len = 1
        BY <1>3, Indices DEF TableInv
      <4> QED
        BY <4>1 DEF Sized, id
    <3> QED
      BY <3>1, <3>2 DEF Byte, BROADCAST
  <2> QED
    BY <1>7, <2>1, <2>2
<1>9. protocol' \in {1, 2}
  BY <1>7 DEF protocol, Refused, TableInv, ID, PROTOCOL
<1> QED
  BY <1>2, <1>3, <1>4, <1>5, <1>7, <1>8, <1>9, ValuesStep

LEMMA AddStep ==
  ASSUME TableInv, NEW start \in Nat, NEW len \in Nat, AddControlItem(start, len)
  PROVE  /\ TableInv'
         /\ Len(table') = Len(table) + 1
         /\ \A k \in DOMAIN table : table'[k] = table[k]
         /\ table'[Len(table')].addr = start /\ table'[Len(table')].len = len
<1> DEFINE zeros == [j \in 1 .. len |-> 0]
           item == Item(start, len, zeros)
<1>1. len \in Nat \ {0} /\ zeros \in Seq(Byte) /\ zeros \in [1 .. len -> Byte]
  <2>1. len > 0
    BY DEF AddControlItem
  <2>2. 0 \in Byte
    BY DEF Byte
  <2> QED
    BY <2>1, <2>2
<1>2. item \in Entry /\ Sized(item) /\ item.addr = start /\ item.len = len
  BY <1>1 DEF Item, Entry, Sized
<1>3. table' = Append(table, item)
  BY DEF AddControlItem
<1> HIDE DEF item
<1>4. /\ table' \in Seq(Entry) /\ Len(table') = Len(table) + 1
      /\ \A k \in 1 .. Len(table) : table'[k] = table[k]
      /\ table'[Len(table) + 1] = item
  BY <1>2, <1>3, AppendProperties DEF TableInv
<1>5. DOMAIN table = 1 .. Len(table) /\ DOMAIN table' = 1 .. Len(table) + 1
  BY <1>4, Indices
<1>6. Len(table') \in 4 .. MaxItems
  BY <1>4, SlaveAssumption DEF AddControlItem, TableInv
<1>7. \A k \in DOMAIN table' : Sized(table'[k])
  BY <1>2, <1>4, <1>5 DEF TableInv
<1>8. \A k \in {MODEL, FIRMWARE, ID, PROTOCOL} : table'[k] = table[k]
  BY <1>4, <1>5, Indices
<1>9. DOMAIN host' = DOMAIN table'
  <2>1. DOMAIN host = 1 .. Len(table)
    BY <1>5 DEF TableInv
  <2>2. host' = Append(host, <<>>)
    BY DEF AddControlItem
  <2>3. Len(host) = Len(table)
    BY <2>1, Indices
  <2> QED
    BY <1>5, <2>1, <2>2, <2>3, Indices
<1>10. id' = id /\ protocol' = protocol
  BY <1>8 DEF id, protocol
<1>11. TableInv'
  BY <1>4, <1>6, <1>7, <1>8, <1>9, <1>10 DEF TableInv
<1> QED
  BY <1>2, <1>4, <1>5, <1>11

(* What each step of the slave does to the table.                           *)
LEMMA TableStep ==
  ASSUME TableInv, [Next]_vars
  PROVE  /\ TableInv'
         /\ \/ SameExtents
            \/ \E place \in Places : AddControlItem(place[1], place[2])
<1>1. ASSUME NEW n \in Bytes, SetID(n)
      PROVE  TableInv' /\ SameExtents
  <2>1. /\ n < BROADCAST /\ Put(ID, <<n>>)
    BY <1>1, SlaveAssumption DEF SetID, Byte, BROADCAST
  <2>2. <<n>> \in Seq(Byte) /\ <<n>> \in [1 .. 1 -> Byte] /\ <<n>>[1] = n
    BY SlaveAssumption
  <2>3. table[ID].len = 1 /\ ID \in DOMAIN table /\ ID # PROTOCOL
    BY Indices DEF TableInv, ID, PROTOCOL
  <2> QED
    BY <2>1, <2>2, <2>3, PutStep
<1>2. ASSUME NEW n \in Bytes, SetFirmwareVersion(n)
      PROVE  TableInv' /\ SameExtents
  <2>1. <<n>> \in Seq(Byte) /\ <<n>> \in [1 .. 1 -> Byte]
    BY SlaveAssumption
  <2>2. /\ table[FIRMWARE].len = 1 /\ FIRMWARE \in DOMAIN table
        /\ FIRMWARE # ID /\ FIRMWARE # PROTOCOL
    BY Indices DEF TableInv, FIRMWARE, ID, PROTOCOL
  <2> QED
    BY <1>2, <2>1, <2>2, PutStep DEF SetFirmwareVersion
<1>3. ASSUME NEW version \in {1, 2}, SetPortProtocolVersion(version)
      PROVE  TableInv' /\ SameExtents
  <2>1. version \in Byte
    BY DEF Byte
  <2>2. <<version>> \in Seq(Byte) /\ <<version>> \in [1 .. 1 -> Byte] /\ <<version>>[1] = version
    BY <2>1
  <2>3. table[PROTOCOL].len = 1 /\ PROTOCOL \in DOMAIN table /\ ID # PROTOCOL
    BY Indices DEF TableInv, ID, PROTOCOL
  <2> QED
    BY <1>3, <2>2, <2>3, PutStep DEF SetPortProtocolVersion
<1>4. ASSUME NEW k \in DOMAIN table, NEW n \in Bytes, Update(k, n)
      PROVE  TableInv' /\ SameExtents
  <2>1. n \in Byte /\ table[k].len \in Nat
    BY SlaveAssumption, Indices DEF Entry
  <2>2. /\ [j \in 1 .. table[k].len |-> n] \in Seq(Byte)
        /\ [j \in 1 .. table[k].len |-> n] \in [1 .. table[k].len -> Byte]
    BY <2>1
  <2>3. k # ID /\ k # PROTOCOL
    BY <1>4, Indices DEF Update, ID, PROTOCOL
  <2> QED
    BY <1>4, <2>2, <2>3, PutStep DEF Update
<1>5. ASSUME NEW place \in Places, AddControlItem(place[1], place[2])
      PROVE  TableInv'
  BY <1>5, AddStep, SlaveAssumption
<1>6. ASSUME NEW to \in Ids, NEW w \in Writes, NEW vetoed \in SUBSET Touched(w),
             ProcessWrite(to, w, vetoed)
      PROVE  TableInv' /\ SameExtents
  BY <1>6, WriteStep
<1>7. ASSUME UNCHANGED <<table, host>>
      PROVE  TableInv' /\ SameExtents
  BY <1>7 DEF TableInv, SameExtents, id, protocol
<1>8. ASSUME NEW to \in Ids,
             \/ \E r \in Reads : \E stop \in Covered(r.addr, r.len) \cup {Len(table) + 1} :
                   ProcessRead(to, r, stop)
             \/ ProcessPing(to)
      PROVE  UNCHANGED <<table, host>>
  BY <1>8 DEF ProcessRead, ProcessPing
<1> QED
  BY <1>1, <1>2, <1>3, <1>4, <1>5, <1>6, <1>7, <1>8 DEF Next, vars
-----------------------------------------------------------------------------
(* Type correctness: the table has its four default items, every value has  *)
(* the length of its item, the id is no broadcast and the protocol is one   *)
(* the slave has, after any packets and calls of the sketch.                *)
THEOREM TypeCorrect == Spec => []TypeOK
<1>1. TableInv => TypeOK
  <2> SUFFICES ASSUME TableInv PROVE TypeOK
    OBVIOUS
  <2>1. \A k \in DOMAIN table : table[k].value \in [1 .. table[k].len -> Byte]
    BY DEF TableInv, Sized
  <2> QED
    BY <2>1 DEF TypeOK, TableInv
<1>2. TableInv /\ [Next]_vars => TableInv'
  BY TableStep
<1> QED
  BY TableInit, <1>1, <1>2, PTL DEF Spec

(* Two items share an address only when the later one was laid around the   *)
(* earlier one, wherever the sketch puts its items (addControlItem()).      *)
THEOREM ItemsApart == Spec => []OverlapsOnlyAround
<1>1. Init => OverlapsOnlyAround
  <2> SUFFICES ASSUME Init PROVE OverlapsOnlyAround
    OBVIOUS
  <2>1. table = << Item(0, 2, ModelNumber), Item(6, 1, <<1>>),
                   Item(7, 1, <<1>>), Item(9, 1, <<2>>) >>
    BY DEF Init
  <2>2. /\ DOMAIN table = 1 .. 4
        /\ table[1].addr = 0 /\ table[1].len = 2 /\ table[2].addr = 6 /\ table[2].len = 1
        /\ table[3].addr = 7 /\ table[3].len = 1 /\ table[4].addr = 9 /\ table[4].len = 1
    BY <2>1 DEF Item
  <2>3. \A k, l \in 1 .. 4 : k < l => ~Overlap(table[k], table[l])
    BY <2>2 DEF Overlap
  <2> QED
    BY <2>2, <2>3 DEF OverlapsOnlyAround
<1>2. TableInv /\ OverlapsOnlyAround /\ [Next]_vars => OverlapsOnlyAround'
  <2> SUFFICES ASSUME TableInv, OverlapsOnlyAround, [Next]_vars PROVE OverlapsOnlyAround'
    OBVIOUS
  <2>1. CASE SameExtents
    BY <2>1 DEF SameExtents, OverlapsOnlyAround, Overlap
  <2>2. CASE \E place \in Places : AddControlItem(place[1], place[2])
    <3>1. PICK place \in Places : AddControlItem(place[1], place[2])
      BY <2>2
    <3> DEFINE start == place[1]
               len == place[2]
               last == Len(table')
    <3>2. start \in Nat /\ len \in Nat
      BY SlaveAssumption
    <3>3. /\ last = Len(table) + 1 /\ \A k \in DOMAIN table : table'[k] = table[k]
          /\ table'[last].addr = start /\ table'[last].len = len
          /\ DOMAIN table' = 1 .. last /\ DOMAIN table = 1 .. Len(table)
      <4>1. TableInv'
        BY TableStep
      <4>2. DOMAIN table' = 1 .. last
        BY <4>1 DEF TableInv
      <4> QED
        BY <3>1, <3>2, <4>2, AddStep, Indices
    <3>4. \A k \in DOMAIN table : ~IsAddrInOtherItem(start, start + len, table[k])
      BY <3>1 DEF AddControlItem
    <3>5. \A k \in DOMAIN table :
            Overlap(table'[k], table'[last]) =>
              /\ table'[last].addr < table'[k].addr
              /\ table'[k].addr + table'[k].len < table'[last].addr + table'[last].len
      <4> SUFFICES ASSUME NEW k \in DOMAIN table, Overlap(table'[k], table'[last])
                   PROVE  /\ start < table[k].addr
                          /\ table[k].addr + table[k].len < start + len
        BY <3>3
      <4>1. table[k].addr \in Nat /\ table[k].len \in Nat
        BY Indices DEF Entry
      <4>2. table[k].addr < start + len /\ start < table[k].addr + table[k].len
        BY <3>3 DEF Overlap
      <4>3. ~IsAddrInOtherItem(start, start + len, table[k])
        BY <3>4
      <4> HIDE DEF start, len
      <4> QED
        BY <3>2, <4>1, <4>2, <4>3 DEF IsAddrInOtherItem
    <3>6. ASSUME NEW k \in DOMAIN table', NEW l \in DOMAIN table', k < l,
                 Overlap(table'[k], table'[l])
          PROVE  /\ table'[l].addr < table'[k].addr
                 /\ table'[k].addr + table'[k].len < table'[l].addr + table'[l].len
      <4>1. CASE l = last
        <5>1. k \in DOMAIN table
          BY <3>3, <3>6, <4>1, Indices
        <5> QED
          BY <3>5, <3>6, <4>1, <5>1
      <4>2. CASE l # last
        <5>1. k \in DOMAIN table /\ l \in DOMAIN table
          BY <3>3, <3>6, <4>2, Indices
        <5>2. table'[k] = table[k] /\ table'[l] = table[l]
          BY <3>3, <5>1
        <5> QED
          BY <3>6, <5>1, <5>2 DEF OverlapsOnlyAround
      <4> QED
        BY <4>1, <4>2
    <3> QED
      BY <3>6 DEF OverlapsOnlyAround
  <2> QED
    BY <2>1, <2>2, TableStep
<1>3. TableInv /\ [Next]_vars => TableInv'
  BY TableStep
<1> QED
  BY TableInit, <1>1, <1>2, <1>3, PTL DEF Spec
-----------------------------------------------------------------------------
(* A slave that hears its own id goes on to hear it, in whatever company    *)
(* the id is written and whichever item of the packet is refused, unless    *)
(* it is taken to protocol 2 with the id 253 that it has or is given in     *)
(* protocol 1 (processInstWrite(), setID(), setPortProtocolVersion()).      *)
THEOREM AlwaysReachable == Spec => StaysReachable
<1>1. ASSUME TableInv, [Next]_vars, protocol = 2, Hears(id)
      PROVE  id' < 253
  <2>1. id < 253
    BY <1>1 DEF Hears
  <2>3. CASE id' = id
    BY <2>1, <2>3
  <2>4. ASSUME NEW n \in Bytes, SetID(n)
        PROVE  id' < 253
    <3>1. n < 253 /\ Put(ID, <<n>>)
      BY <1>1, <2>4 DEF SetID
    <3>2. ID \in DOMAIN table /\ table[ID] \in Entry
      BY <1>1, Indices
    <3>3. table'[ID].value = <<n>>
      BY <3>1, <3>2 DEF Put, Entry
    <3>4. id' = n
      BY <3>3 DEF id
    <3> QED
      BY <3>1, <3>4
  <2>5. ASSUME NEW k \in DOMAIN table, NEW value, Put(k, value), k # ID
        PROVE  id' = id
    BY <1>1, <2>5, Indices DEF Put, id
  <2>6. ASSUME NEW place \in Places, AddControlItem(place[1], place[2])
        PROVE  id' = id
    BY <1>1, <2>6, AddStep, Indices, SlaveAssumption DEF id
  <2>7. ASSUME NEW to \in Ids, NEW w \in Writes, NEW vetoed \in SUBSET Touched(w),
               ProcessWrite(to, w, vetoed)
        PROVE  id' < 253
    <3>1. CASE table'[ID] = table[ID]
      BY <2>1, <3>1 DEF id
    <3>2. CASE table'[ID].value = New(ID, w) /\ ~Refused(ID, w)
      <4>1. id' = New(ID, w)[1] /\ ~(New(ID, w)[1] >= 253)
        BY <1>1, <3>2 DEF id, Refused
      <4>2. id' \in Nat
        <5>1. TableInv'
          BY <1>1, TableStep
        <5>2. table'[ID] \in Entry /\ Sized(table'[ID]) /\ table'[ID].len = 1
          BY <5>1 DEF TableInv, ID
        <5> QED
          BY <5>2 DEF Sized, id, Byte
      <4> QED
        BY <4>1, <4>2
    <3> QED
      BY <1>1, <2>7, <3>1, <3>2, WriteStep
  <2>8. UNCHANGED table => id' = id
    BY DEF id
  <2>9. {FIRMWARE, PROTOCOL} \subseteq DOMAIN table /\ FIRMWARE # ID /\ PROTOCOL # ID
    BY <1>1, Indices DEF FIRMWARE, PROTOCOL, ID
  <2>10. /\ \A n \in Bytes : SetFirmwareVersion(n) => id' = id
         /\ \A version \in {1, 2} : SetPortProtocolVersion(version) => id' = id
         /\ \A k \in DOMAIN table, n \in Bytes : Update(k, n) => id' = id
    BY <2>5, <2>9 DEF SetFirmwareVersion, SetPortProtocolVersion, Update, ID, PROTOCOL
  <2>11. /\ \A to \in Ids, r \in Reads, stop \in Nat : ProcessRead(to, r, stop) => id' = id
         /\ \A to \in Ids : ProcessPing(to) => id' = id
    BY <2>8 DEF ProcessRead, ProcessPing
  <2>12. \A r \in Reads : Covered(r.addr, r.len) \cup {Len(table) + 1} \subseteq Nat
    BY <1>1, Indices DEF Covered
  <2> QED
    BY <1>1, <2>3, <2>4, <2>6, <2>7, <2>8, <2>10, <2>11, <2>12 DEF Next, vars
<1>2. TableInv /\ [Next]_vars =>
        [Hears(id) => Hears(id)' \/ (protocol = 1 /\ protocol' = 2 /\ id' = 253)]_vars
  <2> SUFFICES ASSUME TableInv, [Next]_vars, Hears(id), ~Hears(id)'
               PROVE  protocol = 1 /\ protocol' = 2 /\ id' = 253
    OBVIOUS
  <2>1. TableInv'
    BY TableStep
  <2>2. protocol' = 2 /\ ~(id' < 253)
    BY <2>1 DEF Hears, TableInv
  <2>3. id' \in Nat /\ id' < 254
    <3>1. table'[ID] \in Entry /\ Sized(table'[ID]) /\ table'[ID].len = 1
      BY <2>1 DEF TableInv, ID
    <3>2. id' \in Nat
      BY <3>1 DEF Sized, id, Byte
    <3>3. id' < BROADCAST
      BY <2>1 DEF TableInv
    <3> QED
      BY <3>2, <3>3 DEF BROADCAST
  <2>4. protocol # 2
    BY <1>1, <2>2
  <2>5. protocol = 1
    BY <2>4 DEF TableInv
  <2> QED
    BY <2>2, <2>3, <2>5
<1>3. TableInv /\ [Next]_vars => TableInv'
  BY TableStep
<1> QED
  BY TableInit, <1>2, <1>3, PTL DEF Spec, StaysReachable
-----------------------------------------------------------------------------
(* What the host takes an item to be is what the item is.                   *)
HostInv ==
  \A k \in DOMAIN table : host[k] # <<>> => host[k] = table[k].value

LEMMA HostStep ==
  ASSUME TableInv, HostInv, [Next]_vars
  PROVE  HostInv'
<1>1. ASSUME NEW k \in DOMAIN table, NEW value, Put(k, value)
      PROVE  HostInv'
  <2>1. /\ \A l \in DOMAIN table : l # k => table'[l] = table[l] /\ host'[l] = host[l]
        /\ DOMAIN table' = DOMAIN table /\ host'[k] = <<>>
    BY <1>1 DEF Put, TableInv
  <2> QED
    BY <2>1 DEF HostInv
<1>2. ASSUME NEW place \in Places, AddControlItem(place[1], place[2])
      PROVE  HostInv'
  <2>1. /\ \A k \in DOMAIN table : table'[k] = table[k]
        /\ DOMAIN table = 1 .. Len(table) /\ Len(table) \in Nat
    BY <1>2, AddStep, SlaveAssumption, Indices
  <2>2. DOMAIN table' = 1 .. Len(table) + 1
    <3>1. Len(table') = Len(table) + 1 /\ TableInv'
      BY <1>2, AddStep, SlaveAssumption
    <3> QED
      BY <3>1 DEF TableInv
  <2>3. host' = Append(host, <<>>) /\ DOMAIN host = 1 .. Len(table) /\ Len(host) = Len(table)
    BY <1>2, <2>1 DEF AddControlItem, TableInv
  <2>4. /\ host'[Len(table) + 1] = <<>>
        /\ \A k \in 1 .. Len(table) : host'[k] = host[k]
    BY <2>1, <2>3
  <2> QED
    BY <2>1, <2>2, <2>4 DEF HostInv
<1>3. ASSUME NEW to \in Ids, NEW w \in Writes, NEW vetoed \in SUBSET Touched(w),
             ProcessWrite(to, w, vetoed)
      PROVE  HostInv'
  <2> DEFINE bad == {k \in Touched(w) : Refused(k, w)} \cup vetoed
             alone == Cardinality(Touched(w)) = 1
                        /\ \A k \in Touched(w) : table[k].len <= MaxBackup
  <2>1. /\ table' = [k \in DOMAIN table |->
                       IF k \in Touched(w) /\ ~Restored(k, bad)
                       THEN [table[k] EXCEPT !.value = New(k, w)] ELSE table[k]]
        /\ host' = [k \in DOMAIN table |->
                      IF k \in Touched(w)
                      THEN IF bad = {} THEN New(k, w) ELSE IF alone THEN host[k] ELSE <<>>
                      ELSE host[k]]
    BY <1>3 DEF ProcessWrite
  <2>2. bad \subseteq Touched(w) /\ Touched(w) \subseteq DOMAIN table
    BY DEF Touched, Covered
  <2>3. alone => \A k, l \in Touched(w) : k = l
    <3> SUFFICES ASSUME alone, NEW k \in Touched(w), NEW l \in Touched(w) PROVE k = l
      OBVIOUS
    <3>1. IsFiniteSet(DOMAIN table)
      BY Indices, FS_Interval
    <3>2. IsFiniteSet(Touched(w))
      BY <2>2, <3>1, FS_Subset
    <3>3. PICK m : Touched(w) = {m}
      BY <3>2, FS_Singleton
    <3> QED
      BY <3>3
  <2> HIDE DEF bad
  <2>4. ASSUME NEW k \in DOMAIN table, host'[k] # <<>>
        PROVE  host'[k] = table'[k].value
    <3>1. CASE k \notin Touched(w)
      BY <2>1, <2>4, <3>1 DEF HostInv
    <3>2. CASE k \in Touched(w) /\ bad = {}
      <4>1. ~Restored(k, bad)
        BY <3>2 DEF Restored
      <4>2. table[k] \in Entry
        BY Indices
      <4> QED
        BY <2>1, <3>2, <4>1, <4>2 DEF Entry
    <3>3. CASE k \in Touched(w) /\ bad # {}
      <4>1. alone /\ host'[k] = host[k]
        BY <2>1, <2>4, <3>3
      <4>2. k \in bad /\ table[k].len <= MaxBackup
        BY <2>2, <2>3, <3>3, <4>1
      <4>3. k <= k
        BY Indices
      <4>4. Restored(k, bad)
        BY <4>2, <4>3 DEF Restored
      <4> QED
        BY <2>1, <2>4, <4>1, <4>4 DEF HostInv
    <3> QED
      BY <3>1, <3>2, <3>3
  <2> QED
    BY <2>1, <2>4 DEF HostInv
<1>4. UNCHANGED <<table, host>> => HostInv'
  BY DEF HostInv
<1>5. ASSUME NEW to \in Ids,
             \/ \E r \in Reads : \E stop \in Covered(r.addr, r.len) \cup {Len(table) + 1} :
                   ProcessRead(to, r, stop)
             \/ ProcessPing(to)
      PROVE  UNCHANGED <<table, host>>
  BY <1>5 DEF ProcessRead, ProcessPing
<1>6. /\ \A n \in Bytes : SetID(n) => HostInv'
      /\ \A n \in Bytes : SetFirmwareVersion(n) => HostInv'
      /\ \A version \in {1, 2} : SetPortProtocolVersion(version) => HostInv'
      /\ \A k \in DOMAIN table, n \in Bytes : Update(k, n) => HostInv'
  BY <1>1, Indices DEF SetID, SetFirmwareVersion, SetPortProtocolVersion, Update
<1> QED
  BY <1>2, <1>3, <1>4, <1>5, <1>6 DEF Next, vars

(* The last item over an address is the one that is read there.             *)
LEMMA ReadByteOf ==
  ASSUME TableInv, NEW copied \in SUBSET DOMAIN table, NEW k \in copied, NEW a \in Nat,
         At(k, a), \A l \in DOMAIN table : l > k => ~Overlap(table[k], table[l])
  PROVE  ReadByte(a, copied) = table[k].value[a - table[k].addr + 1]
<1> DEFINE here == {l \in copied : At(l, a)}
<1>1. DOMAIN table \subseteq Nat
  BY Indices
<1>2. k \in here
  OBVIOUS
<1>3. \A l \in here : l <= k
  <2> SUFFICES ASSUME NEW l \in here, l > k PROVE FALSE
    BY <1>1
  <2>1. /\ table[k].addr \in Nat /\ table[k].len \in Nat
        /\ table[l].addr \in Nat /\ table[l].len \in Nat
    BY Indices DEF Entry
  <2>2. Overlap(table[k], table[l])
    BY <2>1 DEF At, Overlap
  <2> QED
    BY <2>2
<1>4. \A m \in here : (\A l \in here : l <= m) => m = k
  BY <1>1, <1>2, <1>3
<1>5. (CHOOSE m \in here : \A l \in here : l <= m) = k
  BY <1>2, <1>3, <1>4
<1>6. here # {}
  BY <1>2
<1> QED
  BY <1>5, <1>6 DEF ReadByte

LEMMA ReadStep ==
  ASSUME TableInv, HostInv, NEW to \in Ids, NEW r \in Reads,
         NEW stop \in Covered(r.addr, r.len) \cup {Len(table) + 1},
         ProcessRead(to, r, stop)
  PROVE  ReadBack'
<1>1. /\ table' = table /\ host' = host
      /\ answer'.addr = r.addr /\ answer'.len = r.len
      /\ answer'.err = (stop \in DOMAIN table)
      /\ answer'.data = [j \in 1 .. r.len |-> ReadByte(r.addr + j - 1, Copied(r, stop))]
  BY DEF ProcessRead
<1> SUFFICES ASSUME ~answer'.err, NEW k \in Covered(r.addr, r.len), host[k] # <<>>,
                    \A l \in DOMAIN table : l > k => ~Overlap(table[k], table[l])
             PROVE  SubSeq(answer'.data, table[k].addr - r.addr + 1,
                           table[k].addr - r.addr + table[k].len) = host[k]
  BY <1>1 DEF ReadBack, Covered
<1>2. /\ r.addr \in Nat /\ r.len \in Nat /\ k \in DOMAIN table
      /\ table[k].addr \in Nat /\ table[k].len \in Nat \ {0}
      /\ Inside(table[k], r.addr, r.len)
  BY SlaveAssumption, Indices DEF Covered, Entry
<1>3. host[k] = table[k].value /\ table[k].value \in [1 .. table[k].len -> Byte]
  BY <1>2 DEF HostInv, TableInv, Sized
<1>4. Copied(r, stop) = Covered(r.addr, r.len)
  <2>1. stop = Len(table) + 1
    BY <1>1 DEF Covered
  <2>2. \A l \in Covered(r.addr, r.len) : l < Len(table) + 1
    BY Indices DEF Covered
  <2> QED
    BY <2>1, <2>2 DEF Copied
<1> DEFINE m == table[k].addr - r.addr + 1
           n == table[k].addr - r.addr + table[k].len
<1>5. m \in Int /\ n \in Int /\ 1 <= m /\ n <= r.len /\ n - m + 1 = table[k].len /\ m <= n
  BY <1>2 DEF Inside
<1>6. Covered(r.addr, r.len) \subseteq DOMAIN table
  BY DEF Covered
<1>7. \A j \in 1 .. table[k].len : answer'.data[m + j - 1] = table[k].value[j]
  <2> SUFFICES ASSUME NEW j \in 1 .. table[k].len
               PROVE  answer'.data[m + j - 1] = table[k].value[j]
    OBVIOUS
  <2> DEFINE i == m + j - 1
             a == r.addr + i - 1
  <2>0. j \in Int /\ 1 <= j /\ j <= table[k].len
    BY <1>2
  <2>1. i = table[k].addr - r.addr + j /\ i \in Int /\ 1 <= i /\ i <= r.len
    <3> DEFINE p == table[k].addr
               l == table[k].len
    <3>1. p \in Nat /\ l \in Nat /\ p >= r.addr /\ p + l <= r.addr + r.len
      BY <1>2 DEF Inside
    <3>2. i = (p - r.addr + 1) + j - 1 /\ j <= l
      BY <2>0
    <3> HIDE DEF p, l, i
    <3>3. i = p - r.addr + j /\ i \in Int /\ 1 <= i /\ i <= r.len
      BY <1>2, <2>0, <3>1, <3>2
    <3> QED
      BY <3>3 DEF p
  <2> HIDE DEF i
  <2>2. i \in 1 .. r.len /\ a = table[k].addr + j - 1 /\ a \in Nat
    BY <1>2, <2>0, <2>1
  <2>3. answer'.data[i] = ReadByte(a, Covered(r.addr, r.len))
    BY <1>1, <1>4, <2>2
  <2> HIDE DEF a
  <2>4. At(k, a) /\ a - table[k].addr + 1 = j
    BY <1>2, <2>0, <2>2 DEF At
  <2>5. ReadByte(a, Covered(r.addr, r.len)) = table[k].value[a - table[k].addr + 1]
    BY <1>6, <2>2, <2>4, ReadByteOf
  <2> QED
    BY <2>3, <2>4, <2>5 DEF i
<1>8. \A i \in m .. n : answer'.data[i] \in Byte
  <2> SUFFICES ASSUME NEW i \in m .. n PROVE answer'.data[i] \in Byte
    OBVIOUS
  <2> DEFINE j == i - m + 1
  <2>1. j \in 1 .. table[k].len /\ m + j - 1 = i
    BY <1>5
  <2> HIDE DEF j
  <2>2. answer'.data[m + j - 1] = table[k].value[j]
    BY <1>7, <2>1
  <2> QED
    BY <1>3, <2>1, <2>2
<1> DEFINE s == SubSeq(answer'.data, m, n)
<1> HIDE DEF m, n
<1>9. /\ s \in Seq(Byte) /\ Len(s) = table[k].len
      /\ \A j \in 1 .. table[k].len : s[j] = answer'.data[m + j - 1]
  BY <1>5, <1>8, SubSeqProperties
<1> HIDE DEF s
<1>10. \A q \in Seq(Byte) : q \in [1 .. Len(q) -> Byte]
  OBVIOUS
<1>11. s \in [1 .. table[k].len -> Byte]
  BY <1>9, <1>10
<1>12. \A j \in 1 .. table[k].len : s[j] = table[k].value[j]
  BY <1>7, <1>9
<1>13. s = table[k].value
  <2> DEFINE v == table[k].value
             L == table[k].len
  <2>1. /\ s \in [1 .. L -> Byte] /\ v \in [1 .. L -> Byte]
        /\ \A j \in 1 .. L : s[j] = v[j]
    BY <1>3, <1>11, <1>12
  <2> HIDE DEF v, L
  <2>2. s = [j \in 1 .. L |-> s[j]] /\ v = [j \in 1 .. L |-> v[j]]
    BY <2>1
  <2>3. [j \in 1 .. L |-> s[j]] = [j \in 1 .. L |-> v[j]]
    BY <2>1, Zenon
  <2>4. s = v
    BY <2>2, <2>3, Zenon
  <2> QED
    BY <2>4 DEF v
<1> QED
  BY <1>3, <1>13 DEF s, m, n

(* What an error-free answer to a write said was written is what a read of  *)
(* the item returns, for any table and packets: where items were added over *)
(* each other, for the one added last (processInstRead()).                  *)
THEOREM WrittenIsRead == Spec => []ReadBack
<1>1. Init => HostInv /\ ReadBack
  BY DEF Init, HostInv, ReadBack, Silence
<1>2. TableInv /\ HostInv /\ [Next]_vars => HostInv'
  BY HostStep
<1>3. TableInv /\ HostInv /\ ReadBack /\ [Next]_vars => ReadBack'
  <2> SUFFICES ASSUME TableInv, HostInv, ReadBack, [Next]_vars PROVE ReadBack'
    OBVIOUS
  <2>1. answer'.kind # "read" => ReadBack'
    BY DEF ReadBack
  <2>2. \A k \in DOMAIN table : \A value : Put(k, value) => answer'.kind # "read"
    BY DEF Put, Silence
  <2>3. /\ \A n \in Bytes : SetID(n) \/ SetFirmwareVersion(n) => answer'.kind # "read"
        /\ \A version \in {1, 2} : SetPortProtocolVersion(version) => answer'.kind # "read"
        /\ \A k \in DOMAIN table, n \in Bytes : Update(k, n) => answer'.kind # "read"
    BY <2>2, Indices DEF SetID, SetFirmwareVersion, SetPortProtocolVersion, Update
  <2>4. \A place \in Places : AddControlItem(place[1], place[2]) => answer'.kind # "read"
    BY DEF AddControlItem, Silence
  <2>5. /\ \A to \in Ids, w \in Writes : \A vetoed \in SUBSET Touched(w) :
             ProcessWrite(to, w, vetoed) => answer'.kind # "read"
        /\ \A to \in Ids : ProcessPing(to) => answer'.kind # "read"
    BY DEF ProcessWrite, ProcessPing, Silence
  <2>6. ASSUME NEW to \in Ids, NEW r \in Reads,
               NEW stop \in Covered(r.addr, r.len) \cup {Len(table) + 1},
               ProcessRead(to, r, stop)
        PROVE  ReadBack'
    BY <2>6, ReadStep
  <2>7. UNCHANGED vars => ReadBack'
    BY DEF vars, ReadBack, Covered
  <2> QED
    BY <2>1, <2>3, <2>4, <2>5, <2>6, <2>7 DEF Next
<1>4. TableInv /\ [Next]_vars => TableInv'
  BY TableStep
<1> QED
  BY TableInit, <1>1, <1>2, <1>3, <1>4, PTL DEF Spec
=============================================================================
