---------------------------- MODULE DxlGroupProofs ----------------------------
(***************************************************************************)
(* For any info structures, packet buffers and lists of the sketch: a sync *)
(* or bulk call that sends the packet of an earlier one again sends the    *)
(* right one; and as long as no answer is out of place, every call has the *)
(* answers to its own packet, in the order of its list.                    *)
(***************************************************************************)
EXTENDS DxlGroup, FiniteSetTheorems, SequenceTheorems, TLAPS

InfoInv ==
  /\ info \in [Infos -> [list : Lists, completed : BOOLEAN, changed : BOOLEAN]]
  /\ DOMAIN buffer = Buffers
  /\ moved \in BOOLEAN /\ disturbed \subseteq Internal

(* The packet of i was built and is not marked as changed.                  *)
Kept(i) == info[i].completed /\ ~info[i].changed

(* What a call that believes is_completed and inst_idx finds: in a buffer   *)
(* of its own nothing but its packet, in the buffer of the master its       *)
(* packet when inst_idx is its instruction and it was not disturbed.        *)
BufferInv ==
  \A i \in Infos :
    /\ i \notin Internal /\ Kept(i) => buffer[i] = Meant(i, info[i].list)
    /\ i \in Internal /\ Kept(i) /\ i \notin disturbed /\ inst = Inst[i]
         => buffer[Master] = Meant(i, info[i].list)

GroupInv == InfoInv /\ BufferInv /\ OwnPacket

LEMMA GroupInit == Init => GroupInv
<1> SUFFICES ASSUME Init PROVE GroupInv
  OBVIOUS
<1>1. PICK list \in Lists :
        info = [i \in Infos |-> [list |-> list, completed |-> FALSE, changed |-> TRUE]]
  BY DEF Init
<1>2. InfoInv
  BY <1>1 DEF Init, InfoInv
<1>3. BufferInv
  BY <1>1 DEF BufferInv, Kept
<1>4. OwnPacket
  BY DEF Init, OwnPacket
<1> QED
  BY <1>2, <1>3, <1>4 DEF GroupInv

(* A step that leaves packets and info structures alone.                    *)
LEMMA GroupStutter ==
  ASSUME GroupInv, UNCHANGED <<info, buffer, inst, sent, moved, disturbed>>
  PROVE  GroupInv'
  BY DEF GroupInv, InfoInv, BufferInv, Kept, OwnPacket

LEMMA ChangeStep ==
  ASSUME GroupInv, NEW i \in Infos, NEW list \in Lists, Change(i, list)
  PROVE  GroupInv'
<1>1. /\ info' = [info EXCEPT ![i].list = list, ![i].changed = TRUE]
      /\ UNCHANGED <<buffer, inst, sent, moved, disturbed>>
  BY DEF Change
<1>2. /\ info' \in [Infos -> [list : Lists, completed : BOOLEAN, changed : BOOLEAN]]
      /\ info'[i].changed
      /\ \A j \in Infos \ {i} : info'[j] = info[j]
  BY <1>1 DEF GroupInv, InfoInv
<1>3. InfoInv'
  BY <1>1, <1>2 DEF GroupInv, InfoInv
<1>4. BufferInv'
  BY <1>1, <1>2 DEF GroupInv, BufferInv, Kept
<1>5. OwnPacket'
  BY <1>1 DEF GroupInv, OwnPacket
<1> QED
  BY <1>3, <1>4, <1>5 DEF GroupInv

LEMMA MoveStep ==
  ASSUME GroupInv, SetPacketBuffer
  PROVE  GroupInv'
<1>1. /\ buffer' = [buffer EXCEPT ![Master] = NoPacket] /\ moved'
      /\ disturbed' = disturbed \cup Internal /\ UNCHANGED <<info, inst, sent>>
  BY DEF SetPacketBuffer
<1>2. DOMAIN buffer' = Buffers /\ \A i \in Infos : buffer'[i] = buffer[i]
  BY <1>1, GroupAssumption DEF GroupInv, InfoInv
<1>3. InfoInv' /\ BufferInv' /\ OwnPacket'
  <2>1. InfoInv'
    BY <1>1, <1>2 DEF GroupInv, InfoInv, SetPacketBuffer
  <2>2. BufferInv'
    BY <1>1, <1>2 DEF GroupInv, BufferInv, Kept
  <2>3. OwnPacket'
    BY <1>1 DEF GroupInv, OwnPacket
  <2> QED
    BY <2>1, <2>2, <2>3
<1> QED
  BY <1>3 DEF GroupInv

(* Another instruction in the buffer of the master: inst_idx tells.         *)
LEMMA MasterStep ==
  ASSUME GroupInv, NEW kind, NEW list, kind \notin Reads \cup Writes,
         BuildInMaster(kind, list), UNCHANGED <<info, sent, moved, disturbed>>
  PROVE  GroupInv'
<1>1. /\ buffer' = [buffer EXCEPT ![Master] = Packet(kind, Master, list)]
      /\ inst' = kind
  BY DEF BuildInMaster
<1>2. DOMAIN buffer' = Buffers /\ \A i \in Infos : buffer'[i] = buffer[i]
  BY <1>1, GroupAssumption DEF GroupInv, InfoInv
<1>3. \A i \in Infos : inst' # Inst[i]
  BY <1>1, GroupAssumption
<1>4. InfoInv'
  BY <1>2 DEF GroupInv, InfoInv
<1>5. BufferInv'
  BY <1>2, <1>3 DEF GroupInv, BufferInv, Kept
<1>6. OwnPacket'
  BY DEF GroupInv, OwnPacket
<1> QED
  BY <1>4, <1>5, <1>6 DEF GroupInv

(* Filling the buffer of i, with its packet or with part of it.             *)
LEMMA BuildStep ==
  ASSUME InfoInv, BufferInv, NEW i \in Infos, NEW packet, NEW done \in BOOLEAN,
         buffer' = [buffer EXCEPT ![BufferOf(i)] = packet],
         inst' = Inst[i], moved' = moved, Disturb(i),
         info' \in [Infos -> [list : Lists, completed : BOOLEAN, changed : BOOLEAN]],
         info'[i].completed = done, info'[i].list = info[i].list,
         done => packet = Meant(i, info[i].list),
         \A j \in Infos \ {i} : info'[j] = info[j]
  PROVE  InfoInv' /\ BufferInv'
<1>1. BufferOf(i) \in Buffers /\ DOMAIN buffer' = Buffers
  BY DEF BufferOf, Buffers, InfoInv
<1>2. buffer'[BufferOf(i)] = packet
  BY <1>1 DEF InfoInv
<1>3. ASSUME NEW j \in Infos, j \notin Internal, Kept(j)'
      PROVE  buffer'[j] = Meant(j, info'[j].list)
  <2>1. CASE j = i
    BY <1>2, <1>3, <2>1 DEF BufferOf, Kept
  <2>2. CASE j # i
    <3>1. BufferOf(i) # j
      BY <1>3, <2>2, GroupAssumption DEF BufferOf
    <3>2. buffer'[j] = buffer[j] /\ info'[j] = info[j]
      BY <1>3, <2>2, <3>1 DEF InfoInv, Buffers
    <3> QED
      BY <1>3, <3>2 DEF BufferInv, Kept
  <2> QED
    BY <2>1, <2>2
<1>4. ASSUME NEW j \in Infos, j \in Internal, Kept(j)', j \notin disturbed',
             inst' = Inst[j]
      PROVE  buffer'[Master] = Meant(j, info'[j].list)
  <2>1. CASE j = i
    BY <1>2, <1>4, <2>1 DEF BufferOf, Kept
  <2>2. CASE j # i
    <3>1. j \notin disturbed /\ i \notin Internal /\ inst = Inst[j]
      BY <1>4, <2>2 DEF Disturb
    <3>2. BufferOf(i) # Master
      BY <3>1, GroupAssumption DEF BufferOf
    <3>3. buffer'[Master] = buffer[Master] /\ info'[j] = info[j]
      BY <2>2, <3>2 DEF InfoInv, Buffers
    <3> QED
      BY <1>4, <3>1, <3>3 DEF BufferInv, Kept
  <2> QED
    BY <2>1, <2>2
<1>5. InfoInv'
  BY <1>1 DEF InfoInv, Disturb
<1>6. BufferInv'
  BY <1>3, <1>4 DEF BufferInv
<1> QED
  BY <1>5, <1>6

LEMMA CallStep ==
  ASSUME GroupInv, NEW i \in Infos, GroupCall(i)
  PROVE  GroupInv'
<1>1. CASE Resend(i)
  <2>1. /\ UNCHANGED <<info, buffer, inst, moved, disturbed>>
        /\ sent'.packet = buffer[BufferOf(i)] /\ sent'.meant = Meant(i, info[i].list)
    BY <1>1 DEF Resend, GroupCall
  <2>2. Kept(i) /\ (i \in Internal => inst = Inst[i])
    BY <1>1 DEF Resend, MustBuild, Overwritten, Kept
  <2>3. i \notin disturbed => sent'.packet = sent'.meant
    BY <2>1, <2>2 DEF GroupInv, BufferInv, BufferOf
  <2>4. sent'.sure = (i \notin disturbed \/ info[i].changed)
    BY <1>1 DEF Resend
  <2>5. OwnPacket'
    BY <2>2, <2>3, <2>4 DEF OwnPacket, Kept
  <2>6. InfoInv' /\ BufferInv'
    BY <2>1 DEF GroupInv, InfoInv, BufferInv, Kept
  <2> QED
    BY <2>5, <2>6 DEF GroupInv
<1>2. CASE Build(i)
  <2>1. /\ buffer' = [buffer EXCEPT ![BufferOf(i)] = Meant(i, info[i].list)]
        /\ inst' = Inst[i] /\ moved' = moved /\ Disturb(i)
        /\ info' = [info EXCEPT ![i].completed = TRUE, ![i].changed = FALSE]
        /\ sent'.packet = sent'.meant
    BY <1>2 DEF Build, GroupCall
  <2>2. /\ info' \in [Infos -> [list : Lists, completed : BOOLEAN, changed : BOOLEAN]]
        /\ info'[i].completed = TRUE /\ info'[i].list = info[i].list
        /\ \A j \in Infos \ {i} : info'[j] = info[j]
    BY <2>1 DEF GroupInv, InfoInv
  <2>3. InfoInv' /\ BufferInv'
    BY <2>1, <2>2, BuildStep DEF GroupInv
  <2>4. OwnPacket'
    BY <2>1 DEF OwnPacket
  <2> QED
    BY <2>3, <2>4 DEF GroupInv
<1> QED
  BY <1>1, <1>2 DEF GroupCall

LEMMA FailStep ==
  ASSUME GroupInv, NEW i \in Infos, GroupCallFails(i)
  PROVE  GroupInv'
<1>1. /\ buffer' = [buffer EXCEPT ![BufferOf(i)] = NoPacket]
      /\ inst' = Inst[i] /\ moved' = moved /\ sent' = sent /\ Disturb(i)
      /\ info' = [info EXCEPT ![i].completed = FALSE]
  BY DEF GroupCallFails
<1>2. /\ info' \in [Infos -> [list : Lists, completed : BOOLEAN, changed : BOOLEAN]]
      /\ info'[i].completed = FALSE /\ info'[i].list = info[i].list
      /\ \A j \in Infos \ {i} : info'[j] = info[j]
  BY <1>1 DEF GroupInv, InfoInv
<1>3. InfoInv' /\ BufferInv'
  BY <1>1, <1>2, BuildStep DEF GroupInv
<1>4. OwnPacket'
  BY <1>1 DEF GroupInv, OwnPacket
<1> QED
  BY <1>3, <1>4 DEF GroupInv

LEMMA GroupInvStep == GroupInv /\ [Next]_vars => GroupInv'
<1> SUFFICES ASSUME GroupInv, [Next]_vars PROVE GroupInv'
  OBVIOUS
<1>1. ASSUME NEW kind \in {"READ", "WRITE", "PING"}, NEW s \in 1 .. N, OneServo(kind, s)
      PROVE  GroupInv'
  <2>1. kind \notin Reads \cup Writes
    BY DEF Reads, Writes
  <2> QED
    BY <1>1, <2>1, MasterStep DEF OneServo
<1>2. ASSUME NEW s \in 1 .. N, WriteNoResp(s)
      PROVE  GroupInv'
  <2>1. "WRITE" \notin Reads \cup Writes
    BY DEF Reads, Writes
  <2> QED
    BY <1>2, <2>1, MasterStep DEF WriteNoResp
<1>3. CASE WriteAll
  <2>1. "WRITE" \notin Reads \cup Writes
    BY DEF Reads, Writes
  <2> QED
    BY <1>3, <2>1, MasterStep DEF WriteAll
<1>4. ASSUME NEW capacity \in Capacities, PingAll(capacity)
      PROVE  GroupInv'
  <2>1. "PING" \notin Reads \cup Writes
    BY DEF Reads, Writes
  <2> QED
    BY <1>4, <2>1, MasterStep DEF PingAll
<1>5. CASE Arrive \/ Receive \/ TimesOut \/ UNCHANGED vars
  BY <1>5, GroupStutter DEF Arrive, Receive, TimesOut, vars
<1> QED
  BY <1>1, <1>2, <1>3, <1>4, <1>5, ChangeStep, MoveStep, CallStep, FailStep DEF Next

(* syncRead(), syncWrite(), bulkRead() and bulkWrite() send the packet of   *)
(* their own info structure and list, unless it is not marked, is kept in   *)
(* the buffer of the master, and since it was built another info of its     *)
(* instruction was built there, or in a buffer of its own while inst_idx    *)
(* was another instruction, or the buffer of the master was replaced.       *)
THEOREM ResentPacketIsOwn == Spec => []OwnPacket
<1>1. GroupInv => OwnPacket
  BY DEF GroupInv
<1> QED
  BY GroupInit, GroupInvStep, <1>1, PTL DEF Spec
-----------------------------------------------------------------------------
(* A call of one of these kinds ends when its list has been answered.       *)
Answering == Reads \cup {"READ", "WRITE", "PING"}

(* What a port or a call holds is a sequence, whatever its answers.         *)
Queue(s) == Len(s) \in Nat /\ s = [k \in 1 .. Len(s) |-> s[k]]

(* Only packets with a list are ever kept or sent, and only a call that     *)
(* answers or a broadcast ping waits.                                       *)
CallInv ==
  /\ \A b \in Buffers : buffer[b].list \in Seq(Nat)
  /\ call = [kind |-> call.kind, list |-> call.list, want |-> call.want, got |-> call.got]
  /\ call.list \in Seq(Nat) /\ call.want \in Seq(Nat)
  /\ Queue(call.got) /\ Queue(rx) /\ Queue(wire)
  /\ Len(call.got) + Len(call.want) <= Len(call.list)
  /\ call.kind \notin Answering \cup {"PING_ALL"} => call.want = <<>>
  /\ calls \in 0 .. MaxCalls /\ losses \in 0 .. MaxLosses /\ late \in 0 .. MaxLate
  /\ inStep \in BOOLEAN

(* The answer that is due to the k-th of the list of the call.              *)
Due(k) == [id |-> call.list[k], len |-> Params(call.kind), call |-> calls]

(* In step, the answers taken, those in the port and those on their way are *)
(* together the answers to the list, in its order; and what is still wanted *)
(* is the list without what was taken.  Any other call leaves nothing.      *)
FlowInv ==
  inStep =>
    /\ call.kind \in Answering =>
         /\ Len(call.got) + Len(rx) + Len(wire) = Len(call.list)
         /\ Len(call.got) + Len(call.want) = Len(call.list)
         /\ \A k \in 1 .. Len(call.want) : call.want[k] = call.list[Len(call.got) + k]
         /\ \A k \in 1 .. Len(call.got) : call.got[k] = Due(k)
         /\ \A k \in 1 .. Len(rx) : rx[k] = Due(Len(call.got) + k)
         /\ \A k \in 1 .. Len(wire) : wire[k] = Due(Len(call.got) + Len(rx) + k)
    /\ call.kind \notin Answering /\ ~Waiting => rx = <<>> /\ wire = <<>>

LEMMA QueueSeq ==
  ASSUME NEW s, Queue(s)
  PROVE  s \in Seq({s[k] : k \in 1 .. Len(s)})
<1> DEFINE S == {s[k] : k \in 1 .. Len(s)}
<1>1. [k \in 1 .. Len(s) |-> s[k]] \in [1 .. Len(s) -> S]
  OBVIOUS
<1>2. [1 .. Len(s) -> S] \subseteq Seq(S)
  BY DEF Queue
<1> QED
  BY <1>1, <1>2 DEF Queue

LEMMA SeqQueue ==
  ASSUME NEW S, NEW s \in Seq(S)
  PROVE  Queue(s)
<1>1. Len(s) \in Nat /\ s \in [1 .. Len(s) -> S]
  BY LenProperties
<1> QED
  BY <1>1 DEF Queue

LEMMA QueueEmpty ==
  ASSUME NEW s, Queue(s)
  PROVE  s = <<>> <=> Len(s) = 0
  BY QueueSeq, EmptySeq

LEMMA QueueTail ==
  ASSUME NEW s, Queue(s), s # <<>>
  PROVE  /\ Queue(Tail(s)) /\ Len(s) > 0 /\ Len(Tail(s)) = Len(s) - 1
         /\ Head(s) = s[1] /\ \A k \in 1 .. Len(s) - 1 : Tail(s)[k] = s[k + 1]
<1>1. PICK S : s \in Seq(S)
  BY QueueSeq
<1>2. /\ Tail(s) \in Seq(S) /\ Len(Tail(s)) = Len(s) - 1
      /\ \A k \in 1 .. Len(Tail(s)) : Tail(s)[k] = s[k + 1]
  BY <1>1, HeadTailProperties
<1>3. Queue(Tail(s))
  BY <1>2, SeqQueue
<1>4. Len(s) > 0
  BY QueueEmpty DEF Queue
<1>5. Head(s) = s[1]
  BY <1>1
<1> QED
  BY <1>2, <1>3, <1>4, <1>5

LEMMA QueueAppend ==
  ASSUME NEW s, NEW e, Queue(s)
  PROVE  /\ Queue(Append(s, e)) /\ Len(Append(s, e)) = Len(s) + 1
         /\ \A k \in 1 .. Len(s) : Append(s, e)[k] = s[k]
         /\ Append(s, e)[Len(s) + 1] = e
<1> DEFINE S == {s[k] : k \in 1 .. Len(s)} \cup {e}
<1>1. s \in Seq(S)
  <2>1. [k \in 1 .. Len(s) |-> s[k]] \in [1 .. Len(s) -> S]
    OBVIOUS
  <2> QED
    BY <2>1 DEF Queue
<1>2. e \in S
  OBVIOUS
<1> HIDE DEF S
<1>3. /\ Append(s, e) \in Seq(S) /\ Len(Append(s, e)) = Len(s) + 1
      /\ \A k \in 1 .. Len(s) : Append(s, e)[k] = s[k]
      /\ Append(s, e)[Len(s) + 1] = e
  BY <1>1, <1>2, AppendProperties
<1> QED
  BY <1>3, SeqQueue

LEMMA QueueConcat ==
  ASSUME NEW s, NEW t, Queue(s), Queue(t)
  PROVE  /\ Queue(s \o t) /\ Len(s \o t) = Len(s) + Len(t)
         /\ s = <<>> => s \o t = t
<1> DEFINE S == {s[k] : k \in 1 .. Len(s)} \cup {t[k] : k \in 1 .. Len(t)}
<1>1. s \in Seq(S)
  <2>1. [k \in 1 .. Len(s) |-> s[k]] \in [1 .. Len(s) -> S]
    OBVIOUS
  <2> QED
    BY <2>1 DEF Queue
<1>2. t \in Seq(S)
  <2>1. [k \in 1 .. Len(t) |-> t[k]] \in [1 .. Len(t) -> S]
    OBVIOUS
  <2> QED
    BY <2>1 DEF Queue
<1> HIDE DEF S
<1>3. s \o t \in Seq(S) /\ Len(s \o t) = Len(s) + Len(t)
  BY <1>1, <1>2, ConcatProperties
<1>4. s = <<>> => s \o t = t
  BY <1>2, ConcatEmptySeq
<1> QED
  BY <1>3, <1>4, SeqQueue

(* The k-th of those of D that are not lost.                                *)
Nth(D, lost, k) == CHOOSE n \in D \ lost : Cardinality({m \in 1 .. n : m \notin lost}) = k

(* Without losses the answers are those of the list, in its order.          *)
LEMMA NothingLost ==
  ASSUME NEW L \in Nat, NEW k \in 1 .. L, NEW D, D = 1 .. L, NEW lost, lost = {}
  PROVE  Nth(D, lost, k) = k
<1>1. ASSUME NEW n \in 1 .. L PROVE Cardinality({m \in 1 .. n : m \notin lost}) = n
  <2>1. {m \in 1 .. n : m \notin lost} = 1 .. n
    OBVIOUS
  <2>2. Cardinality(1 .. n) = n
    BY FS_Interval
  <2> QED
    BY <2>1, <2>2
<1>2. \A n \in D \ lost : Cardinality({m \in 1 .. n : m \notin lost}) = k <=> n = k
  BY <1>1
<1>3. k \in D \ lost
  OBVIOUS
<1> QED
  BY <1>2, <1>3 DEF Nth

Asked(packet) == IF packet.inst \in Writes \cup {"NONE"} THEN <<>> ELSE packet.list
Answers(packet) == [k \in 1 .. Len(Asked(packet)) |->
  [id |-> Asked(packet)[k], len |-> Params(packet.inst), call |-> calls + 1]]

(* What is sent is answered, with nothing lost by the list it names.        *)
LEMMA TransmitStep ==
  ASSUME NEW packet, NEW ours \in BOOLEAN, packet.list \in Seq(Nat),
         losses \in 0 .. MaxLosses, inStep \in BOOLEAN, Queue(wire),
         Transmit(packet, ours)
  PROVE  /\ losses' \in 0 .. MaxLosses /\ inStep' \in BOOLEAN /\ Queue(wire')
         /\ inStep' => inStep /\ ours
         /\ inStep' /\ wire = <<>> => wire' = Answers(packet)
<1> DEFINE asked == Asked(packet)
           L == Len(asked)
           Answer(n) == [id |-> asked[n], len |-> Params(packet.inst), call |-> calls + 1]
           coming(lost) == [k \in 1 .. L - Cardinality(lost) |-> Answer(Nth(DOMAIN asked, lost, k))]
<1>1. asked \in Seq(Nat)
  BY DEF Asked
<1>2. L \in Nat /\ DOMAIN asked = 1 .. L
  BY <1>1, LenProperties
<1>3. PICK lost \in SUBSET DOMAIN asked :
        /\ losses + Cardinality(lost) <= MaxLosses
        /\ losses' = losses + Cardinality(lost)
        /\ wire' = wire \o coming(lost)
        /\ inStep' = (inStep /\ ours /\ lost = {})
  BY DEF Transmit, Asked, Nth
<1> HIDE DEF asked
<1>4. Cardinality(lost) \in Nat /\ Cardinality(lost) <= L
  <2>1. IsFiniteSet(1 .. L) /\ Cardinality(1 .. L) = L
    <3>1. L \in Nat /\ 1 \in Int /\ L \in Int
      BY <1>2
    <3> HIDE DEF L
    <3> QED
      BY <3>1, FS_Interval
  <2>2. IsFiniteSet(lost) /\ Cardinality(lost) <= L
    BY <1>2, <2>1, FS_Subset
  <2> QED
    BY <2>2, FS_CardinalityType
<1>5. L - Cardinality(lost) \in Nat
  BY <1>2, <1>4
<1>6. Queue(coming(lost))
  <2> DEFINE M == L - Cardinality(lost)
             S == {Answer(Nth(DOMAIN asked, lost, k)) : k \in 1 .. M}
  <2>1. M \in Nat
    BY <1>5
  <2>2. coming(lost) \in [1 .. M -> S]
    OBVIOUS
  <2> HIDE DEF coming, S, M
  <2>3. coming(lost) \in Seq(S)
    BY <2>1, <2>2
  <2> QED
    BY <2>3, SeqQueue
<1>7. Queue(wire') /\ (wire = <<>> => wire' = coming(lost))
  <2> HIDE DEF coming
  <2> QED
    BY <1>3, <1>6, QueueConcat
<1>8. losses' \in 0 .. MaxLosses
  BY <1>3, <1>4, GroupAssumption
<1>9. lost = {} => coming(lost) = Answers(packet)
  <2> SUFFICES ASSUME lost = {} PROVE coming(lost) = Answers(packet)
    OBVIOUS
  <2>1. L - Cardinality(lost) = L
    BY <1>2, FS_EmptySet
  <2>2. \A k \in 1 .. L : Nth(DOMAIN asked, lost, k) = k
    BY <1>2, NothingLost
  <2> HIDE DEF L
  <2>3. coming(lost) = [k \in 1 .. L |-> Answer(k)]
    BY <2>1, <2>2
  <2> QED
    BY <2>3 DEF Answers, asked, L
<1> QED
  <2> HIDE DEF coming
  <2> QED
    BY <1>3, <1>7, <1>8, <1>9

(* Before a call, in step, nothing is outstanding.                          *)
LEMMA NothingOutstanding ==
  ASSUME CallInv, FlowInv, ~Waiting, inStep
  PROVE  rx = <<>> /\ wire = <<>>
<1>1. CASE call.kind \in Answering
  <2>1. /\ Len(call.got) + Len(rx) + Len(wire) = Len(call.list)
        /\ Len(call.got) + Len(call.want) = Len(call.list)
    BY <1>1 DEF FlowInv
  <2>2. Len(call.want) = 0
    BY DEF Waiting
  <2>3. /\ Len(call.got) \in Nat /\ Len(rx) \in Nat /\ Len(wire) \in Nat
        /\ Len(call.list) \in Nat
    BY LenProperties DEF CallInv, Queue
  <2>4. Len(rx) = 0 /\ Len(wire) = 0
    BY <2>1, <2>2, <2>3
  <2> QED
    BY <2>4, QueueEmpty DEF CallInv
<1> QED
  BY <1>1 DEF FlowInv

(* A call that sends a packet: the answers it waits for are on their way.   *)
LEMMA CallBegins ==
  ASSUME CallInv, FlowInv, ~Waiting, calls < MaxCalls,
         NEW packet, packet.list \in Seq(Nat), NEW ours \in BOOLEAN,
         Transmit(packet, ours),
         NEW kind, NEW list \in Seq(Nat), Await(kind, list),
         calls' = calls + 1, rx' = rx, late' = late,
         \A b \in Buffers : buffer'[b].list \in Seq(Nat),
         kind \notin Answering \cup {"PING_ALL"} => list = <<>>,
         ours /\ kind \in Answering =>
           Asked(packet) = list /\ Params(packet.inst) = Params(kind),
         ours /\ kind \notin Answering /\ list = <<>> => Asked(packet) = <<>>
  PROVE  CallInv' /\ FlowInv'
<1>1. call' = [kind |-> kind, list |-> list, want |-> list, got |-> <<>>]
  BY DEF Await
<1>2. /\ losses' \in 0 .. MaxLosses /\ inStep' \in BOOLEAN /\ Queue(wire')
      /\ inStep' => inStep /\ ours
      /\ inStep' /\ wire = <<>> => wire' = Answers(packet)
  <2>1. losses \in 0 .. MaxLosses /\ inStep \in BOOLEAN /\ Queue(wire)
    BY DEF CallInv
  <2> QED
    BY <2>1, TransmitStep
<1>3. call'.kind = kind /\ call'.list = list /\ call'.want = list /\ call'.got = <<>>
  BY <1>1
<1>4. Len(list) \in Nat /\ Len(<<>>) = 0
  BY LenProperties
<1>5. Queue(<<>>)
  BY <1>4, EmptySeq, SeqQueue
<1>6. CallInv'
  <2>1. calls' \in 0 .. MaxCalls /\ late' \in 0 .. MaxLate
    <3>1. calls \in 0 .. MaxCalls /\ late \in 0 .. MaxLate
      BY DEF CallInv
    <3> QED
      BY <3>1, GroupAssumption
  <2>2. Queue(rx')
    BY DEF CallInv
  <2>3. Queue(call'.got) /\ Len(call'.got) + Len(call'.want) <= Len(call'.list)
    BY <1>3, <1>4, <1>5
  <2>4. call' = [kind |-> call'.kind, list |-> call'.list,
                 want |-> call'.want, got |-> call'.got]
    BY <1>1
  <2> QED
    BY <1>2, <1>3, <2>1, <2>2, <2>3, <2>4 DEF CallInv
<1>7. FlowInv'
  <2> SUFFICES ASSUME inStep' PROVE FlowInv'
    BY DEF FlowInv
  <2>1. ours /\ rx' = <<>> /\ wire' = Answers(packet)
    BY <1>2, NothingOutstanding
  <2>2. CASE kind \in Answering
    <3>1. Asked(packet) = list /\ Params(packet.inst) = Params(kind)
      BY <2>1, <2>2
    <3>2. wire' = [k \in 1 .. Len(list) |->
                     [id |-> list[k], len |-> Params(kind), call |-> calls + 1]]
      BY <2>1, <3>1 DEF Answers
    <3> DEFINE answer == [k \in 1 .. Len(list) |->
                     [id |-> list[k], len |-> Params(kind), call |-> calls + 1]]
    <3>3. Len(answer) = Len(list)
      BY <1>4
    <3>4. Len(wire') = Len(list)
      BY <3>2, <3>3
    <3>5. Len(rx') = 0 /\ Len(call'.got) = 0
      BY <1>3, <1>4, <2>1
    <3>6. \A k \in 1 .. Len(list) : wire'[k] = Due(k)'
      BY <1>3, <3>2 DEF Due
    <3>7. \A k \in 1 .. Len(wire') : wire'[k] = Due(Len(call.got) + Len(rx) + k)'
      BY <1>4, <3>4, <3>5, <3>6
    <3>8. /\ \A k \in 1 .. Len(call'.want) : call'.want[k] = call'.list[Len(call'.got) + k]
          /\ Len(call'.got) + Len(rx') + Len(wire') = Len(call'.list)
          /\ Len(call'.got) + Len(call'.want) = Len(call'.list)
      BY <1>3, <1>4, <3>4, <3>5
    <3>9. /\ \A k \in 1 .. Len(call'.got) : call'.got[k] = Due(k)'
          /\ \A k \in 1 .. Len(rx') : rx'[k] = Due(Len(call.got) + k)'
      BY <3>5
    <3> QED
      BY <1>3, <2>2, <3>7, <3>8, <3>9 DEF FlowInv
  <2>3. CASE kind \notin Answering
    <3> SUFFICES ASSUME list = <<>> PROVE wire' = <<>>
      BY <1>3, <2>1, <2>3 DEF FlowInv, Waiting
    <3>1. Asked(packet) = <<>>
      BY <2>1, <2>3
    <3>2. Queue(wire') /\ Len(wire') = 0
      BY <1>2, <1>4, <2>1, <3>1 DEF Answers
    <3> QED
      BY <3>2, QueueEmpty
  <2> QED
    BY <2>2, <2>3
<1> QED
  BY <1>6, <1>7

(* A call that sends nothing, or nothing that is answered.                  *)
LEMMA QuietCall ==
  ASSUME CallInv, FlowInv, ~Waiting, calls < MaxCalls,
         NEW kind \in {"FAILED", "WRITE_ALL"}, Await(kind, <<>>),
         calls' = calls + 1, UNCHANGED <<rx, wire, losses, late, inStep>>,
         \A b \in Buffers : buffer'[b].list \in Seq(Nat)
  PROVE  CallInv' /\ FlowInv'
<1>1. /\ call' = [kind |-> kind, list |-> <<>>, want |-> <<>>, got |-> <<>>]
      /\ call'.kind = kind /\ call'.list = <<>> /\ call'.want = <<>> /\ call'.got = <<>>
  BY DEF Await
<1>2. <<>> \in Seq(Nat) /\ Len(<<>>) = 0 /\ Queue(<<>>)
  BY EmptySeq, SeqQueue
<1>3. calls' \in 0 .. MaxCalls
  BY GroupAssumption DEF CallInv
<1>4. Queue(rx') /\ Queue(wire') /\ losses' \in 0 .. MaxLosses /\ late' \in 0 .. MaxLate
      /\ inStep' \in BOOLEAN
  BY DEF CallInv
<1>5. CallInv'
  <2>1. Queue(call'.got) /\ Len(call'.got) + Len(call'.want) <= Len(call'.list)
    BY <1>1, <1>2
  <2>2. call' = [kind |-> call'.kind, list |-> call'.list,
                 want |-> call'.want, got |-> call'.got]
    BY <1>1
  <2> QED
    BY <1>1, <1>2, <1>3, <1>4, <2>1, <2>2 DEF CallInv
<1>6. kind \notin Answering
  BY DEF Answering, Reads
<1>7. FlowInv'
  BY <1>1, <1>6, NothingOutstanding DEF FlowInv
<1> QED
  BY <1>5, <1>7

LEMMA OneTaken ==
  ASSUME NEW a \in Nat, NEW b \in Nat, NEW c, a + b = c
  PROVE  (a + 1) + (b - 1) = c
  OBVIOUS

LEMMA NoneLeft ==
  ASSUME NEW a \in Nat, NEW b \in Nat, a + b = a
  PROVE  b = 0
  OBVIOUS

LEMMA CallLengths ==
  ASSUME CallInv
  PROVE  /\ Len(call.got) \in Nat /\ Len(rx) \in Nat /\ Len(wire) \in Nat
         /\ Len(call.want) \in Nat /\ Len(call.list) \in Nat
         /\ Queue(call.want)
  BY LenProperties, SeqQueue DEF CallInv, Queue

LEMMA ArriveStep ==
  ASSUME CallInv, FlowInv, Arrive
  PROVE  CallInv' /\ FlowInv'
<1>1. /\ wire # <<>> /\ rx' = Append(rx, Head(wire)) /\ wire' = Tail(wire)
      /\ UNCHANGED <<buffer, call, calls, losses, late, inStep>>
  BY DEF Arrive, past
<1>2. Queue(rx) /\ Queue(wire)
  BY DEF CallInv
<1>3. /\ Queue(wire') /\ Len(wire) > 0 /\ Len(wire') = Len(wire) - 1
      /\ Head(wire) = wire[1] /\ \A k \in 1 .. Len(wire) - 1 : wire'[k] = wire[k + 1]
  BY <1>1, <1>2, QueueTail
<1>4. /\ Queue(rx') /\ Len(rx') = Len(rx) + 1
      /\ \A k \in 1 .. Len(rx) : rx'[k] = rx[k]
      /\ rx'[Len(rx) + 1] = wire[1]
  BY <1>1, <1>2, <1>3, QueueAppend
<1>5. CallInv'
  BY <1>1, <1>3, <1>4 DEF CallInv
<1>6. FlowInv'
  <2> SUFFICES ASSUME inStep PROVE FlowInv'
    BY <1>1 DEF FlowInv
  <2>1. \A k : Due(k)' = Due(k)
    BY <1>1 DEF Due
  <2>2. CASE call.kind \in Answering
    <3> DEFINE g == Len(call.got)
    <3>1. g \in Nat /\ Len(rx) \in Nat /\ Len(wire) \in Nat
      BY CallLengths
    <3>2. /\ g + Len(rx) + Len(wire) = Len(call.list)
          /\ g + Len(call.want) = Len(call.list)
          /\ \A k \in 1 .. Len(call.want) : call.want[k] = call.list[g + k]
          /\ \A k \in 1 .. g : call.got[k] = Due(k)
          /\ \A k \in 1 .. Len(rx) : rx[k] = Due(g + k)
          /\ \A k \in 1 .. Len(wire) : wire[k] = Due(g + Len(rx) + k)
      BY <2>2 DEF FlowInv
    <3>3. g' = g /\ call' = call
      BY <1>1
    <3> HIDE DEF g
    <3>4. g + Len(rx') + Len(wire') = Len(call.list)
      <4>1. Len(rx') = Len(rx) + 1 /\ Len(wire') = Len(wire) - 1
        BY <1>3, <1>4
      <4>2. g + Len(rx) + Len(wire) = Len(call.list)
        BY <3>2
      <4> QED
        BY <3>1, <4>1, <4>2
    <3>5. \A k \in 1 .. Len(rx') : rx'[k] = Due(g + k)
      <4>1. 1 \in 1 .. Len(wire) /\ g + Len(rx) + 1 = g + (Len(rx) + 1)
        BY <1>3, <3>1
      <4>2. rx'[Len(rx) + 1] = Due(g + (Len(rx) + 1))
        BY <1>4, <3>2, <4>1
      <4>3. \A k \in 1 .. Len(rx') : k \in 1 .. Len(rx) \/ k = Len(rx) + 1
        BY <1>4, <3>1
      <4> QED
        BY <1>4, <3>2, <4>2, <4>3
    <3>6. \A k \in 1 .. Len(wire') : wire'[k] = Due(g + Len(rx') + k)
      <4> SUFFICES ASSUME NEW k \in 1 .. Len(wire')
                   PROVE  wire'[k] = Due(g + Len(rx') + k)
        OBVIOUS
      <4>1. wire'[k] = wire[k + 1] /\ k + 1 \in 1 .. Len(wire)
        BY <1>3, <3>1
      <4>2. g + Len(rx) + (k + 1) = g + Len(rx') + k
        BY <1>4, <3>1
      <4>3. wire[k + 1] = Due(g + Len(rx) + (k + 1))
        BY <4>1, <3>2
      <4> QED
        BY <4>1, <4>2, <4>3
    <3> QED
      BY <2>1, <2>2, <3>2, <3>3, <3>4, <3>5, <3>6 DEF FlowInv, g
  <2>3. CASE call.kind \notin Answering
    BY <1>1, <2>3 DEF FlowInv, Waiting
  <2> QED
    BY <2>2, <2>3
<1> QED
  BY <1>5, <1>6

(* What a call makes of the first answer in the port.                       *)
LEMMA ReceiveKeepsTypes ==
  ASSUME CallInv, Receive
  PROVE  /\ CallInv' /\ rx' = Tail(rx) /\ wire' = wire /\ calls' = calls
         /\ call'.kind = call.kind /\ call'.list = call.list
         /\ Accepts(Head(rx)) => /\ call'.want = Tail(call.want)
                                 /\ call'.got = Append(call.got, Head(rx))
<1>1. /\ Waiting /\ rx # <<>> /\ rx' = Tail(rx)
      /\ call' = IF Accepts(Head(rx)) THEN Take(Head(rx))
                 ELSE IF call.kind = "PING_ALL" THEN call
                 ELSE [call EXCEPT !.want = <<>>]
      /\ UNCHANGED <<buffer, wire, calls, losses, late>>
  BY DEF Receive, past
<1>2. inStep' \in BOOLEAN
  <2>1. inStep \in BOOLEAN
    BY DEF CallInv
  <2>2. CASE call.kind = "PING_ALL" /\ call'.want = <<>>
    <3>1. inStep' = (inStep /\ rx' = <<>> /\ wire = <<>>)
      BY <2>2 DEF Receive
    <3> QED
      BY <3>1
  <2>3. CASE ~(call.kind = "PING_ALL" /\ call'.want = <<>>)
    BY <2>1, <2>3 DEF Receive
  <2> QED
    BY <2>2, <2>3
<1>3. Queue(rx')
  BY <1>1, QueueTail DEF CallInv
<1>4. /\ call.want \in Seq(Nat) /\ call.want # <<>> /\ Queue(call.got)
      /\ call.list \in Seq(Nat)
      /\ call = [kind |-> call.kind, list |-> call.list, want |-> call.want, got |-> call.got]
      /\ Len(call.got) + Len(call.want) <= Len(call.list)
      /\ call.kind \in Answering \cup {"PING_ALL"}
  BY <1>1 DEF CallInv, Waiting
<1>5. /\ Len(call.got) \in Nat /\ Len(call.want) \in Nat /\ Len(call.list) \in Nat
      /\ <<>> \in Seq(Nat) /\ Len(<<>>) = 0
  BY CallLengths, EmptySeq
<1>6. /\ call'.kind = call.kind /\ call'.list = call.list
      /\ call' = [kind |-> call'.kind, list |-> call'.list,
                  want |-> call'.want, got |-> call'.got]
      /\ call'.want \in Seq(Nat) /\ Queue(call'.got)
      /\ Len(call'.got) + Len(call'.want) <= Len(call'.list)
      /\ Accepts(Head(rx)) => /\ call'.want = Tail(call.want)
                              /\ call'.got = Append(call.got, Head(rx))
  <2>1. CASE Accepts(Head(rx))
    <3> DEFINE w == Tail(call.want)
               g == Append(call.got, Head(rx))
    <3>1. w \in Seq(Nat) /\ Len(w) = Len(call.want) - 1
      BY <1>4, HeadTailProperties
    <3>2. Queue(g) /\ Len(g) = Len(call.got) + 1
      BY <1>4, QueueAppend
    <3>3. call' = [call EXCEPT !.want = w, !.got = g]
      BY <1>1, <2>1 DEF Take
    <3> HIDE DEF w, g
    <3>4. call' = [kind |-> call.kind, list |-> call.list, want |-> w, got |-> g]
      BY <1>4, <3>3
    <3>5. call'.kind = call.kind /\ call'.list = call.list /\ call'.want = w /\ call'.got = g
      BY <3>4
    <3>6. Len(g) + Len(w) <= Len(call.list)
      BY <1>4, <1>5, <3>1, <3>2
    <3> QED
      BY <3>1, <3>2, <3>4, <3>5, <3>6 DEF w, g
  <2>2. CASE ~Accepts(Head(rx)) /\ call.kind = "PING_ALL"
    BY <1>1, <1>4, <2>2
  <2>3. CASE ~Accepts(Head(rx)) /\ call.kind # "PING_ALL"
    <3>1. call' = [kind |-> call.kind, list |-> call.list, want |-> <<>>, got |-> call.got]
      BY <1>1, <1>4, <2>3
    <3>2. /\ call'.kind = call.kind /\ call'.list = call.list /\ call'.want = <<>>
          /\ call'.got = call.got
      BY <3>1
    <3>3. Len(call.got) + 0 <= Len(call.list)
      BY <1>4, <1>5
    <3> QED
      BY <1>4, <1>5, <2>3, <3>1, <3>2, <3>3
  <2> QED
    BY <2>1, <2>2, <2>3
<1>7. CallInv'
  BY <1>1, <1>2, <1>3, <1>4, <1>6 DEF CallInv
<1> QED
  BY <1>1, <1>6, <1>7

(* In step, the answer at the front of the port is the one that is due.     *)
LEMMA FrontIsDue ==
  ASSUME CallInv, FlowInv, inStep, Waiting, rx # <<>>, call.kind \in Answering
  PROVE  /\ Accepts(Head(rx)) /\ Head(rx) = Due(Len(call.got) + 1)
<1>1. /\ Len(call.want) > 0 /\ Head(call.want) = call.want[1]
      /\ Len(rx) > 0 /\ Head(rx) = rx[1]
  BY CallLengths, QueueTail DEF CallInv, Waiting
<1>2. 1 \in 1 .. Len(call.want) /\ 1 \in 1 .. Len(rx)
  BY <1>1, CallLengths
<1>3. Head(rx) = Due(Len(call.got) + 1) /\ Head(call.want) = call.list[Len(call.got) + 1]
  BY <1>1, <1>2 DEF FlowInv
<1>4. /\ Head(rx).len = Params(call.kind) /\ Head(rx).id = Head(call.want)
  BY <1>3 DEF Due
<1>5. Capacity(call.kind) = Params(call.kind) /\ Params(call.kind) \in Nat
  BY DEF Capacity, Answering, Reads, Params
<1>6. Fits(Head(rx))
  BY <1>4, <1>5 DEF Fits
<1> QED
  BY <1>3, <1>4, <1>6 DEF Accepts

LEMMA ReceiveStep ==
  ASSUME CallInv, FlowInv, Receive
  PROVE  CallInv' /\ FlowInv'
<1>1. CallInv'
  BY ReceiveKeepsTypes
<1>2. /\ rx' = Tail(rx) /\ wire' = wire /\ calls' = calls
      /\ call'.kind = call.kind /\ call'.list = call.list
      /\ Waiting /\ rx # <<>>
  BY ReceiveKeepsTypes DEF Receive
<1>3. CASE call.kind \in Answering
  <2> SUFFICES ASSUME inStep' PROVE FlowInv'
    BY <1>1 DEF FlowInv
  <2>1. inStep
    <3>1. call.kind # "PING_ALL"
      BY <1>3 DEF Answering, Reads
    <3> QED
      BY <3>1 DEF Receive
  <2>2. Accepts(Head(rx)) /\ Head(rx) = Due(Len(call.got) + 1)
    BY <1>2, <1>3, <2>1, FrontIsDue
  <2>3. call'.want = Tail(call.want) /\ call'.got = Append(call.got, Head(rx))
    BY <2>2, ReceiveKeepsTypes
  <2> DEFINE g == Len(call.got)
  <2>4. /\ g \in Nat /\ Len(rx) \in Nat /\ Len(wire) \in Nat
        /\ Len(call.want) \in Nat /\ Len(call.list) \in Nat
    BY CallLengths
  <2>5. /\ g + Len(rx) + Len(wire) = Len(call.list)
        /\ g + Len(call.want) = Len(call.list)
        /\ \A k \in 1 .. Len(call.want) : call.want[k] = call.list[g + k]
        /\ \A k \in 1 .. g : call.got[k] = Due(k)
        /\ \A k \in 1 .. Len(rx) : rx[k] = Due(g + k)
        /\ \A k \in 1 .. Len(wire) : wire[k] = Due(g + Len(rx) + k)
    BY <1>3, <2>1 DEF FlowInv
  <2>6. \A k : Due(k)' = Due(k)
    BY <1>2 DEF Due
  <2>7. /\ Len(call'.got) = g + 1 /\ call'.got[g + 1] = Due(g + 1)
        /\ \A k \in 1 .. g : call'.got[k] = call.got[k]
    BY <2>2, <2>3, QueueAppend DEF CallInv
  <2>8. /\ Len(rx') = Len(rx) - 1 /\ Len(rx) > 0
        /\ \A k \in 1 .. Len(rx) - 1 : rx'[k] = rx[k + 1]
    BY <1>2, QueueTail DEF CallInv
  <2>9. /\ Len(call'.want) = Len(call.want) - 1 /\ Len(call.want) > 0
        /\ \A k \in 1 .. Len(call.want) - 1 : call'.want[k] = call.want[k + 1]
    BY <1>2, <2>3, QueueTail, CallLengths DEF Waiting
  <2> HIDE DEF g
  <2>10. (g + 1) + Len(rx') + Len(wire') = Len(call.list)
    <3>1. Len(rx') = Len(rx) - 1 /\ Len(wire') = Len(wire)
      BY <1>2, <2>8
    <3>2. g + Len(rx) + Len(wire) = Len(call.list)
      BY <2>5
    <3> QED
      BY <2>4, <3>1, <3>2
  <2>11. (g + 1) + Len(call'.want) = Len(call.list)
    <3>1. Len(call'.want) = Len(call.want) - 1
      BY <2>9
    <3>2. g + Len(call.want) = Len(call.list) /\ g \in Nat /\ Len(call.want) \in Nat
      BY <2>4, <2>5
    <3>3. (g + 1) + (Len(call.want) - 1) = Len(call.list)
      BY <3>2, OneTaken
    <3> QED
      BY <3>1, <3>3
  <2>12. \A k \in 1 .. Len(call'.want) : call'.want[k] = call.list[(g + 1) + k]
    <3> SUFFICES ASSUME NEW k \in 1 .. Len(call'.want)
                 PROVE  call'.want[k] = call.list[(g + 1) + k]
      OBVIOUS
    <3>1. /\ call'.want[k] = call.want[k + 1] /\ k + 1 \in 1 .. Len(call.want)
          /\ g + (k + 1) = (g + 1) + k
      BY <2>4, <2>9
    <3>2. call.want[k + 1] = call.list[g + (k + 1)]
      BY <2>5, <3>1
    <3> QED
      BY <3>1, <3>2
  <2>13. \A k \in 1 .. g + 1 : call'.got[k] = Due(k)
    <3>1. \A k \in 1 .. g + 1 : k \in 1 .. g \/ k = g + 1
      BY <2>4
    <3> QED
      BY <2>5, <2>7, <3>1
  <2>14. \A k \in 1 .. Len(rx') : rx'[k] = Due((g + 1) + k)
    <3> SUFFICES ASSUME NEW k \in 1 .. Len(rx')
                 PROVE  rx'[k] = Due((g + 1) + k)
      OBVIOUS
    <3>1. rx'[k] = rx[k + 1] /\ k + 1 \in 1 .. Len(rx) /\ g + (k + 1) = (g + 1) + k
      BY <2>4, <2>8
    <3>2. rx[k + 1] = Due(g + (k + 1))
      BY <2>5, <3>1
    <3> QED
      BY <3>1, <3>2
  <2>15. \A k \in 1 .. Len(wire') : wire'[k] = Due((g + 1) + Len(rx') + k)
    <3> SUFFICES ASSUME NEW k \in 1 .. Len(wire')
                 PROVE  wire'[k] = Due((g + 1) + Len(rx') + k)
      OBVIOUS
    <3>1. wire'[k] = wire[k] /\ k \in 1 .. Len(wire)
      BY <1>2
    <3>2. Len(rx') = Len(rx) - 1 /\ k \in Nat
      BY <2>8
    <3>3. g + Len(rx) + k = (g + 1) + Len(rx') + k
      BY <2>4, <3>2
    <3>4. wire[k] = Due(g + Len(rx) + k)
      BY <2>5, <3>1
    <3> QED
      BY <3>1, <3>3, <3>4
  <2> DEFINE h == g + 1
  <2>16. /\ Len(call'.got) = h
         /\ h + Len(rx') + Len(wire') = Len(call.list)
         /\ h + Len(call'.want) = Len(call.list)
         /\ \A k \in 1 .. Len(call'.want) : call'.want[k] = call.list[h + k]
         /\ \A k \in 1 .. h : call'.got[k] = Due(k)
         /\ \A k \in 1 .. Len(rx') : rx'[k] = Due(h + k)
         /\ \A k \in 1 .. Len(wire') : wire'[k] = Due(h + Len(rx') + k)
    BY <2>7, <2>10, <2>11, <2>12, <2>13, <2>14, <2>15
  <2> HIDE DEF h
  <2> QED
    BY <1>2, <1>3, <2>6, <2>16 DEF FlowInv
<1>4. CASE call.kind \notin Answering
  <2>1. call.kind = "PING_ALL"
    BY <1>2, <1>4 DEF CallInv, Waiting
  <2>2. call'.want = <<>> => inStep' = (inStep /\ rx' = <<>> /\ wire = <<>>)
    BY <2>1 DEF Receive
  <2>3. call'.want = <<>> /\ inStep' => rx' = <<>> /\ wire' = <<>>
    BY <1>2, <2>2
  <2> QED
    BY <1>1, <1>2, <1>4, <2>3 DEF FlowInv, Waiting
<1> QED
  BY <1>1, <1>3, <1>4

LEMMA TimeStep ==
  ASSUME CallInv, FlowInv, TimesOut
  PROVE  CallInv' /\ FlowInv'
<1>1. /\ Waiting /\ rx' = rx /\ wire' = wire
      /\ call' = [call EXCEPT !.want = <<>>]
      /\ UNCHANGED <<buffer, calls, losses>>
  BY DEF TimesOut
<1>2. /\ call.want # <<>> /\ call.list \in Seq(Nat) /\ Queue(call.got)
      /\ call = [kind |-> call.kind, list |-> call.list, want |-> call.want, got |-> call.got]
      /\ Len(call.got) + Len(call.want) <= Len(call.list)
      /\ inStep \in BOOLEAN /\ late \in 0 .. MaxLate
  BY <1>1 DEF CallInv, Waiting
<1>3. /\ Len(call.got) \in Nat /\ Len(call.want) \in Nat /\ Len(call.list) \in Nat
      /\ Len(call.want) > 0 /\ <<>> \in Seq(Nat) /\ Len(<<>>) = 0
  BY <1>2, CallLengths, QueueTail, EmptySeq
<1>4. call' = [kind |-> call.kind, list |-> call.list, want |-> <<>>, got |-> call.got]
  BY <1>1, <1>2
<1>5. /\ call'.kind = call.kind /\ call'.list = call.list /\ call'.want = <<>>
      /\ call'.got = call.got
  BY <1>4
<1>6. late' \in 0 .. MaxLate /\ inStep' \in BOOLEAN
  <2>1. CASE wire = <<>> /\ rx = <<>>
    <3>1. late' = late /\ inStep' = (inStep \/ call.kind = "PING_ALL")
      BY <2>1 DEF TimesOut
    <3> QED
      BY <1>2, <3>1
  <2>2. CASE ~(wire = <<>> /\ rx = <<>>)
    <3>1. late < MaxLate /\ late' = late + 1 /\ inStep' = FALSE
      BY <2>2 DEF TimesOut
    <3> QED
      <4>1. MaxLate \in Nat /\ late \in 0 .. MaxLate
        BY <1>2, GroupAssumption
      <4>2. late' \in 0 .. MaxLate
        BY <3>1, <4>1
      <4> QED
        BY <3>1, <4>2
  <2> QED
    BY <2>1, <2>2
<1>7. CallInv'
  <2>1. Len(call'.got) + Len(call'.want) <= Len(call'.list)
    BY <1>2, <1>3, <1>5
  <2> QED
    BY <1>1, <1>2, <1>3, <1>4, <1>5, <1>6, <2>1 DEF CallInv
<1>8. FlowInv'
  <2>1. CASE ~(wire = <<>> /\ rx = <<>>)
    <3>1. inStep' = FALSE
      BY <2>1 DEF TimesOut
    <3> QED
      BY <3>1 DEF FlowInv
  <2>2. CASE wire = <<>> /\ rx = <<>> /\ call.kind \in Answering
    <3>1. inStep' = inStep
      <4>1. inStep' = (inStep \/ call.kind = "PING_ALL")
        BY <2>2 DEF TimesOut
      <4>2. call.kind # "PING_ALL"
        BY <2>2 DEF Answering, Reads
      <4> QED
        BY <1>2, <4>1, <4>2
    <3>2. ~inStep
      <4> SUFFICES ASSUME inStep PROVE FALSE
        OBVIOUS
      <4>1. /\ Len(call.got) + Len(rx) + Len(wire) = Len(call.list)
            /\ Len(call.got) + Len(call.want) = Len(call.list)
        BY <2>2 DEF FlowInv
      <4>2. Len(rx) = 0 /\ Len(wire) = 0
        BY <1>1, <1>3, <2>2
      <4>3. Len(call.got) = Len(call.list)
        BY <1>3, <4>1, <4>2
      <4>4. Len(call.got) \in Nat /\ Len(call.want) \in Nat /\ Len(call.want) > 0
        BY <1>3
      <4>5. Len(call.got) + Len(call.want) = Len(call.got)
        BY <4>1, <4>3
      <4>6. Len(call.want) = 0
        BY <4>4, <4>5, NoneLeft
      <4> QED
        BY <4>4, <4>6
    <3> QED
      BY <3>1, <3>2 DEF FlowInv
  <2>3. CASE wire = <<>> /\ rx = <<>> /\ call.kind \notin Answering
    BY <1>1, <1>5, <2>3 DEF FlowInv
  <2> QED
    BY <2>1, <2>2, <2>3
<1> QED
  BY <1>7, <1>8

LEMMA ListIsSeq ==
  ASSUME NEW list \in Lists
  PROVE  list \in Seq(Nat)
<1>1. list \in Seq(1 .. N)
  BY GroupAssumption
<1>2. Len(list) \in Nat /\ list \in [1 .. Len(list) -> 1 .. N]
  BY <1>1, LenProperties
<1>3. list \in [1 .. Len(list) -> Nat]
  BY <1>2, GroupAssumption
<1> QED
  BY <1>2, <1>3

LEMMA UpToIsSeq ==
  ASSUME NEW n \in Nat
  PROVE  /\ [k \in 1 .. n |-> k] \in Seq(Nat) /\ Len([k \in 1 .. n |-> k]) = n
<1>1. [k \in 1 .. n |-> k] \in [1 .. n -> Nat]
  OBVIOUS
<1> QED
  BY <1>1

(* A packet put into a buffer leaves every buffer with a list.              *)
LEMMA BuffersKeepLists ==
  ASSUME CallInv, InfoInv, NEW b \in Buffers, NEW packet, packet.list \in Seq(Nat),
         buffer' = [buffer EXCEPT ![b] = packet]
  PROVE  \A c \in Buffers : buffer'[c].list \in Seq(Nat)
<1>1. DOMAIN buffer = Buffers /\ \A c \in Buffers : buffer[c].list \in Seq(Nat)
  BY DEF CallInv, InfoInv
<1>2. \A c \in Buffers : buffer'[c] = IF c = b THEN packet ELSE buffer[c]
  BY <1>1
<1> QED
  BY <1>1, <1>2

FlowsInv == GroupInv /\ CallInv /\ FlowInv

LEMMA FlowsInit == Init => FlowsInv
<1> SUFFICES ASSUME Init PROVE FlowsInv
  OBVIOUS
<1>1. /\ buffer = [b \in Buffers |-> NoPacket]
      /\ call = [kind |-> "NONE", list |-> <<>>, want |-> <<>>, got |-> <<>>]
      /\ wire = <<>> /\ rx = <<>> /\ calls = 0 /\ losses = 0 /\ late = 0 /\ inStep = TRUE
  BY DEF Init
<1>2. <<>> \in Seq(Nat) /\ Len(<<>>) = 0 /\ Queue(<<>>)
  BY EmptySeq, SeqQueue
<1>3. /\ call.kind = "NONE" /\ call.list = <<>> /\ call.want = <<>> /\ call.got = <<>>
      /\ call = [kind |-> call.kind, list |-> call.list, want |-> call.want, got |-> call.got]
  BY <1>1
<1>4. NoPacket.list = <<>>
  BY DEF NoPacket, Packet
<1>5. \A b \in Buffers : buffer[b].list \in Seq(Nat)
  BY <1>1, <1>2, <1>4
<1>6. calls \in 0 .. MaxCalls /\ losses \in 0 .. MaxLosses /\ late \in 0 .. MaxLate
  BY <1>1, GroupAssumption
<1>7. Len(call.got) + Len(call.want) <= Len(call.list)
  BY <1>2, <1>3
<1>8. CallInv
  BY <1>1, <1>2, <1>3, <1>5, <1>6, <1>7 DEF CallInv
<1>9. FlowInv
  BY <1>1, <1>3 DEF FlowInv, Answering, Reads
<1> QED
  BY <1>8, <1>9, GroupInit DEF FlowsInv

(* A step of the sketch between two calls.                                  *)
LEMMA BetweenCalls ==
  ASSUME CallInv, FlowInv, \A b \in Buffers : buffer'[b].list \in Seq(Nat),
         UNCHANGED <<call, wire, rx, calls, losses, late, inStep>>
  PROVE  CallInv' /\ FlowInv'
<1>1. CallInv'
  BY DEF CallInv
<1>2. FlowInv'
  BY DEF FlowInv, Due, Waiting
<1> QED
  BY <1>1, <1>2

LEMMA SketchSteps ==
  ASSUME FlowsInv,
         (\E i \in Infos, list \in Lists : Change(i, list)) \/ SetPacketBuffer
  PROVE  CallInv' /\ FlowInv'
<1>1. CallInv /\ FlowInv /\ InfoInv
  BY DEF FlowsInv, GroupInv
<1>2. CASE \E i \in Infos, list \in Lists : Change(i, list)
  <2>1. buffer' = buffer /\ UNCHANGED <<call, wire, rx, calls, losses, late, inStep>>
    BY <1>2 DEF Change, past
  <2>2. \A b \in Buffers : buffer'[b].list \in Seq(Nat)
    BY <1>1, <2>1 DEF CallInv
  <2> QED
    BY <1>1, <2>1, <2>2, BetweenCalls
<1>3. CASE SetPacketBuffer
  <2>1. /\ buffer' = [buffer EXCEPT ![Master] = NoPacket]
        /\ UNCHANGED <<call, wire, rx, calls, losses, late, inStep>>
    BY <1>3 DEF SetPacketBuffer, past
  <2>2. NoPacket.list \in Seq(Nat) /\ Master \in Buffers
    BY EmptySeq DEF NoPacket, Packet, Buffers
  <2>3. \A b \in Buffers : buffer'[b].list \in Seq(Nat)
    BY <1>1, <2>1, <2>2, BuffersKeepLists
  <2> QED
    BY <1>1, <2>1, <2>3, BetweenCalls
<1> QED
  BY <1>2, <1>3

LEMMA OwnCalls ==
  ASSUME FlowsInv, ~Waiting, calls < MaxCalls,
         NEW order \in {"READ", "WRITE", "PING"}, NEW sentTo \in Seq(Nat),
         BuildInMaster(order, sentTo),
         NEW ours \in BOOLEAN, Transmit(Packet(order, Master, sentTo), ours),
         NEW kind, NEW list \in Seq(Nat), Await(kind, list), UNCHANGED <<rx, late>>,
         kind \notin Answering \cup {"PING_ALL"} => list = <<>>,
         ours /\ kind \in Answering => kind = order /\ list = sentTo,
         ours /\ kind \notin Answering => list # <<>>
  PROVE  CallInv' /\ FlowInv'
<1> DEFINE packet == Packet(order, Master, sentTo)
<1>1. /\ packet.inst = order /\ packet.list = sentTo
      /\ buffer' = [buffer EXCEPT ![Master] = packet] /\ calls' = calls + 1
  BY DEF Packet, BuildInMaster
<1>2. Asked(packet) = sentTo
  BY <1>1 DEF Asked, Writes
<1>3. Master \in Buffers
  BY DEF Buffers
<1>4. Transmit(packet, ours)
  OBVIOUS
<1> HIDE DEF packet
<1>5. \A b \in Buffers : buffer'[b].list \in Seq(Nat)
  BY <1>1, <1>3, BuffersKeepLists DEF FlowsInv, GroupInv
<1>6. /\ ours /\ kind \in Answering =>
           Asked(packet) = list /\ Params(packet.inst) = Params(kind)
      /\ ours /\ kind \notin Answering /\ list = <<>> => Asked(packet) = <<>>
  BY <1>1, <1>2
<1>7. CallInv /\ FlowInv /\ packet.list \in Seq(Nat)
  BY <1>1 DEF FlowsInv
<1> QED
  BY <1>1, <1>4, <1>5, <1>6, <1>7, CallBegins

LEMMA OneServoStep ==
  ASSUME FlowsInv, NEW kind \in {"READ", "WRITE", "PING"}, NEW s \in 1 .. N,
         OneServo(kind, s)
  PROVE  CallInv' /\ FlowInv'
<1>1. <<s>> \in Seq(Nat) /\ kind \in Answering /\ TRUE \in BOOLEAN
  BY GroupAssumption DEF Answering
<1> QED
  BY <1>1, OwnCalls DEF OneServo

LEMMA NoRespStep ==
  ASSUME FlowsInv, NEW s \in 1 .. N, WriteNoResp(s)
  PROVE  CallInv' /\ FlowInv'
<1>1. <<s>> \in Seq(Nat) /\ <<>> \in Seq(Nat) /\ "NO_RESP" \notin Answering
  BY GroupAssumption, EmptySeq DEF Answering, Reads
<1> QED
  BY <1>1, OwnCalls DEF WriteNoResp

LEMMA PingAllStep ==
  ASSUME FlowsInv, NEW capacity \in Capacities, PingAll(capacity)
  PROVE  CallInv' /\ FlowInv'
<1> DEFINE all == [s \in 1 .. N |-> s]
           room == [k \in 1 .. capacity |-> k]
<1>1. N \in Nat /\ capacity \in Nat \ {0}
  BY GroupAssumption
<1>2. all \in Seq(Nat) /\ room \in Seq(Nat) /\ Len(room) = capacity
  BY <1>1, UpToIsSeq
<1>3. /\ ~Waiting /\ calls < MaxCalls /\ BuildInMaster("PING", all)
      /\ Transmit(Packet("PING", Master, all), TRUE) /\ Await("PING_ALL", room)
      /\ UNCHANGED <<rx, late>>
  BY DEF PingAll
<1> HIDE DEF all, room
<1>4. room # <<>> /\ "PING_ALL" \notin Answering
  <2>1. Len(<<>>) = 0
    OBVIOUS
  <2> QED
    BY <1>1, <1>2, <2>1 DEF Answering, Reads
<1> QED
  BY <1>2, <1>3, <1>4, OwnCalls

LEMMA WriteAllStep ==
  ASSUME FlowsInv, WriteAll
  PROVE  CallInv' /\ FlowInv'
<1>1. /\ ~Waiting /\ calls < MaxCalls /\ Await("WRITE_ALL", <<>>) /\ calls' = calls + 1
      /\ buffer' = [buffer EXCEPT ![Master] = Packet("WRITE", Master, <<>>)]
      /\ UNCHANGED <<rx, wire, losses, late, inStep>>
  BY DEF WriteAll, BuildInMaster
<1>2. Packet("WRITE", Master, <<>>).list \in Seq(Nat) /\ Master \in Buffers
  BY EmptySeq DEF Packet, Buffers
<1>3. \A b \in Buffers : buffer'[b].list \in Seq(Nat)
  BY <1>1, <1>2, BuffersKeepLists DEF FlowsInv, GroupInv
<1> QED
  BY <1>1, <1>3, QuietCall DEF FlowsInv

LEMMA GroupFails ==
  ASSUME FlowsInv, NEW i \in Infos, GroupCallFails(i)
  PROVE  CallInv' /\ FlowInv'
<1>1. /\ ~Waiting /\ calls < MaxCalls /\ Await("FAILED", <<>>) /\ calls' = calls + 1
      /\ buffer' = [buffer EXCEPT ![BufferOf(i)] = NoPacket]
      /\ UNCHANGED <<rx, wire, losses, late, inStep>>
  BY DEF GroupCallFails
<1>2. NoPacket.list \in Seq(Nat) /\ BufferOf(i) \in Buffers
  BY EmptySeq DEF NoPacket, Packet, Buffers, BufferOf
<1>3. \A b \in Buffers : buffer'[b].list \in Seq(Nat)
  BY <1>1, <1>2, BuffersKeepLists DEF FlowsInv, GroupInv
<1> QED
  BY <1>1, <1>3, QuietCall DEF FlowsInv

LEMMA GroupStep ==
  ASSUME FlowsInv, NEW i \in Infos, GroupCall(i)
  PROVE  CallInv' /\ FlowInv'
<1> DEFINE packet == sent'.packet
           ours == (sent'.packet = sent'.meant)
           list == IF Inst[i] \in Reads THEN info[i].list ELSE <<>>
<1>1. /\ ~Waiting /\ calls < MaxCalls /\ (Resend(i) \/ Build(i))
      /\ Transmit(packet, ours) /\ Await(Inst[i], list)
      /\ calls' = calls + 1 /\ rx' = rx /\ late' = late
  BY DEF GroupCall
<1>2. CallInv /\ FlowInv /\ InfoInv
  BY DEF FlowsInv, GroupInv
<1>3. info[i].list \in Seq(Nat)
  BY <1>2, ListIsSeq DEF InfoInv
<1>4. Inst[i] \in Reads \cup Writes /\ BufferOf(i) \in Buffers
  BY GroupAssumption DEF BufferOf, Buffers
<1>5. Meant(i, info[i].list).list = info[i].list /\ Meant(i, info[i].list).inst = Inst[i]
  BY DEF Meant, Packet
<1>6. sent'.meant = Meant(i, info[i].list)
  BY <1>1 DEF Resend, Build
<1>7. packet.list \in Seq(Nat) /\ \A b \in Buffers : buffer'[b].list \in Seq(Nat)
  <2>1. CASE Resend(i)
    BY <1>2, <1>4, <2>1 DEF Resend, CallInv
  <2>2. CASE Build(i)
    <3>1. /\ buffer' = [buffer EXCEPT ![BufferOf(i)] = Meant(i, info[i].list)]
          /\ packet = Meant(i, info[i].list)
      BY <2>2 DEF Build
    <3> QED
      BY <1>2, <1>3, <1>4, <1>5, <3>1, BuffersKeepLists
  <2> QED
    BY <1>1, <2>1, <2>2
<1>8. list \in Seq(Nat) /\ ours \in BOOLEAN
  BY <1>3, EmptySeq
<1>9. \A kind \in Reads : kind \in Answering /\ kind \notin Writes \cup {"NONE"}
  BY DEF Answering, Reads, Writes
<1>10. \A kind \in Writes : kind \notin Answering \cup {"PING_ALL"}
  BY DEF Answering, Reads, Writes
<1>11. ours => packet.inst = Inst[i] /\ packet.list = info[i].list
  BY <1>5, <1>6
<1>12. Inst[i] \notin Answering \cup {"PING_ALL"} => list = <<>>
  BY <1>4, <1>9
<1>13. ours /\ Inst[i] \in Answering =>
         Asked(packet) = list /\ Params(packet.inst) = Params(Inst[i])
  <2> SUFFICES ASSUME ours, Inst[i] \in Answering
               PROVE  Asked(packet) = list /\ Params(packet.inst) = Params(Inst[i])
    OBVIOUS
  <2>1. Inst[i] \in Reads
    BY <1>4, <1>10
  <2>2. packet.inst = Inst[i] /\ packet.list = info[i].list /\ list = info[i].list
    BY <1>11, <2>1
  <2> HIDE DEF packet, list
  <2>3. Asked(packet) = list
    BY <1>9, <2>1, <2>2 DEF Asked
  <2> QED
    BY <2>2, <2>3
<1>14. ours /\ Inst[i] \notin Answering /\ list = <<>> => Asked(packet) = <<>>
  <2> SUFFICES ASSUME ours, Inst[i] \notin Answering
               PROVE  Asked(packet) = <<>>
    OBVIOUS
  <2>1. packet.inst = Inst[i] /\ Inst[i] \in Writes
    BY <1>4, <1>9, <1>11
  <2> QED
    BY <2>1 DEF Asked
<1> HIDE DEF packet, ours, list
<1>15. CASE ours
  <2>1. Transmit(packet, TRUE)
    BY <1>1, <1>15 DEF Transmit
  <2> QED
    BY <1>1, <1>2, <1>7, <1>8, <1>12, <1>13, <1>14, <1>15, <2>1, CallBegins
<1>16. CASE ~ours
  <2>1. Transmit(packet, FALSE)
    BY <1>1, <1>16 DEF Transmit
  <2> QED
    BY <1>1, <1>2, <1>7, <1>8, <1>12, <2>1, CallBegins
<1> QED
  BY <1>15, <1>16

LEMMA FlowsStep == FlowsInv /\ [Next]_vars => FlowsInv'
<1> SUFFICES ASSUME FlowsInv, [Next]_vars PROVE FlowsInv'
  OBVIOUS
<1>1. GroupInv' /\ CallInv /\ FlowInv
  BY GroupInvStep DEF FlowsInv
<1>2. CallInv' /\ FlowInv'
  <2>1. CASE Arrive
    BY <1>1, <2>1, ArriveStep
  <2>2. CASE Receive
    BY <1>1, <2>2, ReceiveStep
  <2>3. CASE TimesOut
    BY <1>1, <2>3, TimeStep
  <2>4. CASE UNCHANGED vars
    <3>1. UNCHANGED <<call, wire, rx, calls, losses, late, inStep>> /\ buffer' = buffer
      BY <2>4 DEF vars, past
    <3>2. \A b \in Buffers : buffer'[b].list \in Seq(Nat)
      BY <1>1, <3>1 DEF CallInv
    <3> QED
      BY <1>1, <3>1, <3>2, BetweenCalls
  <2> QED
    BY <2>1, <2>2, <2>3, <2>4, SketchSteps, GroupStep, GroupFails, OneServoStep,
       NoRespStep, WriteAllStep, PingAllStep DEF Next
<1> QED
  BY <1>1, <1>2 DEF FlowsInv

(* Whatever calls came before, whatever was lost or came late: as long as   *)
(* no answer is out of place, a call that ends has the answers to its own   *)
(* packet in the order of its list, and the port is empty for the next one; *)
(* a broadcast ping that ran its time restores this (rxStatusPacket() takes *)
(* whatever comes first, ping() empties the port).                          *)
THEOREM CallsStayInStep == Spec => []InStep
<1>1. FlowsInv => InStep
  <2> SUFFICES ASSUME FlowsInv, inStep, ~Waiting,
                      call.kind \in Reads \cup {"READ", "WRITE", "PING"}
               PROVE  /\ Len(call.got) = Len(call.list)
                      /\ \A k \in DOMAIN call.got :
                           call.got[k].id = call.list[k] /\ call.got[k].call = calls
    BY DEF InStep
  <2>1. CallInv /\ FlowInv /\ call.kind \in Answering
    BY DEF FlowsInv, Answering
  <2>2. /\ Len(call.got) + Len(call.want) = Len(call.list)
        /\ \A k \in 1 .. Len(call.got) : call.got[k] = Due(k)
    BY <2>1 DEF FlowInv
  <2>3. Len(call.want) = 0 /\ Len(call.got) \in Nat
    BY <2>1, CallLengths DEF Waiting
  <2>4. Len(call.got) = Len(call.list)
    BY <2>2, <2>3
  <2>5. DOMAIN call.got = 1 .. Len(call.got)
    BY <2>1, QueueSeq, LenProperties DEF CallInv
  <2>6. \A k : Due(k).id = call.list[k] /\ Due(k).call = calls
    BY DEF Due
  <2> QED
    BY <2>2, <2>4, <2>5, <2>6
<1> QED
  BY FlowsInit, FlowsStep, <1>1, PTL DEF Spec

(* Every variable keeps its type; a call never takes more answers than it   *)
(* asked for (the p_xels of a sync or bulk read, the array of a broadcast   *)
(* ping), and a buffer of its own holds the packet of an info structure     *)
(* that is completed and not marked.                                        *)
THEOREM TypeCorrect == Spec => []TypeOK
<1>1. FlowsInv => TypeOK
  <2> SUFFICES ASSUME FlowsInv PROVE TypeOK
    OBVIOUS
  <2>1. ASSUME NEW i \in Infos
        PROVE  /\ info[i].list \in Lists /\ {info[i].completed, info[i].changed} \subseteq BOOLEAN
               /\ i \notin Internal /\ info[i].completed /\ ~info[i].changed
                    => buffer[i] = Meant(i, info[i].list)
    BY DEF FlowsInv, GroupInv, InfoInv, BufferInv, Kept
  <2>2. DOMAIN buffer = Buffers /\ moved \in BOOLEAN /\ disturbed \subseteq Internal
    BY DEF FlowsInv, GroupInv, InfoInv
  <2>3. /\ Len(call.got) + Len(call.want) <= Len(call.list)
        /\ calls \in 0 .. MaxCalls /\ losses \in 0 .. MaxLosses /\ late \in 0 .. MaxLate
        /\ inStep \in BOOLEAN
    BY DEF FlowsInv, CallInv
  <2> QED
    BY <2>1, <2>2, <2>3 DEF TypeOK
<1> QED
  BY FlowsInit, FlowsStep, <1>1, PTL DEF Spec
=============================================================================
