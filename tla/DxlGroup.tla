------------------------------ MODULE DxlGroup -------------------------------
(***************************************************************************)
(* The calls of DYNAMIXEL::Master, packet by packet: sync and bulk calls,  *)
(* which keep the packet they built and send it again while their info     *)
(* structure is not marked as changed; read, write and ping, which build   *)
(* theirs in the buffer of the master; and the answers, which wait in the  *)
(* serial port until some call takes them.  What happens to the bytes of   *)
(* an answer is the subject of Dxl2Link.                                   *)
(***************************************************************************)
EXTENDS Naturals, Sequences, FiniteSets

CONSTANTS
  N,                  (* servos 1 .. N are on the bus                        *)
  Infos,              (* info structures of the sketch                       *)
  Inst,               (* the instruction of each                             *)
  Master,             (* the buffer p_packet_buf_ of the master              *)
  Internal,           (* those whose packet.p_buf is nullptr                 *)
  Lists,              (* what the sketch may put in p_xels                   *)
  MaxXels,            (* how many of them fit in a packet buffer             *)
  Capacities,         (* of the array given to a broadcast ping              *)
  MaxCalls,           (* bounds: calls, answers lost, answers that come      *)
  MaxLosses,          (* after their call                                    *)
  MaxLate

Reads == {"SYNC_READ", "BULK_READ"}
Writes == {"SYNC_WRITE", "BULK_WRITE"}

ASSUME GroupAssumption ==
  /\ N \in Nat \ {0} /\ MaxXels \in Nat
  /\ Inst \in [Infos -> Reads \cup Writes] /\ Internal \subseteq Infos
  /\ Master \notin Infos
  /\ \A list \in Lists : list \in Seq(1 .. N)
  /\ Capacities \subseteq Nat \ {0}
  /\ {MaxCalls, MaxLosses, MaxLate} \subseteq Nat

Buffers == {Master} \cup (Infos \ Internal)
BufferOf(i) == IF i \in Internal THEN Master ELSE i

(* A packet, and what a buffer holds before and when building was given up. *)
Packet(inst, of, list) == [inst |-> inst, of |-> of, list |-> list]
NoPacket == Packet("NONE", Master, <<>>)
Meant(i, list) == Packet(Inst[i], i, list)

VARIABLES
  info,               (* [list, completed, changed] of each info structure   *)
  buffer,             (* what each packet buffer holds                       *)
  inst,               (* info_tx_packet_.inst_idx                            *)
  call,               (* the call in progress or the last: its kind, who is  *)
                      (* to answer, who is still awaited, the answers taken  *)
  sent,               (* the last packet sent by a sync or bulk call, the    *)
                      (* one its info asked for, and whether it must be it   *)
  wire, rx,           (* answers on their way, answers in the serial port    *)
  calls, losses, late,
  inStep,             (* every answer there is belongs to the call           *)
  moved,              (* setPacketBuffer() was called (a bound: once)        *)
  disturbed           (* infos without a buffer of their own whose packet    *)
                      (* may be gone though inst is their instruction        *)

past == <<calls, losses, late>>
vars == <<info, buffer, inst, call, sent, wire, rx, past, inStep, moved, disturbed>>

Waiting == call.want # <<>>

Init ==
  /\ \E list \in Lists :
       info = [i \in Infos |-> [list |-> list, completed |-> FALSE, changed |-> TRUE]]
  /\ buffer = [b \in Buffers |-> NoPacket] /\ inst = "NONE"
  /\ call = [kind |-> "NONE", list |-> <<>>, want |-> <<>>, got |-> <<>>]
  /\ sent = [packet |-> NoPacket, meant |-> NoPacket, sure |-> TRUE]
  /\ wire = <<>> /\ rx = <<>>
  /\ calls = 0 /\ losses = 0 /\ late = 0 /\ inStep = TRUE /\ moved = FALSE
  /\ disturbed = {}

(* The sketch fills in an info structure anew and marks it, as every        *)
(* example does.                                                            *)
Change(i, list) ==
  /\ ~Waiting
  /\ info' = [info EXCEPT ![i].list = list, ![i].changed = TRUE]
  /\ UNCHANGED <<buffer, inst, call, sent, wire, rx, past, inStep, moved, disturbed>>

(* Master::setPacketBuffer()                                                *)
SetPacketBuffer ==
  /\ ~Waiting /\ ~moved
  /\ buffer' = [buffer EXCEPT ![Master] = NoPacket] /\ moved' = TRUE
  /\ disturbed' = disturbed \cup Internal
  /\ UNCHANGED <<info, inst, call, sent, wire, rx, past, inStep>>
----------------------------------------------------------------------------
(* Parameters in the answer to an instruction, and room for them.           *)
Params(kind) == CASE kind = "PING" -> 3
                  [] kind = "WRITE" -> 0
                  [] OTHER -> 4

(* Those that answer a packet do so in its order, and some answers may be   *)
(* lost.  ours: what is answered is what the call waits for.                *)
Transmit(packet, ours) ==
  LET asked == IF packet.inst \in Writes \cup {"NONE"} THEN <<>> ELSE packet.list
      Answer(n) == [id |-> asked[n], len |-> Params(packet.inst), call |-> calls + 1]
  IN \E lost \in SUBSET DOMAIN asked :
       /\ losses + Cardinality(lost) <= MaxLosses
       /\ losses' = losses + Cardinality(lost)
       /\ wire' = wire \o [k \in 1 .. Len(asked) - Cardinality(lost) |->
                    Answer(CHOOSE n \in DOMAIN asked \ lost :
                             Cardinality({m \in 1 .. n : m \notin lost}) = k)]
       /\ inStep' = (inStep /\ ours /\ lost = {})

Await(kind, list) ==
  call' = [kind |-> kind, list |-> list, want |-> list, got |-> <<>>]

(* is_completed is no longer believed when another instruction was built    *)
(* since in the buffer of the master.                                       *)
Overwritten(i) == i \in Internal /\ inst # Inst[i]
(* Variant: what the sketch has marked is not looked at.                    *)
MustBuildOnce(i) == Overwritten(i) \/ ~info[i].completed

MustBuild(i) == Overwritten(i) \/ ~info[i].completed \/ info[i].changed

(* The packet of i is built: in the buffer of the master, or in its own     *)
(* after another instruction was built in that of the master.  Infos of its *)
(* instruction whose packet was there cannot tell.                          *)
Disturb(i) ==
  disturbed' =
    {j \in Internal \ {i} : \/ j \in disturbed
                            \/ Inst[j] = Inst[i] /\ (i \in Internal \/ inst # Inst[i])}

(* syncRead(), bulkRead(), syncWrite(), bulkWrite() of an info structure.   *)
Resend(i) ==
  /\ ~MustBuild(i)
  /\ sent' = [packet |-> buffer[BufferOf(i)], meant |-> Meant(i, info[i].list),
              sure |-> i \notin disturbed \/ info[i].changed]
  /\ UNCHANGED <<info, buffer, inst, disturbed>>

Build(i) ==
  /\ MustBuild(i) /\ Len(info[i].list) <= MaxXels
  /\ buffer' = [buffer EXCEPT ![BufferOf(i)] = Meant(i, info[i].list)]
  /\ inst' = Inst[i]
  /\ info' = [info EXCEPT ![i].completed = TRUE, ![i].changed = FALSE]
  /\ sent' = [packet |-> Meant(i, info[i].list), meant |-> Meant(i, info[i].list),
              sure |-> TRUE]
  /\ Disturb(i)

GroupCall(i) ==
  /\ ~Waiting /\ calls < MaxCalls
  /\ Resend(i) \/ Build(i)
  /\ Transmit(sent'.packet, sent'.packet = sent'.meant)
  /\ Await(Inst[i], IF Inst[i] \in Reads THEN info[i].list ELSE <<>>)
  /\ calls' = calls + 1
  /\ UNCHANGED <<rx, late, moved>>

(* A list that does not fit: the buffer holds part of it, nothing is sent.  *)
GroupCallFails(i) ==
  /\ ~Waiting /\ calls < MaxCalls
  /\ MustBuild(i) /\ Len(info[i].list) > MaxXels
  /\ buffer' = [buffer EXCEPT ![BufferOf(i)] = NoPacket]
  /\ inst' = Inst[i]
  /\ info' = [info EXCEPT ![i].completed = FALSE]
  /\ Disturb(i)
  /\ Await("FAILED", <<>>)
  /\ calls' = calls + 1
  /\ UNCHANGED <<sent, wire, rx, losses, late, inStep, moved>>

BuildInMaster(kind, list) ==
  /\ buffer' = [buffer EXCEPT ![Master] = Packet(kind, Master, list)]
  /\ inst' = kind
  /\ calls' = calls + 1

(* read(), write() and ping() of one servo.                                 *)
OneServo(kind, s) ==
  /\ ~Waiting /\ calls < MaxCalls
  /\ BuildInMaster(kind, <<s>>)
  /\ Transmit(Packet(kind, Master, <<s>>), TRUE)
  /\ Await(kind, <<s>>)
  /\ UNCHANGED <<info, sent, rx, late, moved, disturbed>>

(* writeNoResp(): the servo answers all the same.                           *)
WriteNoResp(s) ==
  /\ ~Waiting /\ calls < MaxCalls
  /\ BuildInMaster("WRITE", <<s>>)
  /\ Transmit(Packet("WRITE", Master, <<s>>), FALSE)
  /\ Await("NO_RESP", <<>>)
  /\ UNCHANGED <<info, sent, rx, late, moved, disturbed>>

(* A write to all servos is not answered.                                   *)
WriteAll ==
  /\ ~Waiting /\ calls < MaxCalls
  /\ BuildInMaster("WRITE", <<>>)
  /\ Await("WRITE_ALL", <<>>)
  /\ UNCHANGED <<info, sent, wire, rx, losses, late, inStep, moved, disturbed>>

(* A broadcast ping takes answers until its array is full or 759 ms are up. *)
PingAll(capacity) ==
  /\ ~Waiting /\ calls < MaxCalls
  /\ BuildInMaster("PING", [s \in 1 .. N |-> s])
  /\ Transmit(Packet("PING", Master, [s \in 1 .. N |-> s]), TRUE)
  /\ Await("PING_ALL", [k \in 1 .. capacity |-> k])
  /\ UNCHANGED <<info, sent, rx, late, moved, disturbed>>
----------------------------------------------------------------------------
Arrive ==
  /\ wire # <<>>
  /\ rx' = Append(rx, Head(wire)) /\ wire' = Tail(wire)
  /\ UNCHANGED <<info, buffer, inst, call, sent, past, inStep, moved, disturbed>>

(* The buffer of a ping has room for 3 parameters, of a write for none.     *)
Capacity(kind) == IF kind = "PING_ALL" THEN 3 ELSE Params(kind)

(* rxStatusPacket() takes the answer; only sync, bulk and ping compare its  *)
(* id.                                                                      *)
Fits(answer) == answer.len <= Capacity(call.kind)
Accepts(answer) ==
  /\ Fits(answer)
  /\ call.kind \in Reads \cup {"PING"} => answer.id = Head(call.want)

(* Variants: the last answer is left in the port; a taken answer goes on    *)
(* being waited for.                                                        *)
TakeAndLeaveLast(answer) ==
  [call EXCEPT !.want = IF Len(@) <= 2 THEN <<>> ELSE Tail(@), !.got = Append(@, answer)]
TakeAndWait(answer) == [call EXCEPT !.got = Append(@, answer)]

Take(answer) == [call EXCEPT !.want = Tail(@), !.got = Append(@, answer)]

Receive ==
  /\ Waiting /\ rx # <<>>
  /\ rx' = Tail(rx)
  /\ call' = IF Accepts(Head(rx)) THEN Take(Head(rx))
             ELSE IF call.kind = "PING_ALL" THEN call
             ELSE [call EXCEPT !.want = <<>>]
  /\ inStep' = IF call.kind = "PING_ALL" /\ call'.want = <<>>
               THEN inStep /\ rx' = <<>> /\ wire = <<>> ELSE inStep
  /\ UNCHANGED <<info, buffer, inst, sent, wire, past, moved, disturbed>>

(* The time is up, before every answer or with answers unread or to come.   *)
(* A broadcast ping that ends with none has emptied the port.               *)
TimesOut ==
  /\ Waiting
  /\ call' = [call EXCEPT !.want = <<>>]
  /\ IF wire = <<>> /\ rx = <<>>
     THEN late' = late /\ inStep' = (inStep \/ call.kind = "PING_ALL")
     ELSE late < MaxLate /\ late' = late + 1 /\ inStep' = FALSE
  /\ UNCHANGED <<info, buffer, inst, sent, wire, rx, calls, losses, moved,
                 disturbed>>

Next ==
  \/ \E i \in Infos : \/ \E list \in Lists : Change(i, list)
                      \/ GroupCall(i) \/ GroupCallFails(i)
  \/ SetPacketBuffer
  \/ \E s \in 1 .. N : \/ \E kind \in {"READ", "WRITE", "PING"} : OneServo(kind, s)
                       \/ WriteNoResp(s)
  \/ WriteAll
  \/ \E capacity \in Capacities : PingAll(capacity)
  \/ Arrive \/ Receive \/ TimesOut

Spec == Init /\ [][Next]_vars
----------------------------------------------------------------------------
(* Every variable keeps its type; a call takes no more answers than it      *)
(* asked for, and an info with a buffer of its own that is completed and    *)
(* not marked has the packet of its list there.                             *)
TypeOK ==
  /\ \A i \in Infos :
       /\ info[i].list \in Lists /\ {info[i].completed, info[i].changed} \subseteq BOOLEAN
       /\ i \notin Internal /\ info[i].completed /\ ~info[i].changed
            => buffer[i] = Meant(i, info[i].list)
  /\ DOMAIN buffer = Buffers
  /\ Len(call.got) + Len(call.want) <= Len(call.list)
  /\ calls \in 0 .. MaxCalls /\ losses \in 0 .. MaxLosses /\ late \in 0 .. MaxLate
  /\ {inStep, moved} \subseteq BOOLEAN /\ disturbed \subseteq Internal

(* A sync or bulk call sends the packet its info structure asks for: always *)
(* when the sketch has marked it; without marking if it has a buffer of its *)
(* own, or if since its packet was built no other info of its instruction   *)
(* was built in the buffer of the master, nor in a buffer of its own while  *)
(* inst_idx was another, and setPacketBuffer() was not called: in all else  *)
(* is_completed and inst_idx tell whether the packet is still there.        *)
OwnPacket == sent.sure => sent.packet = sent.meant

(* As long as every answer there is belongs to the call in progress, a call *)
(* gets the answers to its own packet, in the order of its list, whatever   *)
(* calls came before it; and a broadcast ping that ended by its time limit  *)
(* restores this after lost and late answers, writeNoResp() and broken      *)
(* packets.                                                                 *)
InStep ==
  inStep /\ ~Waiting /\ call.kind \in Reads \cup {"READ", "WRITE", "PING"} =>
    /\ Len(call.got) = Len(call.list)
    /\ \A k \in DOMAIN call.got :
         call.got[k].id = call.list[k] /\ call.got[k].call = calls
=============================================================================
