------------------------------- MODULE DxlLink -------------------------------
(***************************************************************************)
(* The half-duplex servo bus as the gait sketches drive it, in protocol    *)
(* 1.0: Master::write() and Master::read() of Dynamixel2Arduino, the wait  *)
(* of rxStatusPacket(), the parser parse_dxl1_0_packet() fed byte by byte, *)
(* and servos whose status packets may lose bytes or not come.             *)
(*                                                                         *)
(* Three things outlive a call: the parser's state, which                  *)
(* begin_parse_dxl_packet() does not reset; the bytes the host has not     *)
(* read, which no call discards; and the table of the servos' models, into *)
(* which readControlTableItem() first puts what it has read of a servo's   *)
(* model number.                                                           *)
(***************************************************************************)
EXTENDS Integers, Sequences, Functions

CONSTANTS
  ByteMod,        (* 256                                                     *)
  Servos,         (* DXL ids                                                 *)
  Position(_),    (* the two bytes of a servo's present position             *)
  Model(_),       (* the two bytes of its model number                       *)
  ReadCap,        (* sizeof(int32_t), the buffer of readControlTableItem()   *)
  Calls,          (* the bus traffic of loop(), repeated: a sequence of      *)
                  (* [kind : {"write", "read"}, id : Servos]                 *)
  MaxFaults,      (* bound: bytes and answers lost                           *)
  CountedCalls    (* bound: calls counted since the last fault               *)

Byte == 0 .. ByteMod - 1
FF == ByteMod - 1                        (* 0xFF                             *)
Complement(sum) == FF - sum              (* ~ of a uint8_t                   *)

ASSUME LinkAssumption ==
  /\ ByteMod \in Nat /\ ReadCap \in Nat /\ 6 <= ByteMod /\ ReadCap + 2 < FF
  /\ Servos \subseteq Byte \ {FF}
  /\ \A s \in Servos : Position(s) \in Byte \X Byte /\ Model(s) \in Byte \X Byte
  /\ Calls \in Seq([kind : {"write", "read"}, id : Servos])
  /\ MaxFaults \in Nat /\ CountedCalls \in Nat

VARIABLES
  call,           (* index of the call of Calls under way or next            *)
  waiting,        (* rxStatusPacket() is polling                             *)
  parser,         (* info_rx_packet_                                         *)
  known,          (* servos with an entry in model_number_idx_               *)
  buf,            (* the low bytes of the variable read() fills              *)
  wire,           (* bytes servos have yet to send                           *)
  rx,             (* bytes in HardwareSerial's buffer                        *)
  last,           (* the last call: whether rxStatusPacket() returned a      *)
                  (* packet, and what readControlTableItem() returned        *)
  stray,          (* a parameter byte was stored outside the call's buffer   *)
  faults, since   (* faults so far, calls completed since the last one       *)

vars == <<call, waiting, parser, known, buf, wire, rx, last, stray, faults, since>>

Current == Calls[call]

(* readControlTableItem() must first ask the servo for its model.           *)
Identifying == Current.kind = "read" /\ Current.id \notin known

(* The receive buffer: an uint16_t for the model number, an int32_t for the *)
(* item, and write() passes a null pointer.                                 *)
Capacity == IF Current.kind = "write" THEN 0 ELSE IF Identifying THEN 2 ELSE ReadCap

Sum(bytes) == FoldFunction(LAMBDA b, acc : (acc + b) % ByteMod, 0, bytes)

(* The status packet of a servo without errors.                             *)
Status(s, data) ==
  LET body == <<s, Len(data) + 2, 0>> \o data
  IN <<FF, FF>> \o body \o <<Complement(Sum(body))>>

Answer ==
  Status(Current.id, IF Current.kind = "write" THEN <<>>
                     ELSE IF Identifying THEN Model(Current.id)
                     ELSE Position(Current.id))
-----------------------------------------------------------------------------
(***************************************************************************)
(* The parser.  header[] and header_cnt are told apart only by whether the *)
(* byte before was 0xFF; "got" is recv_param_len.                          *)
(***************************************************************************)
States == {"idle", "id", "length", "inst", "param", "checksum"}

Parser == [state : States, afterFF : BOOLEAN, len : Byte, sum : Byte, got : 0 .. FF]

Idle(p) == [p EXCEPT !.state = "idle", !.afterFF = FALSE]
Goes(p, state, b) == [p EXCEPT !.state = state, !.sum = (@ + b) % ByteMod]

(* The outcome of a byte: the parser after it, what parse_dxl_packet()      *)
(* returns, and the index the byte is stored at, or -1.                     *)
Outcome(p, ret, at) == [parser |-> p, ret |-> ret, at |-> at]
Proceeding(p) == Outcome(p, "proceeding", -1)

InIdle(p, b) ==
  IF p.afterFF /\ b = FF
  THEN Proceeding([p EXCEPT !.state = "id", !.got = 0, !.sum = 0])
  ELSE Proceeding([p EXCEPT !.afterFF = (b = FF)])

InId(p, b) == Proceeding(IF b # FF THEN Goes(p, "length", b) ELSE Idle(p))

InLength(p, b, cap) ==
  IF b > cap + 2 THEN Outcome(Idle(p), "overflow", -1)
  ELSE IF b < 2 THEN Outcome(Idle(p), "length", -1)
  ELSE Proceeding([Goes(p, "inst", b) EXCEPT !.len = b])

InInst(p, b, cap) ==
  LET q == [Goes(p, "param", b) EXCEPT !.got = 0]
  IN IF p.len = 2 THEN Proceeding([q EXCEPT !.state = "checksum"])
     ELSE IF cap = 0 THEN Outcome(Idle(q), "nullptr", -1)
     ELSE Proceeding(q)

(* Variant: recv_param_len runs off.                                        *)
InParamWide(p, b) ==
  Outcome([Goes(p, "param", b) EXCEPT !.got = @ + FF], "proceeding", p.got)

InParam(p, b) ==
  LET q == [Goes(p, "param", b) EXCEPT !.got = (@ + 1) % ByteMod]
  IN Outcome(IF q.got = p.len - 2 THEN [q EXCEPT !.state = "checksum"] ELSE q,
             "proceeding", p.got)

(* Variant: the sum itself for its complement.                              *)
InChecksumPlain(p, b) ==
  Outcome(Idle(p), IF b = p.sum THEN "ok" ELSE "checksum", -1)

InChecksum(p, b) ==
  Outcome(Idle(p), IF b = Complement(p.sum) THEN "ok" ELSE "checksum", -1)

Parse(p, b, cap) ==
  CASE p.state = "idle"     -> InIdle(p, b)
    [] p.state = "id"       -> InId(p, b)
    [] p.state = "length"   -> InLength(p, b, cap)
    [] p.state = "inst"     -> InInst(p, b, cap)
    [] p.state = "param"    -> InParam(p, b)
    [] p.state = "checksum" -> InChecksum(p, b)
-----------------------------------------------------------------------------
Init ==
  /\ call = 1 /\ waiting = FALSE
  /\ parser = [state |-> "idle", afterFF |-> FALSE, len |-> 0, sum |-> 0, got |-> 0]
  /\ known = {} /\ buf = <<0, 0>> /\ wire = <<>> /\ rx = <<>>
  /\ last = [ok |-> FALSE, kind |-> "none"] /\ stray = FALSE
  /\ faults = 0 /\ since = 0

Fault == faults < MaxFaults /\ faults' = faults + 1 /\ since' = 0
NoFault == UNCHANGED <<faults, since>>

(* txInstPacket() or writeNoResp(), then begin_parse_dxl_packet().  On a    *)
(* free bus the servo answers or the instruction or answer is lost.  Talking*)
(* while a servo still talks garbles both, or neither if that servo has not *)
(* begun.                                                                   *)
Transmit ==
  /\ ~waiting
  /\ waiting' = TRUE
  /\ buf' = IF Identifying THEN <<FF, FF>> ELSE <<0, 0>>
  /\ \/ wire' = wire \o Answer /\ NoFault
     \/ wire = <<>> /\ wire' = <<>> /\ Fault
     \/ wire # <<>> /\ wire' = <<>> /\ NoFault
  /\ UNCHANGED <<call, parser, known, rx, last, stray>>

Deliver ==
  /\ wire # <<>>
  /\ wire' = Tail(wire)
  /\ \/ rx' = Append(rx, Head(wire)) /\ NoFault
     \/ rx' = rx /\ Fault
  /\ UNCHANGED <<call, waiting, parser, known, buf, last, stray>>

(* The model number just read, whether read() succeeded or not, is that of  *)
(* a model in model_number_table: taken to be so for the servo's own only.  *)
Identified == buf' = Model(Current.id)

(* The call ends.  readControlTableItem() returns its int32_t whether       *)
(* read() succeeded or not, and 0 for a servo of no known model.            *)
Finish(ok) ==
  /\ call' = (call % Len(Calls)) + 1
  /\ last' = IF Current.kind = "read"
             THEN [ok |-> ok, kind |-> "read", id |-> Current.id,
                   value |-> IF Identifying THEN <<0, 0>> ELSE buf']
             ELSE [ok |-> ok, kind |-> "write", id |-> Current.id]
  /\ faults' = faults
  /\ since' = IF since < CountedCalls THEN since + 1 ELSE since

(* rxStatusPacket() returns.  Once the servo is identified, the same call   *)
(* goes on to read the item.                                                *)
Return(ok) ==
  /\ waiting' = FALSE
  /\ \/ Identifying /\ Identified /\ known' = known \cup {Current.id}
        /\ UNCHANGED <<call, last, faults, since>>
     \/ ~(Identifying /\ Identified) /\ Finish(ok)
        /\ UNCHANGED known

(* One byte read and parsed in the wait of rxStatusPacket().                *)
Receive ==
  /\ waiting /\ rx # <<>>
  /\ LET out == Parse(parser, Head(rx), Capacity) IN
       /\ parser' = out.parser
       /\ rx' = Tail(rx)
       /\ buf' = IF out.at + 1 \in DOMAIN buf /\ out.at < Capacity
                 THEN [buf EXCEPT ![out.at + 1] = Head(rx)] ELSE buf
       /\ stray' = (stray \/ out.at >= Capacity)
       /\ IF out.ret = "proceeding"
          THEN NoFault /\ UNCHANGED <<waiting, call, known, last>>
          ELSE Return(out.ret = "ok")
  /\ UNCHANGED wire

(* The wait ends when no byte has come for the call.                        *)
TimesOut ==
  /\ waiting /\ rx = <<>> /\ wire = <<>>
  /\ buf' = buf
  /\ Return(FALSE)
  /\ UNCHANGED <<parser, rx, wire, stray>>

Next == Transmit \/ Deliver \/ Receive \/ TimesOut

Spec == Init /\ [][Next]_vars
-----------------------------------------------------------------------------
TypeOK ==
  /\ call \in 1 .. Len(Calls) /\ waiting \in BOOLEAN
  /\ parser \in Parser
  /\ known \subseteq Servos /\ buf \in Byte \X Byte
  /\ wire \in Seq(Byte) /\ rx \in Seq(Byte)
  /\ stray \in BOOLEAN
  /\ faults \in 0 .. MaxFaults /\ since \in 0 .. CountedCalls

Truthful == last.kind = "read" => last.value = Position(last.id)

(* The parser's leftover state and the unread bytes are worked off: when    *)
(* no more bytes are lost, after CountedCalls calls every call succeeds and *)
(* every read returns the position of the servo it asked.  (Nothing is      *)
(* claimed once a byte was stored through a null pointer.)                  *)
BackInStep == ~stray /\ since = CountedCalls => last.ok /\ Truthful
=============================================================================
