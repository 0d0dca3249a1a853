----------------------------- MODULE Dxl2Packet ------------------------------
(***************************************************************************)
(* DYNAMIXEL protocol 2.0 as protocol.c makes and parses it: the status    *)
(* packet with its byte stuffing and its CRC, and parse_dxl2_0_packet(),   *)
(* which is given one byte at a time and keeps its state in between.       *)
(***************************************************************************)
EXTENDS Integers, Sequences, SequencesExt, Functions

Byte   == 0 .. 255
Word   == 0 .. 65535
FF     == 255
FD     == 253
STATUS == 85          (* DXL_INST_STATUS                                     *)
BROADCAST == 254      (* DXL_BROADCAST_ID                                    *)

----------------------------------------------------------------------------
(* update_dxl_crc(): CRC-16 with the polynomial 0x8005, by table.           *)

XorBit == [p \in (0 .. 15) \X (0 .. 15) |->
  LET Digit(k) == IF (p[1] \div k) % 2 = (p[2] \div k) % 2 THEN 0 ELSE k
  IN Digit(1) + Digit(2) + Digit(4) + Digit(8)]
Xor8(a, b) == 16 * XorBit[a \div 16, b \div 16] + XorBit[a % 16, b % 16]
Xor16(a, b) == 256 * Xor8(a \div 256, b \div 256) + Xor8(a % 256, b % 256)

crc_table ==
  [i \in Byte |->
     LET shifted[n \in 0 .. 8] ==
           IF n = 0 THEN 256 * i
           ELSE LET twice == (2 * shifted[n - 1]) % 65536
                IN IF shifted[n - 1] >= 32768 THEN Xor16(twice, 32773)
                   ELSE twice
     IN shifted[8]]

Crc(crc, b) == Xor16((256 * crc) % 65536, crc_table[Xor8(crc \div 256, b)])

(* The CRC as the bytes come: behind none, behind the first, and so on.     *)
CrcUpTo(bytes) ==
  LET crc[n \in 0 .. Len(bytes)] == IF n = 0 THEN 0 ELSE Crc(crc[n - 1], bytes[n])
  IN crc
CrcOf(bytes) == CrcUpTo(bytes)[Len(bytes)]

----------------------------------------------------------------------------
(* The maker: a 0xFD goes behind every 0xFF 0xFF 0xFD of the parameters.    *)
(* (The look at the place of the ERROR byte, not written yet, finds the 0   *)
(* that processInstRead() clears the buffer to.)                            *)
StuffOnto(made, b) ==
  LET more == Append(made, b)
  IN IF IsSuffix(<<FF, FF, FD>>, more) THEN Append(more, FD) ELSE more

StuffUpTo(params) ==
  LET made[n \in 0 .. Len(params)] ==
        IF n = 0 THEN <<>> ELSE StuffOnto(made[n - 1], params[n])
  IN made
Stuff(params) == StuffUpTo(params)[Len(params)]

StatusBody(id, params) ==
  LET length == Len(Stuff(params)) + 4
  IN <<FF, FF, FD, 0, id, length % 256, length \div 256, STATUS, 0>> \o Stuff(params)

Status(id, params) ==
  LET body == StatusBody(id, params)
  IN body \o <<CrcOf(body) % 256, CrcOf(body) \div 256>>

(* Stuffed bytes that are not the last of the parameters.                   *)
StuffedInside(params) ==
  \E i \in 1 .. Len(params) - 3 : SubSeq(params, i, i + 2) = <<FF, FF, FD>>

----------------------------------------------------------------------------
(* The parser.  ffs: how many of the last two bytes of a header were 0xFF;  *)
(* got: what has been stored of the parameters, recv_param_len long.        *)
States == {"idle", "reserved", "id", "length_l", "length_h", "inst", "error",
           "param", "crc_l", "crc_h"}

IdleParser == [state |-> "idle", ffs |-> 0, len |-> 0, inst |-> 0, err |-> 0,
               got |-> <<>>, crc |-> 0, recv |-> 0]

(* The outcome of a byte: the parser after it, what parse_dxl_packet()      *)
(* returns and the index at which a parameter byte is stored, or -1.        *)
Outcome(p, ret, at) == [parser |-> p, ret |-> ret, at |-> at]
Fails(ret) == Outcome(IdleParser, ret, -1)
Goes(p, state, b) ==
  Outcome([p EXCEPT !.state = state, !.crc = Crc(@, b)], "proceeding", -1)

InIdle(p, b) ==
  IF p.ffs = 2 /\ b = FD
  THEN Outcome([IdleParser EXCEPT !.state = "reserved",
                                  !.crc = CrcOf(<<FF, FF, FD>>)],
               "proceeding", -1)
  ELSE Outcome([p EXCEPT !.ffs = IF b # FF THEN 0 ELSE IF @ = 0 THEN 1 ELSE 2],
               "proceeding", -1)

InReserved(p, b) == IF b # FD THEN Goes(p, "id", b) ELSE Fails("wrong_packet")

InId(p, b) ==
  IF b < FD \/ b = BROADCAST THEN Goes(p, "length_l", b) ELSE Fails("id")

InLength(p, b) ==
  LET q == [p EXCEPT !.len = IF p.state = "length_l" THEN b ELSE @ + 256 * b]
  IN IF p.state = "length_l" THEN Goes(q, "length_h", b)
     ELSE IF q.len < 3 THEN Fails("length") ELSE Goes(q, "inst", b)

(* The bytes of the length field that are not parameters.                   *)
Frame(p) == IF p.inst = STATUS THEN 4 ELSE 3

(* Variant: no look at whether the parameters fit the buffer.               *)
InInstUnchecked(p, b, cap) ==
  LET q == [p EXCEPT !.inst = b, !.err = 0, !.got = <<>>]
  IN IF q.len < Frame(q) THEN Fails("length")
     ELSE Goes(q, IF b = STATUS THEN "error"
                  ELSE IF q.len = 3 THEN "crc_l" ELSE "param", b)

InInst(p, b, cap) ==
  LET q == [p EXCEPT !.inst = b, !.err = 0, !.got = <<>>]
  IN IF q.len < Frame(q) THEN Fails("length")
     ELSE IF q.len > cap + Frame(q) THEN Fails("overflow")
     ELSE Goes(q, IF b = STATUS THEN "error"
                  ELSE IF q.len = 3 THEN "crc_l" ELSE "param", b)

InError(p, b) ==
  Goes([p EXCEPT !.err = b], IF p.len = 4 THEN "crc_l" ELSE "param", b)

(* Variant: no look at whether the parameters are complete.                 *)
InParamEndless(p, b) ==
  Outcome([p EXCEPT !.got = Append(@, b), !.crc = Crc(@, b)], "proceeding",
          Len(p.got))

(* A stuffed byte is taken back, and counted as part of the packet only     *)
(* when the byte is the last: byte_stuffing_cnt starts from 0 at each byte. *)
InParam(p, b) ==
  LET more  == Append(p.got, b)
      extra == IsSuffix(<<FF, FF, FD, FD>>,
                        <<IF p.inst = STATUS THEN p.err ELSE p.inst>> \o more)
      q     == [p EXCEPT !.got = IF extra THEN @ ELSE more, !.crc = Crc(@, b)]
      done  == Len(more) + Frame(p) = p.len
  IN Outcome(IF done THEN [q EXCEPT !.state = "crc_l"] ELSE q,
             "proceeding", Len(p.got))

InCrcLow(p, b) ==
  Outcome([p EXCEPT !.state = "crc_h", !.recv = b], "proceeding", -1)

(* Variant: only the low byte of the CRC is compared.                       *)
InCrcHighLoose(p, b) ==
  Outcome(IdleParser,
          IF p.crc % 256 = p.recv THEN "ok" ELSE "crc", -1)

(* Variant: a wrong CRC leaves the parser where it is.                      *)
InCrcHighStuck(p, b) ==
  IF p.crc = p.recv + 256 * b THEN Outcome(IdleParser, "ok", -1)
  ELSE Outcome(p, "crc", -1)

InCrcHigh(p, b) ==
  Outcome(IdleParser,
          IF p.crc = p.recv + 256 * b THEN "ok" ELSE "crc", -1)

Parse(p, b, cap) ==
  CASE p.state = "idle"     -> InIdle(p, b)
    [] p.state = "reserved" -> InReserved(p, b)
    [] p.state = "id"       -> InId(p, b)
    [] p.state \in {"length_l", "length_h"} -> InLength(p, b)
    [] p.state = "inst"     -> InInst(p, b, cap)
    [] p.state = "error"    -> InError(p, b)
    [] p.state = "param"    -> InParam(p, b)
    [] p.state = "crc_l"    -> InCrcLow(p, b)
    [] p.state = "crc_h"    -> InCrcHigh(p, b)
=============================================================================
