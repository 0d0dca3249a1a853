------------------------------ MODULE Dxl2Link -------------------------------
(***************************************************************************)
(* Reads of a servo in protocol 2.0: readControlTableItem() or             *)
(* Master::read() asks, rxStatusPacket() gives bytes to the parser until   *)
(* it returns or the time is up, and the next call begins with the parser  *)
(* and the unread bytes as the last one left them.  An answer comes in one *)
(* piece; it may lose a byte, be lost, or come or be read, all of it or the*)
(* rest, only after its call has given up.                                 *)
(***************************************************************************)
EXTENDS Dxl2Packet

CONSTANTS
  Id,                 (* the servo                                           *)
  Payloads,           (* what it may answer                                  *)
  Capacities,         (* of the buffers given to read()                      *)
  MaxCalls,           (* bounds: calls, answers that lose something, calls   *)
  MaxLosses,          (* that do not wait for their answer's end             *)
  MaxLate,
  Settled             (* calls after which the link has got over a loss      *)

ASSUME LinkAssumption ==
  /\ Id \in 0 .. 252 /\ Capacities \subseteq Nat
  /\ \A p \in Payloads :
       /\ p \in Seq(Byte) /\ \A c \in Capacities : Len(p) <= c
       /\ Len(Stuff(p)) + 4 < 65536      (* the length field has two bytes  *)
  /\ {MaxCalls, MaxLosses, MaxLate, Settled} \subseteq Nat

VARIABLES
  cap,                (* param_buf_capacity of the call                      *)
  waiting,            (* rxStatusPacket() is in its loop                     *)
  parser,             (* info_rx_packet_                                     *)
  wire,               (* answers that have not arrived                       *)
  rx,                 (* bytes not read                                      *)
  last,               (* the last call: what it returned and what its answer *)
                      (* said                                                *)
  due,                (* the payloads of answers not yet accepted or skipped *)
  calls, losses, late,
  since,              (* calls completed since the last loss                 *)
  stuffed,            (* an answer had stuffed bytes                         *)
  misfit,             (* and not at its end, or too many for the buffer      *)
  forged,             (* a call accepted what no servo sent                  *)
  cut,                (* a call gave up with some parameters of an answer    *)
                      (* stored and the rest unread                          *)
  checked,            (* the capacity that the length of the packet under    *)
                      (* way was held against                                *)
  stray               (* a byte was stored behind the buffer                 *)

past == <<calls, losses, late, stuffed, misfit, cut>>
vars == <<cap, waiting, parser, wire, rx, last, due, past, since, forged, checked,
          stray>>

Init ==
  /\ cap \in Capacities /\ waiting = FALSE
  /\ parser = IdleParser /\ wire = <<>> /\ rx = <<>> /\ due = <<>>
  /\ last = [ok |-> FALSE, value |-> <<>>, said |-> <<>>]
  /\ calls = 0 /\ losses = 0 /\ late = 0 /\ since = 0
  /\ stuffed = FALSE /\ misfit = FALSE /\ forged = FALSE
  /\ cut = FALSE /\ checked = 0 /\ stray = FALSE

(* What is left of an answer: all, all but a byte, nothing.                 *)
Left(bytes) == {<<>>} \cup {RemoveAt(bytes, i) : i \in DOMAIN bytes}

(* txInstPacket() and begin_parse_dxl_packet(), which gives the parser the  *)
(* new buffer, all 0, and leaves its state alone.                           *)
Ask(payload, c) ==
  /\ ~waiting /\ calls < MaxCalls
  /\ waiting' = TRUE /\ cap' = c
  /\ parser' = [parser EXCEPT !.got = [i \in DOMAIN @ |-> 0]]
  /\ due' = Append(due, payload)
  /\ last' = [last EXCEPT !.said = payload]
  /\ calls' = calls + 1
  /\ stuffed' = (stuffed \/ Stuff(payload) # payload)
  /\ misfit' = (misfit \/ StuffedInside(payload) \/ Len(Stuff(payload)) > c)
  /\ \/ /\ wire' = Append(wire, Status(Id, payload))
        /\ UNCHANGED <<losses, since>>
     \/ /\ losses < MaxLosses /\ losses' = losses + 1 /\ since' = 0
        /\ \E some \in Left(Status(Id, payload)) : wire' = Append(wire, some)
  /\ UNCHANGED <<rx, late, forged, cut, checked, stray>>

Arrive ==
  /\ wire # <<>>
  /\ rx' = rx \o Head(wire) /\ wire' = Tail(wire)
  /\ UNCHANGED <<cap, waiting, parser, last, due, past, since, forged, checked,
                 stray>>

Return(ok, value) ==
  /\ waiting' = FALSE
  /\ last' = [last EXCEPT !.ok = ok, !.value = value]
  /\ since' = IF since < Settled THEN since + 1 ELSE since

(* The first answer that says this is accepted, and the ones before it are  *)
(* skipped.                                                                 *)
Account(value) ==
  LET same == {i \in DOMAIN due : due[i] = value}
      first == CHOOSE i \in same : \A j \in same : i <= j
  IN IF same = {} THEN forged' = TRUE /\ due' = due
     ELSE due' = SubSeq(due, first + 1, Len(due)) /\ forged' = forged

(* One turn of the loop of rxStatusPacket(); only a status packet ends it   *)
(* well.                                                                    *)
Receive ==
  /\ waiting /\ rx # <<>>
  /\ rx' = Tail(rx)
  /\ LET out == Parse(parser, Head(rx), cap) IN
     /\ parser' = out.parser
     /\ checked' = IF parser.state = "inst" THEN cap ELSE checked
     /\ stray' = (stray \/ out.at >= cap)
     /\ \/ /\ \/ out.ret = "proceeding"
              \/ out.ret = "ok" /\ parser.inst # STATUS
           /\ UNCHANGED <<waiting, last, since, due, forged>>
        \/ /\ out.ret = "ok" /\ parser.inst = STATUS
           /\ Return(TRUE, parser.got) /\ Account(parser.got)
        \/ /\ out.ret \notin {"proceeding", "ok"}
           /\ Return(FALSE, <<>>)
           /\ UNCHANGED <<due, forged>>
  /\ UNCHANGED <<cap, wire, past>>

(* The time is up, which is tested behind every byte and when there is      *)
(* none: with nothing to come, or before the end of what is to come.        *)
TimesOut ==
  /\ waiting
  /\ \/ wire = <<>> /\ rx = <<>> /\ late' = late
     \/ (wire # <<>> \/ rx # <<>>) /\ late < MaxLate /\ late' = late + 1
  /\ cut' = (cut \/ (rx # <<>> /\ parser.got # <<>>))
  /\ Return(FALSE, <<>>)
  /\ UNCHANGED <<cap, parser, wire, rx, due, calls, losses, stuffed, misfit,
                 forged, checked, stray>>

Next ==
  \/ \E p \in Payloads, c \in Capacities : Ask(p, c)
  \/ Arrive \/ Receive \/ TimesOut

Spec == Init /\ [][Next]_vars
----------------------------------------------------------------------------
(* Every variable keeps its type, and the parser collects parameters only   *)
(* as long as the length of the packet has room for one.                    *)
TypeOK ==
  /\ cap \in Capacities
  /\ {waiting, stuffed, misfit, forged, cut, stray, last.ok} \subseteq BOOLEAN
  /\ parser.state \in States /\ parser.ffs \in 0 .. 2
  /\ parser.state = "param" => Len(parser.got) + Frame(parser) < parser.len
  /\ checked \in {0} \cup Capacities
  /\ parser.got \in Seq(Byte) /\ parser.crc \in Word
  /\ rx \in Seq(Byte) /\ last.value \in Seq(Byte)
  /\ calls \in 0 .. MaxCalls /\ losses \in 0 .. MaxLosses /\ late \in 0 .. MaxLate

Truthful == last.value = last.said

(* With answers that are whole and in time, and stuffed at most at the end  *)
(* of a buffer with room for it, every call returns what the servo said.    *)
InStep ==
  losses + late = 0 /\ ~misfit /\ calls > 0 /\ ~waiting => last.ok /\ Truthful

(* Whatever is lost, late or stuffed, what a call accepts is what the servo *)
(* said to it or to a call before it, each answer once and in their order,  *)
(* unless a call has given up between the parameters of an answer, which    *)
(* the buffer of the next call then lacks.                                  *)
Genuine == ~cut => ~forged

(* A parameter byte is stored behind the buffer of its call only if the     *)
(* packet began under a call with a larger buffer: as long as the parser is *)
(* between packets when a call begins, or all buffers are alike, the check  *)
(* of the length keeps it inside, whatever bytes come and however often it  *)
(* loses count of the stuffed ones.                                         *)
WithinBuffer == [][stray' /\ ~stray => cap < checked]_vars

(* After a loss Settled calls get the link back in step, as long as no      *)
(* answer is late or stuffed.                                               *)
BackInStep ==
  late = 0 /\ ~stuffed /\ since >= Settled /\ ~waiting => last.ok /\ Truthful

(* "It returns the data read from DXL control table item. [...] Whether or  *)
(* not this is an actual value can be confirmed with @getLastLibErrCode()": *)
(* a read that ended well returns what the servo has said.                  *)
ActualValue == ~forged
=============================================================================
