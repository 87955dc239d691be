---------------------------- MODULE Gadgetbridge ----------------------------
(***************************************************************************)
(* ble/services/gadgetbridge.cpp: messages put together from the packets   *)
(* of the Nordic UART Service.  A message is a line: DLE, a command and a  *)
(* newline, in as many packets as the sender's MTU asks for.  The receiver *)
(* looks at the first and the last byte of a packet only.                  *)
(*                                                                         *)
(* A packet is one callback on the work queue, so consume is one step.  A  *)
(* byte is a model value; a command name is a short sequence of bytes, so  *)
(* that a packet boundary can fall inside it.                              *)
(***************************************************************************)
EXTENDS Naturals, Sequences, SequencesExt

CONSTANTS
  Byte,         \* the bytes there are, DLE and NL among them
  DLE, NL,
  GB, SetTime,  \* "GB(" and "setTime("
  Packets,      \* the packets that may arrive
  MAX_RECV_LEN

Commands == {GB, SetTime}

ASSUME ByteAssumption == DLE \in Byte /\ NL \in Byte /\ DLE # NL
ASSUME CommandAssumption ==
         Commands \subseteq Seq(Byte \ {DLE, NL}) /\ <<>> \notin Commands
ASSUME PacketAssumption == Packets \subseteq Seq(Byte)
ASSUME LenAssumption == MAX_RECV_LEN \in Nat

VARIABLES
  state,     \* "None", "Consume"; "Done" only inside consume
  recv_buf,  \* recv_buf[0 .. recv_pos)
  parsed,    \* what this packet made consume hand to parse, Nothing if nothing
  line       \* history: the bytes since the last packet that began with DLE

vars == <<state, recv_buf, parsed, line>>

Nothing == [handler |-> "none", text |-> <<>>]

TypeOK == /\ state \in {"None", "Consume"}
          /\ recv_buf \in Seq(Byte)
          /\ parsed \in [handler : {"none", "gb_parse", "st_parse"},
                         text : Seq(Byte)]
          /\ line \in Seq(Byte)

Init == /\ state = "None"
        /\ recv_buf = <<>>
        /\ parsed = Nothing
        /\ line = <<>>

-----------------------------------------------------------------------------
StartsWith(sv, command) == IsPrefix(command, sv)
Known(sv) == StartsWith(sv, GB) \/ StartsWith(sv, SetTime)

(* parse: the command picks the handler, anything else is dropped.         *)
Parse(text) ==
  [handler |-> IF StartsWith(text, GB) THEN "gb_parse"
               ELSE IF StartsWith(text, SetTime) THEN "st_parse" ELSE "none",
   text |-> text]

(* What a packet adds to a line.  back() of the empty rest of a packet     *)
(* that was only DLE reads the DLE before it: not a newline.               *)
IsLast(sv) == sv # <<>> /\ sv[Len(sv)] = NL
Body(sv) == IF IsLast(sv) THEN SubSeq(sv, 1, Len(sv) - 1) ELSE sv

(* Variant: the length is compared without the packet at hand.             *)
FitsBefore(buf, sv) == Len(buf) <= MAX_RECV_LEN
(* Variant: the buffer is taken to be one byte shorter.                    *)
FitsStrictly(buf, sv) == Len(buf) + Len(Body(sv)) < MAX_RECV_LEN
Fits(buf, sv) == Len(buf) + Len(Body(sv)) <= MAX_RECV_LEN

(* A packet that starts with DLE empties the buffer and, if it names a     *)
(* command, opens a line; if not, an open line stays open.  Variants: the  *)
(* buffer keeps its bytes; an unknown command opens a line too.            *)
OldBuffer(p) == recv_buf
Buffer(p) == IF Head(p) = DLE THEN <<>> ELSE recv_buf
Rest(p) == IF Head(p) = DLE THEN Tail(p) ELSE p
Open(p) == state = "Consume" \/ (Head(p) = DLE /\ Known(Rest(p)))

(* switch (state): Consume                                                 *)
Collect(p) ==
  /\ Open(p)
  /\ IF Fits(Buffer(p), Rest(p))
     THEN /\ recv_buf' = Buffer(p) \o Body(Rest(p))
          /\ state' = IF IsLast(Rest(p)) THEN "None" ELSE "Consume"
          /\ parsed' = IF IsLast(Rest(p)) THEN Parse(recv_buf') ELSE Nothing
     ELSE /\ recv_buf' = Buffer(p)
          /\ state' = "None"
          /\ parsed' = Nothing

(* switch (state): default                                                 *)
Discard(p) ==
  /\ ~Open(p)
  /\ recv_buf' = Buffer(p)
  /\ parsed' = Nothing
  /\ UNCHANGED state

Consume(p) ==
  IF p = <<>>
  THEN /\ parsed' = Nothing
       /\ UNCHANGED <<state, recv_buf, line>>
  ELSE /\ Collect(p) \/ Discard(p)
       /\ line' = (IF Head(p) = DLE THEN <<>> ELSE line) \o Rest(p)

Next == \E p \in Packets : Consume(p)

Spec == Init /\ [][Next]_vars

-----------------------------------------------------------------------------
(* What is in the buffer always fits it (gadgetbridge.cpp:79-86), and an   *)
(* open line's buffer is exactly the bytes received since its DLE, with    *)
(* nothing of the line before (gadgetbridge.cpp:56-57).                    *)
BufferFits == Len(recv_buf) <= MAX_RECV_LEN
BufferIsLine == state = "Consume" => recv_buf = line

GbInv == TypeOK /\ BufferFits /\ BufferIsLine

(* A handler is given a whole line: it began with DLE, ended with the      *)
(* newline that is no longer there, and is no longer than the buffer       *)
(* (gadgetbridge.cpp:27-37, 89-93).                                        *)
ParsedIsLine == parsed.handler # "none"
                  => /\ line = parsed.text \o <<NL>>
                     /\ Len(parsed.text) <= MAX_RECV_LEN
=============================================================================
