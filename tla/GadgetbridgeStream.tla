-------------------------- MODULE GadgetbridgeStream --------------------------
(***************************************************************************)
(* Gadgetbridge's receiver with the phones that talk to it: each sends     *)
(* messages DLE command body NL, one after the other, cut into packets     *)
(* wherever it likes, and the link may be lost between any two packets.    *)
(* The receiver is not told: state and recv_buf go on to the next phone.   *)
(***************************************************************************)
EXTENDS Gadgetbridge

CONSTANTS
  Bodies,      \* the bodies of messages
  PacketLens   \* the lengths a packet may have

ASSUME BodyAssumption == Bodies \subseteq Seq(Byte \ {DLE, NL})
ASSUME PacketLenAssumption == PacketLens \subseteq Nat \ {0}

VARIABLES
  msg,   \* the message being sent, <<>> if none
  sent,  \* how much of it has been sent
  cut    \* the first packet ended inside the command's name

streamVars == <<vars, msg, sent, cut>>

Messages == {<<DLE>> \o c \o b \o <<NL>> : c \in Commands, b \in Bodies}
Contents(m) == SubSeq(m, 2, Len(m) - 1)

StreamInit == Init /\ msg = <<>> /\ sent = 0 /\ cut = FALSE

StartMessage == /\ sent = Len(msg)
                /\ msg' \in Messages
                /\ sent' = 0
                /\ cut' = FALSE
                /\ parsed' = Nothing
                /\ UNCHANGED <<state, recv_buf, line>>

SendPacket(n) ==
  /\ sent + n <= Len(msg)
  /\ sent' = sent + n
  /\ LET p == SubSeq(msg, sent + 1, sent + n)
     IN /\ Consume(p)
        /\ cut' = IF sent = 0 THEN ~Known(Tail(p)) ELSE cut
  /\ UNCHANGED msg

LoseLink == /\ sent < Len(msg)
            /\ msg' = <<>>
            /\ sent' = 0
            /\ cut' = FALSE
            /\ parsed' = Nothing
            /\ UNCHANGED <<state, recv_buf, line>>

StreamNext == \/ StartMessage
              \/ \E n \in PacketLens : SendPacket(n)
              \/ LoseLink

StreamSpec == StreamInit /\ [][StreamNext]_streamVars

-----------------------------------------------------------------------------
Finished == msg # <<>> /\ sent = Len(msg)

(* A handler is given a message as the phone sent it, at the moment the    *)
(* phone has sent all of it: never a mixture of two messages, however many *)
(* links were lost in the middle of one (gadgetbridge.cpp:16-25, 39-94).   *)
OnlyWholeMessages ==
  parsed.handler # "none" => Finished /\ parsed.text = Contents(msg)

(* A message that fits the buffer, and whose first packet holds the whole  *)
(* name of its command, is handed over when its last packet arrives,       *)
(* whatever was received before it (gadgetbridge.cpp:58-61, 79-93).        *)
FittingMessagesArrive ==
  Finished /\ ~cut /\ Len(Contents(msg)) <= MAX_RECV_LEN
    => parsed = Parse(Contents(msg))
=============================================================================
