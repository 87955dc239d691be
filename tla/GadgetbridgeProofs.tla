------------------------- MODULE GadgetbridgeProofs -------------------------
(***************************************************************************)
(* Proofs about the receiver.  For any packets, any commands and any       *)
(* buffer length: the buffer never overflows, an open line is what was     *)
(* received since its DLE, and a handler is given a whole line.  Behind    *)
(* phones that send whole messages: no two are mixed, and those that fit   *)
(* arrive.                                                                 *)
(***************************************************************************)
EXTENDS GadgetbridgeStream, SequenceTheorems, TLAPS

(* What Body leaves of a packet (gadgetbridge.cpp:74-78): all of it but    *)
(* the newline at its end.                                                 *)
LEMMA BodyFacts ==
  ASSUME NEW bytes \in Seq(Byte)
  PROVE  /\ Body(bytes) \in Seq(Byte)
         /\ IsLast(bytes) => bytes = Body(bytes) \o <<NL>>
         /\ ~IsLast(bytes) => bytes = Body(bytes)
<1>1. CASE ~IsLast(bytes)
  BY <1>1 DEF Body
<1>2. CASE IsLast(bytes)
  <2>1. bytes # <<>> /\ bytes[Len(bytes)] = NL /\ Len(bytes) \in Nat /\ Len(bytes) > 0
    BY <1>2 DEF IsLast
  <2>2. Body(bytes) = SubSeq(bytes, 1, Len(bytes) - 1)
    BY <1>2 DEF Body
  <2>3. Body(bytes) \in Seq(Byte)
    BY <2>1, <2>2
  <2>4. 1 \in 1..Len(bytes) /\ Len(bytes) \in 1..Len(bytes)
    BY <2>1
  <2>5. SubSeq(bytes, 1, Len(bytes)) = SubSeq(bytes, 1, Len(bytes) - 1) \o <<bytes[Len(bytes)]>>
    BY <2>4, SubSeqRecursiveSecond
  <2>6. SubSeq(bytes, 1, Len(bytes)) = bytes
    BY SubSeqFull
  <2>7. bytes = Body(bytes) \o <<NL>>
    BY <2>1, <2>2, <2>5, <2>6
  <2> QED BY <1>2, <2>3, <2>7
<1> QED BY <1>1, <1>2

(* The buffer and the rest of a packet are sequences of bytes again        *)
(* (gadgetbridge.cpp:49-57).                                               *)
LEMMA PacketFacts ==
  ASSUME TypeOK, NEW p \in Seq(Byte), p # <<>>
  PROVE  /\ Rest(p) \in Seq(Byte)
         /\ Buffer(p) \in Seq(Byte)
         /\ BufferFits => Len(Buffer(p)) <= MAX_RECV_LEN
<1>1. Tail(p) \in Seq(Byte)
  OBVIOUS
<1>2. <<>> \in Seq(Byte) /\ Len(<<>>) = 0
  OBVIOUS
<1> QED BY <1>1, <1>2, LenAssumption DEF Rest, Buffer, TypeOK, BufferFits

(* A handler's argument is typed (gadgetbridge.cpp:27-37).                 *)
LEMMA ParseType ==
  ASSUME NEW text \in Seq(Byte)
  PROVE  /\ Parse(text) \in [handler : {"none", "gb_parse", "st_parse"},
                             text : Seq(Byte)]
         /\ Parse(text).text = text
  BY DEF Parse

LEMMA NothingType ==
  /\ Nothing \in [handler : {"none", "gb_parse", "st_parse"}, text : Seq(Byte)]
  /\ Nothing.handler = "none"
  BY DEF Nothing

(* The globals of gadgetbridge.cpp start as an empty buffer.               *)
LEMMA InitInv == Init => GbInv /\ ParsedIsLine
<1> SUFFICES ASSUME Init PROVE GbInv /\ ParsedIsLine
  OBVIOUS
<1>1. <<>> \in Seq(Byte) /\ Len(<<>>) = 0
  OBVIOUS
<1> QED BY <1>1, NothingType, LenAssumption
        DEF Init, GbInv, TypeOK, BufferFits, BufferIsLine, ParsedIsLine

(* The bytes of a packet, put after those of an open line, are the line    *)
(* (gadgetbridge.cpp:74-93).                                               *)
LEMMA CollectInv ==
  ASSUME GbInv, NEW p \in Seq(Byte), p # <<>>, Collect(p),
         line' = (IF Head(p) = DLE THEN <<>> ELSE line) \o Rest(p)
  PROVE  GbInv' /\ ParsedIsLine'
<1> DEFINE old == IF Head(p) = DLE THEN <<>> ELSE line
<1>1. TypeOK /\ BufferFits /\ BufferIsLine
  BY DEF GbInv
<1>2. /\ Rest(p) \in Seq(Byte)
      /\ Buffer(p) \in Seq(Byte)
      /\ Len(Buffer(p)) <= MAX_RECV_LEN
  BY <1>1, PacketFacts
<1>3. old \in Seq(Byte)
  BY <1>1 DEF TypeOK
<1>4. old = Buffer(p)
  <2>1. CASE Head(p) = DLE
    BY <2>1 DEF Buffer
  <2>2. CASE Head(p) # DLE
    BY <1>1, <2>2 DEF Buffer, Open, Collect, BufferIsLine
  <2> QED BY <2>1, <2>2
<1>5. line' = Buffer(p) \o Rest(p)
  BY <1>4
<1> HIDE DEF old
<1>typed. line' \in Seq(Byte)
  BY <1>2, <1>5, ConcatProperties
<1>6. /\ Body(Rest(p)) \in Seq(Byte)
      /\ IsLast(Rest(p)) => Rest(p) = Body(Rest(p)) \o <<NL>>
      /\ ~IsLast(Rest(p)) => Rest(p) = Body(Rest(p))
  BY <1>2, BodyFacts
<1>7. CASE ~Fits(Buffer(p), Rest(p))
  <2>1. recv_buf' = Buffer(p) /\ state' = "None" /\ parsed' = Nothing
    BY <1>7 DEF Collect
  <2> QED BY <1>2, <1>typed, <2>1, NothingType
          DEF GbInv, TypeOK, BufferFits, BufferIsLine, ParsedIsLine
<1>8. CASE Fits(Buffer(p), Rest(p))
  <2>1. /\ recv_buf' = Buffer(p) \o Body(Rest(p))
        /\ state' = (IF IsLast(Rest(p)) THEN "None" ELSE "Consume")
        /\ parsed' = (IF IsLast(Rest(p)) THEN Parse(recv_buf') ELSE Nothing)
    BY <1>8 DEF Collect
  <2>2. recv_buf' \in Seq(Byte) /\ Len(recv_buf') <= MAX_RECV_LEN
    BY <1>2, <1>6, <1>8, <2>1 DEF Fits
  <2>3. CASE ~IsLast(Rest(p))
    BY <1>5, <1>6, <1>typed, <2>1, <2>2, <2>3, NothingType
       DEF GbInv, TypeOK, BufferFits, BufferIsLine, ParsedIsLine
  <2>4. CASE IsLast(Rest(p))
    <3>1. /\ parsed' \in [handler : {"none", "gb_parse", "st_parse"},
                          text : Seq(Byte)]
          /\ parsed'.text = recv_buf'
      BY <2>1, <2>2, <2>4, ParseType
    <3>2. <<NL>> \in Seq(Byte)
      BY ByteAssumption
    <3>3. line' = Buffer(p) \o (Body(Rest(p)) \o <<NL>>)
      BY <1>5, <1>6, <2>4
    <3>assoc. Buffer(p) \o (Body(Rest(p)) \o <<NL>>)
            = (Buffer(p) \o Body(Rest(p))) \o <<NL>>
      BY <1>2, <1>6, <3>2, ConcatAssociative, SMTT(30)
    <3>4. line' = recv_buf' \o <<NL>>
      BY <2>1, <3>3, <3>assoc
    <3> QED BY <1>typed, <2>1, <2>2, <2>4, <3>1, <3>4
            DEF GbInv, TypeOK, BufferFits, BufferIsLine, ParsedIsLine
  <2> QED BY <2>3, <2>4
<1> QED BY <1>7, <1>8

(* A packet that belongs to no line changes nothing but the buffer it      *)
(* empties (gadgetbridge.cpp:56-57, 70-72).                                *)
LEMMA DiscardInv ==
  ASSUME GbInv, NEW p \in Seq(Byte), p # <<>>, Discard(p),
         line' = (IF Head(p) = DLE THEN <<>> ELSE line) \o Rest(p)
  PROVE  GbInv' /\ ParsedIsLine'
<1>1. TypeOK /\ BufferFits
  BY DEF GbInv
<1>2. /\ Rest(p) \in Seq(Byte)
      /\ Buffer(p) \in Seq(Byte)
      /\ Len(Buffer(p)) <= MAX_RECV_LEN
  BY <1>1, PacketFacts
<1>3. line' \in Seq(Byte)
  BY <1>1, <1>2 DEF TypeOK
<1>4. state' = "None"
  BY <1>1 DEF Discard, Open, TypeOK
<1> QED BY <1>2, <1>3, <1>4, NothingType
        DEF Discard, GbInv, TypeOK, BufferFits, BufferIsLine, ParsedIsLine

(* Every packet preserves the invariant (gadgetbridge.cpp:39-94).          *)
LEMMA NextInv == GbInv /\ ParsedIsLine /\ [Next]_vars => GbInv' /\ ParsedIsLine'
<1> SUFFICES ASSUME GbInv, ParsedIsLine, [Next]_vars
             PROVE  GbInv' /\ ParsedIsLine'
  OBVIOUS
<1>1. CASE UNCHANGED vars
  BY <1>1 DEF vars, GbInv, TypeOK, BufferFits, BufferIsLine, ParsedIsLine
<1>2. ASSUME NEW p \in Packets, Consume(p)
      PROVE  GbInv' /\ ParsedIsLine'
  <2>1. p \in Seq(Byte)
    BY PacketAssumption
  <2>2. CASE p = <<>>
    BY <1>2, <2>2, NothingType
       DEF Consume, GbInv, TypeOK, BufferFits, BufferIsLine, ParsedIsLine
  <2>3. CASE p # <<>>
    BY <1>2, <2>1, <2>3, CollectInv, DiscardInv DEF Consume
  <2> QED BY <2>2, <2>3
<1> QED BY <1>1, <1>2 DEF Next

(* What a run checks of a three byte buffer holds of every buffer: it      *)
(* never overflows, and an open line is what was received since its DLE.   *)
THEOREM LineInvariant == Spec => []GbInv
<1>1. Spec => [](GbInv /\ ParsedIsLine)
  BY InitInv, NextInv, PTL DEF Spec
<1> QED BY <1>1, PTL

(* A handler is given a whole line, whatever the packets were.             *)
THEOREM HandlersGetLines == Spec => []ParsedIsLine
<1>1. Spec => [](GbInv /\ ParsedIsLine)
  BY InitInv, NextInv, PTL DEF Spec
<1> QED BY <1>1, PTL

-----------------------------------------------------------------------------
(* GadgetbridgeStream, for any bodies without DLE and newline, any command *)
(* names and any packet lengths.                                           *)

(* What a phone sends begins with its only DLE and ends with its only      *)
(* newline, and names a command in between (gadgetbridge.cpp:49-60, 74).   *)
LEMMA MessageFacts ==
  ASSUME NEW m \in Messages
  PROVE  /\ m \in Seq(Byte)
         /\ Len(m) \in Nat /\ Len(m) >= 3
         /\ m[1] = DLE /\ m[Len(m)] = NL
         /\ \A i \in 2..(Len(m) - 1) : m[i] # DLE /\ m[i] # NL
<1>1. PICK c \in Commands, b \in Bodies : m = <<DLE>> \o c \o b \o <<NL>>
  BY DEF Messages
<1> DEFINE Inner == Byte \ {DLE, NL}
<1>2. c \in Seq(Inner) /\ b \in Seq(Inner) /\ c # <<>>
  BY CommandAssumption, BodyAssumption
<1>3. Len(c) \in Nat /\ Len(c) > 0 /\ Len(b) \in Nat
  BY <1>2
<1>4. c \o b \in Seq(Inner) /\ Len(c \o b) = Len(c) + Len(b)
  BY <1>2, ConcatProperties
<1> DEFINE inner == c \o b
<1>5. inner \in Seq(Byte)
  BY <1>4, SeqMonotonic
<1>6. <<DLE>> \in Seq(Byte) /\ <<NL>> \in Seq(Byte)
  BY ByteAssumption
<1>7. m = (<<DLE>> \o inner) \o <<NL>>
  <2>1. c \in Seq(Byte) /\ b \in Seq(Byte)
    BY <1>2, SeqMonotonic
  <2>2. (<<DLE>> \o c) \o b = <<DLE>> \o (c \o b)
    BY <1>6, <2>1, ConcatAssociative
  <2> QED BY <1>1, <2>2
<1>8. \A i \in 1..Len(inner) : inner[i] \in Inner
  BY <1>4, ElementOfSeq
<1>9. Len(inner) \in Nat /\ Len(inner) > 0
  BY <1>3, <1>4
<1> HIDE DEF inner, Inner
<1>10. Len(m) = Len(inner) + 2
  BY <1>5, <1>6, <1>7, <1>9
<1>11. m[1] = DLE /\ m[Len(m)] = NL
  BY <1>5, <1>6, <1>7, <1>9, <1>10
<1>12. ASSUME NEW i \in 2..(Len(m) - 1) PROVE m[i] # DLE /\ m[i] # NL
  <2>1. i - 1 \in 1..Len(inner)
    BY <1>9, <1>10
  <2>2. m[i] = inner[i - 1]
    BY <1>5, <1>6, <1>7, <1>9, <1>10, <2>1
  <2> QED BY <1>8, <2>1, <2>2 DEF Inner
<1> QED BY <1>5, <1>6, <1>7, <1>9, <1>10, <1>11, <1>12

(* A segment of a sequence, empty if it ends just before it begins.        *)
LEMMA Segment ==
  ASSUME NEW S, NEW q \in Seq(S), NEW a \in Nat, NEW z \in Nat,
         1 <= a, a <= z + 1, z <= Len(q)
  PROVE  /\ SubSeq(q, a, z) \in Seq(S)
         /\ Len(SubSeq(q, a, z)) = z + 1 - a
         /\ \A i \in 1..(z + 1 - a) : SubSeq(q, a, z)[i] = q[a + i - 1]
<1>1. \A i \in a..z : q[i] \in S
  BY ElementOfSeq
<1> QED BY <1>1, SubSeqProperties

(* The same without the first element.                                     *)
LEMMA FromSecond ==
  ASSUME NEW S, NEW q \in Seq(S), NEW z \in Nat, 1 <= z, z <= Len(q)
  PROVE  SubSeq(q, 2, z) \in Seq(S) /\ Len(SubSeq(q, 2, z)) = z - 1
<1> DEFINE a == 2
<1>1. a \in Nat /\ 1 <= a /\ a <= z + 1 /\ z + 1 - a = z - 1
  OBVIOUS
<1> HIDE DEF a
<1>2. SubSeq(q, a, z) \in Seq(S) /\ Len(SubSeq(q, a, z)) = z + 1 - a
  BY <1>1, Segment
<1> QED BY <1>1, <1>2 DEF a

(* The next n bytes of a message of which s were sent.                     *)
PacketOf(m, s, n) == SubSeq(m, s + 1, s + n)

(* One packet of a message: it begins with DLE if it is the first, and     *)
(* ends with a newline if it is the last (gadgetbridge.cpp:49-57, 74-78).  *)
LEMMA PacketOfMessage ==
  ASSUME NEW m \in Messages, NEW s \in Nat, NEW n \in Nat \ {0}, s + n <= Len(m),
         NEW p, p = PacketOf(m, s, n)
  PROVE  /\ p \in Seq(Byte) /\ p # <<>>
         /\ (Head(p) = DLE) <=> (s = 0)
         /\ Rest(p) = SubSeq(m, IF s = 0 THEN 2 ELSE s + 1, s + n)
         /\ IsLast(Rest(p)) <=> s + n = Len(m)
         /\ Body(Rest(p)) = SubSeq(m, IF s = 0 THEN 2 ELSE s + 1,
                                   IF s + n = Len(m) THEN Len(m) - 1 ELSE s + n)
<1> DEFINE first == IF s = 0 THEN 2 ELSE s + 1
<1>1. /\ m \in Seq(Byte) /\ Len(m) \in Nat /\ Len(m) >= 3
      /\ m[1] = DLE /\ m[Len(m)] = NL
      /\ \A i \in 2..(Len(m) - 1) : m[i] # DLE /\ m[i] # NL
  BY MessageFacts
<1>2. p \in Seq(Byte) /\ Len(p) = n /\ \A i \in 1..n : p[i] = m[s + i]
  BY <1>1, SubSeqProperties DEF PacketOf
<1>3. p # <<>> /\ Head(p) = m[s + 1]
  BY <1>2
<1>4. (Head(p) = DLE) <=> (s = 0)
  <2>1. CASE s = 0
    BY <1>1, <1>3, <2>1
  <2>2. CASE s # 0
    <3>1. s + 1 \in 2..Len(m)
      BY <1>1, <2>2
    <3>2. m[s + 1] # DLE
      BY <1>1, <3>1, ByteAssumption
    <3> QED BY <1>3, <2>2, <3>2
  <2> QED BY <2>1, <2>2
<1>5. Rest(p) = SubSeq(m, first, s + n)
  <2>1. CASE s = 0
    <3>1. Rest(p) = Tail(p) /\ s + n = n
      BY <1>4, <2>1 DEF Rest
    <3>2. Tail(p) \in Seq(Byte) /\ Len(Tail(p)) = n - 1 /\ \A i \in 1..(n - 1) : Tail(p)[i] = m[i + 1]
      BY <1>2, <1>3, <2>1
    <3>3. SubSeq(m, 2, n) \in Seq(Byte) /\ Len(SubSeq(m, 2, n)) = n - 1 /\ \A i \in 1..(n - 1) : SubSeq(m, 2, n)[i] = m[i + 1]
      BY <1>1, <2>1
    <3>4. Tail(p) = SubSeq(m, 2, n)
      BY <3>2, <3>3, SeqEqual
    <3>5. first = 2
      BY <2>1
    <3> QED BY <3>1, <3>4, <3>5
  <2>2. CASE s # 0
    <3>1. first = s + 1 /\ Rest(p) = p
      BY <1>4, <2>2 DEF Rest
    <3> QED BY <3>1 DEF PacketOf
  <2> QED BY <2>1, <2>2
<1>6. first \in Nat /\ first >= 2 /\ first <= s + n + 1 /\ s + n \in 1..Len(m)
  BY <1>1
<1> HIDE DEF first
<1>7. /\ Rest(p) \in Seq(Byte)
      /\ Len(Rest(p)) = s + n + 1 - first
      /\ \A i \in 1..Len(Rest(p)) : Rest(p)[i] = m[first + i - 1]
  <2>1. first - 1 \in Nat /\ s + n \in Nat /\ s + n <= Len(m) /\ 1 <= first
    BY <1>6, <1>1
  <2> DEFINE r == SubSeq(m, first, s + n)
  <2>2. r \in Seq(Byte) /\ Len(r) = s + n + 1 - first /\ \A i \in 1..(s + n + 1 - first) : r[i] = m[first + i - 1]
    BY <1>1, <1>6, <2>1, Segment
  <2> HIDE DEF r
  <2>3. Rest(p) = r
    BY <1>5 DEF r
  <2> QED BY <2>2, <2>3
<1>8. IsLast(Rest(p)) <=> s + n = Len(m)
  <2>1. CASE Rest(p) = <<>>
    <3>1. first = s + n + 1
      BY <1>6, <1>7, <2>1
    <3>2. s + n < Len(m)
      BY <1>1, <3>1 DEF first
    <3> QED BY <2>1, <3>2 DEF IsLast
  <2>2. CASE Rest(p) # <<>>
    <3>1. Rest(p)[Len(Rest(p))] = m[s + n] /\ s + n >= first
      <4>1. Len(Rest(p)) \in 1..Len(Rest(p)) /\ s + n >= first
        BY <1>6, <1>7, <2>2
      <4>2. first + (s + n + 1 - first) - 1 = s + n
        BY <1>6
      <4> QED BY <1>7, <4>1, <4>2
    <3>2. (m[s + n] = NL) <=> (s + n = Len(m))
      BY <1>1, <1>6, <3>1
    <3> QED BY <2>2, <3>1, <3>2 DEF IsLast
  <2> QED BY <2>1, <2>2
<1>9. Body(Rest(p)) = SubSeq(m, first, IF s + n = Len(m) THEN Len(m) - 1 ELSE s + n)
  <2>1. CASE s + n # Len(m)
    BY <1>5, <1>8, <2>1 DEF Body
  <2>2. CASE s + n = Len(m)
    <3>1. Body(Rest(p)) = SubSeq(Rest(p), 1, Len(Rest(p)) - 1)
      BY <1>8, <2>2 DEF Body
    <3>2. Len(Rest(p)) >= 1
      BY <1>7, <1>8, <2>2 DEF IsLast
    <3>3. /\ Body(Rest(p)) \in Seq(Byte)
          /\ Len(Body(Rest(p))) = Len(Rest(p)) - 1
          /\ \A i \in 1..(Len(Rest(p)) - 1) : Body(Rest(p))[i] = Rest(p)[i]
      <4>1. Body(Rest(p)) \in Seq(Byte) /\ Rest(p) = Body(Rest(p)) \o <<NL>>
        BY <1>7, <1>8, <2>2, BodyFacts
      <4> DEFINE r == Body(Rest(p))
      <4>2. r \in Seq(Byte) /\ <<NL>> \in Seq(Byte) /\ Len(<<NL>>) = 1 /\ Len(r) \in Nat
        BY <4>1, ByteAssumption
      <4> HIDE DEF r
      <4>3. Len(r \o <<NL>>) = Len(r) + 1 /\ \A i \in 1..Len(r) : (r \o <<NL>>)[i] = r[i]
        BY <4>2, ConcatProperties
      <4> QED BY <4>1, <4>2, <4>3 DEF r
    <3> DEFINE r == SubSeq(m, first, Len(m) - 1)
    <3>4. /\ r \in Seq(Byte) /\ Len(r) = Len(Rest(p)) - 1
          /\ \A i \in 1..(Len(Rest(p)) - 1) : r[i] = m[first + i - 1]
      <4>1. Len(m) - 1 \in Nat /\ first <= Len(m) /\ 1 <= first
        BY <1>1, <1>6, <1>7, <2>2, <3>2
      <4>2. Len(m) - 1 + 1 - first = Len(Rest(p)) - 1
        BY <1>1, <1>6, <1>7, <2>2
      <4>3. /\ r \in Seq(Byte) /\ Len(r) = Len(m) - 1 + 1 - first
            /\ \A i \in 1..(Len(m) - 1 + 1 - first) : r[i] = m[first + i - 1]
        BY <1>1, <1>6, <4>1, Segment
      <4> QED BY <4>2, <4>3
    <3> HIDE DEF r
    <3>5. \A i \in 1..(Len(Rest(p)) - 1) : Body(Rest(p))[i] = r[i]
      <4>1. \A i \in 1..(Len(Rest(p)) - 1) : i \in 1..Len(Rest(p))
        BY <1>6, <1>7, <3>2
      <4> QED BY <1>7, <3>3, <3>4, <4>1
    <3>6. Body(Rest(p)) = r
      BY <3>3, <3>4, <3>5, SeqEqual
    <3> QED BY <2>2, <3>6 DEF r
  <2> QED BY <2>1, <2>2
<1> QED BY <1>2, <1>3, <1>4, <1>5, <1>8, <1>9 DEF first

(* What a phone has sent of a message, and what the receiver makes of it:  *)
(* a line that was open before the message began is not followed up, one   *)
(* that is open in the middle of it holds what was sent since its DLE, and *)
(* one that still fits is open (gadgetbridge.cpp:56-66, 79-93).            *)
MessageUnderway == \/ msg = <<>> /\ sent = 0
                   \/ msg \in Messages /\ sent \in 0..Len(msg)
OpenIsOwn == sent > 0 /\ state = "Consume" =>
               sent < Len(msg) /\ recv_buf = SubSeq(msg, 2, sent)
FittingIsOpen == 0 < sent /\ sent < Len(msg) /\ ~cut /\ Len(Contents(msg)) <= MAX_RECV_LEN
                   => state = "Consume"
StreamInv == /\ MessageUnderway
             /\ sent = 0 => parsed = Nothing
             /\ OpenIsOwn
             /\ FittingIsOpen
             /\ OnlyWholeMessages
             /\ FittingMessagesArrive

(* A packet is put where the message before it ended                       *)
(* (gadgetbridge.cpp:56-57, 79-86).                                        *)
LEMMA PacketGoesOn ==
  ASSUME MessageUnderway, OpenIsOwn, NEW n \in Nat \ {0}, sent + n <= Len(msg),
         NEW p, p = PacketOf(msg, sent, n), Open(p),
         NEW last, last = (IF sent + n = Len(msg) THEN Len(msg) - 1 ELSE sent + n)
  PROVE  /\ Buffer(p) \in Seq(Byte) /\ Body(Rest(p)) \in Seq(Byte)
         /\ Buffer(p) \o Body(Rest(p)) = SubSeq(msg, 2, last)
         /\ Len(Buffer(p)) + Len(Body(Rest(p))) = last - 1
<1>1. msg \in Messages /\ sent \in Nat
  BY DEF MessageUnderway
<1>2. msg \in Seq(Byte) /\ Len(msg) \in Nat /\ Len(msg) >= 3
  BY <1>1, MessageFacts
<1>3. /\ (Head(p) = DLE) <=> (sent = 0)
      /\ Body(Rest(p)) = SubSeq(msg, IF sent = 0 THEN 2 ELSE sent + 1, last)
  <2>1. /\ (Head(p) = DLE) <=> (sent = 0)
        /\ Body(Rest(p)) = SubSeq(msg, IF sent = 0 THEN 2 ELSE sent + 1,
                                  IF sent + n = Len(msg) THEN Len(msg) - 1 ELSE sent + n)
    BY <1>1, PacketOfMessage, ZenonT(30)
  <2> QED BY <2>1
<1>4. last \in Nat /\ 1 <= last /\ last <= Len(msg) - 1 /\ sent <= last
  BY <1>1, <1>2
<1>5. SubSeq(msg, 2, last) \in Seq(Byte) /\ Len(SubSeq(msg, 2, last)) = last - 1
  <2>1. last <= Len(msg)
    BY <1>2, <1>4
  <2> QED BY <1>2, <1>4, <2>1, FromSecond
<1>6. CASE sent = 0
  <2>1. Buffer(p) = <<>> /\ Body(Rest(p)) = SubSeq(msg, 2, last)
    BY <1>3, <1>6 DEF Buffer
  <2>2. <<>> \in Seq(Byte) /\ Len(<<>>) = 0
    OBVIOUS
  <2> DEFINE r == SubSeq(msg, 2, last)
  <2> HIDE DEF r
  <2>3. r \in Seq(Byte) /\ Len(r) = last - 1
    BY <1>5 DEF r
  <2>4. <<>> \o r = r /\ 0 + Len(r) = last - 1
    BY <1>4, <2>3, ConcatEmptySeq
  <2> QED BY <2>1, <2>2, <2>3, <2>4 DEF r
<1>7. CASE sent # 0
  <2>1. state = "Consume" /\ Buffer(p) = recv_buf
    BY <1>3, <1>7 DEF Open, Buffer
  <2>2. Buffer(p) = SubSeq(msg, 2, sent) /\ Body(Rest(p)) = SubSeq(msg, sent + 1, last)
    BY <1>1, <1>3, <1>7, <2>1 DEF OpenIsOwn
  <2>3. sent <= Len(msg) /\ 1 <= sent /\ last <= Len(msg)
    BY <1>1, <1>2, <1>4, <1>7
  <2>4. Buffer(p) \in Seq(Byte) /\ Len(Buffer(p)) = sent - 1
    BY <1>1, <1>2, <2>2, <2>3, FromSecond
  <2>5. Body(Rest(p)) \in Seq(Byte) /\ Len(Body(Rest(p))) = last - sent
    <3>1. sent + 1 \in Nat /\ 1 <= sent + 1 /\ sent + 1 <= last + 1
      BY <1>1, <1>4
    <3>2. \A i, j \in Nat : j + 1 - (i + 1) = j - i
      OBVIOUS
    <3>3. last + 1 - (sent + 1) = last - sent
      BY <1>1, <1>4, <3>2
    <3> DEFINE a == sent + 1
    <3> HIDE DEF a
    <3>4. a \in Nat /\ 1 <= a /\ a <= last + 1 /\ last + 1 - a = last - sent
      BY <3>1, <3>3 DEF a
    <3>5. SubSeq(msg, a, last) \in Seq(Byte) /\ Len(SubSeq(msg, a, last)) = last + 1 - a
      BY <1>2, <1>4, <2>3, <3>4, Segment, SMTT(30)
    <3> QED BY <2>2, <3>4, <3>5 DEF a
  <2>6. SubSeq(msg, 2, sent) \o SubSeq(msg, sent + 1, last) = SubSeq(msg, 2, last)
    <3>1. 2 \in 1..(Len(msg) + 1) /\ sent \in (2 - 1)..Len(msg) /\ last \in sent..Len(msg)
      BY <1>1, <1>2, <1>4, <2>3
    <3> QED BY <1>2, <3>1, ConcatAdjacentSubSeq
  <2>7. (sent - 1) + (last - sent) = last - 1
    BY <1>1, <1>4
  <2> QED BY <2>2, <2>4, <2>5, <2>6, <2>7, Zenon
<1> QED BY <1>6, <1>7

(* A packet is collected (gadgetbridge.cpp:68-94).                         *)
LEMMA CollectStream ==
  ASSUME TypeOK, StreamInv, NEW n \in Nat \ {0}, sent + n <= Len(msg), sent' = sent + n,
         UNCHANGED msg, NEW p, p = PacketOf(msg, sent, n), Collect(p)
  PROVE  StreamInv'
<1> DEFINE last == IF sent + n = Len(msg) THEN Len(msg) - 1 ELSE sent + n
<1>1. msg \in Messages /\ sent \in Nat
  BY DEF StreamInv, MessageUnderway
<1>2. msg \in Seq(Byte) /\ Len(msg) \in Nat /\ Len(msg) >= 3
  BY <1>1, MessageFacts
<1>3. /\ Buffer(p) \o Body(Rest(p)) = SubSeq(msg, 2, last)
      /\ Len(Buffer(p)) + Len(Body(Rest(p))) = last - 1
  <2>1. MessageUnderway /\ OpenIsOwn /\ Open(p)
    BY DEF StreamInv, Collect
  <2> QED BY <2>1, PacketGoesOn
<1>4. IsLast(Rest(p)) <=> sent + n = Len(msg)
  BY <1>1, PacketOfMessage
<1>5. sent + n \in Nat /\ sent + n > 0 /\ MessageUnderway'
  BY <1>1, <1>2 DEF MessageUnderway
<1>6. Contents(msg) = SubSeq(msg, 2, Len(msg) - 1) /\ Len(Contents(msg)) = Len(msg) - 2
  <2>1. Len(msg) - 1 \in Nat /\ 1 <= Len(msg) - 1 /\ Len(msg) - 1 <= Len(msg)
    BY <1>2
  <2> QED BY <1>2, <2>1, FromSecond DEF Contents
<1>7. last - 1 <= Len(msg) - 2
  BY <1>1, <1>2
<1>past. 0 < sent' /\ sent' # 0 /\ sent' = sent + n /\ msg' = msg /\ msg # <<>>
  BY <1>2, <1>5
<1> HIDE DEF last
<1>8. CASE ~Fits(Buffer(p), Rest(p))
  <2>1. state' = "None" /\ parsed' = Nothing
    BY <1>8 DEF Collect
  <2>2. ~(Len(Contents(msg)) <= MAX_RECV_LEN)
    BY <1>1, <1>2, <1>3, <1>6, <1>7, <1>8, LenAssumption DEF Fits
  <2> QED BY <1>5, <2>1, <2>2, NothingType
          DEF StreamInv, OpenIsOwn, FittingIsOpen, OnlyWholeMessages, FittingMessagesArrive, Contents
<1>9. CASE Fits(Buffer(p), Rest(p))
  <2>1. /\ recv_buf' = SubSeq(msg, 2, last)
        /\ state' = (IF sent + n = Len(msg) THEN "None" ELSE "Consume")
        /\ parsed' = (IF sent + n = Len(msg) THEN Parse(recv_buf') ELSE Nothing)
    BY <1>3, <1>4, <1>9 DEF Collect
  <2>2. CASE sent + n = Len(msg)
    <3>1. state' = "None" /\ parsed' = Parse(Contents(msg)) /\ parsed'.text = Contents(msg)
      BY <1>6, <2>1, <2>2 DEF Parse, last
    <3>2. msg # <<>>
      BY <1>2
    <3> QED BY <1>5, <2>2, <3>1, <3>2
            DEF StreamInv, OpenIsOwn, FittingIsOpen, OnlyWholeMessages, FittingMessagesArrive,
                Finished, Contents
  <2>3. CASE sent + n # Len(msg)
    <3>1. recv_buf' = SubSeq(msg, 2, sent + n) /\ state' = "Consume" /\ parsed' = Nothing
      BY <2>1, <2>3 DEF last
    <3>2. sent + n < Len(msg)
      BY <1>1, <1>2, <2>3
    <3> QED BY <1>5, <3>1, <3>2, NothingType
            DEF StreamInv, OpenIsOwn, FittingIsOpen, OnlyWholeMessages, FittingMessagesArrive,
                Finished, Contents
  <2> QED BY <2>2, <2>3
<1> QED BY <1>8, <1>9

(* A packet is discarded: its line was given up, or its command is not     *)
(* known from its first packet (gadgetbridge.cpp:58-66, 70-72).            *)
LEMMA DiscardStream ==
  ASSUME TypeOK, StreamInv, NEW n \in Nat \ {0}, sent + n <= Len(msg), sent' = sent + n,
         UNCHANGED msg, NEW p, p = PacketOf(msg, sent, n), Discard(p),
         cut' = IF sent = 0 THEN ~Known(Tail(p)) ELSE cut
  PROVE  StreamInv'
<1>1. msg \in Messages /\ sent \in Nat
  BY DEF StreamInv, MessageUnderway
<1>2. msg \in Seq(Byte) /\ Len(msg) \in Nat /\ Len(msg) >= 3
  BY <1>1, MessageFacts
<1>3. sent + n \in Nat /\ sent + n > 0 /\ MessageUnderway'
  BY <1>1, <1>2 DEF MessageUnderway
<1>4. state' # "Consume" /\ parsed' = Nothing
  BY DEF Discard, Open
<1>5. ~cut' => ~(Len(Contents(msg)) <= MAX_RECV_LEN)
  <2>1. CASE sent = 0
    <3>1. Head(p) = DLE
      BY <1>1, <2>1, PacketOfMessage
    <3> QED BY <2>1, <3>1 DEF Discard, Open, Rest
  <2>2. CASE sent # 0
    BY <1>1, <1>2, <2>2 DEF Discard, Open, StreamInv, FittingIsOpen
  <2> QED BY <2>1, <2>2
<1> QED BY <1>3, <1>4, <1>5, NothingType
        DEF StreamInv, OpenIsOwn, FittingIsOpen, OnlyWholeMessages, FittingMessagesArrive, Contents

(* Every packet, every new message and every lost link.                    *)
LEMMA StreamNextInv == GbInv /\ ParsedIsLine /\ StreamInv /\ [StreamNext]_streamVars
                         => GbInv' /\ ParsedIsLine' /\ StreamInv'
<1> SUFFICES ASSUME GbInv, ParsedIsLine, StreamInv, [StreamNext]_streamVars
             PROVE  GbInv' /\ ParsedIsLine' /\ StreamInv'
  OBVIOUS
<1> USE DEF StreamInv, MessageUnderway, OpenIsOwn, FittingIsOpen, OnlyWholeMessages,
            FittingMessagesArrive, Finished, Contents
<1>1. CASE UNCHANGED streamVars
  BY <1>1 DEF streamVars, vars, GbInv, TypeOK, BufferFits, BufferIsLine, ParsedIsLine
<1>quiet. ASSUME parsed' = Nothing, UNCHANGED <<state, recv_buf, line>>
          PROVE  GbInv' /\ ParsedIsLine'
  BY <1>quiet, NothingType DEF GbInv, TypeOK, BufferFits, BufferIsLine, ParsedIsLine
<1>2. CASE StartMessage
  <2>1. msg' \in Messages /\ sent' = 0 /\ parsed' = Nothing /\ UNCHANGED <<state, recv_buf, line>>
    BY <1>2 DEF StartMessage
  <2>2. Len(msg') \in Nat /\ Len(msg') >= 3
    BY <2>1, MessageFacts
  <2>3. StreamInv'
    BY <2>1, <2>2, NothingType
  <2> QED BY <1>quiet, <2>1, <2>3
<1>3. CASE LoseLink
  <2>1. StreamInv'
    BY <1>3, NothingType DEF LoseLink
  <2> QED BY <1>3, <1>quiet, <2>1 DEF LoseLink
<1>4. ASSUME NEW n \in PacketLens, SendPacket(n)
      PROVE  GbInv' /\ ParsedIsLine' /\ StreamInv'
  <2> DEFINE p == PacketOf(msg, sent, n)
  <2>1. /\ n \in Nat \ {0} /\ sent + n <= Len(msg) /\ sent' = sent + n /\ UNCHANGED msg
        /\ Consume(p)
        /\ cut' = IF sent = 0 THEN ~Known(Tail(p)) ELSE cut
    BY <1>4, PacketLenAssumption DEF SendPacket, PacketOf
  <2>2. msg \in Messages /\ sent \in Nat
    <3>1. Len(<<>>) = 0
      OBVIOUS
    <3> QED BY <2>1, <3>1
  <2>3. p \in Seq(Byte) /\ p # <<>>
    BY <2>1, <2>2, PacketOfMessage
  <2> HIDE DEF p
  <2>4. GbInv' /\ ParsedIsLine'
    BY <2>1, <2>3, CollectInv, DiscardInv DEF Consume
  <2>5. TypeOK /\ StreamInv
    BY DEF GbInv
  <2>6. StreamInv'
    <3> USE DEF p
    <3> HIDE DEF StreamInv
    <3>1. CASE Collect(p)
      BY <2>1, <2>5, <3>1, CollectStream
    <3>2. CASE Discard(p)
      BY <2>1, <2>5, <3>2, DiscardStream
    <3> QED BY <2>1, <2>3, <3>1, <3>2 DEF Consume
  <2> QED BY <2>4, <2>6
<1> QED BY <1>1, <1>2, <1>3, <1>4 DEF StreamNext

LEMMA StreamInitInv == StreamInit => GbInv /\ ParsedIsLine /\ StreamInv
  BY InitInv, NothingType
     DEF StreamInit, Init, StreamInv, MessageUnderway, OpenIsOwn, FittingIsOpen,
         OnlyWholeMessages, FittingMessagesArrive, Finished

(* Everything that holds of the receiver and the phones together.          *)
THEOREM StreamInvariant == StreamSpec => [](GbInv /\ ParsedIsLine /\ StreamInv)
  BY StreamInitInv, StreamNextInv, PTL DEF StreamSpec

(* No two messages are mixed, however many links were lost in the middle   *)
(* of one, and none is handed over before all of it is there               *)
(* (gadgetbridge.cpp:16-25, 39-94).                                        *)
THEOREM NeverMixed == StreamSpec => []OnlyWholeMessages
<1>1. StreamInv => OnlyWholeMessages
  BY DEF StreamInv
<1> QED BY <1>1, StreamInvariant, PTL

(* A message that fits the buffer is handed over with its last packet, if  *)
(* its first holds the name of its command (gadgetbridge.cpp:58-61).       *)
THEOREM FittingArrive == StreamSpec => []FittingMessagesArrive
<1>1. StreamInv => FittingMessagesArrive
  BY DEF StreamInv
<1> QED BY <1>1, StreamInvariant, PTL
=============================================================================
