-------------------------------- MODULE Atob --------------------------------
(***************************************************************************)
(* How gb_parse.cpp decodes a Gadgetbridge message before it parses it:    *)
(* the phone puts text that JSON cannot hold into calls atob("..."), and   *)
(* dump_gb replaces each by the text between quotation marks, in the very  *)
(* buffer the message was received in, and fills up with blanks.  Source   *)
(* and destination of base64_decode overlap: the text is written from the  *)
(* second letter of the call on, while what is encoded is read from the    *)
(* seventh on, four letters for three characters.                          *)
(*                                                                         *)
(* A message is a sequence of pieces.  An encoded letter is known by the   *)
(* text it belongs to and its place in it; how base64 spells is left out,  *)
(* as are messages it did not spell.  Positions count from 1.              *)
(*                                                                         *)
(* GbMessage goes on with the decoded message.                             *)
(***************************************************************************)
EXTENDS Integers, FiniteSetsExt, SequencesExt

CONSTANTS
  AtobMessages \* sequences of pieces, see MessageAssumption

(* No text holds a call of its own.                                        *)
Characters == {"quote", "blank", "x", "y"}
ASSUME MessageAssumption ==
         AtobMessages \subseteq Seq([kind : {"plain", "atob"}, text : Seq(Characters)])

VARIABLES
  message,   \* what was sent: it does not change
  sv,        \* the buffer
  at,        \* in dump_gb: "find", "decode", "parse", and what GbMessage adds
  idx,       \* where the call begins that is being decoded
  end,       \* the distance of its bracket from there
  group      \* the groups of four decoded so far

atobVars == <<message, sv, at, idx, end, group>>

-----------------------------------------------------------------------------
(* A cell of the buffer: a character, or a letter of an encoded text.      *)
Char(c) == [char |-> c, text |-> <<>>, place |-> 0]
Letter(text, k) == [char |-> "letter", text |-> text, place |-> k]

Marker == << Char("a"), Char("t"), Char("o"), Char("b"), Char("("), Char("quote") >>
Chars(text) == [i \in DOMAIN text |-> Char(text[i])]

(* base64: four letters for every three characters begun.                  *)
EncodedLength(text) == 4 * ((Len(text) + 2) \div 3)
Encoded(text) == [k \in 1..EncodedLength(text) |-> Letter(text, k)]

Piece(p) == IF p.kind = "plain" THEN Chars(p.text)
            ELSE Marker \o Encoded(p.text) \o <<Char("quote"), Char(")")>>
Line(m) == FlattenSeq([i \in DOMAIN m |-> Piece(m[i])])

(* What the buffer has to be when it is parsed.                            *)
Blanks(n) == [i \in 1..n |-> Char("blank")]
PlainPiece(p) ==
  IF p.kind = "plain" THEN Chars(p.text)
  ELSE <<Char("quote")>> \o Chars(p.text) \o <<Char("quote")>>
       \o Blanks(6 + EncodedLength(p.text) - Len(p.text))
PlainLine(m) == FlattenSeq([i \in DOMAIN m |-> PlainPiece(m[i])])

-----------------------------------------------------------------------------
MarkerAt(i) == /\ i + 5 <= Len(sv)
               /\ SubSeq(sv, i, i + 5) = Marker
Calls == {i \in DOMAIN sv : MarkerAt(i)}

(* sv.find(')') from the call on.  Variant: the last one of the message.   *)
LastBracket(i) == Max({j \in DOMAIN sv : j >= i /\ sv[j] = Char(")")}) - i
Bracket(i) == Min({j \in DOMAIN sv : j >= i /\ sv[j] = Char(")")}) - i

(* The payload, of end - 7 letters, and where the text goes.               *)
In(k) == idx + 6 + k
Out(k) == idx + 1 + k
Payload == end - 7

AtobInit == /\ message \in AtobMessages
            /\ sv = Line(message)
            /\ at = "find"
            /\ idx = 0 /\ end = 0 /\ group = 0

Find == /\ at = "find"
        /\ IF Calls = {}
           THEN at' = "parse" /\ UNCHANGED <<idx, end, group>>
           ELSE /\ idx' = Min(Calls)
                /\ end' = Bracket(Min(Calls))
                /\ group' = 0
                /\ at' = "decode"
        /\ UNCHANGED <<message, sv>>

(* base64_decode, the next four letters.  Letters that do not belong       *)
(* together make no sense.                                                 *)
Source == sv[In(4 * group)]
Sensible == \A k \in 0..3 : sv[In(4 * group + k)] = Letter(Source.text, 4 * group + k + 1)
Decoded3 == SubSeq(Source.text, 3 * group + 1, Min({3 * group + 3, Len(Source.text)}))
Decode == /\ at = "decode"
          /\ 4 * group < Payload
          /\ Sensible
          /\ sv' = [i \in DOMAIN sv |->
                      IF i - Out(3 * group) \in 0..(Len(Decoded3) - 1)
                      THEN Char(Decoded3[i - Out(3 * group) + 1]) ELSE sv[i]]
          /\ group' = group + 1
          /\ UNCHANGED <<message, at, idx, end>>

(* decoded_length, from the last group                                     *)
DecodedLength == IF group = 0 THEN 0 ELSE Len(sv[In(4 * group - 1)].text)

(* The memset and the two quotation marks.  Variants: one blank too many;  *)
(* nothing is done for a text of no characters.                            *)
FinishTooFar ==
  /\ at = "decode"
  /\ 4 * group >= Payload
  /\ sv' = [i \in DOMAIN sv |->
              IF i = Out(-1) \/ i = Out(DecodedLength) THEN Char("quote")
              ELSE IF Out(DecodedLength) < i /\ i <= idx + end + 1 THEN Char("blank")
              ELSE sv[i]]
  /\ at' = "find"
  /\ UNCHANGED <<message, idx, end, group>>
FinishUnlessEmpty ==
  /\ at = "decode"
  /\ 4 * group >= Payload
  /\ sv' = [i \in DOMAIN sv |->
              IF DecodedLength = 0 THEN sv[i]
              ELSE IF i = Out(-1) \/ i = Out(DecodedLength) THEN Char("quote")
              ELSE IF Out(DecodedLength) < i /\ i <= idx + end THEN Char("blank")
              ELSE sv[i]]
  /\ at' = "find"
  /\ UNCHANGED <<message, idx, end, group>>
Finish ==
  /\ at = "decode"
  /\ 4 * group >= Payload
  /\ sv' = [i \in DOMAIN sv |->
              IF i = Out(-1) \/ i = Out(DecodedLength) THEN Char("quote")
              ELSE IF Out(DecodedLength) < i /\ i <= idx + end THEN Char("blank")
              ELSE sv[i]]
  /\ at' = "find"
  /\ UNCHANGED <<message, idx, end, group>>

Loop == Find \/ Decode \/ Finish

-----------------------------------------------------------------------------
(* The call being decoded is a whole one, of one text; the letters that    *)
(* are still to be read are as they were received, although what was read  *)
(* before has been written over the call (gb_parse.cpp:151-159).           *)
AtobInv ==
  /\ message \in AtobMessages
  /\ Len(sv) = Len(Line(message))
  /\ at = "decode" =>
       /\ idx + end <= Len(sv)
       /\ Payload \in Nat
       /\ \E i \in DOMAIN message :
            /\ Payload = EncodedLength(message[i].text)
            /\ \A k \in (4 * group)..(Payload - 1) :
                 sv[In(k)] = Letter(message[i].text, k + 1)

(* The buffer that is parsed is the message with every call replaced by    *)
(* its text, in order, and nothing else touched (gb_parse.cpp:286-290).    *)
AllReplaced == at \notin {"find", "decode"} => sv = PlainLine(message)

(* The loop over the calls of a message comes to its end                   *)
(* (gb_parse.cpp:287).                                                     *)
LoopEnds == at = "find" ~> at = "parse"
=============================================================================
