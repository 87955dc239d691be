------------------------------ MODULE GbMessage ------------------------------
(***************************************************************************)
(* gb_parse.cpp as a whole.  When the calls of atob are replaced (Atob)    *)
(* the message, a JSON object, is parsed for its type, and parsed again,   *)
(* in the same buffer, into the structure of that type, whose members are  *)
(* then logged.  The structures are not initialised: what the parser did   *)
(* not fill holds what the stack held.                                     *)
(***************************************************************************)
EXTENDS Atob

CONSTANT Objects  \* what the messages may say: [t, fields, malformed]

(* A value is known by the field it was sent in.  "big" is a number that   *)
(* an int does not hold, or one with a fraction; a malformed object is no  *)
(* JSON.  "t" is the text of the type, if there is a field for it.         *)
Kinds == {"string", "number", "big"}
ASSUME ObjectAssumption ==
         \A m \in Objects : /\ DOMAIN m = {"t", "fields", "malformed"}
                            /\ m.malformed \in BOOLEAN /\ m.t # "garbage"
                            /\ \A name \in DOMAIN m.fields : m.fields[name] \in Kinds

VARIABLES
  said,   \* what the phone says with the message, from when it is first read
  read,   \* what the text in the buffer reads as
  base,   \* base.type: a type, or "garbage"
  log,    \* what is logged of the message
  ended   \* the parser has ended the type's string in the buffer

msgVars == <<atobVars, said, read, base, log, ended>>

(* The descriptors: the field, the token it must be, the member it fills.  *)
D(name, tok) == [name |-> name, tok |-> tok, member |-> name]
Named(name, member, tok) == [name |-> name, tok |-> tok, member |-> member]
Opaque(names) == [i \in DOMAIN names |-> D(names[i], "OPAQUE")]
Numbers(names) == [i \in DOMAIN names |-> D(names[i], "NUMBER")]

(* Variant: a string's token, for which the parser ends the string in the  *)
(* buffer.                                                                 *)
message_type_string == <<Named("t", "type", "STRING")>>
message_type == <<Named("t", "type", "OPAQUE")>>
notify == Numbers(<<"id">>) \o Opaque(<<"title", "subject", "body", "sender", "tel">>)
notify_remove == Numbers(<<"id">>)
call == Opaque(<<"cmd", "name", "number">>)
http == Opaque(<<"id", "resp", "err">>)
musicinfo == Opaque(<<"artist", "album", "track">>)
             \o <<Named("dur", "duration", "NUMBER"), Named("c", "track_count", "NUMBER"),
                  Named("n", "track_number", "NUMBER")>>
(* Variant: a descriptor is missing, and the bits move up.                 *)
musicstate_short == Opaque(<<"state">>) \o Numbers(<<"shuffle", "repeat">>)
musicstate == Opaque(<<"state">>) \o Numbers(<<"position", "shuffle", "repeat">>)

(* What the dump functions log: the i-th line if bit i - 1 is set.         *)
dump_notify == <<<<"ID", "id">>, <<"Title", "title">>, <<"Subject", "subject">>,
                 <<"Body", "body">>, <<"Sender", "sender">>, <<"Tel", "tel">>>>
dump_notify_remove == <<<<"ID", "id">>>>
dump_call == <<<<"CMD", "cmd">>, <<"Name", "name">>, <<"Number", "number">>>>
dump_http_resp == <<<<"ID", "id">>, <<"Resp", "resp">>, <<"Err", "err">>>>
dump_musicinfo == <<<<"Artist", "artist">>, <<"Album", "album">>, <<"Track", "track">>,
                    <<"Duration", "duration">>, <<"TrackCount", "track_count">>,
                    <<"TrackNumber", "track_number">>>>
dump_musicstate == <<<<"State", "state">>, <<"Position", "position">>,
                     <<"Shuffle", "shuffle">>, <<"Repeat", "repeat">>>>

(* type_map and str_to_type: only these types are told apart, and the      *)
(* switch of dump_gb has a case for each.                                  *)
type_map == {"notify", "notify-", "call", "musicinfo", "musicstate", "http"}
str_to_type(t) == IF t \in type_map THEN t ELSE "Unknown"

Desc(type) == CASE type = "notify" -> notify [] type = "notify-" -> notify_remove
                [] type = "call" -> call [] type = "http" -> http
                [] type = "musicinfo" -> musicinfo [] type = "musicstate" -> musicstate
Dump(type) == CASE type = "notify" -> dump_notify [] type = "notify-" -> dump_notify_remove
                [] type = "call" -> dump_call [] type = "http" -> dump_http_resp
                [] type = "musicinfo" -> dump_musicinfo
                [] type = "musicstate" -> dump_musicstate

(* A decoded text is not escaped, for the call of json_escape is commented *)
(* out: a quotation mark in it ends the string early.  What follows may    *)
(* read as further fields, also in place of later ones; the first closing  *)
(* brace ends the object, with success, and nobody looks behind it; or it  *)
(* is no JSON any more.  So such a message reads as any object.            *)
Quoted == \E i \in DOMAIN message : /\ message[i].kind = "atob"
                                    /\ "quote" \in ToSet(message[i].text)
Readings(m) == IF Quoted THEN Objects ELSE {m}

(* json_obj_parse: unknown fields are passed over, a field of another kind *)
(* ends it with an error, and so does text that is no JSON.                *)
IsFit(kind, tok) == IF tok = "NUMBER" THEN kind = "number" ELSE kind = "string"
Bits(desc, m) == {i \in DOMAIN desc : desc[i].name \in DOMAIN m.fields}
Parses(desc, m) == /\ ~m.malformed /\ ~ended
                   /\ \A i \in Bits(desc, m) : IsFit(m.fields[desc[i].name], desc[i].tok)
(* A member after it: the field it was filled from, or garbage.            *)
Member(desc, m, member) ==
  IF \E i \in Bits(desc, m) : desc[i].member = member
  THEN (CHOOSE d \in {desc[i] : i \in Bits(desc, m)} : d.member = member).name
  ELSE "garbage"
Cuts(desc, m) == \E i \in Bits(desc, m) : desc[i].tok = "STRING"

-----------------------------------------------------------------------------
Entry(type, lines) == [what |-> type, lines |-> lines]
NoEntry == Entry("nothing", {})
Error == Entry("error", {})
Lines(type, bits, m) ==
  {<<Dump(type)[i][1], Member(Desc(type), m, Dump(type)[i][2])>> : i \in bits \cap DOMAIN Dump(type)}

(* Of the message before only what is garbage to this one is left, so one  *)
(* message is enough.                                                      *)
Unread == [t |-> "", fields |-> <<>>, malformed |-> FALSE]
MsgInit == /\ AtobInit
           /\ said = Unread /\ read = Unread /\ base = "garbage" /\ log = NoEntry /\ ended = FALSE

(* The type.                                                               *)
ParseBase ==
  /\ at = "parse"
  /\ said' \in Objects
  /\ \E m \in Readings(said') :
       /\ read' = m
       /\ ended' = Cuts(message_type, m)
       /\ base' = IF Parses(message_type, m) /\ Bits(message_type, m) # {} THEN m.t ELSE "garbage"
       /\ IF Parses(message_type, m) THEN at' = "switch" /\ UNCHANGED log
          ELSE at' = "idle" /\ log' = Error
  /\ UNCHANGED <<message, sv, idx, end, group>>

(* The switch, and the dump of the type.  Without a "t" the view it looks  *)
(* up is garbage: any type, or a read astray.                              *)
Switch == /\ at = "switch"
          /\ \E type \in IF base = "garbage" THEN type_map \cup {"Unknown"} ELSE {str_to_type(base)} :
               log' = IF type = "Unknown" THEN Entry("raw", {})
                      ELSE IF Parses(Desc(type), read)
                           THEN Entry(type, Lines(type, Bits(Desc(type), read), read))
                           ELSE Error
          /\ at' = "idle"
          /\ UNCHANGED <<message, sv, idx, end, group, said, read, base, ended>>

Astray == /\ at = "switch" /\ base = "garbage"
          /\ at' = "fault"
          /\ UNCHANGED <<message, sv, idx, end, group, said, read, base, log, ended>>

Replace == Loop /\ UNCHANGED <<said, read, base, log, ended>>
MsgNext == Replace \/ ParseBase \/ Switch \/ Astray

MsgSpec == MsgInit /\ [][MsgNext]_msgVars
MsgFairSpec == MsgSpec /\ WF_msgVars(Replace)

-----------------------------------------------------------------------------
(* What each label stands for among Gadgetbridge's fields.                 *)
Meaning == [ID |-> "id", Title |-> "title", Subject |-> "subject", Body |-> "body",
            Sender |-> "sender", Tel |-> "tel", CMD |-> "cmd", Name |-> "name",
            Number |-> "number", Resp |-> "resp", Err |-> "err", Artist |-> "artist",
            Album |-> "album", Track |-> "track", Duration |-> "dur", TrackCount |-> "c",
            TrackNumber |-> "n", State |-> "state", Position |-> "position",
            Shuffle |-> "shuffle", Repeat |-> "repeat"]
Labels(type) == {Dump(type)[i][1] : i \in DOMAIN Dump(type)}

(* No member is logged that the parser did not fill, from this message, and*)
(* the uninitialised type is looked up only for a text without a type      *)
(* (gb_parse.cpp:167-190, 291-300).                                        *)
MessageInv ==
  /\ at \in {"find", "decode", "parse", "switch", "idle", "fault"}
  /\ \A line \in log.lines : line[2] \in DOMAIN read.fields
  /\ at \in {"switch", "fault"} /\ base = "garbage" => "t" \notin DOMAIN read.fields

(* How a message that says m, and has a type, is to be logged.             *)
Whole(type, m) == {<<l, Meaning[l]>> : l \in {k \in Labels(type) : Meaning[k] \in DOMAIN m.fields}}
Wrong(m) == \E i \in Bits(Desc(m.t), m) : ~IsFit(m.fields[Desc(m.t)[i].name], Desc(m.t)[i].tok)
LoggedAs(m) == IF m.malformed \/ m.fields["t"] # "string" THEN Error
               ELSE IF m.t \notin type_map THEN Entry("raw", {})
               ELSE IF Wrong(m) THEN Error
               ELSE Entry(m.t, Whole(m.t, m))

(* A message of a known type is logged whole, every field of it under its  *)
(* own label, or not at all, with an error: the parser that found the type *)
(* left the buffer fit for the second parse, and each bit stands for the   *)
(* member its line prints (gb_parse.cpp:81-121, 141-147, 167-281).  With a *)
(* quotation mark in a decoded text that holds of what the buffer reads as *)
(* only, which may be more or less than the phone said (gb_parse.cpp:160). *)
AllLogged ==
  at = "idle" =>
    /\ "t" \in DOMAIN read.fields => log = LoggedAs(read)
    /\ ~Quoted /\ "t" \in DOMAIN said.fields => log = LoggedAs(said)
=============================================================================
