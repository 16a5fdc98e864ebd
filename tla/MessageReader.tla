---------------------------- MODULE MessageReader ----------------------------
(***************************************************************************)
(* How the body of a message becomes a log event: LogEventJsonConverter walks *)
(* through the properties of the event, and ExceptionJsonConverter reads the  *)
(* object of the property ExceptionDetail token by token, calling itself for *)
(* an inner exception.  After each call JsonSerializer verifies that the      *)
(* reader stands at the end of the object it started with.                   *)
(*                                                                         *)
(* The body is revealed as it is read: a step of the reader picks the next    *)
(* part of it among those that JSON allows there.  The parts read so far are  *)
(* kept in `message' and `tokens', which the code has in its JsonDocument.    *)
(***************************************************************************)
EXTENDS Integers, Sequences, FiniteSets

CONSTANTS
    Names,            \* names of properties of an event
    Blank,            \* those that are empty or white space
    FieldNames,       \* names of fields of an exception
    MaxProperties,    \* bound: properties of an event
    MaxTokens         \* bound: tokens of one ExceptionDetail

ExceptionDetail == "ExceptionDetail"
InnerException == "InnerException"

\* The fields that GetString reads.
TextFields == {"Type", "Message", "Source", "StackTrace"}
KnownFields == FieldNames \cap (TextFields \cup {InnerException})

Openers == {"StartObject", "StartArray"}
Closers == {"EndObject", "EndArray"}
Values == {"String", "Number", "Null"} \cup Openers
Tokens == Values \cup Closers \cup FieldNames

ASSUME MessageReaderAssumption ==
    /\ ExceptionDetail \notin Names
    /\ Blank \subseteq Names
    /\ FieldNames \cap (Values \cup Closers) = {}
    /\ MaxProperties \in Nat
    /\ MaxTokens \in Nat

\* "number" is one that is not a 32-bit integer, "objects" an array with an
\* object in it, "array" any other.
Kinds == {"null", "int32", "number", "text", "object", "array", "objects"}

\* What a property's value becomes: the scalar null, an int, or a text.
ScalarOf == [kind \in Kinds \ {"number"} |->
                CASE kind = "null" -> "null"
                  [] kind = "int32" -> "int"
                  [] OTHER -> "text"]

Levels == {"absent", "known", "unknown"}

Said == [name : Names \cup {ExceptionDetail}, kind : Kinds]

VARIABLES
    pc,            \* where the readers are
    message,       \* the parts of the message read so far
    event,         \* what the event is made of
    tokens,        \* the tokens of ExceptionDetail read so far
    open,          \* its objects and arrays that have not ended, outermost first
    frames,        \* the calls of ExceptionJsonConverter.Read, outermost first
    exceptions     \* what those that returned have read

detailVars == <<tokens, open, frames, exceptions>>
vars == <<pc, message, event, detailVars>>

\* Fields are known by the position of their value, 0 is null.
Frames == [start : Nat, depth : Nat, fields : [KnownFields -> Nat]]
Exceptions == [start : Nat, fields : [KnownFields -> Nat]]

TypeOK ==
    /\ pc \in {"header", "properties", "while", "value", "read", "unreadable"}
    /\ message \in [body : {"event", "other"}, exception : BOOLEAN,
                    level : Levels, properties : Seq(Said)]
    /\ event \in [level : {"Information", "known"}, exception : {"none", "text", "detail"},
                  properties : [Names -> {"absent", "null", "int", "text"}]]
    /\ tokens \in Seq(Tokens)
    /\ open \in Seq({"object", "array"})
    /\ frames \in Seq(Frames)
    /\ exceptions \subseteq Exceptions
    /\ pc \in {"while", "value"} => frames # <<>> /\ tokens # <<>>

Init ==
    /\ pc = "header"
    /\ message = [body |-> "event", exception |-> FALSE, level |-> "absent",
                  properties |-> <<>>]
    /\ event = [level |-> "Information", exception |-> "none",
                properties |-> [name \in Names |-> "absent"]]
    /\ tokens = <<>>
    /\ open = <<>>
    /\ frames = <<>>
    /\ exceptions = {}

Top(stack) == stack[Len(stack)]
Pop(stack) == SubSeq(stack, 1, Len(stack) - 1)

-----------------------------------------------------------------------------
(* LogEventJsonConverter.Read                                                *)

\* Mutant: no level is taken for a level.
ReadHeaderWithoutDefault ==
    /\ pc = "header"
    /\ \E level \in {"absent", "known"} :
        /\ message' = [message EXCEPT !.level = level]
        /\ event' = [event EXCEPT !.level = level]
    /\ pc' = "properties"
    /\ UNCHANGED detailVars

\* The body has to be an object with a MessageTemplate and a Timestamp, its
\* Properties an object, a level one that there is.  The exception's text is kept if there is one.
ReadHeader ==
    /\ pc = "header"
    /\ \E body \in {"event", "other"}, exception \in BOOLEAN, level \in Levels :
        /\ message' = [message EXCEPT !.body = body, !.exception = exception,
                                      !.level = level]
        /\ \/ /\ body = "event"
              /\ level # "unknown"
              /\ event' = [event EXCEPT
                            !.level = IF level = "absent" THEN @ ELSE level,
                            !.exception = IF exception THEN "text" ELSE @]
              /\ pc' = "properties"
           \/ /\ body # "event" \/ level = "unknown"
              /\ pc' = "unreadable"
              /\ UNCHANGED event
    /\ UNCHANGED detailVars

\* The message's next property.
Reveal(name, kind) ==
    /\ pc = "properties"
    /\ Len(message.properties) < MaxProperties
    /\ message' = [message EXCEPT !.properties = Append(@, [name |-> name, kind |-> kind])]

\* Mutant: a property that is null is left out.
ReadPropertyUnlessNull ==
    /\ \E name \in Names, kind \in Kinds \ {"number"} :
        /\ Reveal(name, kind)
        /\ event.properties[name] = "absent"
        /\ event' = [event EXCEPT !.properties[name] =
                        IF kind = "null" THEN "absent" ELSE ScalarOf[kind]]
    /\ tokens' = <<>>
    /\ exceptions' = {}
    /\ UNCHANGED <<pc, open, frames>>

\* One that is not ExceptionDetail becomes a scalar: int.Parse throws on a
\* number that is not an int, Dictionary.Add on a name that is there already.
ReadProperty ==
    /\ \E name \in Names, kind \in Kinds :
        /\ Reveal(name, kind)
        /\ \/ /\ kind # "number"
              /\ event.properties[name] = "absent"
              /\ event' = [event EXCEPT !.properties[name] = ScalarOf[kind]]
              /\ UNCHANGED pc
           \/ /\ kind = "number" \/ event.properties[name] # "absent"
              /\ pc' = "unreadable"
              /\ UNCHANGED event
    /\ tokens' = <<>>
    /\ exceptions' = {}
    /\ UNCHANGED <<open, frames>>

\* An ExceptionDetail that is not an object.  A null takes away the exception that
\* the event has.  Any other is one without fields: the converter passes over its
\* tokens, but stops after an object, which is not the end of an array.
ReadPlainDetail ==
    /\ \E kind \in Kinds \ {"object"} :
        /\ Reveal(ExceptionDetail, kind)
        /\ \/ /\ kind # "objects"
              /\ event' = [event EXCEPT !.exception =
                              IF kind = "null" THEN "none" ELSE "detail"]
              /\ UNCHANGED pc
           \/ /\ kind = "objects"
              /\ pc' = "unreadable"
              /\ UNCHANGED event
    /\ tokens' = <<>>
    /\ exceptions' = {}
    /\ UNCHANGED <<open, frames>>

\* A call of ExceptionJsonConverter.Read for the object that starts at
\* position `start', inside `depth' other objects and arrays.
Frame(start, depth) ==
    [start |-> start, depth |-> depth, fields |-> [name \in KnownFields |-> 0]]

\* The JSON text of an ExceptionDetail is kept, and its object is read.
ReadDetail ==
    /\ Reveal(ExceptionDetail, "object")
    /\ MaxTokens >= 2
    /\ event' = [event EXCEPT !.exception = "detail"]
    /\ tokens' = <<"StartObject">>
    /\ open' = <<"object">>
    /\ frames' = <<Frame(1, 0)>>
    /\ exceptions' = {}
    /\ pc' = "while"

\* LogEventProperty throws if its name is blank.
EndProperties ==
    /\ pc = "properties"
    /\ pc' = IF \E name \in Blank : event.properties[name] # "absent"
             THEN "unreadable" ELSE "read"
    /\ UNCHANGED <<message, event, detailVars>>

-----------------------------------------------------------------------------
(* ExceptionJsonConverter.Read                                               *)

\* What JSON allows next.
Follow ==
    IF Top(tokens) \in FieldNames THEN Values
    ELSE IF Top(open) = "array" THEN Values \cup {"EndArray"}
    ELSE FieldNames \cup {"EndObject"}

Nest(token) ==
    CASE token = "StartObject" -> Append(open, "object")
      [] token = "StartArray" -> Append(open, "array")
      [] token \in Closers -> Pop(open)
      [] OTHER -> open

\* Utf8JsonReader.Read.  The bound leaves room for the ends that are missing.
Read(token) ==
    /\ token \in Follow
    /\ tokens' = Append(tokens, token)
    /\ open' = Nest(token)
    /\ Len(tokens') + Len(open') + (IF token \in FieldNames THEN 1 ELSE 0) <= MaxTokens

\* The innermost call of `calls' sets a field.
SetField(calls, name, position) ==
    [calls EXCEPT ![Len(calls)].fields[name] = position]

\* The loop's Read meets the name of a field ...
ReadName ==
    /\ pc = "while"
    /\ \E name \in FieldNames : Read(name)
    /\ pc' = "value"
    /\ UNCHANGED <<message, event, frames, exceptions>>

\* ... or a token it passes over, inside an array ...
SkipToken ==
    /\ pc = "while"
    /\ \E token \in Values \cup {"EndArray"} : Read(token)
    /\ UNCHANGED <<pc, message, event, frames, exceptions>>

\* The call returns what it has read: to an outer call, or to the event.
Return ==
    LET frame == Top(frames) IN
    /\ exceptions' = exceptions \cup {[start |-> frame.start, fields |-> frame.fields]}
    /\ \/ /\ Len(frames) = 1
          /\ frames' = <<>>
          /\ pc' = "properties"
       \/ /\ Len(frames) > 1
          /\ frames' = SetField(Pop(frames), InnerException, frame.start)
          /\ pc' = "while"

\* ... or the end of an object, whichever it is, which ends the loop.
\* JsonSerializer throws unless it is the end of the call's own object.
EndObject ==
    /\ pc = "while"
    /\ Read("EndObject")
    /\ \/ /\ Len(open') = Top(frames).depth
          /\ Return
       \/ /\ Len(open') # Top(frames).depth
          /\ pc' = "unreadable"
          /\ UNCHANGED <<frames, exceptions>>
    /\ UNCHANGED <<message, event>>

\* Mutant: the fields are kept in the converter, which all calls share.
ReadTextShared ==
    /\ pc = "value"
    /\ Top(tokens) \in TextFields
    /\ \E token \in Values :
        /\ Read(token)
        /\ \/ /\ token \in {"String", "Null"}
              /\ frames' = [frames EXCEPT ![1].fields[Top(tokens)] =
                                IF token = "Null" THEN 0 ELSE Len(tokens')]
              /\ pc' = "while"
           \/ /\ token \notin {"String", "Null"}
              /\ pc' = "unreadable"
              /\ UNCHANGED frames
    /\ UNCHANGED <<message, event, exceptions>>

\* GetString reads a text or null, and throws on everything else.
ReadText ==
    /\ pc = "value"
    /\ Top(tokens) \in TextFields
    /\ \E token \in Values :
        /\ Read(token)
        /\ \/ /\ token \in {"String", "Null"}
              /\ frames' = SetField(frames, Top(tokens),
                                    IF token = "Null" THEN 0 ELSE Len(tokens'))
              /\ pc' = "while"
           \/ /\ token \notin {"String", "Null"}
              /\ pc' = "unreadable"
              /\ UNCHANGED frames
    /\ UNCHANGED <<message, event, exceptions>>

\* Mutant: the object of an inner exception is passed over.
ReadInnerPassesOver ==
    /\ pc = "value"
    /\ Top(tokens) = InnerException
    /\ \E token \in Values : Read(token)
    /\ pc' = "while"
    /\ UNCHANGED <<message, event, frames, exceptions>>

\* An inner exception is deserialized by a call of its own, which a null does not
\* reach.  One for another value runs on into the object around it, and fails.
ReadInner ==
    /\ pc = "value"
    /\ Top(tokens) = InnerException
    /\ \/ /\ Read("Null")
          /\ frames' = SetField(frames, InnerException, 0)
          /\ pc' = "while"
       \/ /\ Read("StartObject")
          /\ frames' = Append(frames, Frame(Len(tokens'), Len(open)))
          /\ pc' = "while"
       \/ /\ \E token \in Values \ {"Null", "StartObject"} : Read(token)
          /\ pc' = "unreadable"
          /\ UNCHANGED frames
    /\ UNCHANGED <<message, event, exceptions>>

\* The value of any other field is left to the loop, past its first token.
SkipValue ==
    /\ pc = "value"
    /\ Top(tokens) \notin KnownFields
    /\ \E token \in Values : Read(token)
    /\ pc' = "while"
    /\ UNCHANGED <<message, event, frames, exceptions>>

-----------------------------------------------------------------------------
Next ==
    \/ ReadHeader \/ ReadProperty \/ ReadPlainDetail \/ ReadDetail \/ EndProperties
    \/ ReadName \/ SkipToken \/ EndObject \/ ReadText \/ ReadInner \/ SkipValue

Spec == Init /\ [][Next]_vars

-----------------------------------------------------------------------------
(* What the JSON of an ExceptionDetail says                                  *)

Positions(types) == {i \in DOMAIN tokens : tokens[i] \in types}

\* How many objects and arrays are open after token i.
DepthAt(i) ==
    Cardinality({j \in Positions(Openers) : j <= i})
        - Cardinality({j \in Positions(Closers) : j <= i})

\* The positions of a field's name in the object that starts at `start' itself,
\* not in one inside it or after it.
OwnNames(start, name) ==
    {i \in Positions({name}) :
        /\ i > start
        /\ DepthAt(i) = DepthAt(start)
        /\ \A j \in start .. i : DepthAt(j) >= DepthAt(start)}

\* The value of the field that counts, the last one.
OwnField(start, name) ==
    LET own == OwnNames(start, name)
        last == CHOOSE i \in own : \A j \in own : j <= i
    IN  IF own = {} \/ tokens[last + 1] = "Null" THEN 0 ELSE last + 1

\* The objects of exceptions: the first one, and those of inner exceptions.
ExceptionObjects ==
    {i \in Positions({"StartObject"}) : i = 1 \/ tokens[i - 1] = InnerException}

ForeignObjects == Positions({"StartObject"}) \ ExceptionObjects

-----------------------------------------------------------------------------
(* Properties                                                                *)

\* ExceptionJsonConverter.Read: when an ExceptionDetail has been read, each of
\* its exceptions was, with the fields of its own object: the text of a nested
\* object or of an inner exception is never taken for the exception's own.
OwnFieldsRead ==
    pc = "properties" /\ tokens # <<>> =>
        /\ {e.start : e \in exceptions} = ExceptionObjects
        /\ ForeignObjects = {}
        /\ \A e \in exceptions, name \in KnownFields :
              e.fields[name] = OwnField(e.start, name)

\* The event that was read is what the message said: it has every property with
\* its value and no other, and the exception of the last ExceptionDetail, even if
\* that is null; only without one it has the text of Exception, if there is one.
EventIsMessage ==
    LET said == message.properties
        details == {i \in DOMAIN said : said[i].name = ExceptionDetail}
    IN  pc = "read" =>
            /\ \A i \in DOMAIN said \ details :
                  event.properties[said[i].name] = ScalarOf[said[i].kind]
            /\ \A name \in Names : event.properties[name] # "absent" =>
                  \E i \in DOMAIN said : said[i].name = name
            /\ \A i \in details : (\A j \in details : j <= i) =>
                  event.exception = IF said[i].kind = "null" THEN "none" ELSE "detail"
            /\ details = {} =>
                  event.exception = IF message.exception THEN "text" ELSE "none"

\* A message that cannot be read gives one of these reasons: it is not an event;
\* its level is unknown; a property has a blank name, is a number that is not an
\* int, or comes twice; its ExceptionDetail has a field of the wrong type, or holds
\* an object that is not an exception's, however harmless (WorkerService stores
\* none of them).
UnreadableHasReason ==
    LET said == message.properties
        detail(i) == said[i].name = ExceptionDetail
    IN  pc = "unreadable" =>
            \/ message.body # "event"
            \/ message.level = "unknown"
            \/ \E i \in DOMAIN said : said[i].name \in Blank
            \/ \E i \in DOMAIN said : ~detail(i) /\ said[i].kind = "number"
            \/ \E i, j \in DOMAIN said :
                  i < j /\ ~detail(i) /\ said[i].name = said[j].name
            \/ \E i \in DOMAIN said : detail(i) /\ said[i].kind = "objects"
            \/ \E i \in Positions(TextFields) :
                  i < Len(tokens) /\ tokens[i + 1] \notin {"String", "Null"}
            \/ \E i \in Positions({InnerException}) :
                  i < Len(tokens) /\ tokens[i + 1] \notin {"StartObject", "Null"}
            \/ ForeignObjects # {}
=============================================================================
