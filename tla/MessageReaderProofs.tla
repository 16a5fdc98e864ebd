------------------------- MODULE MessageReaderProofs -------------------------
(***************************************************************************)
(* Theorems about MessageReader: its types; the event that was read is what    *)
(* the message said; the reasons for which a message cannot be read are those  *)
(* that UnreadableHasReason lists; and every exception is read, with the      *)
(* fields of its own object.                                                *)
(***************************************************************************)
EXTENDS MessageReader, SequenceTheorems, FiniteSetTheorems, WellFoundedInduction, TLAPS

\* A JSON token, and the stack of open objects and arrays after it.
LEMMA ReadTyped ==
    ASSUME TypeOK, tokens # <<>>, NEW token \in Tokens, Read(token)
    PROVE  /\ tokens' \in Seq(Tokens)
           /\ tokens' # <<>>
           /\ Len(tokens') = Len(tokens) + 1
           /\ tokens'[Len(tokens')] = token
           /\ \A i \in 1 .. Len(tokens) : tokens'[i] = tokens[i]
           /\ open' \in Seq({"object", "array"})
  <1>1. tokens \in Seq(Tokens) /\ tokens' = Append(tokens, token) /\ open' = Nest(token)
    BY DEF TypeOK, Read
  <1>2. open \in Seq({"object", "array"})
    BY DEF TypeOK
  <1>3. open # <<>> => Pop(open) \in Seq({"object", "array"})
    BY <1>2 DEF Pop
  <1>4. open = <<>> => Pop(open) = <<>>
    BY <1>2 DEF Pop
  <1>5. Nest(token) \in {Append(open, "object"), Append(open, "array"), Pop(open), open}
    BY DEF Nest
  <1>6. open' \in Seq({"object", "array"})
    <2>1. Append(open, "object") \in Seq({"object", "array"})
      BY <1>2
    <2>2. Append(open, "array") \in Seq({"object", "array"})
      BY <1>2
    <2>3. Pop(open) \in Seq({"object", "array"})
      <3>1. open = <<>> => Pop(open) = open
        BY <1>4
      <3> QED BY Zenon, <1>2, <1>3, <3>1
    <2> QED BY Zenon, <1>1, <1>2, <1>5, <2>1, <2>2, <2>3
  <1>7. /\ tokens' \in Seq(Tokens) /\ tokens' # <<>>
        /\ Len(tokens') = Len(tokens) + 1
        /\ tokens'[Len(tokens) + 1] = token
        /\ \A i \in 1 .. Len(tokens) : tokens'[i] = tokens[i]
    BY <1>1
  <1> QED BY <1>6, <1>7

\* A stack that is not empty has a top; without it, it is a stack.
LEMMA StackTyped ==
    ASSUME NEW S, NEW stack \in Seq(S), stack # <<>>
    PROVE  /\ Len(stack) \in Nat \ {0}
           /\ Top(stack) \in S
           /\ Pop(stack) \in Seq(S)
           /\ Len(Pop(stack)) = Len(stack) - 1
           /\ \A i \in 1 .. Len(stack) - 1 : Pop(stack)[i] = stack[i]
    BY DEF Top, Pop

LEMMA FrameTyped ==
    ASSUME NEW start \in Nat, NEW depth \in Nat
    PROVE  Frame(start, depth) \in Frames
    BY DEF Frame, Frames

LEMMA SetFieldTyped ==
    ASSUME NEW calls \in Seq(Frames), calls # <<>>, NEW name, NEW position \in Nat
    PROVE  /\ SetField(calls, name, position) \in Seq(Frames)
           /\ Len(SetField(calls, name, position)) = Len(calls)
           /\ \A k \in 1 .. Len(calls) :
                SetField(calls, name, position)[k].depth = calls[k].depth
  <1> DEFINE i == Len(calls)
             frame == [calls[i] EXCEPT !.fields[name] = position]
             changed == [calls EXCEPT ![i] = frame]
  <1>1. i \in 1 .. Len(calls) /\ calls[i] \in Frames
    OBVIOUS
  <1>2. frame \in Frames /\ frame.depth = calls[i].depth
    BY <1>1 DEF Frames
  <1>3. changed \in Seq(Frames) /\ Len(changed) = Len(calls)
        /\ \A k \in 1 .. Len(calls) : changed[k] = IF k = i THEN frame ELSE calls[k]
    <2> HIDE DEF frame, i
    <2> QED BY <1>1, <1>2, ExceptSeq
  <1>4. \A k \in 1 .. Len(calls) : changed[k].depth = calls[k].depth
    BY <1>2, <1>3
  <1>5. changed = SetField(calls, name, position)
    BY DEF SetField
  <1> QED BY <1>3, <1>4, <1>5

-----------------------------------------------------------------------------
(* Types                                                                     *)

LEMMA RevealTyped ==
    ASSUME TypeOK, NEW name \in Names \cup {ExceptionDetail}, NEW kind \in Kinds,
           Reveal(name, kind)
    PROVE  /\ message' \in [body : {"event", "other"}, exception : BOOLEAN,
                            level : Levels, properties : Seq(Said)]
           /\ pc = "properties"
  <1>1. [name |-> name, kind |-> kind] \in Said
    BY DEF Said
  <1>2. Append(message.properties, [name |-> name, kind |-> kind]) \in Seq(Said)
    BY <1>1 DEF TypeOK
  <1> QED BY <1>2 DEF TypeOK, Reveal

LEMMA ReturnTyped ==
    ASSUME TypeOK, frames # <<>>, tokens' # <<>>, Return
    PROVE  /\ pc' \in {"properties", "while"}
           /\ frames' \in Seq(Frames)
           /\ exceptions' \subseteq Exceptions
           /\ pc' = "while" => frames' # <<>> /\ tokens' # <<>>
  <1> DEFINE frame == Top(frames)
  <1>1. frame \in Frames /\ Pop(frames) \in Seq(Frames) /\ Len(Pop(frames)) = Len(frames) - 1
    BY StackTyped DEF TypeOK
  <1>2. [start |-> frame.start, fields |-> frame.fields] \in Exceptions
    BY <1>1 DEF Frames, Exceptions
  <1>3. exceptions' \subseteq Exceptions
    BY <1>2 DEF TypeOK, Return
  <1>4. CASE Len(frames) = 1
    BY <1>3, <1>4 DEF Return
  <1>5. CASE Len(frames) # 1
    <2>1. Pop(frames) # <<>> /\ frame.start \in Nat
      BY <1>1, <1>5 DEF Frames, TypeOK
    <2>2. /\ SetField(Pop(frames), InnerException, frame.start) \in Seq(Frames)
          /\ Len(SetField(Pop(frames), InnerException, frame.start)) = Len(Pop(frames))
      BY <1>1, <2>1, SetFieldTyped
    <2>3. frames' = SetField(Pop(frames), InnerException, frame.start) /\ pc' = "while"
      BY <1>5 DEF Return
    <2> QED BY <2>1, <2>2, <2>3, <1>3
  <1> QED BY <1>4, <1>5

\* The type invariant is inductive.
LEMMA TypeStep == TypeOK /\ [Next]_vars => TypeOK'
  <1> SUFFICES ASSUME TypeOK, [Next]_vars PROVE TypeOK'
    OBVIOUS
  <1>1. CASE ReadHeader
    <2>1. PICK body \in {"event", "other"}, exception \in BOOLEAN, level \in Levels :
            /\ message' = [message EXCEPT !.body = body, !.exception = exception,
                                          !.level = level]
            /\ \/ /\ level # "unknown"
                  /\ event' = [event EXCEPT
                                !.level = IF level = "absent" THEN @ ELSE level,
                                !.exception = IF exception THEN "text" ELSE @]
                  /\ pc' = "properties"
               \/ pc' = "unreadable" /\ UNCHANGED event
      BY <1>1 DEF ReadHeader
    <2>2. message' \in [body : {"event", "other"}, exception : BOOLEAN,
                        level : Levels, properties : Seq(Said)]
      BY <2>1 DEF TypeOK
    <2>3. event' \in [level : {"Information", "known"}, exception : {"none", "text", "detail"},
                      properties : [Names -> {"absent", "null", "int", "text"}]]
      BY <2>1 DEF TypeOK, Levels
    <2>4. pc' \in {"properties", "unreadable"}
      BY <2>1
    <2>5. UNCHANGED <<tokens, open, frames, exceptions>>
      BY <1>1 DEF ReadHeader, detailVars
    <2> QED BY <2>2, <2>3, <2>4, <2>5 DEF TypeOK
  <1>2. CASE ReadProperty
    <2>1. PICK name \in Names, kind \in Kinds :
            /\ Reveal(name, kind)
            /\ \/ /\ kind # "number"
                  /\ event' = [event EXCEPT !.properties[name] = ScalarOf[kind]]
                  /\ UNCHANGED pc
               \/ /\ pc' = "unreadable"
                  /\ UNCHANGED event
      BY <1>2 DEF ReadProperty
    <2>2. kind # "number" => ScalarOf[kind] \in {"null", "int", "text"}
      BY DEF ScalarOf, Kinds
    <2>3. event' \in [level : {"Information", "known"}, exception : {"none", "text", "detail"},
                      properties : [Names -> {"absent", "null", "int", "text"}]]
      <3>1. event \in [level : {"Information", "known"},
                       exception : {"none", "text", "detail"},
                       properties : [Names -> {"absent", "null", "int", "text"}]]
        BY DEF TypeOK
      <3> DEFINE scalar == ScalarOf[kind]
      <3>2. \/ /\ scalar \in {"null", "int", "text"}
               /\ event' = [event EXCEPT !.properties[name] = scalar]
            \/ event' = event
        BY <2>1, <2>2
      <3> HIDE DEF scalar
      <3> QED BY <3>1, <3>2
    <2>4. pc' \in {"properties", "unreadable"}
      BY <2>1 DEF Reveal
    <2>5. tokens' \in Seq(Tokens) /\ exceptions' \subseteq Exceptions /\ open' = open
          /\ frames' = frames
      BY <1>2 DEF ReadProperty
    <2> QED BY <2>1, <2>3, <2>4, <2>5, RevealTyped DEF TypeOK
  <1>3. CASE ReadPlainDetail
    <2>1. PICK kind \in Kinds \ {"object"} :
            /\ Reveal(ExceptionDetail, kind)
            /\ \/ /\ event' = [event EXCEPT !.exception =
                                    IF kind = "null" THEN "none" ELSE "detail"]
                  /\ UNCHANGED pc
               \/ pc' = "unreadable" /\ UNCHANGED event
      BY <1>3 DEF ReadPlainDetail
    <2>2. message' \in [body : {"event", "other"}, exception : BOOLEAN,
                        level : Levels, properties : Seq(Said)]
          /\ pc = "properties"
      BY <2>1, RevealTyped
    <2>3. event' \in [level : {"Information", "known"}, exception : {"none", "text", "detail"},
                      properties : [Names -> {"absent", "null", "int", "text"}]]
      BY <2>1 DEF TypeOK
    <2>4. tokens' \in Seq(Tokens) /\ exceptions' \subseteq Exceptions
          /\ pc' \in {"properties", "unreadable"}
      BY <1>3, <2>1, <2>2 DEF ReadPlainDetail
    <2>5. open' \in Seq({"object", "array"}) /\ frames' \in Seq(Frames)
      BY <1>3 DEF ReadPlainDetail, TypeOK
    <2> QED BY <2>2, <2>3, <2>4, <2>5 DEF TypeOK
  <1>4. CASE ReadDetail
    <2>1. /\ Reveal(ExceptionDetail, "object") /\ tokens' = <<"StartObject">>
          /\ open' = <<"object">> /\ frames' = <<Frame(1, 0)>> /\ exceptions' = {}
          /\ event' = [event EXCEPT !.exception = "detail"] /\ pc' = "while"
      BY <1>4 DEF ReadDetail
    <2>2. "object" \in Kinds /\ "StartObject" \in Tokens /\ Frame(1, 0) \in Frames
      BY FrameTyped DEF Kinds, Tokens, Values, Openers
    <2>3. message' \in [body : {"event", "other"}, exception : BOOLEAN,
                        level : Levels, properties : Seq(Said)]
      BY <2>1, <2>2, RevealTyped
    <2>4. event' \in [level : {"Information", "known"}, exception : {"none", "text", "detail"},
                      properties : [Names -> {"absent", "null", "int", "text"}]]
      BY <2>1 DEF TypeOK
    <2>5. tokens' \in Seq(Tokens) /\ open' \in Seq({"object", "array"})
          /\ frames' \in Seq(Frames) /\ frames' # <<>> /\ tokens' # <<>>
      BY <2>1, <2>2
    <2> QED BY <2>1, <2>3, <2>4, <2>5 DEF TypeOK
  <1>5. CASE EndProperties
    BY <1>5 DEF EndProperties, TypeOK, detailVars
  <1>6. CASE ReadName
    <2>1. PICK name \in FieldNames : Read(name)
      BY <1>6 DEF ReadName
    <2>2. name \in Tokens
      BY DEF Tokens
    <2> QED BY <1>6, <2>1, <2>2, ReadTyped DEF ReadName, TypeOK
  <1>7. CASE SkipToken
    <2>1. PICK token \in Values \cup {"EndArray"} : Read(token)
      BY <1>7 DEF SkipToken
    <2>2. token \in Tokens
      BY DEF Tokens, Closers
    <2> QED BY <1>7, <2>1, <2>2, ReadTyped DEF SkipToken, TypeOK
  <1>8. CASE EndObject
    <2>1. Read("EndObject") /\ "EndObject" \in Tokens /\ frames # <<>> /\ tokens # <<>>
      BY <1>8 DEF EndObject, Tokens, Closers, TypeOK
    <2>2. tokens' \in Seq(Tokens) /\ tokens' # <<>> /\ open' \in Seq({"object", "array"})
      BY <2>1, ReadTyped
    <2>3. CASE Return
      BY <1>8, <2>1, <2>2, <2>3, ReturnTyped DEF EndObject, TypeOK
    <2>4. CASE ~Return
      BY <1>8, <2>2, <2>4 DEF EndObject, TypeOK
    <2> QED BY <2>3, <2>4
  <1>9. CASE ReadText
    <2>1. PICK token \in Values :
            /\ Read(token)
            /\ \/ /\ frames' = SetField(frames, Top(tokens),
                                        IF token = "Null" THEN 0 ELSE Len(tokens'))
                  /\ pc' = "while"
               \/ /\ pc' = "unreadable"
                  /\ UNCHANGED frames
      BY <1>9 DEF ReadText
    <2>2. token \in Tokens /\ frames # <<>> /\ tokens # <<>>
      BY <1>9 DEF Tokens, ReadText, TypeOK
    <2>3. tokens' \in Seq(Tokens) /\ tokens' # <<>> /\ open' \in Seq({"object", "array"})
      BY <2>1, <2>2, ReadTyped
    <2>4. (IF token = "Null" THEN 0 ELSE Len(tokens')) \in Nat
      BY <2>3
    <2>5. LET calls == SetField(frames, Top(tokens),
                                IF token = "Null" THEN 0 ELSE Len(tokens'))
          IN  calls \in Seq(Frames) /\ Len(calls) = Len(frames)
      <3> HIDE DEF Top
      <3> QED BY <2>2, <2>4, SetFieldTyped DEF TypeOK
    <2>6. frames' \in Seq(Frames) /\ frames' # <<>>
      BY <2>1, <2>2, <2>5 DEF TypeOK
    <2> QED BY <1>9, <2>1, <2>3, <2>6 DEF ReadText, TypeOK
  <1>10. CASE ReadInner
    <2>1. frames # <<>> /\ tokens # <<>> /\ Values \subseteq Tokens
      BY <1>10 DEF ReadInner, Tokens, TypeOK
    <2>2. tokens' \in Seq(Tokens) /\ tokens' # <<>> /\ open' \in Seq({"object", "array"})
      <3>1. PICK token \in Values : Read(token)
        BY <1>10 DEF ReadInner, Values, Openers
      <3> QED BY <2>1, <3>1, ReadTyped
    <2>3. frames' \in Seq(Frames) /\ frames' # <<>>
      <3>1. CASE frames' = SetField(frames, InnerException, 0)
        <4>1. /\ SetField(frames, InnerException, 0) \in Seq(Frames)
              /\ Len(SetField(frames, InnerException, 0)) = Len(frames)
          BY <2>1, SetFieldTyped DEF TypeOK
        <4> QED BY <2>1, <3>1, <4>1 DEF TypeOK
      <3>2. CASE frames' = Append(frames, Frame(Len(tokens'), Len(open)))
        <4>1. Frame(Len(tokens'), Len(open)) \in Frames
          BY <2>2, FrameTyped DEF TypeOK
        <4> QED BY <3>2, <4>1 DEF TypeOK
      <3>3. CASE frames' = frames
        BY <2>1, <3>3 DEF TypeOK
      <3> QED BY <1>10, <3>1, <3>2, <3>3 DEF ReadInner
    <2> QED BY <1>10, <2>2, <2>3 DEF ReadInner, TypeOK
  <1>11. CASE SkipValue
    <2>1. PICK token \in Values : Read(token)
      BY <1>11 DEF SkipValue
    <2>2. token \in Tokens
      BY DEF Tokens
    <2> QED BY <1>11, <2>1, <2>2, ReadTyped DEF SkipValue, TypeOK
  <1>12. CASE UNCHANGED vars
    BY <1>12 DEF vars, detailVars, TypeOK
  <1> QED BY <1>1, <1>2, <1>3, <1>4, <1>5, <1>6, <1>7, <1>8, <1>9, <1>10, <1>11, <1>12
          DEF Next

LEMMA TypeInit == Init => TypeOK
  BY DEF Init, TypeOK, Levels

\* The variables of the readers keep their types.
THEOREM TypeCorrect == Spec => []TypeOK
  BY TypeInit, TypeStep, PTL DEF Spec

-----------------------------------------------------------------------------
(* The event has what the message said                                       *)

LastDetail(said, i) ==
    /\ said[i].name = ExceptionDetail
    /\ \A j \in DOMAIN said : said[j].name = ExceptionDetail => j <= i

\* EventIsMessage at every step: what was read so far is in the event.
SaidInv ==
    LET said == message.properties IN
    /\ \A i \in DOMAIN said : said[i].name # ExceptionDetail /\ pc # "unreadable" =>
          /\ said[i].kind # "number"
          /\ event.properties[said[i].name] = ScalarOf[said[i].kind]
    /\ \A name \in Names : event.properties[name] # "absent" =>
          \E i \in DOMAIN said : said[i].name = name
    /\ pc = "header" => said = <<>> /\ event.exception = "none"
    /\ pc \notin {"header", "unreadable"} =>
          /\ \A i \in DOMAIN said : LastDetail(said, i) =>
                event.exception = IF said[i].kind = "null" THEN "none" ELSE "detail"
          /\ (\A i \in DOMAIN said : said[i].name # ExceptionDetail) =>
                event.exception = IF message.exception THEN "text" ELSE "none"

\* What Reveal adds to what the message said.
LEMMA RevealSaid ==
    ASSUME TypeOK, NEW name \in Names \cup {ExceptionDetail}, NEW kind \in Kinds,
           Reveal(name, kind)
    PROVE  LET said == message.properties
               now == message'.properties
           IN  /\ Len(said) \in Nat
               /\ DOMAIN said = 1 .. Len(said)
               /\ DOMAIN now = 1 .. Len(said) + 1
               /\ \A i \in 1 .. Len(said) : now[i] = said[i]
               /\ now[Len(said) + 1] = [name |-> name, kind |-> kind]
               /\ message'.exception = message.exception
               /\ pc = "properties"
    BY DEF TypeOK, Reveal

\* An ExceptionDetail leaves the other properties as they are.
LEMMA DetailSaid ==
    ASSUME TypeOK, SaidInv, NEW kind \in Kinds, Reveal(ExceptionDetail, kind),
           pc' # "header",
           event'.properties = event.properties,
           pc' # "unreadable" =>
              event'.exception = IF kind = "null" THEN "none" ELSE "detail"
    PROVE  SaidInv'
  <1> DEFINE said == message.properties
             now == message'.properties
  <1>1. /\ Len(said) \in Nat
        /\ DOMAIN said = 1 .. Len(said)
        /\ DOMAIN now = 1 .. Len(said) + 1
        /\ \A i \in 1 .. Len(said) : now[i] = said[i]
        /\ now[Len(said) + 1] = [name |-> ExceptionDetail, kind |-> kind]
        /\ pc = "properties"
    BY RevealSaid
  <1>2. ASSUME NEW i \in DOMAIN now, now[i].name # ExceptionDetail
        PROVE  /\ now[i].kind # "number"
               /\ event'.properties[now[i].name] = ScalarOf[now[i].kind]
    <2>1. i \in DOMAIN said /\ now[i] = said[i]
      BY <1>1, <1>2
    <2> QED BY <1>1, <1>2, <2>1 DEF SaidInv
  <1>3. ASSUME NEW name \in Names, event'.properties[name] # "absent"
        PROVE  \E i \in DOMAIN now : now[i].name = name
    BY <1>1, <1>3 DEF SaidInv
  <1>4. ASSUME NEW i \in DOMAIN now, LastDetail(now, i), pc' # "unreadable"
        PROVE  event'.exception = IF now[i].kind = "null" THEN "none" ELSE "detail"
    <2>1. Len(said) + 1 \in DOMAIN now /\ now[Len(said) + 1].name = ExceptionDetail
      BY <1>1
    <2>2. i = Len(said) + 1
      BY <1>1, <1>4, <2>1 DEF LastDetail
    <2> QED BY <1>1, <1>4, <2>2
  <1>5. \E i \in DOMAIN now : now[i].name = ExceptionDetail
    <2>1. Len(said) + 1 \in DOMAIN now
      BY <1>1
    <2> QED BY <1>1, <2>1
  <1> QED BY <1>2, <1>3, <1>4, <1>5 DEF SaidInv

LEMMA SaidStep == TypeOK /\ SaidInv /\ [Next]_vars => SaidInv'
  <1> SUFFICES ASSUME TypeOK, SaidInv, [Next]_vars PROVE SaidInv'
    OBVIOUS
  <1>1. CASE ReadHeader
    <2>1. /\ message'.properties = message.properties
          /\ event'.properties = event.properties
          /\ pc = "header" /\ pc' # "header"
          /\ pc' # "unreadable" =>
                event'.exception = IF message'.exception THEN "text" ELSE event.exception
      BY <1>1 DEF ReadHeader, TypeOK
    <2>2. DOMAIN message.properties = {} /\ event.exception = "none"
      BY <2>1 DEF SaidInv
    <2> QED BY <2>1, <2>2 DEF SaidInv
  <1>2. CASE ReadProperty
    <2>1. PICK name \in Names, kind \in Kinds :
            /\ Reveal(name, kind)
            /\ \/ /\ kind # "number"
                  /\ event.properties[name] = "absent"
                  /\ event' = [event EXCEPT !.properties[name] = ScalarOf[kind]]
                  /\ UNCHANGED pc
               \/ /\ pc' = "unreadable"
                  /\ UNCHANGED event
      BY <1>2 DEF ReadProperty
    <2> DEFINE said == message.properties
               now == message'.properties
    <2>2. /\ Len(said) \in Nat
          /\ DOMAIN said = 1 .. Len(said)
          /\ DOMAIN now = 1 .. Len(said) + 1
          /\ \A i \in 1 .. Len(said) : now[i] = said[i]
          /\ now[Len(said) + 1] = [name |-> name, kind |-> kind]
          /\ message'.exception = message.exception
          /\ pc = "properties"
      BY <2>1, RevealSaid
    <2>3. name # ExceptionDetail
      BY MessageReaderAssumption
    <2>4. /\ event'.exception = event.exception
          /\ \A other \in Names \ {name} :
                event'.properties[other] = event.properties[other]
      BY <2>1 DEF TypeOK
    <2>5. pc' # "unreadable" =>
            /\ kind # "number"
            /\ event'.properties[name] = ScalarOf[kind]
            /\ event.properties[name] = "absent"
      BY <2>1, <2>2 DEF TypeOK
    <2>6. \A i \in DOMAIN now : now[i].name # ExceptionDetail /\ pc' # "unreadable" =>
            now[i].kind # "number" /\ event'.properties[now[i].name] = ScalarOf[now[i].kind]
      <3> SUFFICES ASSUME NEW i \in DOMAIN now, now[i].name # ExceptionDetail,
                          pc' # "unreadable"
                   PROVE  /\ now[i].kind # "number"
                          /\ event'.properties[now[i].name] = ScalarOf[now[i].kind]
        OBVIOUS
      <3>1. CASE i = Len(said) + 1
        BY <2>2, <2>5, <3>1
      <3>2. CASE i \in 1 .. Len(said)
        <4>1. now[i] = said[i] /\ i \in DOMAIN said /\ said[i] \in Said
          BY <2>2, <3>2 DEF TypeOK
        <4>2. said[i].kind # "number" /\ event.properties[said[i].name] = ScalarOf[said[i].kind]
          BY <2>2, <4>1 DEF SaidInv
        <4>3. said[i].name = name => event'.properties[name] = ScalarOf[said[i].kind]
          <5>1. SUFFICES ASSUME said[i].name = name PROVE FALSE
            OBVIOUS
          <5>2. event.properties[name] = "absent" /\ ScalarOf[said[i].kind] = "absent"
            BY <2>5, <4>2, <5>1
          <5> QED BY <5>2, <4>1, <4>2 DEF ScalarOf, Said, Kinds
        <4>4. said[i].name \in Names
          BY <4>1 DEF Said
        <4> QED BY <2>4, <4>1, <4>2, <4>3, <4>4
      <3> QED BY <2>2, <3>1, <3>2
    <2>7. \A n \in Names : event'.properties[n] # "absent" =>
            \E i \in DOMAIN now : now[i].name = n
      <3> SUFFICES ASSUME NEW n \in Names, event'.properties[n] # "absent"
                   PROVE  \E i \in DOMAIN now : now[i].name = n
        OBVIOUS
      <3>1. CASE n = name
        BY <2>2, <3>1
      <3>2. CASE n # name
        BY <2>2, <2>4, <3>2 DEF SaidInv
      <3> QED BY <3>1, <3>2
    <2>8. ASSUME pc' # "unreadable"
          PROVE  /\ \A i \in DOMAIN now : LastDetail(now, i) =>
                       event'.exception = IF now[i].kind = "null" THEN "none" ELSE "detail"
                 /\ (\A i \in DOMAIN now : now[i].name # ExceptionDetail) =>
                       event'.exception = IF message'.exception THEN "text" ELSE "none"
      <3>1. ASSUME NEW i \in DOMAIN now, LastDetail(now, i)
            PROVE  i \in DOMAIN said /\ now[i] = said[i] /\ LastDetail(said, i)
        <4>1. i # Len(said) + 1
          BY <2>2, <2>3, <3>1 DEF LastDetail
        <4>2. i \in DOMAIN said /\ now[i] = said[i]
          BY <2>2, <4>1
        <4> QED BY <2>2, <3>1, <4>2 DEF LastDetail
      <3>2. (\A i \in DOMAIN now : now[i].name # ExceptionDetail) =>
               \A i \in DOMAIN said : said[i].name # ExceptionDetail
        BY <2>2
      <3> QED BY <2>2, <2>4, <3>1, <3>2 DEF SaidInv
    <2>9. pc' # "header"
      BY <2>1, <2>2
    <2> QED BY <2>6, <2>7, <2>8, <2>9 DEF SaidInv
  <1>3. CASE ReadPlainDetail
    <2>1. PICK kind \in Kinds :
            /\ Reveal(ExceptionDetail, kind)
            /\ pc' # "header"
            /\ event'.properties = event.properties
            /\ pc' # "unreadable" =>
                  event'.exception = IF kind = "null" THEN "none" ELSE "detail"
      BY <1>3 DEF ReadPlainDetail, Reveal, TypeOK
    <2> QED BY <2>1, DetailSaid
  <1>4. CASE ReadDetail
    <2>1. /\ Reveal(ExceptionDetail, "object") /\ "object" \in Kinds
          /\ pc' # "header"
          /\ event'.properties = event.properties
          /\ event'.exception = "detail"
      BY <1>4 DEF ReadDetail, Kinds, TypeOK
    <2> QED BY <2>1, DetailSaid
  <1>5. CASE EndProperties
    BY <1>5 DEF EndProperties, SaidInv
  <1>6. CASE /\ pc \in {"while", "value"}
             /\ pc' # "header"
             /\ UNCHANGED <<message, event>>
    BY <1>6 DEF SaidInv
  <1>7. CASE UNCHANGED vars
    BY <1>7 DEF vars, SaidInv
  <1>8. CASE \/ ReadName \/ SkipToken \/ EndObject \/ ReadText \/ ReadInner \/ SkipValue
    BY <1>6, <1>8
       DEF ReadName, SkipToken, EndObject, ReadText, ReadInner, SkipValue, Return
  <1> QED BY <1>1, <1>2, <1>3, <1>4, <1>5, <1>7, <1>8 DEF Next

LEMMA SaidInit == Init => SaidInv
  BY DEF Init, SaidInv

\* Whatever a message holds, the event of a reader that gets to its end is what
\* the message said (the invariant EventIsMessage).
THEOREM ReadAsSaid == Spec => []EventIsMessage
  <1>1. TypeOK /\ SaidInv => EventIsMessage
    BY DEF TypeOK, SaidInv, LastDetail, EventIsMessage
  <1> QED BY <1>1, TypeInit, TypeStep, SaidInit, SaidStep, PTL DEF Spec

-----------------------------------------------------------------------------
(* Why a message cannot be read                                              *)

\* Every call of ExceptionJsonConverter.Read has its object among those that
\* are open, an inner call inside an outer one; without a foreign object these
\* are all the objects that are open.
FrameInv ==
    pc \in {"while", "value"} =>
        /\ \A k \in 1 .. Len(frames) :
              frames[k].depth + 1 \in 1 .. Len(open) /\ open[frames[k].depth + 1] = "object"
        /\ \A k, l \in 1 .. Len(frames) : k < l => frames[k].depth < frames[l].depth
        /\ ForeignObjects = {} =>
              \A p \in 1 .. Len(open) : open[p] = "object" =>
                 \E k \in 1 .. Len(frames) : frames[k].depth + 1 = p
        /\ pc = "while" => Top(tokens) \notin FieldNames
        /\ pc = "value" => Top(tokens) \in FieldNames

\* A foreign object stays one when the next token is read, and an object that
\* does not follow the name InnerException is one.
LEMMA ForeignGrows ==
    ASSUME TypeOK, tokens # <<>>, NEW token \in Tokens, Read(token)
    PROVE  /\ ForeignObjects \subseteq ForeignObjects'
           /\ token = "StartObject" /\ Top(tokens) # InnerException =>
                ForeignObjects' # {}
  <1>1. /\ Len(tokens) \in Nat \ {0}
        /\ DOMAIN tokens = 1 .. Len(tokens)
        /\ DOMAIN tokens' = 1 .. Len(tokens) + 1
        /\ tokens'[Len(tokens) + 1] = token
        /\ \A i \in 1 .. Len(tokens) : tokens'[i] = tokens[i]
    BY ReadTyped DEF TypeOK
  <1>2. ASSUME NEW i \in ForeignObjects
        PROVE  i \in ForeignObjects'
    <2>1. /\ i \in 1 .. Len(tokens) /\ tokens[i] = "StartObject"
          /\ i # 1 /\ tokens[i - 1] # InnerException
      BY <1>1, <1>2 DEF ForeignObjects, ExceptionObjects, Positions
    <2>2. /\ i \in DOMAIN tokens' /\ tokens'[i] = "StartObject"
          /\ i # 1 /\ tokens'[i - 1] # InnerException
      BY <1>1, <2>1
    <2> QED BY <2>2 DEF ForeignObjects, ExceptionObjects, Positions
  <1>3. ASSUME token = "StartObject", Top(tokens) # InnerException
        PROVE  ForeignObjects' # {}
    <2> DEFINE last == Len(tokens) + 1
    <2>1. /\ last \in DOMAIN tokens' /\ tokens'[last] = "StartObject"
          /\ last # 1 /\ tokens'[last - 1] # InnerException
      BY <1>1, <1>3 DEF Top
    <2>2. last \in ForeignObjects'
      BY <2>1 DEF ForeignObjects, ExceptionObjects, Positions
    <2> QED BY <2>2
  <1> QED BY <1>2, <1>3

\* What a token does to the stack of open objects and arrays, in a call.
LEMMA OpenAfter ==
    ASSUME TypeOK, NEW token \in Tokens, Read(token)
    PROVE  /\ Len(open) \in Nat
           /\ token \in {"StartObject", "StartArray"} =>
                /\ Len(open') = Len(open) + 1
                /\ open'[Len(open) + 1] =
                      IF token = "StartObject" THEN "object" ELSE "array"
                /\ \A p \in 1 .. Len(open) : open'[p] = open[p]
           /\ token \in Closers /\ open # <<>> =>
                /\ Len(open') = Len(open) - 1
                /\ \A p \in 1 .. Len(open) - 1 : open'[p] = open[p]
           /\ token \notin Openers \cup Closers => open' = open
  <1>1. open \in Seq({"object", "array"}) /\ open' = Nest(token)
    BY DEF TypeOK, Read
  <1>2. CASE token = "StartObject"
    BY <1>1, <1>2 DEF Nest, Openers, Closers
  <1>3. CASE token = "StartArray"
    BY <1>1, <1>3 DEF Nest, Openers, Closers
  <1>4. CASE token \in Closers
    <2>1. open' = Pop(open)
      BY <1>1, <1>4 DEF Nest, Closers
    <2>2. open # <<>> =>
            /\ Len(Pop(open)) = Len(open) - 1
            /\ \A p \in 1 .. Len(open) - 1 : Pop(open)[p] = open[p]
      BY <1>1, StackTyped
    <2> QED BY <1>1, <1>4, <2>1, <2>2 DEF Openers, Closers
  <1>5. CASE token \notin Openers \cup Closers
    BY <1>1, <1>5 DEF Nest, Openers, Closers
  <1> QED BY <1>2, <1>3, <1>4, <1>5 DEF Openers

\* The end of an object that the loop meets is the end of an open one.
LEMMA EndsObject ==
    ASSUME TypeOK, FrameInv, pc = "while", Read("EndObject")
    PROVE  /\ Len(open) \in Nat \ {0}
           /\ open[Len(open)] = "object"
  <1>1. Len(open) \in Nat \ {0}
    <2>1. frames # <<>> /\ Len(frames) \in Nat
      BY DEF TypeOK
    <2>2. frames[1].depth + 1 \in 1 .. Len(open)
      BY <2>1 DEF FrameInv, TypeOK
    <2> QED BY <2>2 DEF TypeOK
  <1>2. Top(open) # "array"
    BY MessageReaderAssumption DEF Read, Follow, Values, Openers, Closers
  <1>3. open[Len(open)] \in {"object", "array"}
    BY <1>1 DEF TypeOK
  <1> QED BY <1>1, <1>2, <1>3 DEF Top

\* Tokens that begin or end no exception's object leave the calls as they are.
LEMMA SameFrames ==
    ASSUME TypeOK, FrameInv, pc \in {"while", "value"},
           Len(frames') = Len(frames),
           \A k \in 1 .. Len(frames) : frames'[k].depth = frames[k].depth,
           NEW token \in Tokens \ {"EndObject"}, Read(token),
           token = "StartObject" => Top(tokens) # InnerException,
           pc' = "while" => token \notin FieldNames,
           pc' = "value" => token \in FieldNames
    PROVE  FrameInv'
  <1>1. tokens # <<>> /\ Len(open) \in Nat
    BY DEF TypeOK
  <1>2. ForeignObjects \subseteq ForeignObjects'
        /\ (token = "StartObject" => ForeignObjects' # {})
    BY <1>1, ForeignGrows
  <1>3. Top(tokens)' = token
    BY <1>1, ReadTyped DEF Top
  <1>4. \A k \in 1 .. Len(frames) :
            /\ frames[k].depth + 1 \in 1 .. Len(open)
            /\ open[frames[k].depth + 1] = "object"
    BY DEF FrameInv
  <1>5. /\ Len(open') \in Nat
        /\ \A k \in 1 .. Len(frames) :
              /\ frames[k].depth + 1 \in 1 .. Len(open')
              /\ open'[frames[k].depth + 1] = "object"
        /\ ForeignObjects' = {} =>
              \A p \in 1 .. Len(open') : open'[p] = "object" =>
                 p \in 1 .. Len(open) /\ open[p] = "object"
    <2>1. CASE token \in Openers
      <3>1. /\ Len(open') = Len(open) + 1
            /\ open'[Len(open) + 1] = IF token = "StartObject" THEN "object" ELSE "array"
            /\ \A p \in 1 .. Len(open) : open'[p] = open[p]
        BY <2>1, OpenAfter DEF Openers
      <3> QED BY <1>1, <1>2, <1>4, <3>1
    <2>2. CASE token = "EndArray"
      <3>1. Top(open) = "array"
        BY <2>2, MessageReaderAssumption DEF Read, Follow, Values, Openers, Closers
      <3>2. open # <<>>
        <4>1. frames # <<>> /\ Len(frames) \in Nat
          BY DEF TypeOK
        <4>2. 1 \in 1 .. Len(frames)
          BY <4>1 DEF TypeOK
        <4> QED BY <1>4, <4>2
      <3>3. /\ Len(open') = Len(open) - 1
            /\ \A p \in 1 .. Len(open) - 1 : open'[p] = open[p]
        BY <2>2, <3>2, OpenAfter DEF Closers
      <3>4. Len(open) \in Nat \ {0}
        BY <3>2 DEF TypeOK
      <3>5. \A k \in 1 .. Len(frames) : frames[k].depth + 1 # Len(open)
        BY <1>4, <3>1 DEF Top
      <3>6. \A k \in 1 .. Len(frames) : frames[k].depth + 1 \in 1 .. Len(open) - 1
        <4> SUFFICES ASSUME NEW k \in 1 .. Len(frames)
                     PROVE  frames[k].depth + 1 \in 1 .. Len(open) - 1
          OBVIOUS
        <4> DEFINE p == frames[k].depth + 1
        <4>1. p \in 1 .. Len(open) /\ p # Len(open)
          BY <1>4, <3>5
        <4> HIDE DEF p
        <4>2. p \in 1 .. Len(open) - 1
          BY <3>4, <4>1
        <4> QED BY <4>2 DEF p
      <3>7. Len(open') \in Nat /\ 1 .. Len(open') = 1 .. Len(open) - 1
        BY <3>3, <3>4
      <3>8. \A k \in 1 .. Len(frames) :
                /\ frames[k].depth + 1 \in 1 .. Len(open')
                /\ open'[frames[k].depth + 1] = "object"
        BY <1>4, <3>3, <3>6, <3>7
      <3>9. \A p \in 1 .. Len(open') : p \in 1 .. Len(open) /\ open[p] = open'[p]
        BY <3>3, <3>4, <3>7
      <3> QED BY <3>7, <3>8, <3>9
    <2>3. CASE token \notin Openers \cup Closers
      BY <1>1, <1>4, <2>3, OpenAfter
    <2> QED BY <2>1, <2>2, <2>3 DEF Closers
  <1>6. \A k, l \in 1 .. Len(frames) : k < l => frames[k].depth < frames[l].depth
    BY DEF FrameInv
  <1>7. ForeignObjects' = {} =>
          \A p \in 1 .. Len(open') : open'[p] = "object" =>
             \E k \in 1 .. Len(frames) : frames[k].depth + 1 = p
    BY <1>2, <1>5 DEF FrameInv
  <1> QED BY <1>3, <1>5, <1>6, <1>7 DEF FrameInv

\* The object of an inner exception is that of the call that begins.
LEMMA InnerFrame ==
    ASSUME TypeOK, FrameInv, pc = "value", Read("StartObject"), pc' = "while",
           frames' = Append(frames, Frame(Len(tokens'), Len(open)))
    PROVE  FrameInv'
  <1>1. tokens # <<>> /\ "StartObject" \in Tokens /\ Len(open) \in Nat
    BY DEF TypeOK, Tokens, Values, Openers
  <1>2. ForeignObjects \subseteq ForeignObjects'
    BY <1>1, ForeignGrows
  <1>3. Top(tokens)' = "StartObject" /\ "StartObject" \notin FieldNames
    BY <1>1, ReadTyped, MessageReaderAssumption DEF Top, Values, Openers
  <1>4. /\ Len(open') = Len(open) + 1
        /\ open'[Len(open) + 1] = "object"
        /\ \A p \in 1 .. Len(open) : open'[p] = open[p]
    BY <1>1, OpenAfter
  <1>5. /\ Len(frames) \in Nat
        /\ Len(frames') = Len(frames) + 1
        /\ frames'[Len(frames) + 1].depth = Len(open)
        /\ \A k \in 1 .. Len(frames) : frames'[k] = frames[k] /\ frames[k].depth \in Nat
    <2> DEFINE frame == Frame(Len(tokens'), Len(open))
    <2>1. frames \in Seq(Frames) /\ frame.depth = Len(open)
      BY DEF TypeOK, Frame
    <2>2. frames' = Append(frames, frame)
      OBVIOUS
    <2> HIDE DEF frame
    <2>3. /\ Len(frames) \in Nat
          /\ Len(frames') = Len(frames) + 1
          /\ frames'[Len(frames) + 1] = frame
          /\ \A k \in 1 .. Len(frames) : frames'[k] = frames[k] /\ frames[k] \in Frames
      BY <2>1, <2>2
    <2> QED BY <2>1, <2>3 DEF Frames
  <1>6. \A k \in 1 .. Len(frames) :
            /\ frames[k].depth + 1 \in 1 .. Len(open)
            /\ open[frames[k].depth + 1] = "object"
    BY DEF FrameInv
  <1>7. \A k \in 1 .. Len(frames') :
            /\ frames'[k].depth + 1 \in 1 .. Len(open')
            /\ open'[frames'[k].depth + 1] = "object"
    <2> SUFFICES ASSUME NEW k \in 1 .. Len(frames')
                 PROVE  /\ frames'[k].depth + 1 \in 1 .. Len(open')
                        /\ open'[frames'[k].depth + 1] = "object"
      OBVIOUS
    <2>1. CASE k \in 1 .. Len(frames)
      <3> DEFINE p == frames[k].depth + 1
      <3>1. p \in 1 .. Len(open) /\ open[p] = "object" /\ frames'[k].depth + 1 = p
        BY <1>5, <1>6, <2>1
      <3> HIDE DEF p
      <3>2. p \in 1 .. Len(open') /\ open'[p] = "object"
        BY <1>1, <1>4, <3>1
      <3> QED BY <3>1, <3>2
    <2>2. CASE k = Len(frames) + 1
      BY <1>1, <1>4, <1>5, <2>2
    <2> QED BY <1>5, <2>1, <2>2
  <1>8. \A k, l \in 1 .. Len(frames') : k < l => frames'[k].depth < frames'[l].depth
    <2>1. \A k, l \in 1 .. Len(frames) : k < l => frames[k].depth < frames[l].depth
      BY DEF FrameInv
    <2> QED BY <1>1, <1>5, <1>6, <2>1
  <1>9. ForeignObjects' = {} =>
          \A p \in 1 .. Len(open') : open'[p] = "object" =>
             \E k \in 1 .. Len(frames') : frames'[k].depth + 1 = p
    <2> SUFFICES ASSUME ForeignObjects' = {}, NEW p \in 1 .. Len(open'), open'[p] = "object"
                 PROVE  \E k \in 1 .. Len(frames') : frames'[k].depth + 1 = p
      OBVIOUS
    <2>1. CASE p = Len(open) + 1
      BY <1>5, <2>1
    <2>2. CASE p \in 1 .. Len(open)
      <3>1. PICK k \in 1 .. Len(frames) : frames[k].depth + 1 = p
        BY <1>2, <1>4, <2>2 DEF FrameInv
      <3> QED BY <1>5, <3>1
    <2> QED BY <1>1, <1>4, <2>1, <2>2
  <1> QED BY <1>3, <1>7, <1>8, <1>9 DEF FrameInv

\* The call whose object has ended returns, and leaves the outer ones.
LEMMA OuterFrames ==
    ASSUME TypeOK, FrameInv, pc = "while", Read("EndObject"), Return,
           Len(open') = Top(frames).depth, pc' = "while"
    PROVE  FrameInv'
  <1>1. "EndObject" \in Tokens /\ tokens # <<>>
    BY DEF Tokens, Closers, TypeOK
  <1>2. ForeignObjects \subseteq ForeignObjects'
    BY <1>1, ForeignGrows
  <1>3. Top(tokens)' = "EndObject" /\ "EndObject" \notin FieldNames
    BY <1>1, ReadTyped, MessageReaderAssumption DEF Top, Closers
  <1>4. Len(open) \in Nat \ {0}
    BY EndsObject
  <1>5. /\ Len(open') = Len(open) - 1
        /\ \A p \in 1 .. Len(open) - 1 : open'[p] = open[p]
    BY <1>1, <1>4, OpenAfter DEF Closers
  <1>6. /\ Len(frames) \in Nat \ {0}
        /\ Len(frames') = Len(frames) - 1
        /\ \A k \in 1 .. Len(frames') : frames'[k].depth = frames[k].depth
        /\ \A k \in 1 .. Len(frames) : frames[k].depth \in Nat
    <2>1. Len(frames) > 1 /\ frames \in Seq(Frames) /\ frames # <<>>
          /\ frames' = SetField(Pop(frames), InnerException, Top(frames).start)
      BY DEF Return, TypeOK
    <2>2. Top(frames) \in Frames /\ Pop(frames) \in Seq(Frames)
          /\ Len(frames) \in Nat \ {0}
          /\ Len(Pop(frames)) = Len(frames) - 1
          /\ \A k \in 1 .. Len(frames) - 1 : Pop(frames)[k] = frames[k]
      BY <2>1, StackTyped
    <2>3. Pop(frames) # <<>> /\ Top(frames).start \in Nat
      BY <2>1, <2>2 DEF Frames
    <2>4. LET calls == SetField(Pop(frames), InnerException, Top(frames).start)
          IN  /\ Len(calls) = Len(Pop(frames))
              /\ \A k \in 1 .. Len(Pop(frames)) : calls[k].depth = Pop(frames)[k].depth
      <3> DEFINE outer == Pop(frames)
                 start == Top(frames).start
      <3>1. outer \in Seq(Frames) /\ outer # <<>> /\ start \in Nat
        BY <2>2, <2>3
      <3> HIDE DEF outer, start
      <3>2. LET calls == SetField(outer, InnerException, start)
            IN  /\ Len(calls) = Len(outer)
                /\ \A k \in 1 .. Len(outer) : calls[k].depth = outer[k].depth
        BY <3>1, SetFieldTyped
      <3> QED BY <3>2 DEF outer, start
    <2>5. \A k \in 1 .. Len(frames) : frames[k].depth \in Nat
      <3>1. \A k \in 1 .. Len(frames) : frames[k] \in Frames
        BY <2>1, ElementOfSeq
      <3> QED BY <3>1 DEF Frames
    <2>6. Len(frames') = Len(frames) - 1
      BY <2>1, <2>2, <2>4
    <2>7. \A k \in 1 .. Len(frames') : frames'[k].depth = frames[k].depth
      <3> SUFFICES ASSUME NEW k \in 1 .. Len(frames')
                   PROVE  frames'[k].depth = frames[k].depth
        OBVIOUS
      <3>1. k \in 1 .. Len(frames) - 1 /\ k \in 1 .. Len(Pop(frames))
        BY <2>2, <2>6
      <3>2. Pop(frames)[k] = frames[k]
        BY <2>2, <3>1
      <3>3. frames'[k].depth = Pop(frames)[k].depth
        BY <2>1, <2>4, <3>1
      <3> QED BY <3>2, <3>3
    <2> QED BY <2>2, <2>5, <2>6, <2>7
  <1>7. \A k \in 1 .. Len(frames') : frames'[k].depth < Len(open')
    <2>1. \A k, l \in 1 .. Len(frames) : k < l => frames[k].depth < frames[l].depth
      BY DEF FrameInv
    <2> QED BY <1>6, <2>1 DEF Top
  <1>8. \A k \in 1 .. Len(frames') :
            /\ frames'[k].depth + 1 \in 1 .. Len(open')
            /\ open'[frames'[k].depth + 1] = "object"
    <2>1. \A k \in 1 .. Len(frames) : open[frames[k].depth + 1] = "object"
      BY DEF FrameInv
    <2> SUFFICES ASSUME NEW k \in 1 .. Len(frames')
                 PROVE  /\ frames'[k].depth + 1 \in 1 .. Len(open')
                        /\ open'[frames'[k].depth + 1] = "object"
      OBVIOUS
    <2>2. k \in 1 .. Len(frames) /\ frames'[k].depth = frames[k].depth
          /\ frames[k].depth \in Nat
      BY <1>6
    <2>3. frames[k].depth + 1 \in 1 .. Len(open) - 1
      BY <1>4, <1>5, <1>7, <2>2
    <2> QED BY <1>5, <2>1, <2>2, <2>3
  <1>9. \A k, l \in 1 .. Len(frames') : k < l => frames'[k].depth < frames'[l].depth
    <2>1. \A k, l \in 1 .. Len(frames) : k < l => frames[k].depth < frames[l].depth
      BY DEF FrameInv
    <2> SUFFICES ASSUME NEW k \in 1 .. Len(frames'), NEW l \in 1 .. Len(frames'), k < l
                 PROVE  frames'[k].depth < frames'[l].depth
      OBVIOUS
    <2>2. k \in 1 .. Len(frames) /\ l \in 1 .. Len(frames)
      BY <1>6
    <2>3. frames'[k].depth = frames[k].depth /\ frames'[l].depth = frames[l].depth
      BY <1>6
    <2> QED BY <2>1, <2>2, <2>3
  <1>10. ForeignObjects' = {} =>
           \A p \in 1 .. Len(open') : open'[p] = "object" =>
              \E k \in 1 .. Len(frames') : frames'[k].depth + 1 = p
    <2> SUFFICES ASSUME ForeignObjects' = {}, NEW p \in 1 .. Len(open'), open'[p] = "object"
                 PROVE  \E k \in 1 .. Len(frames') : frames'[k].depth + 1 = p
      OBVIOUS
    <2>1. p \in 1 .. Len(open) /\ open[p] = "object" /\ p <= Len(open')
      BY <1>4, <1>5
    <2>2. PICK k \in 1 .. Len(frames) : frames[k].depth + 1 = p
      BY <1>2, <2>1 DEF FrameInv
    <2>3. k # Len(frames)
      <3>1. k = Len(frames) => frames[k].depth = Len(open')
        BY DEF Top
      <3>2. frames[k].depth \in Nat /\ Len(open') \in Nat
        BY <1>4, <1>5, <1>6
      <3> QED BY <2>1, <2>2, <3>1, <3>2
    <2> QED BY <1>6, <2>2, <2>3
  <1> QED BY <1>3, <1>8, <1>9, <1>10 DEF FrameInv

LEMMA FrameStep == TypeOK /\ FrameInv /\ [Next]_vars => FrameInv'
  <1> SUFFICES ASSUME TypeOK, FrameInv, [Next]_vars, pc' \in {"while", "value"}
               PROVE  FrameInv'
    BY DEF FrameInv
  <1>1. CASE ReadHeader \/ EndProperties
    BY <1>1 DEF ReadHeader, EndProperties
  <1>2. CASE ReadProperty \/ ReadPlainDetail
    BY <1>2 DEF ReadProperty, ReadPlainDetail, Reveal
  <1>3. CASE ReadDetail
    <2>1. /\ tokens' = <<"StartObject">> /\ open' = <<"object">>
          /\ frames' = <<Frame(1, 0)>> /\ pc' = "while"
      BY <1>3 DEF ReadDetail
    <2>2. "StartObject" \notin FieldNames
      BY MessageReaderAssumption DEF Values, Openers
    <2>3. Len(frames') = 1 /\ frames'[1].depth = 0 /\ Len(open') = 1
          /\ Top(tokens)' \notin FieldNames
      BY <2>1, <2>2 DEF Frame, Top
    <2> QED BY <2>1, <2>3 DEF FrameInv
  <1>4. CASE ReadName
    <2>1. PICK name \in FieldNames : Read(name)
      BY <1>4 DEF ReadName
    <2>2. name \in Tokens \ {"EndObject"} /\ name # "StartObject"
      BY MessageReaderAssumption DEF Tokens, Closers, Values, Openers
    <2>3. pc = "while" /\ pc' = "value" /\ frames' = frames
      BY <1>4 DEF ReadName
    <2> QED BY <2>1, <2>2, <2>3, SameFrames
  <1>5. CASE SkipToken
    <2>1. PICK token \in Values \cup {"EndArray"} : Read(token)
      BY <1>5 DEF SkipToken
    <2>2. token \in Tokens \ {"EndObject"} /\ token \notin FieldNames
      BY MessageReaderAssumption DEF Tokens, Closers, Values, Openers
    <2>3. pc = "while" /\ pc' = "while" /\ frames' = frames
      BY <1>5 DEF SkipToken
    <2>4. token = "StartObject" => Top(tokens) # InnerException
      <3>1. Top(tokens) \notin FieldNames
        BY <2>3 DEF FrameInv
      <3>2. Top(tokens) \in Tokens
        <4>1. tokens # <<>> /\ tokens \in Seq(Tokens)
          BY <2>3 DEF TypeOK
        <4> QED BY <4>1, StackTyped
      <3> QED BY <3>1, <3>2 DEF Tokens, Values, Openers, Closers, InnerException
    <2> QED BY <2>1, <2>2, <2>3, <2>4, SameFrames
  <1>6. CASE EndObject
    <2>1. pc = "while" /\ Read("EndObject") /\ pc' = "while" /\ Return
          /\ Len(open') = Top(frames).depth
      BY <1>6 DEF EndObject, Return
    <2> QED BY <2>1, OuterFrames
  <1>7. CASE ReadText
    <2>1. PICK token \in Values :
            /\ Read(token)
            /\ pc' = "while" =>
                  frames' = SetField(frames, Top(tokens),
                                     IF token = "Null" THEN 0 ELSE Len(tokens'))
            /\ pc' \in {"while", "unreadable"}
      BY <1>7 DEF ReadText
    <2>2. token \in Tokens \ {"EndObject"} /\ token \notin FieldNames
      BY MessageReaderAssumption DEF Tokens, Values, Openers
    <2>3. pc = "value" /\ pc' = "while" /\ Top(tokens) # InnerException
      BY <1>7, <2>1 DEF ReadText, TextFields, InnerException
    <2>4. frames # <<>> /\ frames \in Seq(Frames) /\ tokens # <<>>
      BY <2>3 DEF TypeOK
    <2>5. (IF token = "Null" THEN 0 ELSE Len(tokens')) \in Nat
      BY <2>1, <2>2, <2>4, ReadTyped
    <2>6. LET calls == SetField(frames, Top(tokens),
                                IF token = "Null" THEN 0 ELSE Len(tokens'))
          IN  /\ Len(calls) = Len(frames)
              /\ \A k \in 1 .. Len(frames) : calls[k].depth = frames[k].depth
      BY <2>4, <2>5, SetFieldTyped
    <2>7. /\ Len(frames') = Len(frames)
          /\ \A k \in 1 .. Len(frames) : frames'[k].depth = frames[k].depth
      BY <2>1, <2>3, <2>6
    <2> QED BY <2>1, <2>2, <2>3, <2>7, SameFrames
  <1>8. CASE ReadInner
    <2>1. pc = "value" /\ pc' # "unreadable" /\ frames # <<>> /\ frames \in Seq(Frames)
      BY <1>8 DEF ReadInner, TypeOK
    <2>2. CASE Read("Null") /\ pc' = "while" /\ frames' = SetField(frames, InnerException, 0)
      <3>1. "Null" \in Tokens \ {"EndObject"} /\ "Null" \notin FieldNames
        BY MessageReaderAssumption DEF Tokens, Values, Openers
      <3>2. /\ Len(frames') = Len(frames)
            /\ \A k \in 1 .. Len(frames) : frames'[k].depth = frames[k].depth
        BY <2>1, <2>2, SetFieldTyped
      <3> QED BY <2>1, <2>2, <3>1, <3>2, SameFrames
    <2>3. CASE /\ Read("StartObject") /\ pc' = "while"
               /\ frames' = Append(frames, Frame(Len(tokens'), Len(open)))
      BY <2>1, <2>3, InnerFrame
    <2> QED BY <1>8, <2>1, <2>2, <2>3 DEF ReadInner
  <1>9. CASE SkipValue
    <2>1. PICK token \in Values : Read(token)
      BY <1>9 DEF SkipValue
    <2>2. token \in Tokens \ {"EndObject"} /\ token \notin FieldNames
      BY MessageReaderAssumption DEF Tokens, Values, Openers
    <2>3. pc = "value" /\ pc' = "while" /\ frames' = frames
      BY <1>9 DEF SkipValue
    <2>4. Top(tokens) # InnerException
      BY <1>9, <2>3 DEF SkipValue, FrameInv, KnownFields
    <2> QED BY <2>1, <2>2, <2>3, <2>4, SameFrames
  <1>10. CASE UNCHANGED vars
    BY <1>10 DEF vars, detailVars, FrameInv, ForeignObjects, ExceptionObjects, Positions, Top
  <1> QED BY <1>1, <1>2, <1>3, <1>4, <1>5, <1>6, <1>7, <1>8, <1>9, <1>10 DEF Next

\* The step that gives up has met one of the reasons.
LEMMA ReasonStep ==
    TypeOK /\ SaidInv /\ FrameInv /\ UnreadableHasReason /\ [Next]_vars
        => UnreadableHasReason'
  <1> SUFFICES ASSUME TypeOK, SaidInv, FrameInv, UnreadableHasReason, [Next]_vars,
                      pc' = "unreadable"
               PROVE  UnreadableHasReason'
    BY DEF UnreadableHasReason
  <1>1. CASE ReadHeader
    BY <1>1 DEF ReadHeader, UnreadableHasReason, TypeOK
  <1>2. CASE ReadProperty
    <2>1. PICK name \in Names, kind \in Kinds :
            Reveal(name, kind) /\ (kind = "number" \/ event.properties[name] # "absent")
      <3>1. pc # "unreadable"
        BY <1>2 DEF ReadProperty, Reveal
      <3> QED BY <1>2, <3>1 DEF ReadProperty
    <2> DEFINE said == message.properties
               now == message'.properties
    <2>2. /\ Len(said) \in Nat
          /\ DOMAIN said = 1 .. Len(said)
          /\ DOMAIN now = 1 .. Len(said) + 1
          /\ \A i \in 1 .. Len(said) : now[i] = said[i]
          /\ now[Len(said) + 1] = [name |-> name, kind |-> kind]
      BY <2>1, RevealSaid
    <2>3. CASE kind = "number"
      <3>1. \E i \in DOMAIN now : now[i].name # ExceptionDetail /\ now[i].kind = "number"
        <4>1. Len(said) + 1 \in DOMAIN now /\ name # ExceptionDetail
          BY <2>2, MessageReaderAssumption
        <4> QED BY <2>2, <2>3, <4>1
      <3> QED BY <3>1 DEF UnreadableHasReason
    <2>4. CASE event.properties[name] # "absent"
      <3>1. PICK i \in DOMAIN said : said[i].name = name
        BY <2>4 DEF SaidInv
      <3>2. /\ i \in DOMAIN now /\ Len(said) + 1 \in DOMAIN now
            /\ i < Len(said) + 1 /\ now[i].name = now[Len(said) + 1].name
            /\ now[i].name # ExceptionDetail
        BY <2>2, <3>1, MessageReaderAssumption
      <3> QED BY <3>2 DEF UnreadableHasReason
    <2> QED BY <2>1, <2>3, <2>4
  <1>3. CASE EndObject
    <2>1. /\ pc = "while" /\ Read("EndObject") /\ "EndObject" \in Tokens /\ tokens # <<>>
          /\ Len(open') # Top(frames).depth
      BY <1>3 DEF EndObject, Return, Tokens, Closers, TypeOK
    <2>2. Len(open) \in Nat \ {0} /\ open[Len(open)] = "object"
      BY <2>1, EndsObject
    <2>3. Len(open') = Len(open) - 1
      BY <2>1, <2>2, OpenAfter DEF Closers
    <2>4. /\ Len(frames) \in Nat \ {0}
          /\ \A k \in 1 .. Len(frames) : frames[k].depth \in Nat
      <3>1. frames \in Seq(Frames) /\ frames # <<>>
        BY <2>1 DEF TypeOK
      <3>2. \A k \in 1 .. Len(frames) : frames[k] \in Frames
        BY <3>1, ElementOfSeq
      <3> QED BY <3>1, <3>2 DEF Frames
    <2>5. ForeignObjects # {}
      <3>1. SUFFICES ASSUME ForeignObjects = {} PROVE FALSE
        OBVIOUS
      <3>2. PICK k \in 1 .. Len(frames) : frames[k].depth + 1 = Len(open)
        BY <2>1, <2>2, <3>1 DEF FrameInv
      <3>3. frames[Len(frames)].depth + 1 <= Len(open)
            /\ (k < Len(frames) => frames[k].depth < frames[Len(frames)].depth)
        BY <2>1, <2>2, <2>4 DEF FrameInv
      <3>4. frames[Len(frames)].depth = Len(open) - 1
        <4>1. frames[k].depth \in Nat /\ frames[Len(frames)].depth \in Nat
              /\ k \in Nat /\ k <= Len(frames)
          BY <2>4
        <4>2. CASE k = Len(frames)
          BY <2>2, <3>2, <4>1, <4>2
        <4>3. CASE k < Len(frames)
          BY <2>2, <3>2, <3>3, <4>1, <4>3
        <4> QED BY <2>4, <4>1, <4>2, <4>3
      <3> QED BY <2>1, <2>3, <3>4 DEF Top
    <2>6. ForeignObjects' # {}
      BY <2>1, <2>5, ForeignGrows
    <2> QED BY <2>6 DEF UnreadableHasReason
  <1>4. ASSUME NEW token \in Values, Read(token), tokens # <<>>
        PROVE  /\ Len(tokens) \in DOMAIN tokens'
               /\ tokens'[Len(tokens)] = Top(tokens)
               /\ Len(tokens) < Len(tokens')
               /\ tokens'[Len(tokens) + 1] = token
    <2>1. tokens \in Seq(Tokens) /\ Len(tokens) \in Nat \ {0} /\ token \in Tokens
      BY <1>4 DEF TypeOK, Tokens
    <2>2. /\ tokens' \in Seq(Tokens) /\ Len(tokens') = Len(tokens) + 1
          /\ tokens'[Len(tokens')] = token
          /\ \A i \in 1 .. Len(tokens) : tokens'[i] = tokens[i]
      BY <1>4, <2>1, ReadTyped
    <2>3. tokens'[Len(tokens)] = Top(tokens)
      BY <2>1, <2>2 DEF Top
    <2>4. tokens'[Len(tokens) + 1] = token
      BY <2>2
    <2> QED BY <2>1, <2>2, <2>3, <2>4
  <1>5. CASE ReadText
    <2>1. PICK token \in Values : Read(token) /\ token \notin {"String", "Null"}
      BY <1>5 DEF ReadText
    <2>2. tokens # <<>> /\ Top(tokens) \in TextFields
      BY <1>5 DEF ReadText, TypeOK
    <2>3. Len(tokens) \in Positions(TextFields)'
      BY <1>4, <2>1, <2>2 DEF Positions
    <2> QED BY <1>4, <2>1, <2>2, <2>3 DEF UnreadableHasReason
  <1>6. CASE ReadInner
    <2>1. PICK token \in Values : Read(token) /\ token \notin {"StartObject", "Null"}
      BY <1>6 DEF ReadInner
    <2>2. tokens # <<>> /\ Top(tokens) = InnerException
      BY <1>6 DEF ReadInner, TypeOK
    <2>3. /\ Len(tokens) \in Positions({InnerException})'
          /\ Len(tokens) < Len(tokens')
          /\ tokens'[Len(tokens) + 1] \notin {"StartObject", "Null"}
      BY <1>4, <2>1, <2>2 DEF Positions
    <2> QED BY <2>3 DEF UnreadableHasReason
  <1>7. CASE ReadPlainDetail
    <2>1. pc = "properties" /\ Reveal(ExceptionDetail, "objects") /\ "objects" \in Kinds
      BY <1>7 DEF ReadPlainDetail, Reveal, Kinds
    <2>2. \E i \in DOMAIN message'.properties :
             /\ message'.properties[i].name = ExceptionDetail
             /\ message'.properties[i].kind = "objects"
      <3> DEFINE i == Len(message.properties) + 1
      <3>1. i \in DOMAIN message'.properties
            /\ message'.properties[i] = [name |-> ExceptionDetail, kind |-> "objects"]
        BY <2>1, RevealSaid
      <3> QED BY <3>1
    <2> QED BY <2>2 DEF UnreadableHasReason
  <1>8. CASE EndProperties
    <2>1. PICK name \in Blank : event.properties[name] # "absent"
      BY <1>8 DEF EndProperties
    <2>2. PICK i \in DOMAIN message.properties : message.properties[i].name = name
      BY <2>1, MessageReaderAssumption DEF SaidInv
    <2>3. message' = message
      BY <1>8 DEF EndProperties
    <2> QED BY <2>2, <2>3 DEF UnreadableHasReason
  <1>9. CASE ReadDetail \/ ReadName \/ SkipToken \/ SkipValue
    BY <1>9 DEF ReadDetail, ReadName, SkipToken, SkipValue, Reveal
  <1>10. CASE UNCHANGED vars
    BY <1>10 DEF vars, detailVars, UnreadableHasReason, ForeignObjects, ExceptionObjects,
                Positions
  <1> QED BY <1>1, <1>2, <1>3, <1>5, <1>6, <1>7, <1>8, <1>9, <1>10 DEF Next

\* A message that cannot be read gives one of the reasons, however its
\* exceptions are nested (the invariant UnreadableHasReason).
THEOREM ReasonGiven == Spec => []UnreadableHasReason
  <1>1. Init => FrameInv /\ UnreadableHasReason
    BY DEF Init, FrameInv, UnreadableHasReason
  <1> QED BY <1>1, TypeInit, TypeStep, SaidInit, SaidStep, FrameStep, ReasonStep, PTL
          DEF Spec

-----------------------------------------------------------------------------
(* The fields of an exception are its own: facts about a row of tokens       *)

\* DepthAt, OwnNames and OwnField for any row of tokens.
DepthIn(s, i) ==
    Cardinality({j \in DOMAIN s : s[j] \in Openers /\ j <= i})
        - Cardinality({j \in DOMAIN s : s[j] \in Closers /\ j <= i})

OwnIn(s, start, name) ==
    {i \in DOMAIN s :
        /\ s[i] = name
        /\ i > start
        /\ DepthIn(s, i) = DepthIn(s, start)
        /\ \A j \in start .. i : DepthIn(s, j) >= DepthIn(s, start)}

FieldIn(s, start, name) ==
    LET own == OwnIn(s, start, name)
        last == CHOOSE i \in own : \A j \in own : j <= i
    IN  IF own = {} \/ s[last + 1] = "Null" THEN 0 ELSE last + 1

\* A set of positions that is not empty has a last one.
LEMMA LastExists ==
    ASSUME NEW n \in Nat, NEW own, own \subseteq 1 .. n, own # {}
    PROVE  \E i \in own : \A j \in own : j <= i
  <1> DEFINE room == {m \in Nat : n - m \in own}
             less == OpToRel(<, Nat)
  <1>1. room # {}
    <2>1. PICK i \in own : TRUE
      OBVIOUS
    <2>2. n - i \in Nat /\ n - (n - i) = i
      BY <2>1
    <2> QED BY <2>1, <2>2
  <1>2. PICK m \in room : \A k \in room : <<k, m>> \notin less
    <2>1. IsWellFoundedOn(less, Nat)
      BY NatLessThanWellFounded
    <2>2. room \subseteq Nat
      OBVIOUS
    <2> HIDE DEF room, less
    <2> QED BY <1>1, <2>1, <2>2, WFMin
  <1>3. \A k \in room : ~(k < m)
    <2> SUFFICES ASSUME NEW k \in room, k < m PROVE FALSE
      OBVIOUS
    <2>1. k \in Nat /\ m \in Nat
      OBVIOUS
    <2>2. <<k, m>> \in less
      BY <2>1 DEF OpToRel
    <2> QED BY <1>2, <2>2
  <1>4. \A j \in own : j <= n - m
    <2> SUFFICES ASSUME NEW j \in own PROVE j <= n - m
      OBVIOUS
    <2>1. n - j \in Nat /\ n - (n - j) = j
      OBVIOUS
    <2>2. n - j \in room
      BY <2>1
    <2> QED BY <1>3, <2>1, <2>2
  <1> QED BY <1>4

\* The depth after a token is an integer, and is not changed by later tokens.
LEMMA DepthAppended ==
    ASSUME NEW T, NEW s \in Seq(T), NEW t \in T
    PROVE  LET n == Len(s)
               longer == Append(s, t)
           IN  /\ \A i \in Int : DepthIn(s, i) \in Int
               /\ \A i \in 1 .. n : DepthIn(longer, i) = DepthIn(s, i)
               /\ DepthIn(longer, n + 1) =
                    DepthIn(s, n) + (IF t \in Openers THEN 1 ELSE IF t \in Closers THEN -1 ELSE 0)
  <1> DEFINE n == Len(s)
             longer == Append(s, t)
             At(x, types, i) == {j \in DOMAIN x : x[j] \in types /\ j <= i}
  <1>1. /\ n \in Nat /\ DOMAIN s = 1 .. n /\ DOMAIN longer = 1 .. n + 1
        /\ longer[n + 1] = t
        /\ \A i \in 1 .. n : longer[i] = s[i]
    OBVIOUS
  <1>2. ASSUME NEW types, NEW i \in Int
        PROVE  IsFiniteSet(At(s, types, i)) /\ Cardinality(At(s, types, i)) \in Nat
    <2>1. IsFiniteSet(1 .. n)
      BY <1>1, FS_Interval
    <2>2. At(s, types, i) \in SUBSET (1 .. n)
      BY <1>1
    <2> HIDE DEF At, n
    <2>3. IsFiniteSet(At(s, types, i))
      BY <2>1, <2>2, FS_Subset
    <2> QED BY <2>3, FS_CardinalityType
  <1>3. ASSUME NEW types, NEW i \in 1 .. n
        PROVE  At(longer, types, i) = At(s, types, i)
    BY <1>1
  <1>4. ASSUME NEW types
        PROVE  Cardinality(At(longer, types, n + 1)) =
                 Cardinality(At(s, types, n)) + (IF t \in types THEN 1 ELSE 0)
    <2> HIDE DEF n, longer
    <2>1. At(longer, types, n + 1) = IF t \in types THEN At(s, types, n) \cup {n + 1}
                                                    ELSE At(s, types, n)
      <3>1. At(longer, types, n + 1) \subseteq At(s, types, n) \cup {n + 1}
        BY <1>1
      <3>2. At(s, types, n) \subseteq At(longer, types, n + 1)
        BY <1>1
      <3>3. n + 1 \in At(longer, types, n + 1) <=> t \in types
        BY <1>1
      <3> DEFINE before == At(s, types, n)
                 after == At(longer, types, n + 1)
      <3> HIDE DEF before, after
      <3>4. CASE t \in types
        <4>1. after = before \cup {n + 1}
          BY Zenon, <3>1, <3>2, <3>3, <3>4 DEF before, after
        <4> QED BY <3>4, <4>1 DEF before, after
      <3>5. CASE t \notin types
        <4>1. after = before
          BY Zenon, <3>1, <3>2, <3>3, <3>5 DEF before, after
        <4> QED BY <3>5, <4>1 DEF before, after
      <3> QED BY <3>4, <3>5
    <2>2. n + 1 \notin At(s, types, n)
      BY <1>1
    <2>3. IsFiniteSet(At(s, types, n)) /\ Cardinality(At(s, types, n)) \in Nat
      <3>1. n \in Int
        BY <1>1
      <3> HIDE DEF At
      <3> QED BY <3>1, <1>2
    <2> DEFINE before == At(s, types, n)
    <2>4. Cardinality(before \cup {n + 1}) = Cardinality(before) + 1
      <3>1. IsFiniteSet(before) /\ n + 1 \notin before
        BY <2>2, <2>3
      <3> HIDE DEF before
      <3> QED BY <3>1, FS_AddElement
    <2> HIDE DEF At
    <2> QED BY <2>1, <2>3, <2>4
  <1>5. \A x, i : DepthIn(x, i) = Cardinality(At(x, Openers, i)) - Cardinality(At(x, Closers, i))
    BY DEF DepthIn
  <1>6. Openers \cap Closers = {}
    BY DEF Openers, Closers
  <1> HIDE DEF At, n, longer
  <1>7. \A i \in Int : DepthIn(s, i) \in Int
    BY <1>2, <1>5
  <1>8. \A i \in 1 .. n : DepthIn(longer, i) = DepthIn(s, i)
    BY <1>3, <1>5
  <1>9. DepthIn(longer, n + 1) =
          DepthIn(s, n) + (IF t \in Openers THEN 1 ELSE IF t \in Closers THEN -1 ELSE 0)
    <2>1. n \in Int /\ Cardinality(At(s, Openers, n)) \in Nat /\ Cardinality(At(s, Closers, n)) \in Nat
      BY <1>1, <1>2
    <2> QED BY <1>4, <1>5, <1>6, <2>1
  <1> QED BY <1>7, <1>8, <1>9 DEF n, longer

\* One more token adds at most its own position to the own names.
LEMMA OwnAppended ==
    ASSUME NEW T, NEW s \in Seq(T), NEW t \in T, NEW start \in 1 .. Len(s), NEW name
    PROVE  LET n == Len(s)
               longer == Append(s, t)
           IN  /\ OwnIn(s, start, name) \subseteq 1 .. n
               /\ OwnIn(s, start, name) \subseteq OwnIn(longer, start, name)
               /\ OwnIn(longer, start, name) \subseteq OwnIn(s, start, name) \cup {n + 1}
               /\ n + 1 \in OwnIn(longer, start, name) =>
                    /\ t = name
                    /\ DepthIn(longer, n + 1) = DepthIn(s, start)
                    /\ \A j \in start .. n : DepthIn(s, j) >= DepthIn(s, start)
               /\ /\ t = name
                  /\ DepthIn(longer, n + 1) = DepthIn(s, start)
                  /\ \A j \in start .. n : DepthIn(s, j) >= DepthIn(s, start)
                  => n + 1 \in OwnIn(longer, start, name)
  <1> DEFINE n == Len(s)
             longer == Append(s, t)
  <1>1. /\ n \in Nat /\ DOMAIN s = 1 .. n /\ DOMAIN longer = 1 .. n + 1
        /\ longer[n + 1] = t
        /\ \A i \in 1 .. n : longer[i] = s[i]
        /\ start \in 1 .. n
    OBVIOUS
  <1>2. /\ \A i \in Int : DepthIn(s, i) \in Int
        /\ \A i \in 1 .. n : DepthIn(longer, i) = DepthIn(s, i)
    BY DepthAppended
  <1> HIDE DEF n, longer
  <1>3. OwnIn(s, start, name) \subseteq 1 .. n
    BY <1>1 DEF OwnIn
  <1>4. ASSUME NEW i \in 1 .. n
        PROVE  i \in OwnIn(longer, start, name) <=> i \in OwnIn(s, start, name)
    <2>1. start .. i \subseteq 1 .. n /\ i \in 1 .. n + 1 /\ DepthIn(longer, start) = DepthIn(s, start)
      BY <1>1, <1>2
    <2>2. \A j \in start .. i : DepthIn(longer, j) = DepthIn(s, j)
      BY <1>2, <2>1
    <2> QED BY <1>1, <1>2, <2>1, <2>2 DEF OwnIn
  <1>5. OwnIn(longer, start, name) \subseteq 1 .. n + 1
    BY <1>1 DEF OwnIn
  <1>6. n + 1 \in OwnIn(longer, start, name) <=>
            /\ t = name
            /\ DepthIn(longer, n + 1) = DepthIn(s, start)
            /\ \A j \in start .. n : DepthIn(s, j) >= DepthIn(s, start)
    <2>1. /\ n + 1 \in 1 .. n + 1 /\ n + 1 > start
          /\ DepthIn(longer, start) = DepthIn(s, start)
          /\ DepthIn(s, start) \in Int
      BY <1>1, <1>2
    <2>2. \A j \in start .. n : j \in 1 .. n /\ j \in start .. n + 1
      BY <1>1
    <2>3. \A j \in start .. n + 1 : j = n + 1 \/ j \in start .. n
      BY <1>1
    <2>4. ASSUME DepthIn(longer, n + 1) = DepthIn(s, start)
          PROVE  (\A j \in start .. n + 1 : DepthIn(longer, j) >= DepthIn(longer, start))
                   <=> \A j \in start .. n : DepthIn(s, j) >= DepthIn(s, start)
      <3>1. \A j \in start .. n : DepthIn(longer, j) = DepthIn(s, j)
        BY <1>2, <2>2
      <3>2. DepthIn(longer, n + 1) >= DepthIn(longer, start)
        BY <2>1, <2>4
      <3> QED BY <2>1, <2>2, <2>3, <3>1, <3>2
    <2>5. n + 1 \in OwnIn(longer, start, name) <=>
            /\ n + 1 \in DOMAIN longer
            /\ longer[n + 1] = name
            /\ n + 1 > start
            /\ DepthIn(longer, n + 1) = DepthIn(longer, start)
            /\ \A j \in start .. n + 1 : DepthIn(longer, j) >= DepthIn(longer, start)
      BY DEF OwnIn
    <2> QED BY <1>1, <2>1, <2>4, <2>5
  <1>7. 1 .. n + 1 = (1 .. n) \cup {n + 1}
    BY <1>1
  <1> QED BY <1>3, <1>4, <1>5, <1>6, <1>7 DEF n, longer

\* What a field says does not change while its value is there and no name of it
\* is added.
LEMMA FieldKept ==
    ASSUME NEW T, NEW s \in Seq(T), NEW t \in T, NEW start \in 1 .. Len(s), NEW name,
           Len(s) \notin OwnIn(s, start, name),
           Len(s) + 1 \notin OwnIn(Append(s, t), start, name)
    PROVE  FieldIn(Append(s, t), start, name) = FieldIn(s, start, name)
  <1> DEFINE n == Len(s)
             longer == Append(s, t)
             own == OwnIn(s, start, name)
             last == CHOOSE i \in own : \A j \in own : j <= i
  <1>1. OwnIn(longer, start, name) = own /\ own \subseteq 1 .. n
    <2>1. /\ own \subseteq 1 .. n
          /\ own \subseteq OwnIn(longer, start, name)
          /\ OwnIn(longer, start, name) \subseteq own \cup {n + 1}
      BY OwnAppended
    <2>2. n + 1 \notin OwnIn(longer, start, name)
      OBVIOUS
    <2> HIDE DEF own, longer, n
    <2> QED BY <2>1, <2>2
  <1>2. CASE own = {}
    BY <1>1, <1>2 DEF FieldIn
  <1>3. CASE own # {}
    <2>1. n \in Nat
      OBVIOUS
    <2>2. \E i \in own : \A j \in own : j <= i
      <3> HIDE DEF own, n
      <3> QED BY <1>1, <1>3, <2>1, LastExists
    <2>3. last \in own
      <3> HIDE DEF own
      <3> QED BY <2>2
    <2>4. last \in 1 .. n /\ last # n
      BY <1>1, <2>3
    <2>5. last + 1 \in 1 .. n
      <3> HIDE DEF last, n
      <3> QED BY <2>1, <2>4
    <2>6. longer[last + 1] = s[last + 1]
      <3> HIDE DEF last
      <3> QED BY <2>5
    <2> QED BY <1>1, <2>6 DEF FieldIn
  <1> QED BY <1>2, <1>3

\* The value after the last name is what the field says.
LEMMA FieldSet ==
    ASSUME NEW T, NEW s \in Seq(T), NEW t \in T, NEW start \in 1 .. Len(s), NEW name,
           Len(s) \in OwnIn(s, start, name),
           Len(s) + 1 \notin OwnIn(Append(s, t), start, name)
    PROVE  FieldIn(Append(s, t), start, name) = IF t = "Null" THEN 0 ELSE Len(s) + 1
  <1> DEFINE n == Len(s)
             longer == Append(s, t)
             own == OwnIn(s, start, name)
             last == CHOOSE i \in own : \A j \in own : j <= i
  <1>1. OwnIn(longer, start, name) = own /\ own \subseteq 1 .. n
    <2>1. /\ own \subseteq 1 .. n
          /\ own \subseteq OwnIn(longer, start, name)
          /\ OwnIn(longer, start, name) \subseteq own \cup {n + 1}
      BY OwnAppended
    <2>2. n + 1 \notin OwnIn(longer, start, name)
      OBVIOUS
    <2> HIDE DEF own, longer, n
    <2> QED BY <2>1, <2>2
  <1>2. n \in Nat /\ longer[n + 1] = t
    OBVIOUS
  <1>3. last = n
    <2>1. n \in own /\ \A j \in own : j <= n
      BY <1>1, <1>2
    <2> HIDE DEF own, n
    <2>2. \A i \in own : (\A j \in own : j <= i) => i = n
      BY <1>1, <1>2, <2>1
    <2> QED BY <2>1, <2>2
  <1> HIDE DEF last
  <1> QED BY <1>1, <1>2, <1>3 DEF FieldIn, last

\* An object that has just begun has no names yet.
LEMMA NoNamesYet ==
    ASSUME NEW T, NEW s \in Seq(T), NEW name
    PROVE  OwnIn(s, Len(s), name) = {} /\ FieldIn(s, Len(s), name) = 0
  <1>1. OwnIn(s, Len(s), name) = {}
    BY DEF OwnIn
  <1> QED BY <1>1 DEF FieldIn

-----------------------------------------------------------------------------
(* Where the calls of ExceptionJsonConverter.Read stand in the tokens         *)

Calling == pc \in {"while", "value"}

\* Every call stands where the nesting of the tokens says: its object begins at
\* its start, and has not ended.
NestInv ==
    Calling =>
        /\ DepthIn(tokens, Len(tokens)) = Len(open)
        /\ frames[1].depth = 0
        /\ pc = "value" => Top(open) = "object"
        /\ \A k \in 1 .. Len(frames) :
              /\ frames[k].start \in 1 .. Len(tokens)
              /\ tokens[frames[k].start] = "StartObject"
              /\ DepthIn(tokens, frames[k].start) = frames[k].depth + 1
              /\ \A j \in frames[k].start .. Len(tokens) :
                    DepthIn(tokens, j) >= frames[k].depth + 1

\* What the next token does to what is known of the tokens before it.
LEMMA TokenRead ==
    ASSUME TypeOK, FrameInv, NestInv, Calling, NEW token \in Tokens, Read(token)
    PROVE  /\ Len(tokens) \in Nat \ {0}
           /\ Len(open) \in Nat \ {0}
           /\ Len(frames) \in Nat \ {0}
           /\ tokens' = Append(tokens, token)
           /\ tokens \in Seq(Tokens)
           /\ Len(tokens') = Len(tokens) + 1
           /\ DepthIn(tokens', Len(tokens) + 1) = Len(open')
           /\ \A i \in 1 .. Len(tokens) :
                 /\ tokens'[i] = tokens[i]
                 /\ DepthIn(tokens', i) = DepthIn(tokens, i)
                 /\ DepthIn(tokens, i) \in Int
  <1>1. tokens \in Seq(Tokens) /\ tokens # <<>> /\ frames \in Seq(Frames) /\ frames # <<>>
        /\ open \in Seq({"object", "array"})
    BY DEF TypeOK, Calling
  <1>2. Len(tokens) \in Nat \ {0} /\ Len(frames) \in Nat \ {0}
    BY <1>1
  <1>3. tokens' = Append(tokens, token) /\ open' = Nest(token)
    BY DEF Read
  <1>4. Len(tokens') = Len(tokens) + 1 /\ \A i \in 1 .. Len(tokens) : tokens'[i] = tokens[i]
    BY <1>1, <1>3
  <1>5. Len(open) \in Nat \ {0}
    <2>1. 1 \in 1 .. Len(frames) /\ Len(open) \in Nat
      BY <1>1, <1>2
    <2>2. frames[1].depth + 1 \in 1 .. Len(open)
      BY <2>1 DEF FrameInv, Calling
    <2> QED BY <2>1, <2>2
  <1>6. /\ \A i \in Int : DepthIn(tokens, i) \in Int
        /\ \A i \in 1 .. Len(tokens) : DepthIn(tokens', i) = DepthIn(tokens, i)
        /\ DepthIn(tokens', Len(tokens) + 1) =
             DepthIn(tokens, Len(tokens))
               + (IF token \in Openers THEN 1 ELSE IF token \in Closers THEN -1 ELSE 0)
    BY <1>1, <1>3, DepthAppended
  <1>7. Len(open') =
          Len(open) + (IF token \in Openers THEN 1 ELSE IF token \in Closers THEN -1 ELSE 0)
    <2>1. Openers = {"StartObject", "StartArray"} /\ Openers \cap Closers = {} /\ open # <<>>
      BY <1>1, <1>5 DEF Openers, Closers
    <2> QED BY <1>5, <2>1, OpenAfter
  <1>8. DepthIn(tokens, Len(tokens)) = Len(open)
    BY DEF NestInv
  <1>9. DepthIn(tokens', Len(tokens) + 1) = Len(open')
    BY <1>6, <1>7, <1>8
  <1>10. \A i \in 1 .. Len(tokens) : i \in Int
    BY <1>2
  <1> QED BY <1>1, <1>2, <1>3, <1>4, <1>5, <1>6, <1>9, <1>10

\* The tokens read in a call keep NestInv, whichever calls begin or return.
LEMMA NestRead ==
    ASSUME TypeOK, FrameInv, NestInv, Calling, NEW token \in Tokens, Read(token),
           TypeOK', FrameInv', Calling',
           pc' = "value" => pc = "while" /\ token \in FieldNames,
           frames'[1].depth = 0,
           \A k \in 1 .. Len(frames') :
              \/ \E l \in 1 .. Len(frames) :
                    frames'[k].start = frames[l].start /\ frames'[k].depth = frames[l].depth
              \/ /\ token = "StartObject"
                 /\ frames'[k].start = Len(tokens) + 1
                 /\ frames'[k].depth = Len(open)
    PROVE  NestInv'
  <1> DEFINE n == Len(tokens)
  <1>1. /\ n \in Nat \ {0}
        /\ Len(open) \in Nat \ {0}
        /\ tokens' = Append(tokens, token)
        /\ tokens \in Seq(Tokens)
        /\ Len(tokens') = n + 1
        /\ DepthIn(tokens', n + 1) = Len(open')
        /\ \A i \in 1 .. n :
              /\ tokens'[i] = tokens[i]
              /\ DepthIn(tokens', i) = DepthIn(tokens, i)
              /\ DepthIn(tokens, i) \in Int
    BY TokenRead
  <1>2. DepthIn(tokens', Len(tokens')) = Len(open')
    BY <1>1
  <1>3. pc' = "value" => Top(open)' = "object"
    <2> SUFFICES ASSUME pc' = "value" PROVE Top(open)' = "object"
      OBVIOUS
    <2>1. token \in FieldNames /\ Top(tokens) \notin FieldNames
      BY DEF FrameInv
    <2>2. token \notin Openers \cup Closers /\ token \notin Values \cup {"EndArray"}
      BY <2>1, MessageReaderAssumption DEF Values, Closers
    <2>3. open' = open
      BY <2>2, OpenAfter
    <2>4. Top(tokens) # InnerException
      <3>1. Top(tokens) \in Tokens
        <4>1. tokens # <<>> /\ tokens \in Seq(Tokens)
          BY DEF TypeOK
        <4> QED BY <4>1, StackTyped
      <3> QED BY <2>1, <3>1 DEF Tokens, Values, Openers, Closers, InnerException
    <2>5. Top(open) # "array"
      BY <2>1, <2>2, <2>4 DEF Read, Follow
    <2>6. Top(open) \in {"object", "array"}
      <3>1. open \in Seq({"object", "array"})
        BY DEF TypeOK
      <3> QED BY <1>1, <3>1 DEF Top
    <2> QED BY <2>3, <2>5, <2>6 DEF Top
  <1>4. \A k \in 1 .. Len(frames') : frames'[k].depth + 1 \in 1 .. Len(open')
    BY DEF FrameInv, Calling
  <1>5. Len(open') \in Nat
    BY DEF TypeOK
  <1>6. ASSUME NEW k \in 1 .. Len(frames')
        PROVE  /\ frames'[k].start \in 1 .. n + 1
               /\ tokens'[frames'[k].start] = "StartObject"
               /\ DepthIn(tokens', frames'[k].start) = frames'[k].depth + 1
               /\ \A j \in frames'[k].start .. n + 1 :
                     DepthIn(tokens', j) >= frames'[k].depth + 1
    <2> DEFINE start == frames'[k].start
               depth == frames'[k].depth
    <2>1. CASE \E l \in 1 .. Len(frames) : start = frames[l].start /\ depth = frames[l].depth
      <3>1. PICK l \in 1 .. Len(frames) : start = frames[l].start /\ depth = frames[l].depth
        BY <2>1
      <3>2. /\ start \in 1 .. n
            /\ tokens[start] = "StartObject"
            /\ DepthIn(tokens, start) = depth + 1
            /\ \A j \in start .. n : DepthIn(tokens, j) >= depth + 1
        <4> HIDE DEF start, depth, n
        <4> QED BY <3>1 DEF NestInv, n
      <3>3. depth + 1 \in 1 .. Len(open')
        BY <1>4
      <3> HIDE DEF start, depth, n
      <3>4. \A j \in start .. n + 1 : j = n + 1 \/ (j \in start .. n /\ j \in 1 .. n)
        BY <1>1, <3>2
      <3>5. \A j \in start .. n + 1 : DepthIn(tokens', j) >= depth + 1
        <4> SUFFICES ASSUME NEW j \in start .. n + 1 PROVE DepthIn(tokens', j) >= depth + 1
          OBVIOUS
        <4>1. CASE j = n + 1
          BY <1>1, <1>5, <3>3, <4>1
        <4>2. CASE j \in start .. n /\ j \in 1 .. n
          <5>1. DepthIn(tokens', j) = DepthIn(tokens, j)
            BY <1>1, <4>2
          <5>2. DepthIn(tokens, j) >= depth + 1
            BY <3>2, <4>2
          <5> QED BY ONLY <5>1, <5>2
        <4> QED BY <3>4, <4>1, <4>2
      <3>6. start \in 1 .. n + 1 /\ tokens'[start] = "StartObject"
            /\ DepthIn(tokens', start) = depth + 1
        BY <1>1, <3>2
      <3> QED BY <3>5, <3>6 DEF start, depth
    <2>2. CASE token = "StartObject" /\ start = n + 1 /\ depth = Len(open)
      <3>1. Len(open') = Len(open) + 1
        BY <2>2, OpenAfter
      <3>2. tokens'[n + 1] = "StartObject"
        <4> HIDE DEF start, depth
        <4> QED BY <1>1, <2>2
      <3>3. \A j \in n + 1 .. n + 1 : j = n + 1
        BY <1>1
      <3> HIDE DEF start, depth, n
      <3>4. /\ start \in 1 .. n + 1 /\ tokens'[start] = "StartObject"
            /\ DepthIn(tokens', start) = depth + 1
            /\ \A j \in start .. n + 1 : DepthIn(tokens', j) >= depth + 1
        BY <1>1, <2>2, <3>1, <3>2, <3>3
      <3> QED BY <3>4 DEF start, depth
    <2> QED BY <2>1, <2>2
  <1> HIDE DEF n
  <1> QED BY <1>1, <1>2, <1>3, <1>6 DEF NestInv

\* Setting a field changes that field of the innermost call, nothing else.
LEMMA FieldOfTop ==
    ASSUME NEW calls \in Seq(Frames), calls # <<>>, NEW name, NEW position \in Nat
    PROVE  /\ Len(SetField(calls, name, position)) = Len(calls)
           /\ \A k \in 1 .. Len(calls) :
                 /\ SetField(calls, name, position)[k].start = calls[k].start
                 /\ SetField(calls, name, position)[k].depth = calls[k].depth
                 /\ k # Len(calls) => SetField(calls, name, position)[k] = calls[k]
           /\ \A field \in KnownFields :
                 SetField(calls, name, position)[Len(calls)].fields[field] =
                    IF field = name THEN position ELSE calls[Len(calls)].fields[field]
  <1> DEFINE i == Len(calls)
             frame == [calls[i] EXCEPT !.fields[name] = position]
             changed == [calls EXCEPT ![i] = frame]
  <1>1. i \in 1 .. Len(calls) /\ calls[i] \in Frames
    OBVIOUS
  <1>2. /\ frame \in Frames
        /\ frame.start = calls[i].start
        /\ frame.depth = calls[i].depth
        /\ \A field \in KnownFields :
              frame.fields[field] = IF field = name THEN position ELSE calls[i].fields[field]
    BY <1>1 DEF Frames
  <1>3. changed \in Seq(Frames) /\ Len(changed) = Len(calls)
        /\ \A k \in 1 .. Len(calls) : changed[k] = IF k = i THEN frame ELSE calls[k]
    <2> HIDE DEF frame, i
    <2> QED BY <1>1, <1>2, ExceptSeq
  <1>4. changed = SetField(calls, name, position)
    BY DEF SetField
  <1>5. changed[i] = frame
    BY <1>1, <1>3
  <1>6. \A k \in 1 .. Len(calls) :
            /\ changed[k].start = calls[k].start
            /\ changed[k].depth = calls[k].depth
            /\ k # i => changed[k] = calls[k]
    <2> HIDE DEF frame, changed, i
    <2> QED BY <1>2, <1>3
  <1> HIDE DEF frame
  <1>7. \A field \in KnownFields :
          changed[i].fields[field] = IF field = name THEN position ELSE calls[i].fields[field]
    BY <1>2, <1>5
  <1> HIDE DEF changed
  <1> QED BY <1>3, <1>4, <1>6, <1>7 DEF i

\* The calls that are left when the innermost one returns to an outer one.
LEMMA Returned ==
    ASSUME TypeOK, Return, frames # <<>>, pc' # "properties"
    PROVE  LET n == Len(frames)
               start == frames[n].start
           IN  /\ n \in Nat /\ n > 1
               /\ pc' = "while"
               /\ exceptions' = exceptions \cup {[start |-> start, fields |-> frames[n].fields]}
               /\ frames[n] \in Frames
               /\ Len(frames') = n - 1
               /\ \A k \in 1 .. n - 1 :
                     /\ frames'[k].start = frames[k].start
                     /\ frames'[k].depth = frames[k].depth
                     /\ k # n - 1 => frames'[k] = frames[k]
               /\ \A field \in KnownFields :
                     frames'[n - 1].fields[field] =
                        IF field = InnerException THEN start ELSE frames[n - 1].fields[field]
  <1> DEFINE n == Len(frames)
             start == frames[n].start
             outer == Pop(frames)
  <1>1. frames \in Seq(Frames) /\ n \in Nat \ {0}
    BY DEF TypeOK
  <1>2. n > 1 /\ pc' = "while"
        /\ frames' = SetField(Pop(frames), InnerException, Top(frames).start)
        /\ exceptions' = exceptions \cup {[start |-> Top(frames).start, fields |-> Top(frames).fields]}
    BY <1>1 DEF Return
  <1>3. /\ Top(frames) = frames[n] /\ frames[n] \in Frames
        /\ outer \in Seq(Frames)
        /\ Len(outer) = n - 1
        /\ \A k \in 1 .. n - 1 : outer[k] = frames[k]
    BY <1>1, StackTyped DEF Top
  <1>4. start \in Nat /\ outer # <<>>
    BY <1>1, <1>2, <1>3 DEF Frames
  <1>5. frames' = SetField(outer, InnerException, start)
    BY <1>2, <1>3
  <1> HIDE DEF outer, start, n
  <1>6. /\ Len(frames') = Len(outer)
        /\ \A k \in 1 .. Len(outer) :
              /\ frames'[k].start = outer[k].start
              /\ frames'[k].depth = outer[k].depth
              /\ k # Len(outer) => frames'[k] = outer[k]
        /\ \A field \in KnownFields :
              frames'[Len(outer)].fields[field] =
                 IF field = InnerException THEN start ELSE outer[Len(outer)].fields[field]
    BY <1>3, <1>4, <1>5, FieldOfTop
  <1>7. n - 1 \in 1 .. n - 1
    BY <1>1, <1>2
  <1>8. \A k \in 1 .. n - 1 :
            /\ frames'[k].start = frames[k].start
            /\ frames'[k].depth = frames[k].depth
            /\ k # n - 1 => frames'[k] = frames[k]
    BY <1>3, <1>6
  <1>9. \A field \in KnownFields :
           frames'[n - 1].fields[field] =
              IF field = InnerException THEN start ELSE frames[n - 1].fields[field]
    BY <1>3, <1>6, <1>7
  <1>10. exceptions' = exceptions \cup {[start |-> start, fields |-> frames[n].fields]}
    BY <1>2, <1>3 DEF start
  <1> QED BY <1>1, <1>2, <1>3, <1>6, <1>8, <1>9, <1>10 DEF n, start

\* What the steps inside a call do to the tokens and to the calls.
LEMMA CallStep ==
    ASSUME TypeOK, FrameInv, Next, Calling, Calling'
    PROVE  \E token \in Tokens :
             /\ Read(token)
             /\ pc' = "value" => pc = "while" /\ token \in FieldNames
             /\ \/ /\ pc' = "value"
                   /\ UNCHANGED <<frames, exceptions>>
                \/ /\ pc' = "while"
                   /\ token \notin FieldNames \cup {"EndObject"}
                   /\ pc = "value" => Top(tokens) \notin KnownFields
                   /\ UNCHANGED <<frames, exceptions>>
                \/ /\ pc = "value" /\ pc' = "while"
                   /\ token \notin FieldNames \cup Openers \cup {"EndObject"}
                   /\ Top(tokens) \in KnownFields
                   /\ frames' = SetField(frames, Top(tokens),
                                         IF token = "Null" THEN 0 ELSE Len(tokens) + 1)
                   /\ exceptions' = exceptions
                \/ /\ pc = "value" /\ pc' = "while"
                   /\ token = "StartObject" /\ Top(tokens) = InnerException
                   /\ frames' = Append(frames, Frame(Len(tokens) + 1, Len(open)))
                   /\ exceptions' = exceptions
                \/ /\ pc = "while" /\ pc' = "while"
                   /\ token = "EndObject"
                   /\ Len(open') = Top(frames).depth
                   /\ Return
  <1>1. pc \in {"while", "value"} /\ pc' \in {"while", "value"}
        /\ tokens # <<>> /\ tokens \in Seq(Tokens) /\ frames # <<>>
    BY DEF Calling, TypeOK
  <1>2. (FieldNames \cup {"EndObject"}) \cap Values = {}
        /\ "EndArray" \notin FieldNames \cup {"EndObject"} \cup Openers
        /\ {"String", "Null"} \cap (FieldNames \cup Openers \cup {"EndObject"}) = {}
        /\ "EndObject" \notin FieldNames
        /\ Values \cup {"EndArray", "EndObject"} \cup FieldNames = Tokens
    BY MessageReaderAssumption DEF Values, Openers, Closers, Tokens
  <1>3. \A token \in Tokens : Read(token) => Len(tokens') = Len(tokens) + 1
    BY <1>1 DEF Read
  <1>4. CASE ReadName
    <2>1. PICK name \in FieldNames : Read(name)
      BY <1>4 DEF ReadName
    <2>2. name \in Tokens
      BY <1>2
    <2> QED BY <1>4, <2>1, <2>2 DEF ReadName
  <1>5. CASE SkipToken
    <2>1. PICK token \in Values \cup {"EndArray"} : Read(token)
      BY <1>5 DEF SkipToken
    <2>2. token \in Tokens /\ token \notin FieldNames \cup {"EndObject"}
      BY <1>2
    <2> QED BY <1>5, <2>1, <2>2 DEF SkipToken
  <1>6. CASE EndObject
    <2>1. "EndObject" \in Tokens
      BY <1>2
    <2> QED BY <1>1, <1>2, <1>6, <2>1 DEF EndObject, Return
  <1>7. CASE ReadText
    <2>1. PICK token \in Values :
            /\ Read(token)
            /\ \/ /\ token \in {"String", "Null"}
                  /\ frames' = SetField(frames, Top(tokens),
                                        IF token = "Null" THEN 0 ELSE Len(tokens'))
                  /\ pc' = "while"
               \/ /\ token \notin {"String", "Null"}
                  /\ pc' = "unreadable"
                  /\ UNCHANGED frames
      BY <1>7 DEF ReadText
    <2>2. token \in {"String", "Null"} /\ token \in Tokens /\ pc = "value" /\ pc' = "while"
      BY <1>1, <1>2, <1>7, <2>1 DEF ReadText
    <2>3. Top(tokens) \in KnownFields
      BY <1>7, <2>2 DEF FrameInv, ReadText, KnownFields
    <2>4. frames' = SetField(frames, Top(tokens),
                             IF token = "Null" THEN 0 ELSE Len(tokens) + 1)
      BY <1>3, <2>1, <2>2
    <2>5. exceptions' = exceptions
      BY <1>7 DEF ReadText
    <2> QED BY <1>2, <2>1, <2>2, <2>3, <2>4, <2>5
  <1>8. CASE ReadInner
    <2>1. /\ pc = "value" /\ pc' = "while" /\ exceptions' = exceptions
          /\ Top(tokens) = InnerException
      BY <1>1, <1>8 DEF ReadInner
    <2>2. Top(tokens) \in KnownFields
      BY <2>1 DEF FrameInv, KnownFields
    <2>3. CASE Read("Null") /\ frames' = SetField(frames, InnerException, 0)
      <3>1. "Null" \in Tokens /\ "Null" \notin FieldNames \cup Openers \cup {"EndObject"}
        BY <1>2 DEF Tokens, Values
      <3>2. frames' = SetField(frames, Top(tokens),
                               IF "Null" = "Null" THEN 0 ELSE Len(tokens) + 1)
        BY <2>1, <2>3
      <3> QED BY <2>1, <2>2, <2>3, <3>1, <3>2
    <2>4. CASE /\ Read("StartObject")
               /\ frames' = Append(frames, Frame(Len(tokens'), Len(open)))
      <3>1. "StartObject" \in Tokens
        BY DEF Tokens, Values, Openers
      <3>2. frames' = Append(frames, Frame(Len(tokens) + 1, Len(open)))
        BY <1>3, <2>4, <3>1
      <3> QED BY <2>1, <2>4, <3>1, <3>2
    <2> QED BY <1>8, <2>1, <2>3, <2>4 DEF ReadInner
  <1>9. CASE SkipValue
    <2>1. PICK token \in Values : Read(token)
      BY <1>9 DEF SkipValue
    <2>2. token \in Tokens /\ token \notin FieldNames \cup {"EndObject"}
      BY <1>2
    <2> QED BY <1>9, <2>1, <2>2 DEF SkipValue
  <1>10. ~(ReadHeader \/ ReadProperty \/ ReadPlainDetail \/ ReadDetail \/ EndProperties)
    BY <1>1 DEF ReadHeader, ReadProperty, ReadPlainDetail, ReadDetail, EndProperties, Reveal
  <1> QED BY <1>4, <1>5, <1>6, <1>7, <1>8, <1>9, <1>10 DEF Next

LEMMA NestStep ==
    ASSUME TypeOK, FrameInv, NestInv, [Next]_vars, TypeOK', FrameInv'
    PROVE  NestInv'
  <1> SUFFICES ASSUME Calling' PROVE NestInv'
    BY DEF NestInv
  <1>1. CASE Next /\ Calling
    <2>1. PICK token \in Tokens :
             /\ Read(token)
             /\ pc' = "value" => pc = "while" /\ token \in FieldNames
             /\ \/ UNCHANGED frames
                \/ /\ Top(tokens) \in KnownFields
                   /\ frames' = SetField(frames, Top(tokens),
                                         IF token = "Null" THEN 0 ELSE Len(tokens) + 1)
                \/ /\ token = "StartObject"
                   /\ frames' = Append(frames, Frame(Len(tokens) + 1, Len(open)))
                \/ pc' = "while" /\ Return
      BY <1>1, CallStep
    <2>2. frames \in Seq(Frames) /\ frames # <<>> /\ Len(frames) \in Nat \ {0}
          /\ Len(tokens) \in Nat /\ frames[1].depth = 0
      BY <1>1 DEF TypeOK, Calling, NestInv
    <2>3. /\ frames'[1].depth = 0
          /\ \A k \in 1 .. Len(frames') :
              \/ \E l \in 1 .. Len(frames) :
                    frames'[k].start = frames[l].start /\ frames'[k].depth = frames[l].depth
              \/ /\ token = "StartObject"
                 /\ frames'[k].start = Len(tokens) + 1
                 /\ frames'[k].depth = Len(open)
      <3>1. CASE UNCHANGED frames
        BY <2>2, <3>1
      <3>2. CASE frames' = SetField(frames, Top(tokens),
                                    IF token = "Null" THEN 0 ELSE Len(tokens) + 1)
        <4>1. (IF token = "Null" THEN 0 ELSE Len(tokens) + 1) \in Nat
          BY <2>2
        <4>2. /\ Len(frames') = Len(frames)
              /\ \A k \in 1 .. Len(frames) :
                    frames'[k].start = frames[k].start /\ frames'[k].depth = frames[k].depth
          <5> DEFINE name == Top(tokens)
                     position == IF token = "Null" THEN 0 ELSE Len(tokens) + 1
          <5> HIDE DEF name, position
          <5>1. position \in Nat /\ frames' = SetField(frames, name, position)
            BY <3>2, <4>1 DEF name, position
          <5> QED BY <2>2, <5>1, FieldOfTop
        <4> QED BY <2>2, <4>2
      <3>3. CASE /\ token = "StartObject"
                 /\ frames' = Append(frames, Frame(Len(tokens) + 1, Len(open)))
        <4> DEFINE frame == Frame(Len(tokens) + 1, Len(open))
        <4>1. frame.start = Len(tokens) + 1 /\ frame.depth = Len(open)
          BY DEF Frame
        <4> HIDE DEF frame
        <4>2. frames' = Append(frames, frame)
          BY <3>3 DEF frame
        <4>3. /\ Len(frames') = Len(frames) + 1
              /\ frames'[Len(frames) + 1] = frame
              /\ \A k \in 1 .. Len(frames) : frames'[k] = frames[k]
          BY <2>2, <4>2
        <4>4. \A k \in 1 .. Len(frames') : k \in 1 .. Len(frames) \/ k = Len(frames) + 1
          BY <2>2, <4>3
        <4> QED BY <2>2, <3>3, <4>1, <4>3, <4>4
      <3>4. CASE pc' = "while" /\ Return
        <4>1. LET n == Len(frames) IN
                /\ n > 1 /\ Len(frames') = n - 1
                /\ \A k \in 1 .. n - 1 :
                      frames'[k].start = frames[k].start /\ frames'[k].depth = frames[k].depth
          <5>1. pc' # "properties"
            BY <3>4
          <5> QED BY <2>2, <3>4, <5>1, Returned
        <4>2. \A k \in 1 .. Len(frames') : k \in 1 .. Len(frames)
          BY <2>2, <4>1
        <4>3. 1 \in 1 .. Len(frames) - 1
          BY <2>2, <4>1
        <4> QED BY <2>2, <4>1, <4>2, <4>3
      <3> QED BY <2>1, <3>1, <3>2, <3>3, <3>4
    <2> QED BY <1>1, <2>1, <2>3, NestRead
  <1>2. CASE ReadDetail
    <2>1. /\ tokens' = <<"StartObject">> /\ open' = <<"object">>
          /\ frames' = <<Frame(1, 0)>> /\ pc' = "while"
      BY <1>2 DEF ReadDetail
    <2>2. DepthIn(<<"StartObject">>, 1) = 1
      <3> DEFINE none == <<>>
                 first == "StartObject"
      <3>1. none \in Seq({first}) /\ Len(none) = 0 /\ Append(none, first) = <<first>>
        OBVIOUS
      <3>2. DepthIn(none, 0) = 0
        BY FS_EmptySet DEF DepthIn
      <3>3. first \in Openers
        BY DEF Openers
      <3> HIDE DEF none, first
      <3>4. DepthIn(Append(none, first), Len(none) + 1) =
              DepthIn(none, Len(none)) + (IF first \in Openers THEN 1
                                          ELSE IF first \in Closers THEN -1 ELSE 0)
        BY <3>1, DepthAppended
      <3>5. DepthIn(<<first>>, 1) = 1
        BY <3>1, <3>2, <3>3, <3>4
      <3> QED BY <3>5 DEF first
    <2>3. Len(frames') = 1 /\ frames'[1].start = 1 /\ frames'[1].depth = 0
          /\ Len(tokens') = 1 /\ tokens'[1] = "StartObject" /\ Len(open') = 1
      BY <2>1 DEF Frame
    <2>4. \A k \in 1 .. Len(frames') : k = 1
      BY <2>3
    <2>5. \A j \in 1 .. Len(tokens') : j = 1
      BY <2>3
    <2> QED BY <2>1, <2>2, <2>3, <2>4, <2>5 DEF NestInv
  <1>3. CASE ReadHeader \/ ReadProperty \/ ReadPlainDetail \/ EndProperties
    BY <1>3 DEF ReadHeader, ReadProperty, ReadPlainDetail, EndProperties, Reveal, Calling
  <1>4. CASE ReadName \/ SkipToken \/ EndObject \/ ReadText \/ ReadInner \/ SkipValue
    <2>1. Calling
      BY <1>4 DEF ReadName, SkipToken, EndObject, ReadText, ReadInner, SkipValue, Calling
    <2> QED BY <1>1, <1>4, <2>1 DEF Next
  <1>5. CASE UNCHANGED vars
    BY <1>5 DEF vars, detailVars, NestInv, Calling, Top
  <1> QED BY <1>2, <1>3, <1>4, <1>5 DEF Next

-----------------------------------------------------------------------------
\* A foreign object among the tokens is one that has not ended, and that is no
\* call's: a call cannot return across it.
ForeignInv ==
    Calling /\ ForeignObjects # {} =>
        \E p \in 1 .. Len(open) :
           open[p] = "object" /\ \A k \in 1 .. Len(frames) : frames[k].depth + 1 # p

\* What the next token adds to the objects of exceptions and to the others.
LEMMA ObjectsRead ==
    ASSUME TypeOK, tokens # <<>>, NEW token \in Tokens, Read(token)
    PROVE  /\ ExceptionObjects' =
                IF token = "StartObject" /\ Top(tokens) = InnerException
                THEN ExceptionObjects \cup {Len(tokens) + 1} ELSE ExceptionObjects
           /\ ForeignObjects' =
                IF token = "StartObject" /\ Top(tokens) # InnerException
                THEN ForeignObjects \cup {Len(tokens) + 1} ELSE ForeignObjects
  <1> DEFINE n == Len(tokens)
  <1>1. /\ n \in Nat \ {0}
        /\ DOMAIN tokens = 1 .. n
        /\ DOMAIN tokens' = 1 .. n + 1
        /\ tokens'[n + 1] = token
        /\ \A i \in 1 .. n : tokens'[i] = tokens[i]
        /\ Top(tokens) = tokens[n]
    BY ReadTyped DEF TypeOK, Top
  <1> HIDE DEF n
  <1>2. ASSUME NEW i \in 1 .. n
        PROVE  /\ i \in ExceptionObjects' <=> i \in ExceptionObjects
               /\ i \in ForeignObjects' <=> i \in ForeignObjects
    <2>1. i \in DOMAIN tokens /\ i \in DOMAIN tokens' /\ tokens'[i] = tokens[i]
          /\ (i = 1 \/ tokens'[i - 1] = tokens[i - 1])
      BY <1>1
    <2>2. i \in Positions({"StartObject"})' <=> i \in Positions({"StartObject"})
      BY <2>1 DEF Positions
    <2>3. i \in ExceptionObjects' <=> i \in ExceptionObjects
      BY <2>1, <2>2 DEF ExceptionObjects
    <2> QED BY <2>2, <2>3 DEF ForeignObjects
  <1>3. /\ n + 1 \in ExceptionObjects' <=> token = "StartObject" /\ Top(tokens) = InnerException
        /\ n + 1 \in ForeignObjects' <=> token = "StartObject" /\ Top(tokens) # InnerException
    <2>1. n + 1 \in Positions({"StartObject"})' <=> token = "StartObject"
      BY <1>1 DEF Positions
    <2>2. n + 1 # 1 /\ tokens'[(n + 1) - 1] = Top(tokens)
      BY <1>1
    <2>3. n + 1 \in ExceptionObjects' <=> token = "StartObject" /\ Top(tokens) = InnerException
      BY <2>1, <2>2 DEF ExceptionObjects
    <2> QED BY <2>1, <2>3 DEF ForeignObjects
  <1>4. /\ ExceptionObjects \subseteq 1 .. n /\ ForeignObjects \subseteq 1 .. n
        /\ ExceptionObjects' \subseteq 1 .. n + 1 /\ ForeignObjects' \subseteq 1 .. n + 1
    BY <1>1 DEF ExceptionObjects, ForeignObjects, Positions
  <1>5. \A i \in 1 .. n + 1 : i \in 1 .. n \/ i = n + 1
    BY <1>1
  <1>6. n + 1 \notin 1 .. n /\ 1 .. n \subseteq 1 .. n + 1
    BY <1>1
  <1>7. ASSUME NEW now, NEW before, NEW added, before \subseteq 1 .. n, now \subseteq 1 .. n + 1,
               \A i \in 1 .. n : i \in now <=> i \in before,
               n + 1 \in now <=> added
        PROVE  now = IF added THEN before \cup {n + 1} ELSE before
    <2>1. CASE added
      <3>1. now = before \cup {n + 1}
        BY <1>5, <1>6, <1>7, <2>1
      <3> QED BY <2>1, <3>1
    <2>2. CASE ~added
      <3>1. now = before
        BY <1>5, <1>6, <1>7, <2>2
      <3> QED BY <2>2, <3>1
    <2> QED BY <2>1, <2>2
  <1>8. ExceptionObjects' =
          IF token = "StartObject" /\ Top(tokens) = InnerException
          THEN ExceptionObjects \cup {n + 1} ELSE ExceptionObjects
    BY Zenon, <1>2, <1>3, <1>4, <1>7
  <1>9. ForeignObjects' =
          IF token = "StartObject" /\ Top(tokens) # InnerException
          THEN ForeignObjects \cup {n + 1} ELSE ForeignObjects
    BY Zenon, <1>2, <1>3, <1>4, <1>7
  <1> QED BY <1>8, <1>9 DEF n

\* Only an array that is open can end.
LEMMA EndsArray ==
    ASSUME Read("EndArray")
    PROVE  Top(open) = "array"
  BY MessageReaderAssumption DEF Read, Follow, Values, Openers, Closers

LEMMA ForeignKept ==
    ASSUME TypeOK, FrameInv, NestInv, ForeignInv, Calling,
           NEW token \in Tokens \ {"EndObject"}, Read(token),
           token = "StartObject" => Top(tokens) # InnerException,
           ForeignObjects' # {},
           Len(frames') = Len(frames),
           \A k \in 1 .. Len(frames) : frames'[k].depth = frames[k].depth
    PROVE  ForeignInv'
  <1>1. /\ Len(open) \in Nat \ {0}
        /\ tokens # <<>>
        /\ open \in Seq({"object", "array"})
    BY TokenRead DEF TypeOK, Calling
  <1>2. CASE ForeignObjects # {}
    <2>1. PICK p \in 1 .. Len(open) :
            open[p] = "object" /\ \A k \in 1 .. Len(frames) : frames[k].depth + 1 # p
      BY <1>2 DEF ForeignInv
    <2>2. p \in 1 .. Len(open') /\ open'[p] = "object"
      <3>1. CASE token \in {"StartObject", "StartArray"}
        BY <1>1, <2>1, <3>1, OpenAfter
      <3>2. CASE token = "EndArray"
        <4>1. p # Len(open)
          BY <2>1, <3>2, EndsArray DEF Top
        <4>2. token \in Closers /\ open # <<>>
          BY <1>1, <3>2 DEF Closers
        <4> QED BY <1>1, <2>1, <4>1, <4>2, OpenAfter
      <3>3. CASE token \notin Openers \cup Closers
        BY <2>1, <3>3, OpenAfter
      <3> QED BY <3>1, <3>2, <3>3 DEF Openers, Closers
    <2> QED BY <2>1, <2>2 DEF ForeignInv
  <1>3. CASE ForeignObjects = {}
    <2>1. token = "StartObject"
      BY <1>1, <1>3, ObjectsRead
    <2>2. Len(open') = Len(open) + 1 /\ open'[Len(open) + 1] = "object"
      BY <2>1, OpenAfter
    <2>3. \A k \in 1 .. Len(frames) : frames[k].depth + 1 # Len(open) + 1
      <3>1. \A k \in 1 .. Len(frames) : frames[k].depth + 1 \in 1 .. Len(open)
        BY DEF FrameInv, Calling
      <3> QED BY <1>1, <3>1
    <2>4. Len(open) + 1 \in 1 .. Len(open')
      BY <1>1, <2>2
    <2> QED BY <2>2, <2>3, <2>4 DEF ForeignInv
  <1> QED BY <1>2, <1>3

\* An object that no call reads does not follow the name InnerException.
LEMMA NotInner ==
    ASSUME TypeOK, FrameInv, Calling, pc = "value" => Top(tokens) \notin KnownFields
    PROVE  Top(tokens) # InnerException
  <1>1. CASE pc = "value"
    BY <1>1 DEF FrameInv, KnownFields
  <1>2. CASE pc = "while"
    <2>1. Top(tokens) \notin FieldNames
      BY <1>2 DEF FrameInv
    <2>2. Top(tokens) \in Tokens
      <3>1. tokens # <<>> /\ tokens \in Seq(Tokens)
        BY <1>2 DEF TypeOK
      <3> QED BY <3>1, StackTyped
    <2> QED BY <2>1, <2>2 DEF Tokens, Values, Openers, Closers, InnerException
  <1> QED BY <1>1, <1>2 DEF Calling

LEMMA ForeignStep ==
    ASSUME TypeOK, FrameInv, NestInv, ForeignInv, [Next]_vars
    PROVE  ForeignInv'
  <1> SUFFICES ASSUME Calling', ForeignObjects' # {} PROVE ForeignInv'
    BY DEF ForeignInv
  <1>1. CASE Next /\ Calling
    <2>1. frames \in Seq(Frames) /\ frames # <<>> /\ Len(frames) \in Nat \ {0}
          /\ tokens # <<>> /\ Len(tokens) \in Nat
          /\ Len(open) \in Nat
      BY <1>1 DEF TypeOK, Calling
    <2>2. ASSUME NEW token \in Tokens, Read(token),
                 token \notin FieldNames \cup {"EndObject"} \/ token \in FieldNames,
                 token = "StartObject" => Top(tokens) # InnerException,
                 UNCHANGED frames
          PROVE  ForeignInv'
      <3>1. token \in Tokens \ {"EndObject"}
        BY <2>2, MessageReaderAssumption DEF Closers
      <3> QED BY <1>1, <2>2, <3>1, ForeignKept
    <2>3. ASSUME NEW token \in Tokens, Read(token),
                 token \notin FieldNames \cup Openers \cup {"EndObject"},
                 frames' = SetField(frames, Top(tokens),
                                    IF token = "Null" THEN 0 ELSE Len(tokens) + 1)
          PROVE  ForeignInv'
      <3> DEFINE name == Top(tokens)
                 position == IF token = "Null" THEN 0 ELSE Len(tokens) + 1
      <3>1. position \in Nat
        BY <2>1
      <3> HIDE DEF name, position
      <3>2. frames' = SetField(frames, name, position)
        BY <2>3 DEF name, position
      <3>3. Len(frames') = Len(frames)
            /\ \A k \in 1 .. Len(frames) : frames'[k].depth = frames[k].depth
        BY <2>1, <3>1, <3>2, FieldOfTop
      <3>4. token \in Tokens \ {"EndObject"} /\ token # "StartObject"
        BY <2>3 DEF Openers
      <3> QED BY <1>1, <2>3, <3>3, <3>4, ForeignKept
    <2>4. ASSUME Read("StartObject"), Top(tokens) = InnerException,
                 frames' = Append(frames, Frame(Len(tokens) + 1, Len(open)))
          PROVE  ForeignInv'
      <3>1. "StartObject" \in Tokens
        BY DEF Tokens, Values, Openers
      <3>2. ForeignObjects # {}
        BY <2>1, <2>4, <3>1, ObjectsRead
      <3>3. PICK p \in 1 .. Len(open) :
              open[p] = "object" /\ \A k \in 1 .. Len(frames) : frames[k].depth + 1 # p
        BY <1>1, <3>2 DEF ForeignInv
      <3>4. p \in 1 .. Len(open') /\ open'[p] = "object"
        BY <2>1, <2>4, <3>1, <3>3, OpenAfter
      <3> DEFINE frame == Frame(Len(tokens) + 1, Len(open))
      <3>5. frame.depth = Len(open)
        BY DEF Frame
      <3> HIDE DEF frame
      <3>6. /\ Len(frames') = Len(frames) + 1
            /\ frames'[Len(frames) + 1] = frame
            /\ \A k \in 1 .. Len(frames) : frames'[k] = frames[k]
        BY <2>1, <2>4 DEF frame
      <3>7. \A k \in 1 .. Len(frames') : k \in 1 .. Len(frames) \/ k = Len(frames) + 1
        BY <2>1, <3>6
      <3>8. \A k \in 1 .. Len(frames') : frames'[k].depth + 1 # p
        BY <2>1, <3>3, <3>5, <3>6, <3>7
      <3> QED BY <3>4, <3>8 DEF ForeignInv
    <2>5. ASSUME pc = "while", pc' = "while", Read("EndObject"),
                 Len(open') = Top(frames).depth, Return
          PROVE  ForeignInv'
      <3>1. "EndObject" \in Tokens /\ "EndObject" \in Closers
        BY DEF Tokens, Closers
      <3>2. ForeignObjects # {}
        BY <2>1, <3>1, <2>5, ObjectsRead
      <3>3. PICK p \in 1 .. Len(open) :
              open[p] = "object" /\ \A k \in 1 .. Len(frames) : frames[k].depth + 1 # p
        BY <1>1, <3>2 DEF ForeignInv
      <3>4. Len(open) \in Nat \ {0} /\ open # <<>>
        BY <2>5, EndsObject
      <3>5. /\ Len(open') = Len(open) - 1
            /\ \A q \in 1 .. Len(open) - 1 : open'[q] = open[q]
        BY <2>5, <3>1, <3>4, OpenAfter
      <3>6. p # Len(open)
        <4>1. Top(frames) = frames[Len(frames)] /\ Len(frames) \in 1 .. Len(frames)
          BY <2>1 DEF Top
        <4>2. frames[Len(frames)].depth = Len(open) - 1
          BY <2>5, <3>5, <4>1
        <4> QED BY <3>3, <3>4, <4>1, <4>2
      <3>7. p \in 1 .. Len(open') /\ open'[p] = "object"
        BY <3>3, <3>4, <3>5, <3>6
      <3>8. /\ Len(frames') = Len(frames) - 1
            /\ \A k \in 1 .. Len(frames) - 1 : frames'[k].depth = frames[k].depth
        <4>1. pc' # "properties"
          BY <2>5
        <4> QED BY <2>1, <2>5, <4>1, Returned
      <3>9. \A k \in 1 .. Len(frames') : k \in 1 .. Len(frames) /\ k \in 1 .. Len(frames) - 1
        BY <2>1, <3>8
      <3>10. \A k \in 1 .. Len(frames') : frames'[k].depth + 1 # p
        BY <3>3, <3>8, <3>9
      <3> QED BY <3>7, <3>10 DEF ForeignInv
    <2>6. "StartObject" \notin FieldNames
      BY MessageReaderAssumption DEF Values, Openers
    <2> QED BY <1>1, <2>2, <2>3, <2>4, <2>5, <2>6, CallStep, NotInner
  <1>2. CASE ReadDetail
    <2>1. tokens' = <<"StartObject">>
      BY <1>2 DEF ReadDetail
    <2>2. \A i \in DOMAIN tokens' : i = 1
      BY <2>1
    <2>3. ForeignObjects' = {}
      BY <2>2 DEF ForeignObjects, ExceptionObjects, Positions
    <2> QED BY <2>3
  <1>3. CASE ReadHeader \/ ReadProperty \/ ReadPlainDetail \/ EndProperties
    BY <1>3 DEF ReadHeader, ReadProperty, ReadPlainDetail, EndProperties, Reveal, Calling
  <1>4. CASE ReadName \/ SkipToken \/ EndObject \/ ReadText \/ ReadInner \/ SkipValue
    <2>1. Calling
      BY <1>4 DEF ReadName, SkipToken, EndObject, ReadText, ReadInner, SkipValue, Calling
    <2> QED BY <1>1, <1>4, <2>1 DEF Next
  <1>5. CASE UNCHANGED vars
    BY <1>5 DEF vars, detailVars, ForeignInv, Calling, ForeignObjects, ExceptionObjects,
                Positions
  <1> QED BY <1>2, <1>3, <1>4, <1>5 DEF Next

-----------------------------------------------------------------------------
(* What the calls have read                                                 *)

\* The call that reads an object is known by the object's position, and every
\* exception's object is that of a call: one that runs or one that returned.
ObjectsInv ==
    Calling =>
        /\ \A k \in 1 .. Len(frames) : frames[k].start \in ExceptionObjects
        /\ \A e \in exceptions : e.start \in ExceptionObjects
        /\ \A i \in ExceptionObjects :
              \/ \E k \in 1 .. Len(frames) : frames[k].start = i
              \/ \E e \in exceptions : e.start = i

\* Every call has the fields of its own object so far: the value that is read
\* next, or that an inner call reads, comes on top.
FieldsInv ==
    Calling /\ ForeignObjects = {} =>
        \A k \in 1 .. Len(frames), name \in KnownFields :
           (k = Len(frames) /\ pc = "value" => name # Top(tokens)) =>
              /\ Len(tokens) \notin OwnIn(tokens, frames[k].start, name)
              /\ FieldIn(tokens, frames[k].start, name) =
                    IF k < Len(frames) /\ name = InnerException
                    THEN frames[k + 1].start ELSE frames[k].fields[name]

\* Every call that returned has the fields of its own object, which has ended.
DoneInv ==
    Calling =>
        \A e \in exceptions :
           /\ e.start \in 1 .. Len(tokens)
           /\ \E j \in e.start .. Len(tokens) : DepthIn(tokens, j) < DepthIn(tokens, e.start)
           /\ ForeignObjects = {} =>
                \A name \in KnownFields : e.fields[name] = FieldIn(tokens, e.start, name)

\* A token that is not the own name of an object leaves its fields as they are.
LEMMA FieldsKept ==
    ASSUME TypeOK, FrameInv, NestInv, Calling, NEW token \in Tokens, Read(token),
           NEW start \in 1 .. Len(tokens), NEW name,
           Len(tokens) \notin OwnIn(tokens, start, name),
           \/ token # name
           \/ DepthIn(tokens', Len(tokens) + 1) # DepthIn(tokens, start)
           \/ \E j \in start .. Len(tokens) : DepthIn(tokens, j) < DepthIn(tokens, start)
    PROVE  /\ Len(tokens') \notin OwnIn(tokens', start, name)
           /\ FieldIn(tokens', start, name) = FieldIn(tokens, start, name)
  <1>1. /\ tokens \in Seq(Tokens)
        /\ tokens' = Append(tokens, token)
        /\ Len(tokens') = Len(tokens) + 1
        /\ Len(tokens) \in Nat \ {0}
        /\ \A i \in 1 .. Len(tokens) : DepthIn(tokens, i) \in Int
    BY TokenRead
  <1>2. Len(tokens) + 1 \notin OwnIn(tokens', start, name)
    <2>1. Len(tokens) + 1 \in OwnIn(tokens', start, name) =>
            /\ token = name
            /\ DepthIn(tokens', Len(tokens) + 1) = DepthIn(tokens, start)
            /\ \A j \in start .. Len(tokens) : DepthIn(tokens, j) >= DepthIn(tokens, start)
      BY <1>1, OwnAppended
    <2>2. \A j \in start .. Len(tokens) : j \in 1 .. Len(tokens)
      BY <1>1
    <2>3. \A j \in start .. Len(tokens) :
            ~(DepthIn(tokens, j) < DepthIn(tokens, start)
               /\ DepthIn(tokens, j) >= DepthIn(tokens, start))
      BY <1>1, <2>2
    <2> QED BY <2>1, <2>3
  <1>3. FieldIn(tokens', start, name) = FieldIn(tokens, start, name)
    BY <1>1, <1>2, FieldKept
  <1> QED BY <1>1, <1>2, <1>3

\* The value that is read is the one of the field whose name came before it.
LEMMA FieldRead ==
    ASSUME TypeOK, FrameInv, NestInv, ForeignObjects = {}, pc = "value",
           NEW token \in Tokens, Read(token), token \notin FieldNames,
           Top(tokens) \in FieldNames
    PROVE  LET start == frames[Len(frames)].start
           IN  /\ Len(tokens') \notin OwnIn(tokens', start, Top(tokens))
               /\ FieldIn(tokens', start, Top(tokens)) =
                    IF token = "Null" THEN 0 ELSE Len(tokens) + 1
  <1> DEFINE n == Len(tokens)
             m == Len(frames)
             start == frames[m].start
             name == Top(tokens)
  <1>1. /\ tokens \in Seq(Tokens)
        /\ tokens' = Append(tokens, token)
        /\ Len(tokens') = n + 1
        /\ n \in Nat \ {0} /\ m \in Nat \ {0}
        /\ Len(open) \in Nat \ {0}
    BY TokenRead DEF Calling
  <1>2. /\ start \in 1 .. n
        /\ tokens[start] = "StartObject"
        /\ DepthIn(tokens, start) = frames[m].depth + 1
        /\ \A j \in start .. n : DepthIn(tokens, j) >= frames[m].depth + 1
        /\ DepthIn(tokens, n) = Len(open)
        /\ Top(open) = "object"
    BY <1>1 DEF NestInv, Calling
  <1>3. frames[m].depth + 1 = Len(open)
    <2>1. PICK k \in 1 .. m : frames[k].depth + 1 = Len(open)
      <3>1. Len(open) \in 1 .. Len(open) /\ open[Len(open)] = "object"
        BY <1>1, <1>2 DEF Top
      <3> QED BY <3>1 DEF FrameInv
    <2>2. frames[m].depth + 1 \in 1 .. Len(open)
      BY <1>1 DEF FrameInv
    <2>3. frames[k].depth \in Nat /\ frames[m].depth \in Nat
      <3>1. frames \in Seq(Frames) /\ m \in 1 .. Len(frames)
        BY <1>1 DEF TypeOK
      <3>2. frames[k] \in Frames /\ frames[m] \in Frames
        BY <2>1, <3>1, ElementOfSeq
      <3> QED BY <3>2 DEF Frames
    <2>4. k < m => frames[k].depth < frames[m].depth
      <3>1. \A i, j \in 1 .. m : i < j => frames[i].depth < frames[j].depth
        BY DEF FrameInv
      <3>2. m \in 1 .. m
        BY <1>1
      <3> QED BY <2>1, <3>1, <3>2
    <2>5. CASE k = m
      BY <2>1, <2>5
    <2>6. CASE k # m
      <3>1. k < m
        BY <1>1, <2>1, <2>6
      <3>2. frames[m].depth >= Len(open)
        <4> DEFINE inner == frames[k].depth
                   top == frames[m].depth
        <4>1. inner \in Nat /\ top \in Nat /\ inner < top /\ inner + 1 = Len(open)
          BY <2>1, <2>3, <2>4, <3>1
        <4> HIDE DEF inner, top
        <4>2. top >= Len(open)
          BY <1>1, <4>1
        <4> QED BY <4>2 DEF top
      <3> QED BY <1>1, <2>2, <2>3, <3>2
    <2> QED BY <2>5, <2>6
  <1>4. n \in OwnIn(tokens, start, name)
    <2>1. n \in DOMAIN tokens /\ tokens[n] = name
      BY <1>1 DEF Top
    <2>2. name # "StartObject"
      BY MessageReaderAssumption DEF Values, Openers
    <2>3. n > start
      <3>1. n # start
        BY <1>2, <2>1, <2>2
      <3> QED BY <1>1, <1>2, <3>1
    <2>4. DepthIn(tokens, n) = DepthIn(tokens, start)
      BY <1>2, <1>3
    <2>5. \A j \in start .. n : DepthIn(tokens, j) >= DepthIn(tokens, start)
      BY <1>2
    <2> HIDE DEF start, name, n
    <2> QED BY <2>1, <2>3, <2>4, <2>5 DEF OwnIn
  <1> HIDE DEF start, name, n, m
  <1>5. n + 1 \notin OwnIn(tokens', start, name)
    <2>1. n + 1 \in OwnIn(tokens', start, name) => token = name
      BY <1>1, <1>2, OwnAppended DEF n
    <2>2. token # name
      BY DEF name
    <2> QED BY <2>1, <2>2
  <1>6. FieldIn(tokens', start, name) = IF token = "Null" THEN 0 ELSE n + 1
    BY <1>1, <1>2, <1>4, <1>5, FieldSet DEF n
  <1> QED BY <1>1, <1>5, <1>6 DEF start, name, n, m

\* The field names of the calls that run and of the next token.
LEMMA OuterKept ==
    ASSUME TypeOK, FrameInv, NestInv, FieldsInv, Calling, ForeignObjects = {},
           NEW token \in Tokens, Read(token),
           NEW k \in 1 .. Len(frames), NEW name \in KnownFields,
           k = Len(frames) /\ pc = "value" => name # Top(tokens),
           token # name \/ (k # Len(frames) /\ token \in FieldNames)
    PROVE  /\ Len(tokens') \notin OwnIn(tokens', frames[k].start, name)
           /\ FieldIn(tokens', frames[k].start, name) =
                 IF k < Len(frames) /\ name = InnerException
                 THEN frames[k + 1].start ELSE frames[k].fields[name]
  <1> DEFINE start == frames[k].start
             n == Len(tokens)
  <1>1. /\ Len(frames) \in Nat \ {0} /\ n \in Nat \ {0} /\ Len(open) \in Nat \ {0}
        /\ DepthIn(tokens', n + 1) = Len(open')
    BY TokenRead
  <1>2. /\ start \in 1 .. n
        /\ DepthIn(tokens, start) = frames[k].depth + 1
    BY DEF NestInv
  <1>3. /\ n \notin OwnIn(tokens, start, name)
        /\ FieldIn(tokens, start, name) =
              IF k < Len(frames) /\ name = InnerException
              THEN frames[k + 1].start ELSE frames[k].fields[name]
    BY DEF FieldsInv
  <1>4. ASSUME k # Len(frames), token \in FieldNames
        PROVE  DepthIn(tokens', n + 1) # DepthIn(tokens, start)
    <2>1. token \notin Openers \cup Closers
      BY <1>4, MessageReaderAssumption DEF Values
    <2>2. open' = open
      BY <2>1, OpenAfter
    <2>3. k < Len(frames) /\ Len(frames) \in 1 .. Len(frames)
      BY <1>1, <1>4
    <2>4. frames[k].depth < frames[Len(frames)].depth
          /\ frames[Len(frames)].depth + 1 \in 1 .. Len(open)
      BY <2>3 DEF FrameInv, Calling
    <2>5. frames[k].depth \in Nat /\ frames[Len(frames)].depth \in Nat
      <3>1. frames \in Seq(Frames)
        BY DEF TypeOK
      <3>2. frames[k] \in Frames /\ frames[Len(frames)] \in Frames
        BY <2>3, <3>1, ElementOfSeq
      <3> QED BY <3>2 DEF Frames
    <2>6. frames[k].depth + 1 # Len(open)
      <3> DEFINE outer == frames[k].depth
                 inner == frames[Len(frames)].depth
      <3>1. outer \in Nat /\ inner \in Nat /\ outer < inner /\ inner + 1 \in 1 .. Len(open)
        BY <2>4, <2>5
      <3> HIDE DEF outer, inner
      <3>2. outer + 1 # Len(open)
        BY <1>1, <3>1
      <3> QED BY <3>2 DEF outer
    <2> QED BY <1>1, <1>2, <2>2, <2>6
  <1> HIDE DEF start, n
  <1>5. /\ Len(tokens') \notin OwnIn(tokens', start, name)
        /\ FieldIn(tokens', start, name) = FieldIn(tokens, start, name)
    BY <1>2, <1>3, <1>4, FieldsKept DEF n
  <1> QED BY <1>3, <1>5 DEF start

LEMMA FieldsStep ==
    ASSUME TypeOK, FrameInv, NestInv, FieldsInv, [Next]_vars
    PROVE  FieldsInv'
  <1> SUFFICES ASSUME Calling', ForeignObjects' = {} PROVE FieldsInv'
    BY DEF FieldsInv
  <1>1. CASE Next /\ Calling
    <2>1. /\ frames \in Seq(Frames) /\ frames # <<>> /\ Len(frames) \in Nat \ {0}
          /\ tokens # <<>> /\ Len(tokens) \in Nat \ {0}
      BY <1>1 DEF TypeOK, Calling
    <2>2. PICK token \in Tokens :
             /\ Read(token)
             /\ \/ /\ pc = "while" /\ pc' = "value" /\ token \in FieldNames
                   /\ UNCHANGED <<frames, exceptions>>
                \/ /\ pc' = "while"
                   /\ token \notin FieldNames \cup {"EndObject"}
                   /\ pc = "value" => Top(tokens) \notin KnownFields
                   /\ UNCHANGED <<frames, exceptions>>
                \/ /\ pc = "value" /\ pc' = "while"
                   /\ token \notin FieldNames \cup Openers \cup {"EndObject"}
                   /\ Top(tokens) \in KnownFields
                   /\ frames' = SetField(frames, Top(tokens),
                                         IF token = "Null" THEN 0 ELSE Len(tokens) + 1)
                   /\ exceptions' = exceptions
                \/ /\ pc = "value" /\ pc' = "while"
                   /\ token = "StartObject" /\ Top(tokens) = InnerException
                   /\ frames' = Append(frames, Frame(Len(tokens) + 1, Len(open)))
                   /\ exceptions' = exceptions
                \/ /\ pc = "while" /\ pc' = "while"
                   /\ token = "EndObject"
                   /\ Len(open') = Top(frames).depth
                   /\ Return
      BY <1>1, CallStep
    <2>3. ForeignObjects = {}
      BY <2>1, <2>2, ForeignGrows
    <2>4. Top(tokens)' = token
      BY <2>1, <2>2, ReadTyped DEF Top
    <2>5. {"StartObject", "EndObject"} \cap FieldNames = {} /\ KnownFields \subseteq FieldNames
      BY MessageReaderAssumption DEF Values, Openers, Closers, KnownFields
    <2>6. CASE /\ pc = "while" /\ pc' = "value" /\ token \in FieldNames
               /\ UNCHANGED <<frames, exceptions>>
      <3> SUFFICES ASSUME NEW k \in 1 .. Len(frames), NEW name \in KnownFields,
                          k = Len(frames) => name # token
                   PROVE  /\ Len(tokens') \notin OwnIn(tokens', frames[k].start, name)
                          /\ FieldIn(tokens', frames[k].start, name) =
                                IF k < Len(frames) /\ name = InnerException
                                THEN frames[k + 1].start ELSE frames[k].fields[name]
        BY <2>4, <2>6 DEF FieldsInv
      <3> QED BY <1>1, <2>2, <2>3, <2>6, OuterKept
    <2>7. CASE /\ pc' = "while"
               /\ token \notin FieldNames \cup {"EndObject"}
               /\ pc = "value" => Top(tokens) \notin KnownFields
               /\ UNCHANGED <<frames, exceptions>>
      <3> SUFFICES ASSUME NEW k \in 1 .. Len(frames), NEW name \in KnownFields
                   PROVE  /\ Len(tokens') \notin OwnIn(tokens', frames[k].start, name)
                          /\ FieldIn(tokens', frames[k].start, name) =
                                IF k < Len(frames) /\ name = InnerException
                                THEN frames[k + 1].start ELSE frames[k].fields[name]
        BY <2>7 DEF FieldsInv
      <3>1. token # name /\ (pc = "value" => name # Top(tokens))
        BY <2>5, <2>7
      <3> QED BY <1>1, <2>2, <2>3, <3>1, OuterKept
    <2>8. CASE /\ pc = "value" /\ pc' = "while"
               /\ token \notin FieldNames \cup Openers \cup {"EndObject"}
               /\ Top(tokens) \in KnownFields
               /\ frames' = SetField(frames, Top(tokens),
                                     IF token = "Null" THEN 0 ELSE Len(tokens) + 1)
      <3> DEFINE field == Top(tokens)
                 position == IF token = "Null" THEN 0 ELSE Len(tokens) + 1
                 top == Len(frames)
      <3>1. position \in Nat
        BY <2>1
      <3>2. /\ Len(tokens') \notin OwnIn(tokens', frames[top].start, field)
            /\ FieldIn(tokens', frames[top].start, field) = position
        BY <2>2, <2>3, <2>5, <2>8, FieldRead
      <3> HIDE DEF field, position, top
      <3>3. /\ Len(frames') = top
            /\ \A k \in 1 .. top :
                  /\ frames'[k].start = frames[k].start
                  /\ k # top => frames'[k] = frames[k]
            /\ \A name \in KnownFields :
                  frames'[top].fields[name] =
                     IF name = field THEN position ELSE frames[top].fields[name]
        <4>1. frames' = SetField(frames, field, position)
          BY <2>8 DEF field, position
        <4> QED BY <2>1, <3>1, <4>1, FieldOfTop DEF top
      <3>4. top \in Nat \ {0} /\ top \in 1 .. top
        BY <2>1 DEF top
      <3> SUFFICES ASSUME NEW k \in 1 .. top, NEW name \in KnownFields
                   PROVE  /\ Len(tokens') \notin OwnIn(tokens', frames'[k].start, name)
                          /\ FieldIn(tokens', frames'[k].start, name) =
                                IF k < top /\ name = InnerException
                                THEN frames'[k + 1].start ELSE frames'[k].fields[name]
        BY <2>8, <3>3 DEF FieldsInv
      <3>5. CASE k = top /\ name = field
        BY <3>2, <3>3, <3>4, <3>5
      <3>6. CASE ~(k = top /\ name = field)
        <4>1. token # name /\ (k = top => name # Top(tokens))
          BY <2>5, <2>8, <3>6 DEF field
        <4>2. /\ Len(tokens') \notin OwnIn(tokens', frames[k].start, name)
              /\ FieldIn(tokens', frames[k].start, name) =
                    IF k < top /\ name = InnerException
                    THEN frames[k + 1].start ELSE frames[k].fields[name]
          BY <1>1, <2>2, <2>3, <4>1, OuterKept DEF top
        <4>3. k < top => k + 1 \in 1 .. top
          BY <3>4
        <4>4. k < top => frames'[k + 1].start = frames[k + 1].start
          BY <3>3, <4>3
        <4>5. k < top \/ k = top
          BY <3>4
        <4>6. frames'[k].fields[name] = frames[k].fields[name]
          BY <3>3, <3>4, <3>6
        <4>7. frames'[k].start = frames[k].start
          BY <3>3
        <4> QED BY <4>2, <4>4, <4>6, <4>7
      <3> QED BY <3>5, <3>6
    <2>9. CASE /\ pc = "value" /\ pc' = "while"
               /\ token = "StartObject" /\ Top(tokens) = InnerException
               /\ frames' = Append(frames, Frame(Len(tokens) + 1, Len(open)))
      <3> DEFINE n == Len(tokens) + 1
                 frame == Frame(n, Len(open))
                 top == Len(frames)
      <3>1. frame.start = n /\ \A name \in KnownFields : frame.fields[name] = 0
        BY DEF Frame
      <3>2. /\ Len(tokens') \notin OwnIn(tokens', frames[top].start, InnerException)
            /\ FieldIn(tokens', frames[top].start, InnerException) = n
        <4>1. token \notin FieldNames /\ Top(tokens) \in FieldNames /\ token # "Null"
          BY <2>5, <2>9 DEF FrameInv
        <4> QED BY <2>2, <2>3, <2>9, <4>1, FieldRead
      <3>3. \A name : OwnIn(tokens', n, name) = {} /\ FieldIn(tokens', n, name) = 0
        <4>1. tokens' \in Seq(Tokens) /\ Len(tokens') = n
          BY <2>1, <2>2, ReadTyped
        <4> HIDE DEF n
        <4> QED BY <4>1, NoNamesYet
      <3> HIDE DEF frame
      <3>4. /\ Len(frames') = top + 1
            /\ frames'[top + 1] = frame
            /\ \A k \in 1 .. top : frames'[k] = frames[k]
        BY <2>1, <2>9 DEF frame
      <3> HIDE DEF top, n
      <3>5. top \in Nat \ {0} /\ top \in 1 .. top
        BY <2>1 DEF top
      <3> SUFFICES ASSUME NEW k \in 1 .. top + 1, NEW name \in KnownFields
                   PROVE  /\ Len(tokens') \notin OwnIn(tokens', frames'[k].start, name)
                          /\ FieldIn(tokens', frames'[k].start, name) =
                                IF k < top + 1 /\ name = InnerException
                                THEN frames'[k + 1].start ELSE frames'[k].fields[name]
        BY <2>9, <3>4 DEF FieldsInv
      <3>6. CASE k = top + 1
        <4>1. ~(k < top + 1)
          BY <3>5, <3>6
        <4>2. frames'[k].start = n /\ frames'[k].fields[name] = 0
          BY <3>1, <3>4, <3>6
        <4> QED BY <3>3, <4>1, <4>2
      <3>7. CASE k \in 1 .. top
        <4>1. frames'[k] = frames[k] /\ k < top + 1
          BY <3>4, <3>5, <3>7
        <4>2. CASE k = top /\ name = InnerException
          BY <3>1, <3>2, <3>4, <4>1, <4>2
        <4>3. CASE ~(k = top /\ name = InnerException)
          <5>1. token # name /\ (k = top => name # Top(tokens))
            BY <2>5, <2>9, <4>3
          <5>2. /\ Len(tokens') \notin OwnIn(tokens', frames[k].start, name)
                /\ FieldIn(tokens', frames[k].start, name) =
                      IF k < top /\ name = InnerException
                      THEN frames[k + 1].start ELSE frames[k].fields[name]
            BY <1>1, <2>2, <2>3, <3>7, <5>1, OuterKept DEF top
          <5>3. CASE name = InnerException
            <6>1. k < top /\ k + 1 \in 1 .. top
              BY <3>5, <3>7, <4>3, <5>3
            <6>2. frames'[k + 1] = frames[k + 1]
              BY <3>4, <6>1
            <6> QED BY <4>1, <5>2, <5>3, <6>1, <6>2
          <5>4. CASE name # InnerException
            BY <4>1, <5>2, <5>4
          <5> QED BY <5>3, <5>4
        <4> QED BY <4>2, <4>3
      <3> QED BY <3>5, <3>6, <3>7
    <2>10. CASE /\ pc = "while" /\ pc' = "while"
                /\ token = "EndObject"
                /\ Return
      <3> DEFINE n == Len(frames)
                 start == frames[n].start
      <3>1. /\ n \in Nat /\ n > 1
            /\ Len(frames') = n - 1
            /\ \A k \in 1 .. n - 1 :
                  /\ frames'[k].start = frames[k].start
                  /\ k # n - 1 => frames'[k] = frames[k]
            /\ \A field \in KnownFields :
                  frames'[n - 1].fields[field] =
                     IF field = InnerException THEN start ELSE frames[n - 1].fields[field]
        <4>1. pc' # "properties"
          BY <2>10
        <4> QED BY <2>1, <2>10, <4>1, Returned
      <3> SUFFICES ASSUME NEW k \in 1 .. n - 1, NEW name \in KnownFields
                   PROVE  /\ Len(tokens') \notin OwnIn(tokens', frames'[k].start, name)
                          /\ FieldIn(tokens', frames'[k].start, name) =
                                IF k < n - 1 /\ name = InnerException
                                THEN frames'[k + 1].start ELSE frames'[k].fields[name]
        BY <2>10, <3>1 DEF FieldsInv
      <3>2. k \in 1 .. n /\ k < n /\ token # name /\ frames'[k].start = frames[k].start
        BY <2>5, <2>10, <3>1
      <3>3. /\ Len(tokens') \notin OwnIn(tokens', frames[k].start, name)
            /\ FieldIn(tokens', frames[k].start, name) =
                  IF name = InnerException
                  THEN frames[k + 1].start ELSE frames[k].fields[name]
        <4>1. ~(k = n /\ pc = "value")
          BY <2>10
        <4> QED BY <1>1, <2>2, <2>3, <3>2, <4>1, OuterKept
      <3> HIDE DEF start
      <3>4. CASE k = n - 1
        <4>1. k + 1 = n /\ ~(k < n - 1)
          BY <3>1, <3>4
        <4> QED BY <3>1, <3>2, <3>3, <3>4, <4>1 DEF start
      <3>5. CASE k # n - 1
        <4>1. k < n - 1 /\ k + 1 \in 1 .. n - 1
          BY <3>1, <3>5
        <4>2. frames'[k + 1].start = frames[k + 1].start /\ frames'[k] = frames[k]
          BY <3>1, <3>5, <4>1
        <4> QED BY <3>2, <3>3, <4>1, <4>2
      <3> QED BY <3>4, <3>5
    <2> QED BY <2>2, <2>6, <2>7, <2>8, <2>9, <2>10
  <1>2. CASE ReadDetail
    <2>1. /\ tokens' = <<"StartObject">> /\ frames' = <<Frame(1, 0)>> /\ pc' = "while"
      BY <1>2 DEF ReadDetail
    <2>2. tokens' \in Seq({"StartObject"}) /\ Len(tokens') = 1
      BY <2>1
    <2>3. \A name : OwnIn(tokens', 1, name) = {} /\ FieldIn(tokens', 1, name) = 0
      BY <2>2, NoNamesYet
    <2>4. /\ Len(frames') = 1 /\ frames'[1].start = 1
          /\ \A name \in KnownFields : frames'[1].fields[name] = 0
      BY <2>1 DEF Frame
    <2>5. \A k \in 1 .. Len(frames') : k = 1 /\ ~(k < Len(frames'))
      BY <2>4
    <2> QED BY <2>3, <2>4, <2>5 DEF FieldsInv
  <1>3. CASE ReadHeader \/ ReadProperty \/ ReadPlainDetail \/ EndProperties
    BY <1>3 DEF ReadHeader, ReadProperty, ReadPlainDetail, EndProperties, Reveal, Calling
  <1>4. CASE ReadName \/ SkipToken \/ EndObject \/ ReadText \/ ReadInner \/ SkipValue
    <2>1. Calling
      BY <1>4 DEF ReadName, SkipToken, EndObject, ReadText, ReadInner, SkipValue, Calling
    <2> QED BY <1>1, <1>4, <2>1 DEF Next
  <1>5. CASE UNCHANGED vars
    BY <1>5 DEF vars, detailVars, FieldsInv, Calling, ForeignObjects, ExceptionObjects,
                Positions, Top
  <1> QED BY <1>2, <1>3, <1>4, <1>5 DEF Next

LEMMA ObjectsStep ==
    ASSUME TypeOK, FrameInv, NestInv, ObjectsInv, [Next]_vars
    PROVE  ObjectsInv'
  <1> SUFFICES ASSUME Calling' PROVE ObjectsInv'
    BY DEF ObjectsInv
  <1>1. CASE Next /\ Calling
    <2>1. /\ frames \in Seq(Frames) /\ frames # <<>> /\ Len(frames) \in Nat \ {0}
          /\ tokens # <<>> /\ Len(tokens) \in Nat \ {0}
      BY <1>1 DEF TypeOK, Calling
    <2>2. ASSUME NEW token \in Tokens, Read(token),
                 token = "StartObject" => Top(tokens) # InnerException,
                 exceptions' = exceptions,
                 Len(frames') = Len(frames),
                 \A k \in 1 .. Len(frames) : frames'[k].start = frames[k].start
          PROVE  ObjectsInv'
      <3>1. ExceptionObjects' = ExceptionObjects
        BY <2>1, <2>2, ObjectsRead
      <3> QED BY <1>1, <2>2, <3>1 DEF ObjectsInv
    <2>3. ASSUME NEW token \in Tokens, Read(token),
                 token \notin FieldNames \cup Openers \cup {"EndObject"},
                 frames' = SetField(frames, Top(tokens),
                                    IF token = "Null" THEN 0 ELSE Len(tokens) + 1),
                 exceptions' = exceptions
          PROVE  ObjectsInv'
      <3> DEFINE name == Top(tokens)
                 position == IF token = "Null" THEN 0 ELSE Len(tokens) + 1
      <3>1. position \in Nat
        BY <2>1
      <3> HIDE DEF name, position
      <3>2. frames' = SetField(frames, name, position)
        BY <2>3 DEF name, position
      <3>3. Len(frames') = Len(frames)
            /\ \A k \in 1 .. Len(frames) : frames'[k].start = frames[k].start
        BY <2>1, <3>1, <3>2, FieldOfTop
      <3>4. token # "StartObject"
        BY <2>3 DEF Openers
      <3> QED BY <2>2, <2>3, <3>3, <3>4
    <2>4. ASSUME Read("StartObject"), Top(tokens) = InnerException,
                 frames' = Append(frames, Frame(Len(tokens) + 1, Len(open))),
                 exceptions' = exceptions
          PROVE  ObjectsInv'
      <3> DEFINE n == Len(tokens) + 1
                 frame == Frame(n, Len(open))
      <3>1. ExceptionObjects' = ExceptionObjects \cup {n}
        BY <2>1, <2>4, ObjectsRead DEF Tokens, Values, Openers
      <3>2. frame.start = n
        BY DEF Frame
      <3> HIDE DEF frame
      <3>3. /\ Len(frames') = Len(frames) + 1
            /\ frames'[Len(frames) + 1] = frame
            /\ \A k \in 1 .. Len(frames) : frames'[k] = frames[k]
        BY <2>1, <2>4 DEF frame
      <3>4. \A k \in 1 .. Len(frames') : k \in 1 .. Len(frames) \/ k = Len(frames) + 1
        BY <2>1, <3>3
      <3>5. \A k \in 1 .. Len(frames) : k \in 1 .. Len(frames')
        BY <2>1, <3>3
      <3>6. Len(frames) + 1 \in 1 .. Len(frames')
        BY <2>1, <3>3
      <3>7. \A k \in 1 .. Len(frames') : frames'[k].start \in ExceptionObjects'
        BY <1>1, <3>1, <3>2, <3>3, <3>4 DEF ObjectsInv
      <3>8. \A i \in ExceptionObjects' :
              \/ \E k \in 1 .. Len(frames') : frames'[k].start = i
              \/ \E e \in exceptions' : e.start = i
        <4> SUFFICES ASSUME NEW i \in ExceptionObjects',
                            \A e \in exceptions' : e.start # i
                     PROVE  \E k \in 1 .. Len(frames') : frames'[k].start = i
          OBVIOUS
        <4>1. CASE i = n
          BY <3>2, <3>3, <3>6, <4>1
        <4>2. CASE i \in ExceptionObjects
          <5>1. PICK k \in 1 .. Len(frames) : frames[k].start = i
            BY <1>1, <2>4, <4>2 DEF ObjectsInv
          <5> QED BY <3>3, <3>5, <5>1
        <4> QED BY <3>1, <4>1, <4>2
      <3>9. \A e \in exceptions' : e.start \in ExceptionObjects'
        BY <1>1, <2>4, <3>1 DEF ObjectsInv
      <3> QED BY <3>7, <3>8, <3>9 DEF ObjectsInv
    <2>5. ASSUME pc' = "while", Read("EndObject"), Return
          PROVE  ObjectsInv'
      <3> DEFINE n == Len(frames)
                 done == [start |-> frames[n].start, fields |-> frames[n].fields]
      <3>1. "EndObject" \in Tokens
        BY DEF Tokens, Closers
      <3>2. ExceptionObjects' = ExceptionObjects
        BY <2>1, <2>5, <3>1, ObjectsRead
      <3>3. /\ n > 1 /\ Len(frames') = n - 1
            /\ exceptions' = exceptions \cup {done}
            /\ \A k \in 1 .. n - 1 : frames'[k].start = frames[k].start
        <4>1. pc' # "properties"
          BY <2>5
        <4> QED BY <2>1, <2>5, <4>1, Returned
      <3>4. done.start = frames[n].start /\ n \in 1 .. n
        BY <2>1
      <3> HIDE DEF done
      <3>5. \A k \in 1 .. Len(frames') : k \in 1 .. n - 1 /\ k \in 1 .. n
        BY <2>1, <3>3
      <3>6. \A k \in 1 .. n : k = n \/ k \in 1 .. Len(frames')
        BY <2>1, <3>3
      <3>7. \A k \in 1 .. Len(frames') : frames'[k].start \in ExceptionObjects'
        BY <1>1, <3>2, <3>3, <3>5 DEF ObjectsInv
      <3>8. \A e \in exceptions' : e.start \in ExceptionObjects'
        BY <1>1, <3>2, <3>3, <3>4 DEF ObjectsInv
      <3>9. \A i \in ExceptionObjects' :
              \/ \E k \in 1 .. Len(frames') : frames'[k].start = i
              \/ \E e \in exceptions' : e.start = i
        <4> SUFFICES ASSUME NEW i \in ExceptionObjects',
                            \A e \in exceptions' : e.start # i
                     PROVE  \E k \in 1 .. Len(frames') : frames'[k].start = i
          OBVIOUS
        <4>1. \A e \in exceptions : e.start # i
          BY <3>3
        <4>2. done.start # i
          BY <3>3
        <4>3. PICK k \in 1 .. n : frames[k].start = i
          BY <1>1, <3>2, <4>1 DEF ObjectsInv
        <4>4. k \in 1 .. Len(frames')
          BY <3>4, <3>6, <4>2, <4>3
        <4> QED BY <3>3, <3>5, <4>3, <4>4
      <3> QED BY <3>7, <3>8, <3>9 DEF ObjectsInv
    <2>6. "StartObject" \notin FieldNames
      BY MessageReaderAssumption DEF Values, Openers
    <2> QED BY <1>1, <2>2, <2>3, <2>4, <2>5, <2>6, CallStep, NotInner
  <1>2. CASE ReadDetail
    <2>1. /\ tokens' = <<"StartObject">> /\ frames' = <<Frame(1, 0)>> /\ exceptions' = {}
      BY <1>2 DEF ReadDetail
    <2>2. DOMAIN tokens' = {1} /\ tokens'[1] = "StartObject"
      BY <2>1
    <2>3. ExceptionObjects' = {1}
      BY <2>2 DEF ExceptionObjects, Positions
    <2>4. Len(frames') = 1 /\ frames'[1].start = 1
      BY <2>1 DEF Frame
    <2>5. \A k \in 1 .. Len(frames') : k = 1
      BY <2>4
    <2> QED BY <2>1, <2>3, <2>4, <2>5 DEF ObjectsInv
  <1>3. CASE ReadHeader \/ ReadProperty \/ ReadPlainDetail \/ EndProperties
    BY <1>3 DEF ReadHeader, ReadProperty, ReadPlainDetail, EndProperties, Reveal, Calling
  <1>4. CASE ReadName \/ SkipToken \/ EndObject \/ ReadText \/ ReadInner \/ SkipValue
    <2>1. Calling
      BY <1>4 DEF ReadName, SkipToken, EndObject, ReadText, ReadInner, SkipValue, Calling
    <2> QED BY <1>1, <1>4, <2>1 DEF Next
  <1>5. CASE UNCHANGED vars
    BY <1>5 DEF vars, detailVars, ObjectsInv, Calling, ExceptionObjects, Positions
  <1> QED BY <1>2, <1>3, <1>4, <1>5 DEF Next

\* What calls that returned have read stays what their objects say.
LEMMA DoneKept ==
    ASSUME TypeOK, FrameInv, NestInv, DoneInv, Calling, NEW token \in Tokens, Read(token),
           NEW e \in exceptions
    PROVE  /\ e.start \in 1 .. Len(tokens')
           /\ \E j \in e.start .. Len(tokens') :
                 DepthIn(tokens', j) < DepthIn(tokens', e.start)
           /\ ForeignObjects = {} =>
                 \A name \in KnownFields : e.fields[name] = FieldIn(tokens', e.start, name)
  <1> DEFINE n == Len(tokens)
             start == e.start
  <1>1. /\ n \in Nat \ {0} /\ Len(tokens') = n + 1
        /\ tokens \in Seq(Tokens)
        /\ \A i \in 1 .. n : DepthIn(tokens', i) = DepthIn(tokens, i) /\ DepthIn(tokens, i) \in Int
    BY TokenRead
  <1>2. /\ start \in 1 .. n
        /\ \E j \in start .. n : DepthIn(tokens, j) < DepthIn(tokens, start)
        /\ ForeignObjects = {} =>
             \A name \in KnownFields : e.fields[name] = FieldIn(tokens, start, name)
    BY DEF DoneInv
  <1>3. PICK j \in start .. n : DepthIn(tokens, j) < DepthIn(tokens, start)
    BY <1>2
  <1> HIDE DEF start
  <1>4. j \in 1 .. n /\ j \in start .. n + 1
    BY <1>1, <1>2
  <1>5. ASSUME NEW name \in KnownFields
        PROVE  FieldIn(tokens', start, name) = FieldIn(tokens, start, name)
    <2>1. n \notin OwnIn(tokens, start, name)
      <3>1. n \in OwnIn(tokens, start, name) => DepthIn(tokens, j) >= DepthIn(tokens, start)
        BY DEF OwnIn
      <3> QED BY <1>1, <1>2, <1>3, <1>4, <3>1
    <2> QED BY <1>2, <2>1, FieldsKept
  <1>6. start \in 1 .. n + 1 /\ DepthIn(tokens', j) < DepthIn(tokens', start)
    BY <1>1, <1>2, <1>3, <1>4
  <1> HIDE DEF n
  <1> QED BY <1>1, <1>2, <1>4, <1>5, <1>6 DEF start

\* The call that returns has read its own object.
LEMMA CallDone ==
    ASSUME TypeOK, FrameInv, NestInv, FieldsInv, pc = "while", Read("EndObject"),
           Len(open') = Top(frames).depth
    PROVE  LET e == frames[Len(frames)] IN
           /\ e.start \in 1 .. Len(tokens')
           /\ \E j \in e.start .. Len(tokens') :
                 DepthIn(tokens', j) < DepthIn(tokens', e.start)
           /\ ForeignObjects = {} =>
                 \A name \in KnownFields : e.fields[name] = FieldIn(tokens', e.start, name)
  <1> DEFINE n == Len(tokens)
             top == Len(frames)
             start == frames[top].start
  <1>1. "EndObject" \in Tokens /\ "EndObject" \notin FieldNames /\ KnownFields \subseteq FieldNames
    BY MessageReaderAssumption DEF Tokens, Closers, KnownFields
  <1>2. /\ n \in Nat \ {0} /\ top \in Nat \ {0} /\ Len(tokens') = n + 1
        /\ DepthIn(tokens', n + 1) = Len(open')
        /\ \A i \in 1 .. n : DepthIn(tokens', i) = DepthIn(tokens, i) /\ DepthIn(tokens, i) \in Int
    BY <1>1, TokenRead DEF Calling
  <1>3. start \in 1 .. n /\ DepthIn(tokens, start) = frames[top].depth + 1
    BY <1>2 DEF NestInv, Calling
  <1>4. Len(open') = frames[top].depth /\ frames[top].depth \in Nat
    <2>1. frames \in Seq(Frames) /\ top \in 1 .. Len(frames)
      BY <1>2 DEF TypeOK
    <2>2. frames[top] \in Frames
      BY <2>1, ElementOfSeq
    <2> QED BY <2>2 DEF Frames, Top
  <1> HIDE DEF start
  <1>5. DepthIn(tokens', n + 1) < DepthIn(tokens', start)
    BY <1>2, <1>3, <1>4
  <1>6. start \in 1 .. n + 1 /\ n + 1 \in start .. n + 1
    BY <1>2, <1>3
  <1>7. ASSUME ForeignObjects = {}, NEW name \in KnownFields
        PROVE  frames[top].fields[name] = FieldIn(tokens', start, name)
    <2>1. top \in 1 .. top /\ ~(top < top) /\ "EndObject" # name
      BY <1>1, <1>2
    <2>2. /\ Len(tokens') \notin OwnIn(tokens', frames[top].start, name)
          /\ FieldIn(tokens', frames[top].start, name) =
               IF top < Len(frames) /\ name = InnerException
               THEN frames[top + 1].start ELSE frames[top].fields[name]
      <3>1. pc # "value"
        OBVIOUS
      <3> HIDE DEF n, top
      <3> QED BY <1>1, <1>7, <2>1, <3>1, OuterKept DEF Calling, top
    <2> QED BY <2>1, <2>2 DEF start
  <1> QED BY <1>2, <1>5, <1>6, <1>7 DEF start

LEMMA DoneStep ==
    ASSUME TypeOK, FrameInv, NestInv, FieldsInv, DoneInv, [Next]_vars
    PROVE  DoneInv'
  <1> SUFFICES ASSUME Calling' PROVE DoneInv'
    BY DEF DoneInv
  <1>1. CASE Next /\ Calling
    <2>1. PICK token \in Tokens :
             /\ Read(token)
             /\ \/ exceptions' = exceptions
                \/ /\ pc = "while" /\ pc' = "while" /\ token = "EndObject"
                   /\ Len(open') = Top(frames).depth
                   /\ Return
      BY <1>1, CallStep
    <2>2. tokens # <<>> /\ frames # <<>>
      BY <1>1 DEF TypeOK, Calling
    <2>3. ForeignObjects' = {} => ForeignObjects = {}
      BY <2>1, <2>2, ForeignGrows
    <2>4. \A e \in exceptions :
             /\ e.start \in 1 .. Len(tokens')
             /\ \E j \in e.start .. Len(tokens') :
                   DepthIn(tokens', j) < DepthIn(tokens', e.start)
             /\ ForeignObjects = {} =>
                   \A name \in KnownFields : e.fields[name] = FieldIn(tokens', e.start, name)
      BY <1>1, <2>1, DoneKept
    <2>5. CASE exceptions' = exceptions
      BY <2>3, <2>4, <2>5 DEF DoneInv
    <2>6. CASE /\ pc = "while" /\ pc' = "while" /\ token = "EndObject"
               /\ Len(open') = Top(frames).depth
               /\ Return
      <3> DEFINE frame == frames[Len(frames)]
                 done == [start |-> frame.start, fields |-> frame.fields]
      <3>1. exceptions' = exceptions \cup {done}
        <4>1. pc' # "properties"
          BY <2>6
        <4> QED BY <2>2, <2>6, <4>1, Returned
      <3>2. /\ frame.start \in 1 .. Len(tokens')
            /\ \E j \in frame.start .. Len(tokens') :
                  DepthIn(tokens', j) < DepthIn(tokens', frame.start)
            /\ ForeignObjects = {} =>
                  \A name \in KnownFields :
                     frame.fields[name] = FieldIn(tokens', frame.start, name)
        BY <2>1, <2>6, CallDone
      <3>3. done.start = frame.start /\ done.fields = frame.fields
        OBVIOUS
      <3> HIDE DEF frame, done
      <3> QED BY <2>3, <2>4, <3>1, <3>2, <3>3 DEF DoneInv
    <2> QED BY <2>1, <2>5, <2>6
  <1>2. CASE ReadDetail
    BY <1>2 DEF ReadDetail, DoneInv
  <1>3. CASE ReadHeader \/ ReadProperty \/ ReadPlainDetail \/ EndProperties
    BY <1>3 DEF ReadHeader, ReadProperty, ReadPlainDetail, EndProperties, Reveal, Calling
  <1>4. CASE ReadName \/ SkipToken \/ EndObject \/ ReadText \/ ReadInner \/ SkipValue
    <2>1. Calling
      BY <1>4 DEF ReadName, SkipToken, EndObject, ReadText, ReadInner, SkipValue, Calling
    <2> QED BY <1>1, <1>4, <2>1 DEF Next
  <1>5. CASE UNCHANGED vars
    BY <1>5 DEF vars, detailVars, DoneInv, Calling, ForeignObjects, ExceptionObjects, Positions
  <1> QED BY <1>2, <1>3, <1>4, <1>5 DEF Next

-----------------------------------------------------------------------------
\* OwnFieldsRead, and that there are no tokens before the first property.
ReadInv ==
    /\ pc = "header" => tokens = <<>>
    /\ pc = "properties" /\ tokens # <<>> =>
          /\ \A e \in exceptions : e.start \in ExceptionObjects
          /\ \A i \in ExceptionObjects : \E e \in exceptions : e.start = i
          /\ ForeignObjects = {}
          /\ \A e \in exceptions, name \in KnownFields :
                e.fields[name] = FieldIn(tokens, e.start, name)

LEMMA ReadStep ==
    ASSUME TypeOK, FrameInv, NestInv, ForeignInv, FieldsInv, ObjectsInv, DoneInv, ReadInv,
           [Next]_vars
    PROVE  ReadInv'
  <1>1. CASE EndObject
    <2>1. CASE pc' = "properties"
      <3> DEFINE frame == frames[1]
                 done == [start |-> frame.start, fields |-> frame.fields]
      <3>1. /\ pc = "while" /\ Calling /\ tokens # <<>> /\ frames # <<>>
            /\ frames \in Seq(Frames)
            /\ "EndObject" \in Tokens /\ "EndObject" \in Closers /\ Read("EndObject")
            /\ Len(open') = Top(frames).depth /\ Return
        BY <1>1, <2>1 DEF EndObject, Calling, TypeOK, Tokens, Closers
      <3>2. /\ Len(frames) = 1 /\ Top(frames) = frame
            /\ exceptions' = exceptions \cup {done}
        BY <2>1, <3>1 DEF Return, Top
      <3>3. Len(open) = 1
        <4>1. Len(open') = 0
          BY <3>1, <3>2 DEF NestInv
        <4>2. Len(open) \in Nat \ {0} /\ open # <<>>
          BY <3>1, EndsObject
        <4>3. Len(open') = Len(open) - 1
          BY <3>1, <4>2, OpenAfter
        <4> QED BY <4>1, <4>2, <4>3
      <3>4. ForeignObjects = {}
        <4>1. SUFFICES ASSUME ForeignObjects # {} PROVE FALSE
          OBVIOUS
        <4>2. PICK p \in 1 .. Len(open) : \A k \in 1 .. Len(frames) : frames[k].depth + 1 # p
          BY <3>1, <4>1 DEF ForeignInv
        <4>3. p = 1 /\ frames[1].depth = 0 /\ 1 \in 1 .. Len(frames)
          BY <3>1, <3>2, <3>3, <4>2 DEF NestInv
        <4> QED BY <4>2, <4>3
      <3>5. ForeignObjects' = {} /\ ExceptionObjects' = ExceptionObjects
        BY <3>1, <3>4, ObjectsRead
      <3>6. \A e \in exceptions, name \in KnownFields :
               e.fields[name] = FieldIn(tokens', e.start, name)
        BY <3>1, <3>4, DoneKept
      <3>7. \A name \in KnownFields : frame.fields[name] = FieldIn(tokens', frame.start, name)
        BY <3>1, <3>2, <3>4, CallDone
      <3>8. done.start = frame.start /\ done.fields = frame.fields
        OBVIOUS
      <3> HIDE DEF done
      <3>9. /\ \A e \in exceptions' : e.start \in ExceptionObjects'
            /\ \A i \in ExceptionObjects' : \E e \in exceptions' : e.start = i
        <4>1. \A k \in 1 .. Len(frames) : k = 1
          BY <3>2
        <4> QED BY <3>1, <3>2, <3>5, <3>8, <4>1 DEF ObjectsInv
      <3>10. \A e \in exceptions', name \in KnownFields :
                e.fields[name] = FieldIn(tokens', e.start, name)
        BY <3>2, <3>6, <3>7, <3>8
      <3> QED BY <2>1, <3>5, <3>9, <3>10 DEF ReadInv
    <2>2. CASE pc' # "properties"
      BY <1>1, <2>2 DEF EndObject, Return, ReadInv
    <2> QED BY <2>1, <2>2
  <1>2. CASE ReadHeader
    BY <1>2 DEF ReadHeader, detailVars, ReadInv
  <1>3. CASE ReadProperty \/ ReadPlainDetail
    <2>1. pc = "properties" /\ tokens' = <<>>
      BY <1>3 DEF ReadProperty, ReadPlainDetail, Reveal
    <2> QED BY <2>1 DEF ReadInv
  <1>4. CASE \/ ReadDetail \/ EndProperties \/ ReadName \/ SkipToken
             \/ ReadText \/ ReadInner \/ SkipValue
    BY <1>4 DEF ReadDetail, EndProperties, ReadName, SkipToken, ReadText, ReadInner,
                SkipValue, ReadInv
  <1>5. CASE UNCHANGED vars
    BY <1>5 DEF vars, detailVars, ReadInv, ForeignObjects, ExceptionObjects, Positions
  <1> QED BY <1>1, <1>2, <1>3, <1>4, <1>5 DEF Next

\* The fields of an exception are those of its own object, however deep its
\* inner exceptions and the other objects and arrays in it are nested, and all
\* exceptions are read (the invariant OwnFieldsRead).
THEOREM OwnFields == Spec => []OwnFieldsRead
  <1> DEFINE IInv == /\ TypeOK /\ FrameInv /\ NestInv /\ ForeignInv
                     /\ FieldsInv /\ ObjectsInv /\ DoneInv /\ ReadInv
  <1>1. Init => IInv
    <2> SUFFICES ASSUME Init PROVE IInv
      OBVIOUS
    <2>1. TypeOK
      BY TypeInit
    <2> QED BY <2>1 DEF Init, FrameInv, NestInv, ForeignInv, FieldsInv, ObjectsInv, DoneInv,
                        ReadInv, Calling
  <1>2. IInv /\ [Next]_vars => IInv'
    <2> SUFFICES ASSUME IInv, [Next]_vars PROVE IInv'
      OBVIOUS
    <2>1. TypeOK' /\ FrameInv'
      BY TypeStep, FrameStep
    <2> QED BY <2>1, NestStep, ForeignStep, FieldsStep, ObjectsStep, DoneStep, ReadStep
  <1>3. IInv => OwnFieldsRead
    <2> SUFFICES ASSUME ReadInv, pc = "properties", tokens # <<>>
                 PROVE  OwnFieldsRead
      BY DEF OwnFieldsRead
    <2>1. \A i : DepthAt(i) = DepthIn(tokens, i)
      BY DEF DepthAt, DepthIn, Positions
    <2>2. \A start, name : OwnNames(start, name) = OwnIn(tokens, start, name)
      BY <2>1 DEF OwnNames, OwnIn, Positions
    <2>3. \A start, name : OwnField(start, name) = FieldIn(tokens, start, name)
      <3> TAKE start, name
      <3> DEFINE names == OwnNames(start, name)
                 own == OwnIn(tokens, start, name)
                 latest == CHOOSE i \in names : \A j \in names : j <= i
                 last == CHOOSE i \in own : \A j \in own : j <= i
      <3>1. names = own
        BY <2>2
      <3>2. OwnField(start, name) =
              IF names = {} \/ tokens[latest + 1] = "Null" THEN 0 ELSE latest + 1
        BY DEF OwnField
      <3>3. FieldIn(tokens, start, name) =
              IF own = {} \/ tokens[last + 1] = "Null" THEN 0 ELSE last + 1
        BY DEF FieldIn
      <3> HIDE DEF names, own
      <3>4. latest = last
        BY Zenon, <3>1
      <3> QED BY <3>1, <3>2, <3>3, <3>4
    <2>4. {e.start : e \in exceptions} = ExceptionObjects
      BY DEF ReadInv
    <2> QED BY <2>3, <2>4 DEF ReadInv, OwnFieldsRead
  <1> QED BY <1>1, <1>2, <1>3, PTL DEF Spec
=============================================================================
