----------------------- MODULE UnobtrusiveFormProofs -----------------------
(***************************************************************************)
(* For any pages, inputs and values and any order of edits, checks, resets    *)
(* and answers: the types, what the page shows of the errors, what parsing    *)
(* leaves of the attributes, and what holds of a form that leaves.            *)
(*                                                                         *)
(* What is shown.  ContainersTell is not inductive: where the validator finds  *)
(* its own label again it does not call the library, so that the container    *)
(* keeps its class.  TellInv adds that the class is then the right one.       *)
(*                                                                         *)
(* What is parsed.  The library sets rules and messages in nested loops, the  *)
(* folds of UnobtrusiveAdapters: a fold is a loop whose invariant holds after  *)
(* each round.  After the i-th adapter the rules of an element are LastSets,   *)
(* those that no adapter up to the i-th set again, and its messages are        *)
(* LastSaid.  ParseInv says that the options of a field, and the validator's   *)
(* copy of its rules, are what parsing makes of its attributes.               *)
(*                                                                         *)
(* What leaves.  RemoteInv says what the last check of a field knows while     *)
(* answers come late, get lost, or are dropped by a reset; with ParseInv, a    *)
(* form whose checks find nothing meets its attributes, one adapter at a time. *)
(***************************************************************************)
EXTENDS UnobtrusiveForm, FiniteSetTheorems, SequenceTheorems, WellFoundedInduction, TLAPS

-----------------------------------------------------------------------------
(* What the page shows                                                       *)

\* A container tells what was said of its field; a label that the validator
\* finds again, and that knows its container, is in one with an error.
Tells(c, said) ==
    /\ page.custom /\ c.label /\ c.tied => c.class = "error"
    /\ (page.custom /\ c.label /\ ~c.tied) \/ (c.class = "error" <=> said = "invalid")

TellInv == \A f \in page.boxes : Tells(container[f], verdict[f])

IInv == TypeOK /\ TellInv

\* Placing, keeping and clearing an error make containers of containers.
LEMMA ContainerTypes ==
    ASSUME NEW f \in Fields, NEW c \in Containers
    PROVE  /\ ShowInvalid(f, c) \in Containers
           /\ ShowValid(f, c) \in Containers
           /\ ClearedContainer(f, c) \in Containers
<1>0. /\ c.class \in {"valid", "error"}
      /\ c.label \in BOOLEAN
      /\ c.tied \in BOOLEAN
  BY DEF Containers
<1>1. onError(f, c) \in Containers
  BY DEF onError, Containers
<1>2. ASSUME NEW d \in Containers PROVE onSuccess(f, d) \in Containers
  BY <1>2 DEF onSuccess, Containers
<1>3. ShowInvalid(f, c) \in Containers
  BY <1>1 DEF ShowInvalid, Containers
<1>4. ShowValid(f, c) \in Containers
  BY <1>1, <1>2 DEF ShowValid
<1>5. ClearedContainer(f, c) \in Containers
  <2>1. (c.tied /\ c.class = "valid") \in BOOLEAN
    OBVIOUS
  <2>2. [c EXCEPT !.class = "valid", !.tied = (c.tied /\ c.class = "valid")] \in Containers
    BY <2>1 DEF Containers
  <2> QED
    BY <2>2 DEF ClearedContainer
<1> QED
  BY <1>3, <1>4, <1>5

\* What placing, keeping and clearing an error makes of a container that tells.
LEMMA ShowingTells ==
    ASSUME NEW f \in Fields, NEW c \in Containers, NEW said, Tells(c, said)
    PROVE  /\ Tells(ShowInvalid(f, c), "invalid")
           /\ Tells(ShowValid(f, c), "valid")
           /\ f \in page.boxes => Tells(ClearedContainer(f, c), "none")
<1>0. /\ c.class \in {"valid", "error"}
      /\ c.label \in BOOLEAN
      /\ c.tied \in BOOLEAN
  BY DEF Containers
<1>1. ASSUME NEW d \in Containers
      PROVE  onError(f, d).class = "error" /\ (onError(f, d).tied \in BOOLEAN)
  BY <1>1 DEF onError, Containers
<1>2. ASSUME NEW d \in Containers
      PROVE  onSuccess(f, d).class = "valid" /\ ~onSuccess(f, d).tied
  BY <1>2 DEF onSuccess, Containers
<1>3. Tells(ShowInvalid(f, c), "invalid")
  <2>1. CASE Reused(c)
    <3>1. Tells(c, "invalid")
      BY <1>0, <2>1, Zenon DEF Tells, Reused
    <3> QED
      BY <2>1, <3>1, Zenon DEF ShowInvalid
  <2>2. CASE ~Reused(c)
    <3>1. Tells(onError(f, c), "invalid")
      BY <1>1, Zenon DEF Tells
    <3> QED
      BY <2>2, <3>1, Zenon DEF ShowInvalid
  <2> QED
    BY <2>1, <2>2
<1>4. Tells(ShowValid(f, c), "valid")
  <2>0. ASSUME NEW d \in Containers PROVE Tells(onSuccess(f, d), "valid")
    <3>1. "valid" # "error" /\ "valid" # "invalid"
      OBVIOUS
    <3> QED
      BY <1>2, <2>0, <3>1, Zenon DEF Tells
  <2>1. CASE ~Reused(c)
    <3>1. onError(f, c) \in Containers
      BY DEF onError, Containers
    <3> QED
      BY <2>0, <2>1, <3>1, Zenon DEF ShowValid
  <2>2. CASE Reused(c) /\ c.tied
    BY <2>0, <2>2, Zenon DEF ShowValid
  <2>3. CASE Reused(c) /\ ~c.tied
    <3>1. Tells(c, "valid")
      BY <2>3, Zenon DEF Tells, Reused
    <3> QED
      BY <2>3, <3>1, Zenon DEF ShowValid
  <2> QED
    BY <2>1, <2>2, <2>3
<1>5. ASSUME f \in page.boxes PROVE Tells(ClearedContainer(f, c), "none")
  <2> DEFINE d == ClearedContainer(f, c)
  <2>1. d.class = "valid" /\ d.label = c.label
    BY <1>5 DEF ClearedContainer, Containers
  <2>2. d.tied = (c.tied /\ c.class = "valid")
    BY <1>5 DEF ClearedContainer, Containers
  <2>3. "valid" # "error" /\ "none" # "invalid"
    OBVIOUS
  <2> HIDE DEF d
  <2>4. Tells(d, "none")
    BY <1>0, <2>1, <2>2, <2>3, Zenon DEF Tells
  <2> QED
    BY <2>4 DEF d
<1> QED
  BY <1>3, <1>4, <1>5

\* The same of all containers, whichever fields are bad and good.
LEMMA ShownInTells ==
    ASSUME page \in Pages, NEW cs \in [Fields -> Containers], NEW vs, NEW bad, NEW good,
           \A f \in page.boxes : Tells(cs[f], vs[f])
    PROVE  /\ ShownIn(cs, bad, good) \in [Fields -> Containers]
           /\ \A f \in page.boxes :
                 Tells(ShownIn(cs, bad, good)[f], JudgedIn(vs, bad, good)[f])
<1>1. ASSUME NEW f \in Fields PROVE cs[f] \in Containers
  BY <1>1
<1>2. ShownIn(cs, bad, good) \in [Fields -> Containers]
  BY <1>1, ContainerTypes, Zenon DEF ShownIn
<1>3. ASSUME NEW f \in page.boxes
      PROVE  Tells(ShownIn(cs, bad, good)[f], JudgedIn(vs, bad, good)[f])
  <2>1. f \in Fields
    BY <1>3, UnobtrusiveFormAssumption
  <2>2. Tells(cs[f], vs[f]) /\ cs[f] \in Containers
    BY <1>1, <1>3, <2>1
  <2>3. CASE f \in bad
    <3>1. ShownIn(cs, bad, good)[f] = ShowInvalid(f, cs[f])
      BY <1>3, <2>1, <2>3 DEF ShownIn
    <3>2. JudgedIn(vs, bad, good)[f] = "invalid"
      BY <2>1, <2>3 DEF JudgedIn
    <3> QED
      BY <2>1, <2>2, <3>1, <3>2, ShowingTells, Zenon
  <2>4. CASE f \notin bad /\ f \in good
    <3>1. ShownIn(cs, bad, good)[f] = ShowValid(f, cs[f])
      BY <1>3, <2>1, <2>4 DEF ShownIn
    <3>2. JudgedIn(vs, bad, good)[f] = "valid"
      BY <2>1, <2>4 DEF JudgedIn
    <3> QED
      BY <2>1, <2>2, <3>1, <3>2, ShowingTells, Zenon
  <2>5. CASE f \notin bad /\ f \notin good
    <3>1. ShownIn(cs, bad, good)[f] = cs[f]
      BY <1>3, <2>1, <2>5 DEF ShownIn
    <3>2. JudgedIn(vs, bad, good)[f] = vs[f]
      BY <2>1, <2>5 DEF JudgedIn
    <3> QED
      BY <2>2, <3>1, <3>2, Zenon
  <2> QED
    BY <2>3, <2>4, <2>5
<1> QED
  BY <1>2, <1>3

\* The verdicts keep their type.
LEMMA JudgedInType ==
    ASSUME NEW vs \in [Fields -> {"none", "valid", "invalid"}], NEW bad, NEW good
    PROVE  JudgedIn(vs, bad, good) \in [Fields -> {"none", "valid", "invalid"}]
BY DEF JudgedIn

\* Checks are of fields of the form.
LEMMA FoundFields ==
    ASSUME TypeOK, NEW prevs, NEW result
    PROVE  That(Checked, prevs, result) \subseteq Fields
BY DEF That, Checked, InForm, TypeOK

\* One call of showErrors keeps what the page shows true.
LEMMA ShowErrorsTells ==
    ASSUME IInv, NEW bad, NEW good, ShowErrors(bad, good), page' = page
    PROVE  /\ container' \in [Fields -> Containers]
           /\ verdict' \in [Fields -> {"none", "valid", "invalid"}]
           /\ TellInv'
<1>1. /\ page \in Pages
      /\ container \in [Fields -> Containers]
      /\ verdict \in [Fields -> {"none", "valid", "invalid"}]
      /\ \A f \in page.boxes : Tells(container[f], verdict[f])
  BY DEF IInv, TypeOK, TellInv
<1>2. /\ container' = ShownIn(container, bad, good)
      /\ verdict' = JudgedIn(verdict, bad, good)
  BY DEF ShowErrors
<1>3. /\ ShownIn(container, bad, good) \in [Fields -> Containers]
      /\ \A f \in page.boxes :
            Tells(ShownIn(container, bad, good)[f], JudgedIn(verdict, bad, good)[f])
  BY <1>1, ShownInTells, Zenon
<1>4. TellInv'
  BY <1>2, <1>3, Zenon DEF TellInv, Tells
<1> QED
  BY <1>1, <1>2, <1>3, <1>4, JudgedInType

\* The steps that leave what is shown as it is.
LEMMA NothingShown ==
    ASSUME IInv, page' = page, container' = container, verdict' = verdict
    PROVE  /\ container' \in [Fields -> Containers]
           /\ verdict' \in [Fields -> {"none", "valid", "invalid"}]
           /\ TellInv'
<1>1. TellInv'
  BY Zenon DEF IInv, TellInv, Tells
<1> QED
  BY <1>1 DEF IInv, TypeOK

LEMMA IInvInit == Init => IInv
<1> SUFFICES ASSUME Init PROVE IInv
  OBVIOUS
<1>0. page \in Pages /\ page.refused \subseteq Fields /\ page.boxes \subseteq Fields
  BY UnobtrusiveFormAssumption DEF Init
<1>1. TypeOK
  <2>1. container \in [Fields -> Containers]
    BY DEF Init, Containers
  <2>2. <<>> \in Values
    BY UnobtrusiveFormAssumption
  <2>3. value \in [Fields -> Values]
    BY <2>2 DEF Init
  <2>4. summary \in [class : {"valid", "errors"}, list : SUBSET Fields]
    BY <1>0 DEF Init
  <2>5. verdict \in [Fields -> {"none", "valid", "invalid"}]
    BY DEF Init
  <2> QED
    BY <1>0, <2>1, <2>3, <2>4, <2>5 DEF TypeOK, Init
<1>2. TellInv
  <2> SUFFICES ASSUME NEW f \in page.boxes PROVE Tells(container[f], verdict[f])
    BY DEF TellInv
  <2>1. f \in Fields
    BY <1>0
  <2>2. container[f].class = IF f \in page.refused THEN "error" ELSE "valid"
    BY <2>1 DEF Init
  <2>3. ~container[f].label
    BY <2>1 DEF Init
  <2>4. verdict[f] = IF f \in page.refused THEN "invalid" ELSE "none"
    BY <2>1 DEF Init
  <2> QED
    BY <2>2, <2>3, <2>4 DEF Tells
<1> QED
  BY <1>1, <1>2 DEF IInv

\* Parsing, insertion and edits.
LEMMA ParsingKeeps ==
    ASSUME IInv, NEW f \in Fields,
           Parse \/ ParseElement(f) \/ Insert(f) \/ Edit(f)
    PROVE  IInv'
<1> USE DEF IInv
<1>1. page' = page /\ container' = container /\ verdict' = verdict
  BY DEF Parse, ParseElement, Insert, Edit, shownVars, pageVars
<1>2. TellInv'
  BY <1>1, NothingShown
<1>3. /\ UNCHANGED <<summary, resets, errors, successes, pending, formSubmitted, left>>
  BY DEF Parse, ParseElement, Insert, Edit, shownVars, remoteVars
<1>4. handlers' \in {0, 1} /\ attached' \in BOOLEAN
  BY DEF Parse, ParseElement, Insert, Edit, Attach, parseVars, TypeOK
<1>5. present' \subseteq Fields
  BY DEF Parse, ParseElement, Insert, Edit, pageVars, TypeOK
<1>6. value' \in [Fields -> Values]
  BY DEF Parse, ParseElement, Insert, Edit, pageVars, TypeOK
<1> QED
  BY <1>1, <1>2, <1>3, <1>4, <1>5, <1>6 DEF TypeOK

\* The check of one field.
LEMMA CheckFieldKeeps ==
    ASSUME IInv, NEW f \in Fields, CheckField(f)
    PROVE  IInv'
<1> USE DEF IInv
<1>1. UNCHANGED <<page, present, value, handlers, attached, summary, resets, left, formSubmitted>>
  BY DEF CheckField, pageVars, parseVars, remoteVars
<1>2. \A prevs, result : That({f}, prevs, result) \subseteq Fields
  BY DEF That
<1>3. CASE Check(f, previous[f]) = "throws"
  <2>1. /\ errors' = {} /\ successes' = {}
        /\ UNCHANGED <<container, verdict, pending>>
    BY <1>3 DEF CheckField, remoteVars
  <2>2. TellInv'
    BY <1>1, <2>1, NothingShown
  <2> QED
    BY <1>1, <2>1, <2>2 DEF TypeOK
<1>4. CASE Check(f, previous[f]) # "throws"
  <2> DEFINE bad == That({f}, previous, "bad")
             good == That({f}, previous, "ok")
             waits == That({f}, previous, "pending")
  <2>1. ShowErrors(bad, good)
    BY <1>4 DEF CheckField
  <2>2. pending' = pending \cup waits
    BY <1>4 DEF CheckField, StartRequests
  <2>3. bad \subseteq Fields /\ good \subseteq Fields /\ waits \subseteq Fields
    BY <1>2
  <2> HIDE DEF bad, good, waits
  <2>4. errors' = bad /\ successes' = good
    BY <2>1 DEF ShowErrors
  <2>5. /\ container' \in [Fields -> Containers]
        /\ verdict' \in [Fields -> {"none", "valid", "invalid"}]
        /\ TellInv'
    BY <1>1, <2>1, ShowErrorsTells
  <2>6. pending' \subseteq Fields
    BY <2>2, <2>3 DEF TypeOK
  <2> QED
    BY <1>1, <2>3, <2>4, <2>5, <2>6 DEF TypeOK
<1> QED
  BY <1>3, <1>4

\* The check of the whole form, by a submission or by validate().
LEMMA FormKeeps ==
    ASSUME IInv, Submit \/ Validate
    PROVE  IInv'
<1> USE DEF IInv
<1>1. UNCHANGED <<page, present, value, handlers, attached, resets>>
  BY DEF Submit, Validate, pageVars, parseVars
<1> DEFINE bad == That(Checked, previous, "bad")
           good == That(Checked, previous, "ok")
           waits == That(Checked, previous, "pending")
<1>2. ShowErrors(bad, good) /\ onErrors(bad)
  BY DEF Submit, Validate, Form
<1>3. pending' = pending \cup waits
  BY DEF Submit, Validate, StartRequests
<1>4. bad \subseteq Fields /\ good \subseteq Fields /\ waits \subseteq Fields
  BY FoundFields
<1>5. left' \in {"no", "checked", "thrown", "cancelled", "unattached"}
  BY DEF Submit, Validate, TypeOK
<1>6. formSubmitted' \in BOOLEAN
  <2>1. CASE Validate
    BY <2>1 DEF Validate, TypeOK
  <2>2. CASE Submit
    BY <2>2 DEF Submit
  <2> QED
    BY <2>1, <2>2
<1> HIDE DEF bad, good, waits
<1>7. errors' = bad /\ successes' = good
  BY <1>2 DEF ShowErrors
<1>8. /\ container' \in [Fields -> Containers]
      /\ verdict' \in [Fields -> {"none", "valid", "invalid"}]
      /\ TellInv'
  BY <1>1, <1>2, ShowErrorsTells
<1>9. summary' \in [class : {"valid", "errors"}, list : SUBSET Fields]
  BY <1>2, <1>4 DEF onErrors, TypeOK
<1>10. pending' \subseteq Fields
  BY <1>3, <1>4 DEF TypeOK
<1> QED
  BY <1>1, <1>4, <1>5, <1>6, <1>7, <1>8, <1>9, <1>10 DEF TypeOK

\* The browser sends the form unchecked.
LEMMA LeavingKeeps ==
    ASSUME IInv, SubmitThrows \/ SubmitCancelled \/ SubmitUnattached
    PROVE  IInv'
<1> USE DEF IInv
<1>1. UNCHANGED <<page, present, value, handlers, attached, container, summary, verdict, errors,
                  successes, pending, formSubmitted, resets>>
  BY DEF SubmitThrows, SubmitCancelled, SubmitUnattached, pageVars, parseVars, shownVars, remoteVars
<1>2. left' \in {"thrown", "cancelled", "unattached"}
  BY DEF SubmitThrows, SubmitCancelled, SubmitUnattached
<1>3. TellInv'
  BY <1>1, NothingShown
<1> QED
  BY <1>1, <1>2, <1>3 DEF TypeOK

\* The steps of a reset.
LEMMA ResetKeeps ==
    ASSUME IInv, Reset \/ NestedReset \/ ResetEnds
    PROVE  IInv'
<1> USE DEF IInv
<1>0. <<>> \in Values
  BY UnobtrusiveFormAssumption
<1>1. CASE Reset
  <2>1. /\ UNCHANGED <<page, present, value, handlers, attached, container, summary, verdict,
                       pending, formSubmitted, left>>
        /\ resets' = 1 /\ errors' = {} /\ successes' = {}
    BY <1>1 DEF Reset, pageVars, parseVars
  <2>2. TellInv'
    BY <2>1, NothingShown
  <2> QED
    BY <2>1, <2>2 DEF TypeOK
<1>2. CASE NestedReset
  <2>1. UNCHANGED <<page, present, handlers, attached, container, summary, verdict, errors,
                    successes, pending, formSubmitted, resets, left>>
    BY <1>2 DEF NestedReset, parseVars, shownVars, remoteVars
  <2>2. value' \in [Fields -> Values]
    BY <1>0, <1>2 DEF NestedReset, DefaultValues
  <2>3. TellInv'
    BY <2>1, NothingShown
  <2> QED
    BY <2>1, <2>2, <2>3 DEF TypeOK
<1>3. CASE ResetEnds
  <2>1. /\ UNCHANGED <<page, present, handlers, attached, errors, successes, pending,
                       formSubmitted, left>>
        /\ resets' = 0
    BY <1>3 DEF ResetEnds, parseVars, remoteVars
  <2>2. value' \in [Fields -> Values]
    BY <1>0, <1>3 DEF ResetEnds, DefaultValues
  <2>3. summary' \in [class : {"valid", "errors"}, list : SUBSET Fields]
    BY <1>3 DEF ResetEnds, TypeOK
  <2>4. verdict' = [f \in Fields |-> "none"]
    BY <1>3 DEF ResetEnds
  <2>5. container' = [f \in Fields |-> ClearedContainer(f, container[f])]
    BY <1>3 DEF ResetEnds
  <2>6. \A f \in Fields : container[f] \in Containers
    BY DEF TypeOK
  <2>7. container' \in [Fields -> Containers]
    BY <2>5, <2>6, ContainerTypes, Zenon
  <2>8. TellInv'
    <3> SUFFICES ASSUME NEW f \in page.boxes
                 PROVE  Tells(ClearedContainer(f, container[f]), "none")
      <4>1. page.boxes \subseteq Fields
        BY UnobtrusiveFormAssumption DEF TypeOK
      <4>2. \A f \in page.boxes : container'[f] = ClearedContainer(f, container[f])
        BY <2>5, <4>1
      <4>3. \A f \in page.boxes : verdict'[f] = "none"
        BY <2>4, <4>1
      <4> QED
        BY <2>1, <4>2, <4>3, ZenonT(60) DEF TellInv, Tells
    <3>1. f \in Fields
      BY UnobtrusiveFormAssumption DEF TypeOK
    <3>2. Tells(container[f], verdict[f])
      BY DEF TellInv
    <3> QED
      BY <2>6, <3>1, <3>2, ShowingTells
  <2>9. verdict' \in [Fields -> {"none", "valid", "invalid"}]
    BY <2>4
  <2> QED
    BY <2>1, <2>2, <2>3, <2>7, <2>8, <2>9 DEF TypeOK
<1> QED
  BY <1>1, <1>2, <1>3

\* An answer of the server about one field, or none.
LEMMA AnswerKeeps ==
    ASSUME IInv, NEW f \in Fields,
           AnswerAccepted(f) \/ AnswerRefused(f) \/ AnswerLost(f)
    PROVE  IInv'
<1> USE DEF IInv
<1>1. CASE AnswerAccepted(f)
  <2>1. UNCHANGED <<page, present, value, handlers, attached, summary, formSubmitted, resets, left>>
    BY <1>1 DEF AnswerAccepted, pageVars, parseVars
  <2>2. ShowErrors({}, {f}) /\ pending' = (pending \ {f}) \cup {}
    BY <1>1 DEF AnswerAccepted, StartRequests
  <2>3. errors' = {} /\ successes' = {f}
    BY <2>2 DEF ShowErrors
  <2>4. /\ container' \in [Fields -> Containers]
        /\ verdict' \in [Fields -> {"none", "valid", "invalid"}]
        /\ TellInv'
    BY <2>1, <2>2, ShowErrorsTells
  <2> QED
    BY <2>1, <2>2, <2>3, <2>4 DEF TypeOK
<1>2. CASE AnswerRefused(f)
  <2>1. UNCHANGED <<page, present, value, handlers, attached, resets, left>>
    BY <1>2 DEF AnswerRefused, pageVars, parseVars
  <2>2. /\ ShowErrors(errors \cup {f}, successes \ {f})
        /\ pending' = (pending \ {f}) \cup {}
    BY <1>2 DEF AnswerRefused, StartRequests
  <2>3. errors' = errors \cup {f} /\ successes' = successes \ {f}
    BY <2>2 DEF ShowErrors
  <2>4. /\ container' \in [Fields -> Containers]
        /\ verdict' \in [Fields -> {"none", "valid", "invalid"}]
        /\ TellInv'
    BY <2>1, <2>2, ShowErrorsTells
  <2>5. onErrors(errors \cup {f}) \/ summary' = summary
    BY <1>2 DEF AnswerRefused
  <2>6. summary' \in [class : {"valid", "errors"}, list : SUBSET Fields]
    BY <2>5 DEF onErrors, TypeOK
  <2>7. formSubmitted' \in BOOLEAN
    BY <1>2 DEF AnswerRefused, TypeOK
  <2> QED
    BY <2>1, <2>2, <2>3, <2>4, <2>6, <2>7 DEF TypeOK
<1>3. CASE AnswerLost(f)
  <2>1. UNCHANGED <<page, present, value, handlers, attached, container, summary, verdict, errors,
                    successes, pending, formSubmitted, resets, left>>
    BY <1>3 DEF AnswerLost, pageVars, parseVars, shownVars
  <2>2. TellInv'
    BY <2>1, NothingShown
  <2> QED
    BY <2>1, <2>2 DEF TypeOK
<1> QED
  BY <1>1, <1>2, <1>3

\* The answer that a sent form waited for: two calls of showErrors.
LEMMA AnswerSendsKeeps ==
    ASSUME IInv, NEW f \in Fields, AnswerSends(f)
    PROVE  IInv'
<1> USE DEF IInv
<1> DEFINE prevs == Answered(f, TRUE)
           bad == That(Checked, prevs, "bad")
           good == That(Checked, prevs, "ok")
           waits == That(Checked, prevs, "pending")
           cs == ShownIn(container, {}, {f})
           vs == JudgedIn(verdict, {}, {f})
<1>1. /\ UNCHANGED <<page, present, value, handlers, attached, formSubmitted, resets>>
      /\ container' = ShownIn(cs, bad, good)
      /\ verdict' = JudgedIn(vs, bad, good)
      /\ errors' = bad /\ successes' = good
      /\ onErrors(bad)
      /\ pending' = {} \cup waits
  BY DEF AnswerSends, StartRequests, pageVars, parseVars
<1>2. left' \in {"no", "checked"}
  BY DEF AnswerSends
<1>3. bad \subseteq Fields /\ good \subseteq Fields /\ waits \subseteq Fields
  BY FoundFields
<1> HIDE DEF prevs, bad, good, waits
<1>4. /\ page \in Pages
      /\ container \in [Fields -> Containers]
      /\ verdict \in [Fields -> {"none", "valid", "invalid"}]
      /\ \A g \in page.boxes : Tells(container[g], verdict[g])
  BY DEF TypeOK, TellInv
<1>5. /\ cs \in [Fields -> Containers]
      /\ \A g \in page.boxes : Tells(cs[g], vs[g])
  BY <1>4, ShownInTells, Zenon
<1>6. vs \in [Fields -> {"none", "valid", "invalid"}]
  BY <1>4, JudgedInType
<1> HIDE DEF cs, vs
<1>7. /\ container' \in [Fields -> Containers]
      /\ \A g \in page.boxes : Tells(container'[g], verdict'[g])
  BY <1>1, <1>4, <1>5, ShownInTells, Zenon
<1>8. TellInv'
  BY <1>1, <1>7, Zenon DEF TellInv, Tells
<1>9. verdict' \in [Fields -> {"none", "valid", "invalid"}]
  BY <1>1, <1>6, JudgedInType
<1>10. summary' \in [class : {"valid", "errors"}, list : SUBSET Fields]
  BY <1>1, <1>3 DEF onErrors, TypeOK
<1> QED
  BY <1>1, <1>2, <1>3, <1>7, <1>8, <1>9, <1>10 DEF TypeOK

\* An exception in a check shows nothing of it.
LEMMA FormThrowsTypes ==
    ASSUME TypeOK, NEW prevs, NEW requests, NEW wait \in SUBSET Fields,
           FormThrows(prevs, requests, wait)
    PROVE  errors' \subseteq Fields /\ successes' \subseteq Fields /\ pending' \subseteq Fields
<1>1. Checked \subseteq Fields
  BY DEF Checked, InForm, TypeOK
<1>2. PICK S \in SUBSET Checked :
         /\ errors' = That(S, prevs, "bad")
         /\ successes' = That(S, prevs, "ok")
         /\ pending' = wait \cup That(S, prevs, "pending")
  BY Zenon DEF FormThrows, StartRequests
<1>3. \A result : That(S, prevs, result) \subseteq S
  BY DEF That
<1> QED
  BY <1>1, <1>2, <1>3

LEMMA ThrowingKeeps ==
    ASSUME IInv, ValidateThrows \/ \E f \in Fields : AnswerThrows(f)
    PROVE  IInv'
<1> USE DEF IInv
<1>1. CASE ValidateThrows
  <2>1. /\ UNCHANGED <<page, present, value, handlers, attached, container, summary, verdict,
                       formSubmitted, resets, left>>
        /\ FormThrows(previous, request, pending)
    BY <1>1 DEF ValidateThrows, pageVars, parseVars
  <2>2. pending \in SUBSET Fields
    BY DEF TypeOK
  <2>3. errors' \subseteq Fields /\ successes' \subseteq Fields /\ pending' \subseteq Fields
    BY <2>1, <2>2, FormThrowsTypes
  <2>4. TellInv'
    BY <2>1, NothingShown
  <2> QED
    BY <2>1, <2>3, <2>4 DEF TypeOK
<1>2. ASSUME NEW f \in Fields, AnswerThrows(f) PROVE IInv'
  <2>1. /\ UNCHANGED <<page, present, value, handlers, attached, summary, formSubmitted,
                       resets, left>>
        /\ container' = ShownIn(container, {}, {f})
        /\ verdict' = JudgedIn(verdict, {}, {f})
        /\ FormThrows(Answered(f, TRUE), Asked(f), {})
    BY <1>2 DEF AnswerThrows, pageVars, parseVars
  <2>2. errors' \subseteq Fields /\ successes' \subseteq Fields /\ pending' \subseteq Fields
    <3>1. {} \in SUBSET Fields
      OBVIOUS
    <3> QED
      BY <2>1, <3>1, FormThrowsTypes
  <2>3. /\ page \in Pages
        /\ container \in [Fields -> Containers]
        /\ verdict \in [Fields -> {"none", "valid", "invalid"}]
        /\ \A g \in page.boxes : Tells(container[g], verdict[g])
    BY DEF TypeOK, TellInv
  <2>4. /\ container' \in [Fields -> Containers]
        /\ \A g \in page.boxes : Tells(container'[g], verdict'[g])
    BY <2>1, <2>3, ShownInTells, Zenon
  <2>5. TellInv'
    BY <2>1, <2>4, Zenon DEF TellInv, Tells
  <2>6. verdict' \in [Fields -> {"none", "valid", "invalid"}]
    BY <2>1, <2>3, JudgedInType
  <2> QED
    BY <2>1, <2>2, <2>4, <2>5, <2>6 DEF TypeOK
<1> QED
  BY <1>1, <1>2

LEMMA IInvStep == IInv /\ [Next]_vars => IInv'
<1> SUFFICES ASSUME IInv, [Next]_vars PROVE IInv'
  OBVIOUS
<1>1. CASE UNCHANGED vars
  <2>1. UNCHANGED <<page, present, value, handlers, attached, container, summary, verdict, errors,
                    successes, pending, formSubmitted, resets, left>>
    BY <1>1 DEF vars, pageVars, parseVars, shownVars, remoteVars
  <2>2. TellInv'
    BY <2>1, NothingShown
  <2> QED
    BY <2>1, <2>2 DEF IInv, TypeOK
<1>2. ASSUME NEW f \in Fields, ParseElement(f) \/ Insert(f) \/ Edit(f) PROVE IInv'
  BY <1>2, ParsingKeeps
<1>3. CASE Parse
  <2>1. CASE Fields = {}
    <3>1. UNCHANGED <<page, present, value, container, summary, verdict, errors,
                      successes, pending, formSubmitted, resets, left>>
      BY <1>3 DEF Parse, pageVars, shownVars, remoteVars
    <3>2. handlers' \in {0, 1} /\ attached' \in BOOLEAN
      BY <1>3 DEF Parse, Attach, IInv, TypeOK
    <3>3. TellInv'
      BY <3>1, NothingShown
    <3> QED
      BY <3>1, <3>2, <3>3 DEF IInv, TypeOK
  <2>2. CASE Fields # {}
    BY <1>3, <2>2, ParsingKeeps
  <2> QED
    BY <2>1, <2>2
<1>4. ASSUME NEW f \in Fields, CheckField(f) PROVE IInv'
  BY <1>4, CheckFieldKeeps
<1>5. CASE Submit \/ Validate
  BY <1>5, FormKeeps
<1>6. CASE SubmitThrows \/ SubmitCancelled \/ SubmitUnattached
  BY <1>6, LeavingKeeps
<1>7. CASE Reset \/ NestedReset \/ ResetEnds
  BY <1>7, ResetKeeps
<1>8. ASSUME NEW f \in Fields, AnswerAccepted(f) \/ AnswerRefused(f) \/ AnswerLost(f)
      PROVE  IInv'
  BY <1>8, AnswerKeeps
<1>9. ASSUME NEW f \in Fields, AnswerSends(f) PROVE IInv'
  BY <1>9, AnswerSendsKeeps
<1>10. CASE ValidateThrows \/ \E f \in Fields : AnswerThrows(f)
  BY <1>10, ThrowingKeeps
<1> QED
  BY <1>1, <1>2, <1>3, <1>4, <1>5, <1>6, <1>7, <1>8, <1>9, <1>10, Zenon DEF Next

LEMMA Invariant == Spec => []IInv
<1>1. Init => IInv
  BY IInvInit
<1>2. IInv /\ [Next]_vars => IInv'
  BY IInvStep
<1> QED
  BY <1>1, <1>2, PTL DEF Spec

\* The variables of a page keep their types; among them, that onReset is bound
\* once, and that no reset runs inside another.
THEOREM TypeCorrect == Spec => []TypeOK
<1>1. IInv => TypeOK
  BY DEF IInv
<1> QED
  BY <1>1, Invariant, PTL

\* Whatever the pages and however edits, checks, resets and answers follow each
\* other, a container shows an error exactly if its field was last found to be
\* invalid, unless it is of a page with an errorClass of its own and a reset has
\* untied its label.
THEOREM ErrorsShown == Spec => []ContainersTell
<1>1. IInv => ContainersTell
  BY DEF IInv, TellInv, Tells, ContainersTell, Orphan
<1> QED
  BY <1>1, Invariant, PTL

\* The summary changes only to all errors that were just found, or is hidden by
\* a reset.
THEOREM SummaryTrue == Spec => SummaryFollowsErrors
<1> DEFINE Followed == summary' # summary =>
               \/ summary'.class = "errors" /\ summary'.list = errors' /\ errors' # {}
               \/ summary' = [summary EXCEPT !.class = "valid"] /\ resets = 1
<1>1. ASSUME NEW bad, onErrors(bad), errors' = bad PROVE Followed
  BY <1>1 DEF onErrors
<1>2. [Next]_vars => [Followed]_vars
  <2> SUFFICES ASSUME Next PROVE Followed
    BY DEF vars, shownVars
  <2>1. CASE Submit \/ Validate
    <3>1. PICK bad : onErrors(bad) /\ errors' = bad
      BY <2>1, Zenon DEF Submit, Validate, Form, ShowErrors
    <3> QED
      BY <1>1, <3>1
  <2>2. CASE ResetEnds
    BY <2>2 DEF ResetEnds
  <2>3. ASSUME NEW f \in Fields, AnswerSends(f) PROVE Followed
    <3>1. PICK bad : onErrors(bad) /\ errors' = bad
      BY <2>3, Zenon DEF AnswerSends
    <3> QED
      BY <1>1, <3>1
  <2>4. ASSUME NEW f \in Fields, AnswerRefused(f) PROVE Followed
    <3>1. errors' = errors \cup {f}
      BY <2>4 DEF AnswerRefused, ShowErrors
    <3>2. onErrors(errors \cup {f}) \/ summary' = summary
      BY <2>4 DEF AnswerRefused
    <3> QED
      BY <1>1, <3>1, <3>2
  <2>5. ASSUME NEW f \in Fields,
               \/ ParseElement(f) \/ Insert(f) \/ Edit(f) \/ CheckField(f)
               \/ AnswerAccepted(f) \/ AnswerThrows(f) \/ AnswerLost(f)
        PROVE  summary' = summary
    BY <2>5 DEF ParseElement, Insert, Edit, CheckField, AnswerAccepted, AnswerThrows, AnswerLost,
                shownVars
  <2>6. CASE \/ Parse \/ SubmitThrows \/ SubmitCancelled \/ SubmitUnattached
             \/ ValidateThrows \/ Reset \/ NestedReset
    BY <2>6 DEF Parse, SubmitThrows, SubmitCancelled, SubmitUnattached, ValidateThrows, Reset,
                NestedReset, shownVars
  <2> QED
    BY <2>1, <2>2, <2>3, <2>4, <2>5, <2>6, Zenon DEF Next
<1> QED
  BY <1>2, PTL DEF Spec, SummaryFollowsErrors

-----------------------------------------------------------------------------
(* What parsing computes: loops                                              *)

\* What holds of 0 and, up to n, of a number if of the one before it, holds up
\* to n.
LEMMA UpTo ==
    ASSUME NEW n \in Nat, NEW S, 0 \in S, \A i \in 1 .. n : i - 1 \in S => i \in S
    PROVE  0 .. n \subseteq S
<1> SUFFICES ASSUME (0 .. n) \ S # {} PROVE FALSE
  OBVIOUS
<1> DEFINE T == (0 .. n) \ S
<1>1. PICK x \in T : \A y \in T : ~(<<y, x>> \in OpToRel(<, Nat))
  <2>1. T \subseteq Nat /\ T # {}
    OBVIOUS
  <2> HIDE DEF T
  <2> QED
    BY <2>1, NatLessThanWellFounded, WFMin, Zenon
<1>2. x \in 1 .. n /\ x - 1 \in 0 .. n
  <2>1. x \in 0 .. n /\ x # 0
    OBVIOUS
  <2> QED
    BY <2>1
<1>3. x - 1 \notin T
  <2>1. <<x - 1, x>> \in OpToRel(<, Nat)
    BY <1>2 DEF OpToRel
  <2> QED
    BY <1>1, <2>1
<1> QED
  BY <1>1, <1>2, <1>3

\* The loops of parsing: over the rules of an adapter, over the adapters, and
\* over the rules that are copied.
Loop(kind, ctx, result, x) ==
    IF kind = "rules" THEN setValidationValues(result, ctx, x)
    ELSE IF kind = "adapters" THEN Adapted(result, x, ctx.element, ctx.inputs)
    ELSE IF x.value = Undefined THEN result ELSE Append(result, x)

Looped(kind, ctx, base, seq) ==
    CHOOSE it : it = [s \in SUBSET DOMAIN seq |->
                        IF s = {} THEN base
                        ELSE Loop(kind, ctx, it[s \ {Max(s)}], seq[Max(s)])]

LEMMA LoopsAreFolds ==
    /\ \A result, message, rules :
          SetAll(result, message, rules) = Looped("rules", message, result, rules)[DOMAIN rules]
    /\ \A rules : Copied(rules) = Looped("copy", Undefined, <<>>, rules)[DOMAIN rules]
    /\ \A element, inputs, list :
          FoldLeft(LAMBDA result, adapter : Adapted(result, adapter, element, inputs),
                   NoRules, list)
            = Looped("adapters", [element |-> element, inputs |-> inputs], NoRules, list)[DOMAIN list]
<1>1. ASSUME NEW result, NEW message, NEW rules
      PROVE  SetAll(result, message, rules)
               = Looped("rules", message, result, rules)[DOMAIN rules]
  BY DEF SetAll, FoldLeft, MapThenFoldSet, Looped, Loop
<1>2. ASSUME NEW rules
      PROVE  Copied(rules) = Looped("copy", Undefined, <<>>, rules)[DOMAIN rules]
  BY DEF Copied, FoldLeft, MapThenFoldSet, Looped, Loop
<1>3. ASSUME NEW element, NEW inputs, NEW list
      PROVE  FoldLeft(LAMBDA result, adapter : Adapted(result, adapter, element, inputs),
                      NoRules, list)
               = Looped("adapters", [element |-> element, inputs |-> inputs], NoRules,
                        list)[DOMAIN list]
  BY DEF FoldLeft, MapThenFoldSet, Looped, Loop
<1> QED
  BY <1>1, <1>2, <1>3

\* A loop goes through its sequence from the first element to the last.
LEMMA LoopSteps ==
    ASSUME NEW kind, NEW ctx, NEW base, NEW seq, NEW n \in Nat, DOMAIN seq = 1 .. n,
           NEW result, result = Looped(kind, ctx, base, seq)[DOMAIN seq]
    PROVE  \E r : /\ r[0] = base
                  /\ \A i \in 1 .. n : r[i] = Loop(kind, ctx, r[i - 1], seq[i])
                  /\ r[n] = result
<1> DEFINE IsLoop(it, k) == it = [s \in SUBSET (1 .. k) |->
                                    IF s = {} THEN base
                                    ELSE Loop(kind, ctx, it[s \ {Max(s)}], seq[Max(s)])]
           S == {k \in 0 .. n : \E it : IsLoop(it, k)}
<1>1. \A k \in 1 .. n : \A s \in SUBSET (1 .. k) :
         /\ k \in s => Max(s) = k /\ s \ {k} \in SUBSET (1 .. (k - 1))
         /\ k \notin s => s \in SUBSET (1 .. (k - 1)) /\ s \ {Max(s)} \in SUBSET (1 .. (k - 1))
  <2> TAKE k \in 1 .. n
  <2> TAKE s \in SUBSET (1 .. k)
  <2>1. ASSUME k \in s PROVE Max(s) = k
    <3>1. \A y \in s : k >= y
      OBVIOUS
    <3>2. \A x \in s : (\A y \in s : x >= y) => x = k
      BY <2>1
    <3> QED
      BY <2>1, <3>1, <3>2 DEF Max
  <2>2. k \in s => s \ {k} \in SUBSET (1 .. (k - 1))
    OBVIOUS
  <2>3. k \notin s => s \in SUBSET (1 .. (k - 1))
    OBVIOUS
  <2> QED
    BY <2>1, <2>2, <2>3
<1>2. 0 \in S
  <2>1. IsLoop([s \in SUBSET (1 .. 0) |-> base], 0)
    <3>1. SUBSET (1 .. 0) = {{}}
      OBVIOUS
    <3> QED
      BY <3>1
  <2> QED
    BY <2>1
<1>3. ASSUME NEW k \in 1 .. n, k - 1 \in S PROVE k \in S
  <2>1. PICK it : IsLoop(it, k - 1)
    BY <1>3
  <2> DEFINE h == [s \in SUBSET (1 .. k) |->
                     IF k \in s THEN Loop(kind, ctx, it[s \ {k}], seq[k]) ELSE it[s]]
  <2>2. ASSUME NEW s \in SUBSET (1 .. k)
        PROVE  h[s] = IF s = {} THEN base
                      ELSE Loop(kind, ctx, h[s \ {Max(s)}], seq[Max(s)])
    <3>1. CASE k \in s
      <4>1. Max(s) = k /\ s \ {k} \in SUBSET (1 .. (k - 1)) /\ s \ {k} \in SUBSET (1 .. k)
        BY <1>1, <3>1
      <4>2. h[s] = Loop(kind, ctx, it[s \ {k}], seq[k])
        BY <3>1
      <4>3. h[s \ {k}] = it[s \ {k}]
        BY <4>1
      <4> HIDE DEF h
      <4> QED
        BY <3>1, <4>1, <4>2, <4>3
    <3>2. CASE k \notin s
      <4>1. /\ s \in SUBSET (1 .. (k - 1))
            /\ s \ {Max(s)} \in SUBSET (1 .. (k - 1))
            /\ s \ {Max(s)} \in SUBSET (1 .. k)
        BY <1>1, <3>2
      <4>2. h[s] = it[s]
        BY <3>2
      <4>3. h[s \ {Max(s)}] = it[s \ {Max(s)}]
        BY <3>2, <4>1
      <4>4. it[s] = IF s = {} THEN base
                    ELSE Loop(kind, ctx, it[s \ {Max(s)}], seq[Max(s)])
        BY <2>1, <4>1
      <4> HIDE DEF h
      <4> QED
        BY <4>2, <4>3, <4>4
    <3> QED
      BY <3>1, <3>2
  <2>3. h = [s \in SUBSET (1 .. k) |-> h[s]]
    OBVIOUS
  <2> DEFINE next(s) == IF s = {} THEN base
                        ELSE Loop(kind, ctx, h[s \ {Max(s)}], seq[Max(s)])
  <2>4. \A s \in SUBSET (1 .. k) : h[s] = next(s)
    BY <2>2
  <2> HIDE DEF h
  <2>5. IsLoop(h, k)
    <3> HIDE DEF next
    <3>1. h = [s \in SUBSET (1 .. k) |-> next(s)]
      BY <2>3, <2>4, Zenon
    <3> QED
      BY <3>1, Zenon DEF next
  <2>6. k \in 0 .. n
    OBVIOUS
  <2> HIDE DEF IsLoop
  <2> QED
    BY <2>5, <2>6
<1>4. n \in S
  <2> HIDE DEF S
  <2>1. 0 .. n \subseteq S
    BY <1>2, <1>3, UpTo
  <2> QED
    BY <2>1
<1> DEFINE it == Looped(kind, ctx, base, seq)
<1>5. it = [s \in SUBSET (1 .. n) |->
               IF s = {} THEN base
               ELSE Loop(kind, ctx, it[s \ {Max(s)}], seq[Max(s)])]
  <2>1. \E h : IsLoop(h, n)
    BY <1>4
  <2> QED
    BY <2>1 DEF Looped
<1> HIDE DEF it
<1> DEFINE r == [i \in 0 .. n |-> it[1 .. i]]
<1>6. r[0] = base
  <2>1. 1 .. 0 = {}
    OBVIOUS
  <2> QED
    BY <1>5, <2>1
<1>7. ASSUME NEW i \in 1 .. n PROVE r[i] = Loop(kind, ctx, r[i - 1], seq[i])
  <2>1. /\ 1 .. i \in SUBSET (1 .. n) /\ i \in 1 .. i /\ (1 .. i) \ {i} = 1 .. (i - 1)
        /\ 1 .. i \in SUBSET (1 .. i)
    OBVIOUS
  <2>2. Max(1 .. i) = i
    BY <1>1, <2>1
  <2>3. 1 .. i # {}
    OBVIOUS
  <2>4. it[1 .. i] = Loop(kind, ctx, it[(1 .. i) \ {Max(1 .. i)}], seq[Max(1 .. i)])
    BY <1>5, <2>1, <2>3
  <2>5. r[i] = it[1 .. i] /\ r[i - 1] = it[1 .. (i - 1)]
    OBVIOUS
  <2> QED
    BY <2>1, <2>2, <2>4, <2>5
<1>8. r[n] = it[DOMAIN seq]
  OBVIOUS
<1> QED
  BY <1>6, <1>7, <1>8 DEF it

-----------------------------------------------------------------------------
(* What parsing computes: the adapters                                       *)

\* The list of adapters, by what each was registered with.
BoolAdapters == {addBool(name, Undefined) :
                   name \in {"creditcard", "date", "digits", "email", "number", "url"}}

MinMaxAdapters ==
    {addMinMax("length", "minlength", "maxlength", "rangelength", Undefined, Undefined),
     addMinMax("range", "min", "max", "range", Undefined, Undefined),
     addMinMax("minlength", "minlength", Undefined, Undefined, Undefined, Undefined),
     addMinMax("maxlength", "minlength", "maxlength", Undefined, Undefined, Undefined)}

ExtensionSet(additional) ==
    IF additional
    THEN {addSingleVal("accept", "mimtype", Undefined),
          addSingleVal("extension", "extension", Undefined)}
    ELSE {addSingleVal("extension", "extension", "accept")}

OwnAdapters ==
    {add("equalto", {"other"}), add("required", {}),
     add("remote", {"url", "type", "additionalfields"}),
     add("password", {"min", "nonalphamin", "regex"}),
     add("fileextensions", {"extensions"})}

Registered(additional) ==
    ExtensionSet(additional) \cup BoolAdapters \cup MinMaxAdapters \cup OwnAdapters
      \cup {addSingleVal("regex", "pattern", Undefined)}

LEMMA OtherAdaptersListed ==
    /\ OtherAdapters \in Seq(ToSet(OtherAdapters))
    /\ DOMAIN OtherAdapters = 1 .. 16
    /\ OtherAdapters[1] = addSingleVal("regex", "pattern", Undefined)
    /\ OtherAdapters[2] = addBool("creditcard", Undefined)
    /\ OtherAdapters[3] = addBool("date", Undefined)
    /\ OtherAdapters[4] = addBool("digits", Undefined)
    /\ OtherAdapters[5] = addBool("email", Undefined)
    /\ OtherAdapters[6] = addBool("number", Undefined)
    /\ OtherAdapters[7] = addBool("url", Undefined)
    /\ OtherAdapters[8] = addMinMax("length", "minlength", "maxlength", "rangelength", Undefined, Undefined)
    /\ OtherAdapters[9] = addMinMax("range", "min", "max", "range", Undefined, Undefined)
    /\ OtherAdapters[10] = addMinMax("minlength", "minlength", Undefined, Undefined, Undefined, Undefined)
    /\ OtherAdapters[11] = addMinMax("maxlength", "minlength", "maxlength", Undefined, Undefined, Undefined)
    /\ OtherAdapters[12] = add("equalto", {"other"})
    /\ OtherAdapters[13] = add("required", {})
    /\ OtherAdapters[14] = add("remote", {"url", "type", "additionalfields"})
    /\ OtherAdapters[15] = add("password", {"min", "nonalphamin", "regex"})
    /\ OtherAdapters[16] = add("fileextensions", {"extensions"})
<1>1. DOMAIN OtherAdapters = 1 .. 16
  BY DEF OtherAdapters
<1>2. OtherAdapters \in Seq(ToSet(OtherAdapters))
  BY DEF OtherAdapters, ToSet
<1> QED
  BY <1>1, <1>2 DEF OtherAdapters

LEMMA ExtensionsListed ==
    ASSUME NEW additional \in BOOLEAN
    PROVE  LET first == ExtensionAdapters(additional)
           IN  /\ first \in Seq(ToSet(first))
               /\ Len(first) \in Nat
               /\ DOMAIN first = 1 .. Len(first)
               /\ \A i \in DOMAIN first : first[i] \in ExtensionSet(additional)
               /\ \A a \in ExtensionSet(additional) : \E i \in DOMAIN first : first[i] = a
<1> DEFINE first == ExtensionAdapters(additional)
           accept == addSingleVal("accept", "mimtype", Undefined)
           extension == addSingleVal("extension", "extension", Undefined)
           renamed == addSingleVal("extension", "extension", "accept")
<1>1. CASE additional
  <2>1. first = <<accept, extension>> /\ ExtensionSet(additional) = {accept, extension}
    BY <1>1 DEF ExtensionAdapters, ExtensionSet
  <2> HIDE DEF first, accept, extension
  <2>2. /\ Len(first) = 2 /\ DOMAIN first = 1 .. 2 /\ DOMAIN first = {1, 2}
        /\ first[1] = accept /\ first[2] = extension
    BY <2>1
  <2>3. first \in Seq(ToSet(first))
    BY <2>2, <2>1 DEF ToSet
  <2> QED
    BY <2>1, <2>2, <2>3 DEF first
<1>2. CASE ~additional
  <2>1. first = <<renamed>> /\ ExtensionSet(additional) = {renamed}
    BY <1>2 DEF ExtensionAdapters, ExtensionSet
  <2> HIDE DEF first, renamed
  <2>2. /\ Len(first) = 1 /\ DOMAIN first = 1 .. 1 /\ DOMAIN first = {1}
        /\ first[1] = renamed
    BY <2>1
  <2>3. first \in Seq(ToSet(first))
    BY <2>2, <2>1 DEF ToSet
  <2> QED
    BY <2>1, <2>2, <2>3 DEF first
<1> QED
  BY <1>1, <1>2

LEMMA AdaptersListed ==
    ASSUME NEW additional \in BOOLEAN
    PROVE  /\ Len(adapters[additional]) \in Nat
           /\ DOMAIN adapters[additional] = 1 .. Len(adapters[additional])
           /\ \A i \in DOMAIN adapters[additional] :
                 adapters[additional][i] \in Registered(additional)
           /\ \A a \in Registered(additional) :
                 \E i \in DOMAIN adapters[additional] : adapters[additional][i] = a
<1> DEFINE first == ExtensionAdapters(additional)
           list == adapters[additional]
           All == ToSet(first) \cup ToSet(OtherAdapters)
<1>1. list = first \o OtherAdapters
  BY DEF adapters
<1>2. /\ first \in Seq(ToSet(first))
      /\ Len(first) \in Nat
      /\ DOMAIN first = 1 .. Len(first)
      /\ \A i \in DOMAIN first : first[i] \in ExtensionSet(additional)
      /\ \A a \in ExtensionSet(additional) : \E i \in DOMAIN first : first[i] = a
  BY ExtensionsListed
<1>3. OtherAdapters \in Seq(ToSet(OtherAdapters)) /\ DOMAIN OtherAdapters = 1 .. 16
  BY OtherAdaptersListed
<1>4. first \in Seq(All) /\ OtherAdapters \in Seq(All)
  BY <1>2, <1>3
<1>5. Len(OtherAdapters) = 16
  BY <1>3
<1>6. ASSUME NEW i \in DOMAIN first PROVE first[i] \in ExtensionSet(additional)
  BY <1>2
<1>7. ASSUME NEW a \in ExtensionSet(additional)
      PROVE  \E i \in DOMAIN first : first[i] = a
  BY <1>2
<1> DEFINE Others == Registered(additional) \ ExtensionSet(additional)
<1> HIDE DEF first, All
<1>2n. Len(first) \in Nat /\ DOMAIN first = 1 .. Len(first)
  BY <1>2 DEF first
<1>8. /\ list \in Seq(All)
      /\ Len(list) = Len(first) + 16
      /\ \A i \in 1 .. Len(first) : list[i] = first[i]
      /\ \A i \in 1 .. 16 : list[Len(first) + i] = OtherAdapters[i]
  <2>1. /\ list \in Seq(All)
        /\ Len(list) = Len(first) + 16
        /\ \A i \in 1 .. Len(first) + 16 :
              list[i] = IF i <= Len(first) THEN first[i] ELSE OtherAdapters[i - Len(first)]
    <3> HIDE DEF list
    <3>1. /\ first \o OtherAdapters \in Seq(All)
          /\ Len(first \o OtherAdapters) = Len(first) + Len(OtherAdapters)
          /\ \A i \in 1 .. Len(first) + Len(OtherAdapters) :
                (first \o OtherAdapters)[i]
                  = IF i <= Len(first) THEN first[i] ELSE OtherAdapters[i - Len(first)]
      BY <1>4, ConcatProperties
    <3> QED
      BY <1>1, <1>5, <3>1
  <2> HIDE DEF list
  <2>2. \A i \in 1 .. Len(first) : list[i] = first[i]
    BY <1>2n, <2>1
  <2>3. ASSUME NEW i \in 1 .. 16 PROVE list[Len(first) + i] = OtherAdapters[i]
    <3>1. /\ Len(first) + i \in 1 .. Len(first) + 16
          /\ ~(Len(first) + i <= Len(first))
          /\ Len(first) + i - Len(first) = i
      BY <1>2n
    <3> QED
      BY <2>1, <3>1
  <2> QED
    BY <2>1, <2>2, <2>3
<1> HIDE DEF list
<1>8n. Len(list) = Len(first) + 16
  BY <1>8
<1>9. Len(list) \in Nat /\ DOMAIN list = 1 .. Len(list)
  BY <1>8
<1>10. ASSUME NEW j \in 1 .. 16 PROVE OtherAdapters[j] \in Registered(additional)
  <2>1. \/ j = 1 \/ j = 2 \/ j = 3 \/ j = 4 \/ j = 5 \/ j = 6 \/ j = 7 \/ j = 8
        \/ j = 9 \/ j = 10 \/ j = 11 \/ j = 12 \/ j = 13 \/ j = 14 \/ j = 15 \/ j = 16
    OBVIOUS
  <2>2. CASE j \in {2, 3, 4, 5, 6, 7}
    <3>1. OtherAdapters[j] \in BoolAdapters
      BY <2>2, OtherAdaptersListed DEF BoolAdapters
    <3> QED
      BY <3>1 DEF Registered
  <2>3. CASE j \in {8, 9, 10, 11}
    <3>1. OtherAdapters[j] \in MinMaxAdapters
      BY <2>3, OtherAdaptersListed DEF MinMaxAdapters
    <3> QED
      BY <3>1 DEF Registered
  <2>4. CASE j \in {12, 13, 14, 15, 16}
    <3>1. OtherAdapters[j] \in OwnAdapters
      BY <2>4, OtherAdaptersListed DEF OwnAdapters
    <3> QED
      BY <3>1 DEF Registered
  <2>5. CASE j = 1
    BY <2>5, OtherAdaptersListed DEF Registered
  <2> QED
    BY <2>1, <2>2, <2>3, <2>4, <2>5
<1>11. ASSUME NEW a \in Others PROVE \E j \in 1 .. 16 : OtherAdapters[j] = a
  <2>1. CASE a \in BoolAdapters
    <3>1. PICK name \in {"creditcard", "date", "digits", "email", "number", "url"} :
             a = addBool(name, Undefined)
      BY <2>1 DEF BoolAdapters
    <3>2. \E j \in {2, 3, 4, 5, 6, 7} : OtherAdapters[j] = a
      BY <3>1, OtherAdaptersListed
    <3> QED
      BY <3>2
  <2>2. CASE a \in MinMaxAdapters
    <3>2. \E j \in {8, 9, 10, 11} : OtherAdapters[j] = a
      BY <2>2, OtherAdaptersListed DEF MinMaxAdapters
    <3> QED
      BY <3>2
  <2>3. CASE a \in OwnAdapters
    <3>2. \E j \in {12, 13, 14, 15, 16} : OtherAdapters[j] = a
      BY <2>3, OtherAdaptersListed DEF OwnAdapters
    <3> QED
      BY <3>2
  <2>4. CASE a = addSingleVal("regex", "pattern", Undefined)
    BY <2>4, OtherAdaptersListed
  <2> QED
    BY <1>11, <2>1, <2>2, <2>3, <2>4 DEF Registered
<1>12. \A i \in DOMAIN list : list[i] \in Registered(additional)
  <2> SUFFICES ASSUME NEW i \in 1 .. Len(list) PROVE list[i] \in Registered(additional)
    BY <1>9
  <2>1. CASE i <= Len(first)
    <3>1. i \in 1 .. Len(first) /\ i \in DOMAIN first
      BY <1>2n, <2>1
    <3> QED
      BY <1>6, <1>8, <3>1 DEF Registered
  <2>2. CASE i > Len(first)
    <3>1. i - Len(first) \in 1 .. 16 /\ Len(first) + (i - Len(first)) = i
      BY <1>2n, <1>8n, <2>2
    <3> QED
      BY <1>8, <1>10, <3>1
  <2> QED
    BY <1>2n, <2>1, <2>2
<1>13. \A a \in Registered(additional) : \E i \in DOMAIN list : list[i] = a
  <2> SUFFICES ASSUME NEW a \in Registered(additional)
               PROVE  \E i \in 1 .. Len(list) : list[i] = a
    BY <1>9
  <2>1. CASE a \in ExtensionSet(additional)
    <3>1. PICK i \in DOMAIN first : first[i] = a
      BY <1>7, <2>1
    <3>2. i \in 1 .. Len(first) /\ i \in 1 .. Len(list)
      BY <1>2n, <1>8n
    <3> QED
      BY <1>8, <3>1, <3>2
  <2>2. CASE a \notin ExtensionSet(additional)
    <3>1. PICK j \in 1 .. 16 : OtherAdapters[j] = a
      BY <1>11, <2>2
    <3>2. Len(first) + j \in 1 .. Len(list)
      BY <1>2n, <1>8n
    <3> QED
      BY <1>8, <3>1, <3>2
  <2> QED
    BY <2>1, <2>2
<1> QED
  BY <1>9, <1>12, <1>13 DEF list

-----------------------------------------------------------------------------
(* What parsing computes: the rules of an adapter                            *)

\* A row of rules in which each rule is there once.
Distinct(rules) ==
    /\ Len(rules) \in Nat
    /\ DOMAIN rules = 1 .. Len(rules)
    /\ rules \in Seq(ToSet(rules))
    /\ \A i, j \in DOMAIN rules : rules[i].name = rules[j].name => i = j

LEMMA NoneDistinct == Distinct(<<>>) /\ ToSet(<<>>) = {}
<1>1. Len(<<>>) = 0 /\ DOMAIN <<>> = 1 .. 0 /\ <<>> \in Seq(ToSet(<<>>)) /\ ToSet(<<>>) = {}
  BY DEF ToSet
<1> QED
  BY <1>1 DEF Distinct

LEMMA OneDistinct == ASSUME NEW r PROVE Distinct(<<r>>) /\ ToSet(<<r>>) = {r}
<1>1. /\ Len(<<r>>) = 1 /\ DOMAIN <<r>> = 1 .. 1 /\ ToSet(<<r>>) = {r}
      /\ <<r>>[1] = r
  BY DEF ToSet
<1>2. <<r>> \in Seq(ToSet(<<r>>))
  BY <1>1
<1> QED
  BY <1>1, <1>2 DEF Distinct

LEMMA TwoDistinct ==
    ASSUME NEW r, NEW s, r.name # s.name
    PROVE  Distinct(<<r, s>>) /\ ToSet(<<r, s>>) = {r, s}
<1> DEFINE q == <<r, s>>
<1>1. Len(q) = 2 /\ DOMAIN q = 1 .. 2 /\ DOMAIN q = {1, 2} /\ q[1] = r /\ q[2] = s
  OBVIOUS
<1>2. ToSet(q) = {r, s}
  <2> HIDE DEF q
  <2> QED
    BY <1>1 DEF ToSet
<1>3. q \in Seq(ToSet(q))
  BY <1>2
<1> HIDE DEF q
<1>4. Distinct(q)
  BY <1>1, <1>3 DEF Distinct
<1> QED
  BY <1>2, <1>4 DEF q

LEMMA ThreeDistinct ==
    ASSUME NEW r, NEW s, NEW t, r.name # s.name, r.name # t.name, s.name # t.name
    PROVE  Distinct(<<r, s, t>>) /\ ToSet(<<r, s, t>>) = {r, s, t}
<1> DEFINE q == <<r, s, t>>
<1>1. /\ Len(q) = 3 /\ DOMAIN q = 1 .. 3 /\ DOMAIN q = {1, 2, 3}
      /\ q[1] = r /\ q[2] = s /\ q[3] = t
  OBVIOUS
<1>2. ToSet(q) = {r, s, t}
  <2> HIDE DEF q
  <2> QED
    BY <1>1 DEF ToSet
<1>3. q \in Seq(ToSet(q))
  BY <1>2
<1> HIDE DEF q
<1>4. Distinct(q)
  BY <1>1, <1>3 DEF Distinct
<1> QED
  BY <1>2, <1>4 DEF q

LEMMA RuleFields == ASSUME NEW name, NEW v, name # Undefined
                    PROVE  Rule(name, v).name = name /\ Rule(name, v).value = v
BY DEF Rule

LEMMA UndefinedRule == ASSUME NEW v PROVE Rule(Undefined, v).name = "undefined" /\ Rule(Undefined, v).value = v
BY DEF Rule

\* A row and one more element.
LEMMA OneMore ==
    ASSUME NEW S, NEW p \in Seq(S), NEW q \in Seq(S), NEW y \in S,
           Len(q) = Len(p) + 1, q[Len(p) + 1] = y, \A i \in 1 .. Len(p) : q[i] = p[i]
    PROVE  p \o <<y>> = q
<1>1. Append(p, y) = q
  <2> DEFINE r == Append(p, y)
  <2>1. r \in Seq(S) /\ Len(r) = Len(p) + 1
    OBVIOUS
  <2>2. r[Len(p) + 1] = y /\ \A i \in 1 .. Len(p) : r[i] = p[i]
    OBVIOUS
  <2> HIDE DEF r
  <2>3. \A i \in 1 .. Len(r) : r[i] = q[i]
    BY <2>1, <2>2
  <2>4. r = q
    BY <2>1, <2>3, SeqEqual, Zenon
  <2> QED
    BY <2>4 DEF r
<1> QED
  BY <1>1, AppendIsConcat

LEMMA Joined ==
    ASSUME NEW x, NEW y, NEW z
    PROVE  <<x>> \o <<y>> = <<x, y>> /\ <<x, y>> \o <<z>> = <<x, y, z>>
<1> DEFINE S == {x, y, z}
           p == <<x>>
           q == <<x, y>>
           t == <<x, y, z>>
<1>1. p \in Seq(S) /\ q \in Seq(S) /\ t \in Seq(S) /\ y \in S /\ z \in S
  OBVIOUS
<1>2. /\ Len(p) = 1 /\ Len(q) = 2 /\ Len(t) = 3
      /\ p[1] = x /\ q[1] = x /\ t[1] = x
      /\ q[2] = y /\ t[2] = y /\ t[3] = z
  OBVIOUS
<1> HIDE DEF S, p, q, t
<1>3. /\ Len(q) = Len(p) + 1 /\ q[Len(p) + 1] = y
      /\ \A i \in 1 .. Len(p) : q[i] = p[i]
  BY <1>2
<1>4. /\ Len(t) = Len(q) + 1 /\ t[Len(q) + 1] = z
      /\ \A i \in 1 .. Len(q) : t[i] = q[i]
  BY <1>2
<1>5. p \o <<y>> = q
  BY <1>1, <1>3, OneMore
<1>6. q \o <<z>> = t
  BY <1>1, <1>4, OneMore
<1> QED
  BY <1>5, <1>6 DEF p, q, t

\* The rules that the password attribute sets.
LEMMA PasswordRules ==
    ASSUME NEW min, NEW non, NEW reg,
           "minlength" # Undefined, "nonalphamin" # Undefined, "regex" # Undefined
    PROVE  LET rules == SetIf("minlength", min) \o SetIf("nonalphamin", non)
                          \o SetIf("regex", reg)
           IN  /\ Distinct(rules)
               /\ ToSet(rules) = {r \in {Rule("minlength", min), Rule("nonalphamin", non),
                                          Rule("regex", reg)} : Truthy(r.value)}
<1> DEFINE a == Rule("minlength", min)
           b == Rule("nonalphamin", non)
           c == Rule("regex", reg)
           rules == SetIf("minlength", min) \o SetIf("nonalphamin", non)
                      \o SetIf("regex", reg)
           set == {r \in {a, b, c} : Truthy(r.value)}
<1>1. /\ a.name = "minlength" /\ b.name = "nonalphamin" /\ c.name = "regex"
      /\ a.value = min /\ b.value = non /\ c.value = reg
  BY RuleFields
<1>2. /\ SetIf("minlength", min) = IF Truthy(min) THEN <<a>> ELSE <<>>
      /\ SetIf("nonalphamin", non) = IF Truthy(non) THEN <<b>> ELSE <<>>
      /\ SetIf("regex", reg) = IF Truthy(reg) THEN <<c>> ELSE <<>>
  BY DEF SetIf
<1> SUFFICES Distinct(rules) /\ ToSet(rules) = set
  OBVIOUS
<1>r. rules = SetIf("minlength", min) \o SetIf("nonalphamin", non)
                      \o SetIf("regex", reg)
  OBVIOUS
<1>s. set = {r \in {a, b, c} : Truthy(r.value)}
  OBVIOUS
<1> HIDE DEF a, b, c, rules, set
<1>3. /\ <<a>> \o <<b>> \o <<c>> = <<a, b, c>>
      /\ <<a>> \o <<b>> \o <<>> = <<a, b>>
      /\ <<a>> \o <<>> \o <<c>> = <<a, c>>
      /\ <<>> \o <<b>> \o <<c>> = <<b, c>>
      /\ <<a>> \o <<>> \o <<>> = <<a>>
      /\ <<>> \o <<b>> \o <<>> = <<b>>
      /\ <<>> \o <<>> \o <<c>> = <<c>>
      /\ <<>> \o <<>> \o <<>> = <<>>
  <2>1. <<a>> \o <<b>> = <<a, b>> /\ <<a>> \o <<c>> = <<a, c>> /\ <<b>> \o <<c>> = <<b, c>>
    BY Joined
  <2>2. <<a, b>> \o <<c>> = <<a, b, c>>
    BY Joined
  <2>3. <<a, b>> \o <<>> = <<a, b>>
    OBVIOUS
  <2>4. <<a>> \o <<>> = <<a>> /\ <<b>> \o <<>> = <<b>>
    OBVIOUS
  <2>5. <<>> \o <<b>> = <<b>> /\ <<>> \o <<c>> = <<c>>
    OBVIOUS
  <2>6. <<>> \o <<>> = <<>>
    OBVIOUS
  <2> QED
    BY <2>1, <2>2, <2>3, <2>4, <2>5, <2>6, Zenon
<1>4. /\ a.name # b.name /\ a.name # c.name /\ b.name # c.name
  BY <1>1
<1>5. CASE Truthy(min) /\ Truthy(non) /\ Truthy(reg)
  <2>0. Distinct(<<a, b, c>>) /\ ToSet(<<a, b, c>>) = {a, b, c}
    BY <1>4, ThreeDistinct
  <2>1. rules = <<a, b, c>> /\ set = {a, b, c}
    BY <1>1, <1>2, <1>3, <1>r, <1>s, <1>5
  <2> QED
    BY <2>0, <2>1, Zenon
<1>6. CASE Truthy(min) /\ Truthy(non) /\ ~Truthy(reg)
  <2>0. Distinct(<<a, b>>) /\ ToSet(<<a, b>>) = {a, b}
    BY <1>4, TwoDistinct
  <2>1. rules = <<a, b>> /\ set = {a, b}
    BY <1>1, <1>2, <1>3, <1>r, <1>s, <1>6
  <2> QED
    BY <2>0, <2>1, Zenon
<1>7. CASE Truthy(min) /\ ~Truthy(non) /\ Truthy(reg)
  <2>0. Distinct(<<a, c>>) /\ ToSet(<<a, c>>) = {a, c}
    BY <1>4, TwoDistinct
  <2>1. rules = <<a, c>> /\ set = {a, c}
    BY <1>1, <1>2, <1>3, <1>r, <1>s, <1>7
  <2> QED
    BY <2>0, <2>1, Zenon
<1>8. CASE ~Truthy(min) /\ Truthy(non) /\ Truthy(reg)
  <2>0. Distinct(<<b, c>>) /\ ToSet(<<b, c>>) = {b, c}
    BY <1>4, TwoDistinct
  <2>1. rules = <<b, c>> /\ set = {b, c}
    BY <1>1, <1>2, <1>3, <1>r, <1>s, <1>8
  <2> QED
    BY <2>0, <2>1, Zenon
<1>9. CASE Truthy(min) /\ ~Truthy(non) /\ ~Truthy(reg)
  <2>0. Distinct(<<a>>) /\ ToSet(<<a>>) = {a}
    BY <1>4, OneDistinct
  <2>1. rules = <<a>> /\ set = {a}
    BY <1>1, <1>2, <1>3, <1>r, <1>s, <1>9
  <2> QED
    BY <2>0, <2>1, Zenon
<1>10. CASE ~Truthy(min) /\ Truthy(non) /\ ~Truthy(reg)
  <2>0. Distinct(<<b>>) /\ ToSet(<<b>>) = {b}
    BY <1>4, OneDistinct
  <2>1. rules = <<b>> /\ set = {b}
    BY <1>1, <1>2, <1>3, <1>r, <1>s, <1>10
  <2> QED
    BY <2>0, <2>1, Zenon
<1>11. CASE ~Truthy(min) /\ ~Truthy(non) /\ Truthy(reg)
  <2>0. Distinct(<<c>>) /\ ToSet(<<c>>) = {c}
    BY <1>4, OneDistinct
  <2>1. rules = <<c>> /\ set = {c}
    BY <1>1, <1>2, <1>3, <1>r, <1>s, <1>11
  <2> QED
    BY <2>0, <2>1, Zenon
<1>12. CASE ~Truthy(min) /\ ~Truthy(non) /\ ~Truthy(reg)
  <2>1. rules = <<>> /\ set = {}
    BY <1>1, <1>2, <1>3, <1>r, <1>s, <1>12
  <2> QED
    BY <2>1, NoneDistinct, Zenon
<1> QED
  BY <1>5, <1>6, <1>7, <1>8, <1>9, <1>10, <1>11, <1>12, Zenon

LEMMA NamesDefined == \A name \in Names : name # Undefined /\ name # Empty
BY UnobtrusiveAdaptersAssumption

\* What the functions that register an adapter make of it.
LEMMA Kinds ==
    /\ \A name : LET a == addBool(name, Undefined)
                 IN  a.name = name /\ a.adapt = "bool" /\ a.rule = name
    /\ \A name, min, max, both :
          LET a == addMinMax(name, min, max, both, Undefined, Undefined)
          IN  /\ a.name = name /\ a.adapt = "minMax" /\ a.params = {"min", "max"}
              /\ a.minRule = min /\ a.maxRule = max /\ a.minMaxRule = both
    /\ \A name, attribute :
          LET a == addSingleVal(name, attribute, Undefined)
          IN  /\ a.name = name /\ a.adapt = "singleVal" /\ a.rule = name
              /\ a.attribute = attribute
    /\ LET a == addSingleVal("extension", "extension", "accept")
       IN  /\ a.name = "extension" /\ a.adapt = "singleVal" /\ a.rule = "accept"
           /\ a.attribute = "extension"
    /\ LET a == addSingleVal("regex", "pattern", Undefined) IN a.params = {"pattern"}
    /\ \A name, params : LET a == add(name, params)
                         IN  a.name = name /\ a.adapt = name /\ a.params = params
<1>1. "accept" \notin {Undefined, Empty} /\ "pattern" \notin {Undefined, Empty}
  BY NamesDefined DEF Names
<1>2. \A name : LET a == addBool(name, Undefined)
                IN  a.name = name /\ a.adapt = "bool" /\ a.rule = name
  BY DEF addBool, Or, Truthy
<1>3. \A name, min, max, both :
          LET a == addMinMax(name, min, max, both, Undefined, Undefined)
          IN  /\ a.name = name /\ a.adapt = "minMax" /\ a.params = {"min", "max"}
              /\ a.minRule = min /\ a.maxRule = max /\ a.minMaxRule = both
  BY DEF addMinMax, Or, Truthy
<1>4. \A name, attribute :
          LET a == addSingleVal(name, attribute, Undefined)
          IN  /\ a.name = name /\ a.adapt = "singleVal" /\ a.rule = name
              /\ a.attribute = attribute
  BY DEF addSingleVal, Or, Truthy
<1>5. LET a == addSingleVal("extension", "extension", "accept")
      IN  /\ a.name = "extension" /\ a.adapt = "singleVal" /\ a.rule = "accept"
          /\ a.attribute = "extension"
  BY <1>1 DEF addSingleVal, Or, Truthy
<1>6. LET a == addSingleVal("regex", "pattern", Undefined) IN a.params = {"pattern"}
  BY <1>1 DEF addSingleVal, Or, Truthy
<1>7. \A name, params : LET a == add(name, params)
                        IN  a.name = name /\ a.adapt = name /\ a.params = params
  BY DEF add
<1> QED
  BY <1>2, <1>3, <1>4, <1>5, <1>6, <1>7

\* The rules that each kind of adapter sets.
LEMMA AdaptByKind ==
    ASSUME NEW a, NEW element, NEW inputs
    PROVE  LET rules == Adapt(a, element, inputs)
               P(name) == Param(a, element, name)
           IN  /\ a.adapt = "bool" => rules = <<Rule(a.rule, TRUE)>>
               /\ a.adapt = "singleVal" => rules = <<Rule(a.rule, P(a.attribute))>>
               /\ a.adapt = "minMax" => rules = MinMax(a, P("min"), P("max"))
               /\ a.adapt = "equalto" =>
                     rules = <<Rule("equalTo", EqualTo(element, P("other"), inputs))>>
               /\ a.adapt = "required" =>
                     rules = IF element.checkbox THEN <<>> ELSE <<Rule("required", TRUE)>>
               /\ a.adapt = "remote" =>
                     rules = <<Rule("remote", RemoteFields(element, P("additionalfields")))>>
               /\ a.adapt = "password" =>
                     rules = SetIf("minlength", P("min")) \o SetIf("nonalphamin", P("nonalphamin"))
                               \o SetIf("regex", P("regex"))
               /\ a.adapt = "fileextensions" =>
                     rules = <<Rule("extension", P("extensions"))>>
BY DEF Adapt

\* The kinds that there are.
LEMMA RegisteredKinds ==
    ASSUME NEW additional \in BOOLEAN, NEW a \in Registered(additional)
    PROVE  a.adapt \in {"bool", "singleVal", "minMax", "equalto", "required", "remote",
                        "password", "fileextensions"}
<1>1. CASE a \in ExtensionSet(additional)
  BY <1>1, Kinds DEF ExtensionSet
<1>2. CASE a \in BoolAdapters
  BY <1>2, Kinds DEF BoolAdapters
<1>3. CASE a \in MinMaxAdapters
  BY <1>3, Kinds DEF MinMaxAdapters
<1>4. CASE a \in OwnAdapters
  BY <1>4, Kinds DEF OwnAdapters
<1>5. CASE a = addSingleVal("regex", "pattern", Undefined)
  BY <1>5, Kinds
<1> QED
  BY <1>1, <1>2, <1>3, <1>4, <1>5 DEF Registered

\* An adapter sets a rule once, and the same ones whatever other inputs there are.
LEMMA AdaptDistinct ==
    ASSUME NEW additional \in BOOLEAN, NEW a \in Registered(additional), NEW element, NEW inputs
    PROVE  /\ Distinct(Adapt(a, element, inputs))
           /\ \A others : RuleNames(Adapt(a, element, others))
                            = RuleNames(Adapt(a, element, inputs))
<1> DEFINE rules == Adapt(a, element, inputs)
<1>1. "minlength" # Undefined /\ "nonalphamin" # Undefined /\ "regex" # Undefined
  BY NamesDefined DEF Names
<1>2. Distinct(rules)
  <2>1. ASSUME a.adapt \in {"bool", "singleVal", "equalto", "remote", "fileextensions"}
        PROVE  \E r : rules = <<r>>
    <3>1. CASE a.adapt = "bool"
      <4>1. rules = <<Rule(a.rule, TRUE)>>
        BY <3>1, AdaptByKind
      <4> DEFINE r == Rule(a.rule, TRUE)
      <4> HIDE DEF r, rules
      <4> QED
        BY <4>1 DEF r
    <3>2. CASE a.adapt = "singleVal"
      BY <3>2, AdaptByKind
    <3>3. CASE a.adapt = "equalto"
      BY <3>3, AdaptByKind
    <3>4. CASE a.adapt = "remote"
      BY <3>4, AdaptByKind
    <3>5. CASE a.adapt = "fileextensions"
      BY <3>5, AdaptByKind
    <3> QED
      BY <2>1, <3>1, <3>2, <3>3, <3>4, <3>5
  <2>2. ASSUME a.adapt = "required" PROVE rules = <<>> \/ \E r : rules = <<r>>
    BY <2>2, AdaptByKind
  <2>3. ASSUME a.adapt = "minMax" PROVE rules = <<>> \/ \E r : rules = <<r>>
    BY <2>3, AdaptByKind DEF MinMax, SetIf
  <2>4. ASSUME a.adapt = "password" PROVE Distinct(rules)
    <3>1. rules = SetIf("minlength", Param(a, element, "min"))
                    \o SetIf("nonalphamin", Param(a, element, "nonalphamin"))
                    \o SetIf("regex", Param(a, element, "regex"))
      BY <2>4, AdaptByKind
    <3> QED
      BY <1>1, <3>1, PasswordRules
  <2>5. ASSUME rules = <<>> \/ \E r : rules = <<r>> PROVE Distinct(rules)
    <3>1. CASE rules = <<>>
      BY <3>1, NoneDistinct
    <3>2. CASE \E r : rules = <<r>>
      BY <3>2, OneDistinct
    <3> QED
      BY <2>5, <3>1, <3>2
  <2> HIDE DEF rules
  <2> QED
    BY <2>1, <2>2, <2>3, <2>4, <2>5, RegisteredKinds
<1>3. ASSUME NEW others
      PROVE  RuleNames(Adapt(a, element, others)) = RuleNames(Adapt(a, element, inputs))
  <2>1. CASE a.adapt = "equalto"
    <3>1. ASSUME NEW v PROVE RuleNames(<<Rule("equalTo", v)>>) = {Rule("equalTo", 1).name}
      <4>1. Rule("equalTo", v).name = Rule("equalTo", 1).name
        BY DEF Rule
      <4> QED
        BY <4>1 DEF RuleNames
    <3>2. ASSUME NEW set
          PROVE  \E v : Adapt(a, element, set) = <<Rule("equalTo", v)>>
      BY <2>1, AdaptByKind
    <3> QED
      BY <3>1, <3>2
  <2>2. CASE a.adapt # "equalto"
    <3>1. Adapt(a, element, others) = Adapt(a, element, inputs)
      BY <2>2, RegisteredKinds, AdaptByKind, ZenonT(60)
    <3> QED
      BY <3>1
  <2> QED
    BY <2>1, <2>2
<1> QED
  BY <1>2, <1>3

-----------------------------------------------------------------------------
(* What parsing computes: the rules and messages of an element               *)

\* Setting a rule replaces the one of its name, or adds it.
LEMMA Put ==
    ASSUME NEW rules, Distinct(rules), NEW r
    PROVE  /\ Distinct(PutRule(rules, r))
           /\ ToSet(PutRule(rules, r)) = {x \in ToSet(rules) : x.name # r.name} \cup {r}
<1> DEFINE n == Len(rules)
           put == PutRule(rules, r)
<1>1. /\ n \in Nat /\ DOMAIN rules = 1 .. n
      /\ \A i, j \in 1 .. n : rules[i].name = rules[j].name => i = j
      /\ rules \in Seq(ToSet(rules))
      /\ ToSet(rules) = {rules[i] : i \in 1 .. n}
  BY DEF Distinct, ToSet
<1>2. CASE r.name \in RuleNames(rules)
  <2>1. PICK k \in 1 .. n : rules[k].name = r.name
    BY <1>1, <1>2 DEF RuleNames
  <2>2. put = [i \in 1 .. n |-> IF rules[i].name = r.name THEN r ELSE rules[i]]
    BY <1>1, <1>2 DEF PutRule
  <2> HIDE DEF put, n
  <2>3. /\ DOMAIN put = 1 .. n
        /\ put[k] = r
        /\ \A i \in 1 .. n : i # k => put[i] = rules[i] /\ rules[i].name # r.name
    BY <1>1, <2>1, <2>2
  <2>4. ToSet(put) = {x \in ToSet(rules) : x.name # r.name} \cup {r}
    BY <1>1, <2>1, <2>3 DEF ToSet
  <2>5. put \in Seq(ToSet(put)) /\ Len(put) = n
    BY <1>1, <2>2, <2>3 DEF ToSet
  <2>6. \A i, j \in 1 .. n : put[i].name = put[j].name => i = j
    BY <1>1, <2>1, <2>3
  <2> QED
    BY <1>1, <2>3, <2>4, <2>5, <2>6 DEF Distinct, put
<1>3. CASE r.name \notin RuleNames(rules)
  <2>1. put = Append(rules, r) /\ \A i \in 1 .. n : rules[i].name # r.name
    BY <1>1, <1>3 DEF PutRule, RuleNames
  <2>2. rules \in Seq(ToSet(rules) \cup {r})
    BY <1>1
  <2> HIDE DEF put
  <2>3. /\ Len(put) = n + 1 /\ DOMAIN put = 1 .. (n + 1)
        /\ put[n + 1] = r
        /\ \A i \in 1 .. n : put[i] = rules[i]
        /\ put \in Seq(ToSet(rules) \cup {r})
    BY <2>1, <2>2
  <2> HIDE DEF n
  <2>4. ToSet(put) = ToSet(rules) \cup {r}
    <3>1. \A i \in 1 .. (n + 1) : i \in 1 .. n \/ i = n + 1
      BY <1>1
    <3>2. 1 .. n \subseteq 1 .. (n + 1) /\ n + 1 \in 1 .. (n + 1)
      BY <1>1
    <3> QED
      BY <1>1, <2>3, <3>1, <3>2 DEF ToSet
  <2>5. \A x \in ToSet(rules) : x.name # r.name
    BY <1>1, <2>1
  <2>6. \A i, j \in 1 .. (n + 1) : put[i].name = put[j].name => i = j
    <3>1. \A i \in 1 .. (n + 1) : i \in 1 .. n \/ i = n + 1
      BY <1>1
    <3> QED
      BY <1>1, <2>1, <2>3, <3>1
  <2>7. put \in Seq(ToSet(put))
    BY <2>3, <2>4
  <2>8. n + 1 \in Nat
    BY <1>1
  <2> QED
    BY <2>3, <2>4, <2>5, <2>6, <2>7, <2>8 DEF Distinct, put
<1> QED
  BY <1>2, <1>3

\* The messages of a rule.
Texts(messages, n) == {m.text : m \in {m \in messages : m.rule = n}}

LEMMA NamesOfSet == ASSUME NEW rules PROVE RuleNames(rules) = {x.name : x \in ToSet(rules)}
BY DEF RuleNames, ToSet

\* The rules that have none of these names.
Without(rules, names) == {x \in ToSet(rules) : x.name \notin names}

\* What setting a rule makes of a set of rules, and of the messages of a name.
With(rules, r) == {x \in ToSet(rules) : x.name # r.name} \cup {r}
SaidOf(messages, n, name, message) ==
    IF n = name /\ Truthy(message) THEN {message} ELSE Texts(messages, n)

\* One rule and its message.
LEMMA SetOne ==
    ASSUME NEW result, Distinct(result.rules), NEW message, NEW r,
           NEW set, set = setValidationValues(result, message, r)
    PROVE  /\ Distinct(set.rules)
           /\ ToSet(set.rules) = With(result.rules, r)
           /\ \A n : Texts(set.messages, n) = SaidOf(result.messages, n, r.name, message)
<1> DEFINE mine == [rule |-> r.name, text |-> message]
<1>1. /\ set.rules = PutRule(result.rules, r)
      /\ set.messages = IF ~Truthy(message) THEN result.messages
                        ELSE {m \in result.messages : m.rule # r.name} \cup {mine}
  BY DEF setValidationValues
<1>2. mine.rule = r.name /\ mine.text = message
  OBVIOUS
<1> HIDE DEF mine
<1>3. ASSUME NEW n
      PROVE  Texts(set.messages, n) = IF n = r.name /\ Truthy(message) THEN {message}
                                      ELSE Texts(result.messages, n)
  <2>1. CASE ~Truthy(message)
    BY <1>1, <2>1
  <2>2. CASE Truthy(message)
    <3>1. set.messages = {m \in result.messages : m.rule # r.name} \cup {mine}
      BY <1>1, <2>2
    <3>2. CASE n = r.name
      <4>1. {m \in set.messages : m.rule = n} = {mine}
        BY <1>2, <3>1, <3>2
      <4> QED
        BY <1>2, <2>2, <3>2, <4>1 DEF Texts
    <3>3. CASE n # r.name
      <4>1. {m \in set.messages : m.rule = n} = {m \in result.messages : m.rule = n}
        BY <1>2, <3>1, <3>3
      <4> QED
        BY <3>3, <4>1 DEF Texts
    <3> QED
      BY <3>2, <3>3
  <2> QED
    BY <2>1, <2>2
<1>4. Distinct(set.rules)
      /\ ToSet(set.rules) = With(result.rules, r)
  BY <1>1, Put DEF With
<1> QED
  BY <1>3, <1>4 DEF SaidOf

\* What an adapter makes of a set of rules, and of the messages of a name.
WithAll(rules, more) == {x \in ToSet(rules) : x.name \notin RuleNames(more)} \cup ToSet(more)
SaidOfAll(messages, n, rules, message) ==
    IF n \in RuleNames(rules) /\ Truthy(message) THEN {message} ELSE Texts(messages, n)

\* All rules of an adapter.
LEMMA SetEach ==
    ASSUME NEW result, Distinct(result.rules), NEW message, NEW rules, Distinct(rules),
           NEW set, set = SetAll(result, message, rules)
    PROVE  /\ Distinct(set.rules)
           /\ ToSet(set.rules) = WithAll(result.rules, rules)
           /\ \A n : Texts(set.messages, n) = SaidOfAll(result.messages, n, rules, message)
<1> DEFINE n == Len(rules)
           Before(i) == {rules[j].name : j \in 1 .. i}
<1>1. /\ n \in Nat /\ DOMAIN rules = 1 .. n
      /\ \A i, j \in 1 .. n : rules[i].name = rules[j].name => i = j
  BY DEF Distinct
<1>2. PICK r : /\ r[0] = result
               /\ \A i \in 1 .. n : r[i] = Loop("rules", message, r[i - 1], rules[i])
               /\ r[n] = SetAll(result, message, rules)
  <2>1. SetAll(result, message, rules) = Looped("rules", message, result, rules)[DOMAIN rules]
    BY LoopsAreFolds
  <2> HIDE DEF n
  <2>2. \E r : /\ r[0] = result
               /\ \A i \in 1 .. n : r[i] = Loop("rules", message, r[i - 1], rules[i])
               /\ r[n] = SetAll(result, message, rules)
    BY <1>1, <2>1, LoopSteps
  <2> QED
    BY <2>1, <2>2
<1>3. \A i \in 1 .. n : r[i] = setValidationValues(r[i - 1], message, rules[i])
  BY <1>2 DEF Loop
<1> DEFINE Good(i) ==
       /\ Distinct(r[i].rules)
       /\ ToSet(r[i].rules) = Without(result.rules, Before(i))
                                \cup {rules[j] : j \in 1 .. i}
       /\ \A name : Texts(r[i].messages, name) =
                      IF name \in Before(i) /\ Truthy(message) THEN {message}
                      ELSE Texts(result.messages, name)
           S == {i \in 0 .. n : Good(i)}
<1> HIDE DEF n
<1>4. 0 \in S
  <2>1. 1 .. 0 = {} /\ 0 \in 0 .. n
    BY <1>1
  <2>2. Before(0) = {} /\ {rules[j] : j \in 1 .. 0} = {}
    BY <2>1
  <2> HIDE DEF Before
  <2>3. Without(result.rules, {}) = ToSet(result.rules)
    BY DEF Without
  <2>4. Good(0)
    BY <1>2, <2>1, <2>2, <2>3
  <2> QED
    BY <2>1, <2>4
<1>5. ASSUME NEW i \in 1 .. n, i - 1 \in S PROVE i \in S
  <2>0. Good(i - 1) /\ i \in 0 .. n
    <3> HIDE DEF Good
    <3> QED
      BY <1>1, <1>5
  <2>1. /\ Distinct(r[i - 1].rules)
        /\ ToSet(r[i - 1].rules) = Without(result.rules, Before(i - 1))
                                     \cup {rules[j] : j \in 1 .. (i - 1)}
        /\ \A name : Texts(r[i - 1].messages, name) =
                       IF name \in Before(i - 1) /\ Truthy(message) THEN {message}
                       ELSE Texts(result.messages, name)
    BY <2>0, Zenon
  <2>2. /\ 1 .. i = 1 .. (i - 1) \cup {i}
        /\ 1 .. (i - 1) \subseteq 1 .. n
        /\ \A j \in 1 .. (i - 1) : j # i
    BY <1>1
  <2>3. /\ Before(i) = Before(i - 1) \cup {rules[i].name}
        /\ {rules[j] : j \in 1 .. i} = {rules[j] : j \in 1 .. (i - 1)} \cup {rules[i]}
        /\ \A x \in {rules[j] : j \in 1 .. (i - 1)} : x.name # rules[i].name
    BY <1>1, <2>2
  <2>4. /\ Distinct(r[i].rules)
        /\ ToSet(r[i].rules) = Without(r[i - 1].rules, {rules[i].name}) \cup {rules[i]}
        /\ \A name : Texts(r[i].messages, name) =
                       IF name = rules[i].name /\ Truthy(message) THEN {message}
                       ELSE Texts(r[i - 1].messages, name)
    <3>1. r[i] = setValidationValues(r[i - 1], message, rules[i])
      BY <1>3
    <3>2. Distinct(r[i - 1].rules)
      BY <2>1
    <3> DEFINE s == r[i - 1]
               x == rules[i]
    <3>3. r[i] = setValidationValues(s, message, x) /\ Distinct(s.rules)
      BY <3>1, <3>2
    <3> HIDE DEF s, x
    <3>4. /\ Distinct(r[i].rules)
          /\ ToSet(r[i].rules) = With(s.rules, x)
          /\ \A name : Texts(r[i].messages, name) = SaidOf(s.messages, name, x.name, message)
      BY <3>3, SetOne
    <3> QED
      BY <3>4 DEF s, x, With, Without, SaidOf
  <2> HIDE DEF Before
  <2>5. ToSet(r[i].rules) = Without(result.rules, Before(i))
                              \cup {rules[j] : j \in 1 .. i}
    BY <2>1, <2>3, <2>4 DEF Without
  <2>6. ASSUME NEW name
        PROVE  Texts(r[i].messages, name) =
                 IF name \in Before(i) /\ Truthy(message) THEN {message}
                 ELSE Texts(result.messages, name)
    BY <2>1, <2>3, <2>4
  <2>7. Good(i)
    BY <2>4, <2>5, <2>6
  <2> HIDE DEF Good
  <2> QED
    BY <2>0, <2>7
<1> HIDE DEF S
<1>6. 0 .. n \subseteq S
  BY <1>1, <1>4, <1>5, UpTo
<1>7. Good(n)
  <2> HIDE DEF Good
  <2>1. n \in S
    BY <1>1, <1>6
  <2> QED
    BY <2>1 DEF S
<1>8. Before(n) = RuleNames(rules) /\ {rules[j] : j \in 1 .. n} = ToSet(rules)
  BY <1>1 DEF RuleNames, ToSet
<1>9. /\ Distinct(r[n].rules)
      /\ ToSet(r[n].rules) = Without(result.rules, Before(n)) \cup {rules[j] : j \in 1 .. n}
      /\ \A name : Texts(r[n].messages, name) =
                     IF name \in Before(n) /\ Truthy(message) THEN {message}
                     ELSE Texts(result.messages, name)
  BY <1>7, Zenon
<1>10. r[n] = set
  BY <1>2
<1> HIDE DEF Before
<1> QED
  BY <1>8, <1>9, <1>10 DEF WithAll, SaidOfAll, Without

\* The rules that an adapter sets for an element: none if it is not asked.
Writes(a, element, inputs) ==
    IF a.name \in DOMAIN element.attrs THEN Adapt(a, element, inputs) ELSE <<>>
MessageOf(a, element) == element.attrs[a.name].message

LEMMA AdaptedSets ==
    ASSUME NEW additional \in BOOLEAN, NEW a \in Registered(additional),
           NEW element, NEW inputs, NEW result, Distinct(result.rules),
           NEW set, set = Adapted(result, a, element, inputs)
    PROVE  /\ Distinct(set.rules)
           /\ ToSet(set.rules) = WithAll(result.rules, Writes(a, element, inputs))
           /\ \A n : Texts(set.messages, n)
                       = SaidOfAll(result.messages, n, Writes(a, element, inputs),
                                   MessageOf(a, element))
<1> DEFINE rules == Adapt(a, element, inputs)
           message == MessageOf(a, element)
<1>1. CASE a.name \in DOMAIN element.attrs
  <2>1. Distinct(rules)
    BY AdaptDistinct
  <2>2. set = SetAll(result, message, rules)
    BY <1>1 DEF Adapted, MessageOf
  <2>3. Writes(a, element, inputs) = rules
    BY <1>1 DEF Writes
  <2> HIDE DEF rules, message
  <2>4. /\ Distinct(set.rules)
        /\ ToSet(set.rules) = WithAll(result.rules, rules)
        /\ \A n : Texts(set.messages, n) = SaidOfAll(result.messages, n, rules, message)
    BY <2>1, <2>2, SetEach
  <2> QED
    BY <2>3, <2>4 DEF message
<1>2. CASE a.name \notin DOMAIN element.attrs
  <2>1. set = result /\ Writes(a, element, inputs) = <<>>
    BY <1>2 DEF Adapted, Writes
  <2>2. RuleNames(<<>>) = {} /\ ToSet(<<>>) = {}
    BY DEF RuleNames, ToSet
  <2> QED
    BY <2>1, <2>2 DEF WithAll, SaidOfAll
<1> QED
  BY <1>1, <1>2

\* The rules of the adapters up to a place that no later one, up to another
\* place, sets again; and the messages that the last one with a message left.
LastSets(element, inputs, list, i) ==
    {x \in UNION {ToSet(Writes(list[j], element, inputs)) : j \in 1 .. i} :
        \E j \in 1 .. i :
           /\ x \in ToSet(Writes(list[j], element, inputs))
           /\ \A k \in 1 .. i : k > j => x.name \notin RuleNames(Writes(list[k], element, inputs))}

Sayers(element, inputs, list, i, n) ==
    {j \in 1 .. i : /\ n \in RuleNames(Writes(list[j], element, inputs))
                    /\ Truthy(MessageOf(list[j], element))}

LastSaid(element, inputs, list, i, n, texts) ==
    LET T == Sayers(element, inputs, list, i, n)
    IN  IF T = {} THEN texts = {}
        ELSE \E j \in T : (\A k \in T : k <= j) /\ texts = {MessageOf(list[j], element)}

LEMMA LastSetsStep ==
    ASSUME NEW element, NEW inputs, NEW list, NEW i \in Nat \ {0}, NEW before, NEW after,
           ToSet(before) = LastSets(element, inputs, list, i - 1),
           ToSet(after) = WithAll(before, Writes(list[i], element, inputs))
    PROVE  ToSet(after) = LastSets(element, inputs, list, i)
<1> DEFINE W(j) == Writes(list[j], element, inputs)
<1>1. /\ \A j \in 1 .. i : j \in 1 .. (i - 1) \/ j = i
      /\ \A j \in 1 .. (i - 1) : j \in 1 .. i /\ i > j
      /\ i \in 1 .. i /\ \A k \in 1 .. i : ~(k > i)
  OBVIOUS
<1>2. \A x : x \in LastSets(element, inputs, list, i) <=>
                \E j \in 1 .. i : /\ x \in ToSet(W(j))
                                  /\ \A k \in 1 .. i : k > j => x.name \notin RuleNames(W(k))
  BY DEF LastSets
<1>3. \A x : x \in LastSets(element, inputs, list, i - 1) <=>
                \E j \in 1 .. (i - 1) :
                   /\ x \in ToSet(W(j))
                   /\ \A k \in 1 .. (i - 1) : k > j => x.name \notin RuleNames(W(k))
  BY DEF LastSets
<1>4. \A x : x \in ToSet(after) <=>
                \/ x \in ToSet(before) /\ x.name \notin RuleNames(W(i))
                \/ x \in ToSet(W(i))
  BY DEF WithAll
<1> HIDE DEF W
<1>5. \A x : x \in ToSet(after) <=> x \in LastSets(element, inputs, list, i)
  BY <1>1, <1>2, <1>3, <1>4
<1> QED
  BY <1>5

LEMMA LastSaidStep ==
    ASSUME NEW element, NEW inputs, NEW list, NEW i \in Nat \ {0}, NEW n,
           NEW messages, NEW texts,
           LastSaid(element, inputs, list, i - 1, n, Texts(messages, n)),
           texts = SaidOfAll(messages, n, Writes(list[i], element, inputs),
                             MessageOf(list[i], element))
    PROVE  LastSaid(element, inputs, list, i, n, texts)
<1> DEFINE T == Sayers(element, inputs, list, i, n)
           S == Sayers(element, inputs, list, i - 1, n)
<1>1. 1 .. i = 1 .. (i - 1) \cup {i} /\ \A j \in 1 .. i : j <= i
  OBVIOUS
<1>2. CASE n \in RuleNames(Writes(list[i], element, inputs)) /\ Truthy(MessageOf(list[i], element))
  <2>1. i \in T /\ \A k \in T : k <= i
    BY <1>1, <1>2 DEF Sayers
  <2>2. texts = {MessageOf(list[i], element)}
    BY <1>2 DEF SaidOfAll
  <2> HIDE DEF T
  <2> QED
    BY <2>1, <2>2 DEF LastSaid, T
<1>3. CASE ~(n \in RuleNames(Writes(list[i], element, inputs)) /\ Truthy(MessageOf(list[i], element)))
  <2>1. T = S
    BY <1>1, <1>3 DEF Sayers
  <2>2. texts = Texts(messages, n)
    BY <1>3 DEF SaidOfAll
  <2> QED
    BY <2>1, <2>2 DEF LastSaid
<1> QED
  BY <1>2, <1>3

\* The loop over the adapters.
LEMMA AdaptedAll ==
    ASSUME NEW additional \in BOOLEAN, NEW element, NEW inputs, NEW list, NEW n \in Nat,
           DOMAIN list = 1 .. n, \A i \in 1 .. n : list[i] \in Registered(additional),
           NEW result,
           result = Looped("adapters", [element |-> element, inputs |-> inputs], NoRules,
                           list)[DOMAIN list]
    PROVE  /\ Distinct(result.rules)
           /\ ToSet(result.rules) = LastSets(element, inputs, list, n)
           /\ \A name : LastSaid(element, inputs, list, n, name, Texts(result.messages, name))
<1> DEFINE ctx == [element |-> element, inputs |-> inputs]
<1>1. PICK r : /\ r[0] = NoRules
               /\ \A i \in 1 .. n : r[i] = Loop("adapters", ctx, r[i - 1], list[i])
               /\ r[n] = result
  <2>1. n \in Nat /\ DOMAIN list = 1 .. n
    OBVIOUS
  <2>2. result = Looped("adapters", ctx, NoRules, list)[DOMAIN list]
    OBVIOUS
  <2> HIDE DEF ctx
  <2>3. \E r : /\ r[0] = NoRules
               /\ \A i \in 1 .. n : r[i] = Loop("adapters", ctx, r[i - 1], list[i])
               /\ r[n] = result
    BY ONLY <2>1, <2>2, LoopSteps
  <2> QED
    BY <2>3
<1>2. \A i \in 1 .. n : r[i] = Adapted(r[i - 1], list[i], element, inputs)
  BY <1>1 DEF Loop
<1> DEFINE Good(i) ==
       /\ Distinct(r[i].rules)
       /\ ToSet(r[i].rules) = LastSets(element, inputs, list, i)
       /\ \A name : LastSaid(element, inputs, list, i, name, Texts(r[i].messages, name))
           S == {i \in 0 .. n : Good(i)}
<1>3. Good(0)
  <2>1. r[0].rules = <<>> /\ r[0].messages = {}
    BY <1>1 DEF NoRules
  <2>2. 1 .. 0 = {}
    OBVIOUS
  <2>3. LastSets(element, inputs, list, 0) = {}
    BY <2>2 DEF LastSets
  <2>4. \A name : Sayers(element, inputs, list, 0, name) = {} /\ Texts({}, name) = {}
    BY <2>2 DEF Sayers, Texts
  <2> QED
    BY <2>1, <2>3, <2>4, NoneDistinct DEF LastSaid
<1>4. ASSUME NEW i \in 1 .. n, Good(i - 1) PROVE Good(i)
  <2> DEFINE s == r[i - 1]
             t == r[i]
             a == list[i]
  <2>0. i \in Nat \ {0}
    OBVIOUS
  <2>1. t = Adapted(s, a, element, inputs) /\ a \in Registered(additional)
    BY <1>2
  <2>2. /\ Distinct(s.rules)
        /\ ToSet(s.rules) = LastSets(element, inputs, list, i - 1)
        /\ \A name : LastSaid(element, inputs, list, i - 1, name, Texts(s.messages, name))
    BY <1>4, Zenon
  <2> HIDE DEF s, t
  <2> SUFFICES /\ Distinct(t.rules)
               /\ ToSet(t.rules) = LastSets(element, inputs, list, i)
               /\ \A name : LastSaid(element, inputs, list, i, name, Texts(t.messages, name))
    BY Zenon DEF t
  <2> HIDE DEF a
  <2>3. /\ Distinct(t.rules)
        /\ ToSet(t.rules) = WithAll(s.rules, Writes(a, element, inputs))
        /\ \A name : Texts(t.messages, name)
                       = SaidOfAll(s.messages, name, Writes(a, element, inputs),
                                   MessageOf(a, element))
    BY <2>1, <2>2, AdaptedSets
  <2>4. ToSet(t.rules) = LastSets(element, inputs, list, i)
    BY <2>0, <2>2, <2>3, LastSetsStep DEF a
  <2>5. ASSUME NEW name
        PROVE  LastSaid(element, inputs, list, i, name, Texts(t.messages, name))
    BY <2>0, <2>2, <2>3, LastSaidStep DEF a
  <2> QED
    BY <2>3, <2>4, <2>5
<1> HIDE DEF Good
<1>5. 0 .. n \subseteq S
  <2>1. 0 \in S
    BY <1>3
  <2>2. ASSUME NEW i \in 1 .. n, i - 1 \in S PROVE i \in S
    BY <1>4, <2>2
  <2> HIDE DEF S
  <2> QED
    BY <2>1, <2>2, UpTo
<1>6. Good(n)
  BY <1>5
<1> QED
  BY <1>1, <1>6 DEF Good

LEMMA Dummy == LET d == Rule("__dummy__", TRUE) IN d.name = "__dummy__" /\ d.value = TRUE
<1>1. "__dummy__" # Undefined
  BY NamesDefined DEF Names
<1> QED
  BY <1>1, RuleFields

\* What parsing an element leaves.
LEMMA RulesOfElement ==
    ASSUME NEW additional \in BOOLEAN, NEW element, NEW inputs,
           NEW list, list = adapters[additional],
           NEW result, result = RulesOf(element, inputs, additional)
    PROVE  /\ Distinct(result.rules)
           /\ \A x \in ToSet(result.rules) :
                 x = Rule("__dummy__", TRUE) \/ x \in LastSets(element, inputs, list, Len(list))
           /\ \A x \in LastSets(element, inputs, list, Len(list)) :
                 x.name # "__dummy__" => x \in ToSet(result.rules)
           /\ Rule("__dummy__", TRUE) \in ToSet(result.rules)
           /\ \A n : LastSaid(element, inputs, list, Len(list), n, Texts(result.messages, n))
<1> DEFINE ctx == [element |-> element, inputs |-> inputs]
           adapted == Looped("adapters", ctx, NoRules, list)[DOMAIN list]
           dummy == Rule("__dummy__", TRUE)
<1>1. /\ Len(list) \in Nat /\ DOMAIN list = 1 .. Len(list)
      /\ \A i \in 1 .. Len(list) : list[i] \in Registered(additional)
  BY AdaptersListed
<1>2. FoldLeft(LAMBDA res, adapter : Adapted(res, adapter, element, inputs), NoRules,
               adapters[additional]) = adapted
  BY LoopsAreFolds
<1>3. result = [rules |-> PutRule(adapted.rules, dummy), messages |-> adapted.messages]
  BY <1>2 DEF RulesOf
<1>4. /\ Distinct(adapted.rules)
      /\ ToSet(adapted.rules) = LastSets(element, inputs, list, Len(list))
      /\ \A n : LastSaid(element, inputs, list, Len(list), n, Texts(adapted.messages, n))
  <2> DEFINE k == Len(list)
             a == adapted
  <2>1. /\ k \in Nat /\ DOMAIN list = 1 .. k
        /\ \A i \in 1 .. k : list[i] \in Registered(additional)
        /\ a = Looped("adapters", [element |-> element, inputs |-> inputs], NoRules,
                      list)[DOMAIN list]
    BY <1>1
  <2> HIDE DEF k, a
  <2>2. /\ Distinct(a.rules)
        /\ ToSet(a.rules) = LastSets(element, inputs, list, k)
        /\ \A n : LastSaid(element, inputs, list, k, n, Texts(a.messages, n))
    BY ONLY <2>1, AdaptedAll, additional \in BOOLEAN
  <2> QED
    BY <2>2 DEF k, a
<1> HIDE DEF adapted, dummy
<1>5. result.rules = PutRule(adapted.rules, dummy) /\ result.messages = adapted.messages
  BY <1>3
<1>6. /\ Distinct(result.rules)
      /\ ToSet(result.rules) = {x \in ToSet(adapted.rules) : x.name # dummy.name} \cup {dummy}
  BY <1>4, <1>5, Put
<1>7. dummy.name = "__dummy__"
  BY Dummy DEF dummy
<1> QED
  BY <1>4, <1>5, <1>6, <1>7 DEF dummy

\* The copy of the rules has those with a value, in some order.
LEMMA CopiedRules ==
    ASSUME NEW rules, Distinct(rules), NEW copy, copy = Copied(rules)
    PROVE  /\ Len(copy) \in Nat /\ DOMAIN copy = 1 .. Len(copy)
           /\ ToSet(copy) = {x \in ToSet(rules) : x.value # Undefined}
<1> DEFINE n == Len(rules)
           A == ToSet(rules)
<1>1. n \in Nat /\ DOMAIN rules = 1 .. n /\ \A i \in 1 .. n : rules[i] \in A
  BY DEF Distinct, ToSet
<1>2. copy = Looped("copy", Undefined, <<>>, rules)[DOMAIN rules]
  BY LoopsAreFolds
<1> HIDE DEF n, A
<1>3. PICK r : /\ r[0] = <<>>
               /\ \A i \in 1 .. n : r[i] = Loop("copy", Undefined, r[i - 1], rules[i])
               /\ r[n] = copy
  <2>1. \E r : /\ r[0] = <<>>
               /\ \A i \in 1 .. n : r[i] = Loop("copy", Undefined, r[i - 1], rules[i])
               /\ r[n] = copy
    BY <1>1, <1>2, LoopSteps
  <2> QED
    BY <2>1
<1>4. \A i \in 1 .. n : r[i] = IF rules[i].value = Undefined THEN r[i - 1]
                               ELSE Append(r[i - 1], rules[i])
  BY <1>3 DEF Loop
<1> DEFINE Valued(i) == {rules[j] : j \in {j \in 1 .. i : rules[j].value # Undefined}}
           Good(i) == r[i] \in Seq(A) /\ ToSet(r[i]) = Valued(i)
           S == {i \in 0 .. n : Good(i)}
<1>5. Good(0)
  <2>1. 1 .. 0 = {}
    OBVIOUS
  <2>2. Valued(0) = {}
    BY <2>1
  <2> QED
    BY <1>3, <2>2, NoneDistinct
<1>6. ASSUME NEW i \in 1 .. n, Good(i - 1) PROVE Good(i)
  <2> DEFINE s == r[i - 1]
             t == r[i]
             x == rules[i]
  <2>1. t = IF x.value = Undefined THEN s ELSE Append(s, x)
    BY <1>4
  <2>2. s \in Seq(A) /\ ToSet(s) = Valued(i - 1) /\ x \in A
    BY <1>1, <1>6, Zenon
  <2>3. Valued(i) = IF x.value = Undefined THEN Valued(i - 1) ELSE Valued(i - 1) \cup {x}
    <3>1. 1 .. i = 1 .. (i - 1) \cup {i}
      BY <1>1
    <3> QED
      BY <3>1
  <2> HIDE DEF s, t, x, Valued
  <2>4. CASE x.value = Undefined
    <3>1. t \in Seq(A) /\ ToSet(t) = Valued(i)
      BY <2>1, <2>2, <2>3, <2>4
    <3> QED
      BY <3>1 DEF t
  <2>5. CASE x.value # Undefined
    <3>1. t = Append(s, x)
      BY <2>1, <2>5
    <3>2. /\ t \in Seq(A) /\ Len(t) = Len(s) + 1 /\ t[Len(s) + 1] = x
          /\ \A j \in 1 .. Len(s) : t[j] = s[j]
      BY <2>2, <3>1
    <3>3. Len(s) \in Nat /\ DOMAIN s = 1 .. Len(s) /\ DOMAIN t = 1 .. Len(t)
      BY <2>2, <3>2
    <3> DEFINE m == Len(s)
    <3>4. m \in Nat /\ DOMAIN s = 1 .. m /\ DOMAIN t = 1 .. (m + 1)
          /\ t[m + 1] = x /\ \A j \in 1 .. m : t[j] = s[j]
      BY <3>2, <3>3
    <3> HIDE DEF m
    <3>5. 1 .. (m + 1) = 1 .. m \cup {m + 1}
      BY <3>4
    <3>6. ToSet(t) = ToSet(s) \cup {x}
      BY <3>4, <3>5 DEF ToSet
    <3>7. t \in Seq(A) /\ ToSet(t) = Valued(i)
      BY <2>2, <2>3, <2>5, <3>2, <3>6
    <3> QED
      BY <3>7 DEF t
  <2> QED
    BY <2>4, <2>5
<1> HIDE DEF Good
<1>7. 0 .. n \subseteq S
  <2>1. 0 \in S
    BY <1>1, <1>5
  <2>2. ASSUME NEW i \in 1 .. n, i - 1 \in S PROVE i \in S
    BY <1>1, <1>6, <2>2
  <2> HIDE DEF S
  <2> QED
    BY <1>1, <2>1, <2>2, UpTo
<1>8. Good(n)
  BY <1>1, <1>7
<1>9. Valued(n) = {x \in ToSet(rules) : x.value # Undefined}
  BY <1>1 DEF ToSet
<1>10. copy \in Seq(A) /\ ToSet(copy) = {x \in ToSet(rules) : x.value # Undefined}
  BY <1>3, <1>8, <1>9 DEF Good
<1> QED
  BY <1>10

\* Of some numbers up to n, there is a first and a last one.
LEMMA Ends ==
    ASSUME NEW n \in Nat, NEW S, S \subseteq 1 .. n, S # {}
    PROVE  /\ \E m \in S : \A y \in S : m <= y
           /\ \E m \in S : \A y \in S : m >= y
<1>1. \E m \in S : \A y \in S : m <= y
  <2>1. PICK m \in S : \A y \in S : ~(<<y, m>> \in OpToRel(<, Nat))
    <3>1. S \subseteq Nat
      OBVIOUS
    <3> QED
      BY <3>1, NatLessThanWellFounded, WFMin, Zenon
  <2>2. ASSUME NEW y \in S PROVE m <= y
    <3>1. y < m => <<y, m>> \in OpToRel(<, Nat)
      BY DEF OpToRel
    <3>2. ~(y < m)
      BY <2>1, <3>1
    <3>3. y \in 1 .. n /\ m \in 1 .. n
      OBVIOUS
    <3> QED
      BY <3>2, <3>3
  <2> QED
    BY <2>2
<1>2. \E m \in S : \A y \in S : m >= y
  <2> DEFINE T == {n - y : y \in S}
  <2>1. PICK d \in T : \A y \in T : ~(<<y, d>> \in OpToRel(<, Nat))
    <3>0. \A y \in S : y \in 1 .. n /\ n - y \in Nat
      OBVIOUS
    <3>1. T \subseteq Nat /\ T # {}
      BY <3>0
    <3> HIDE DEF T
    <3> QED
      BY <3>1, NatLessThanWellFounded, WFMin, Zenon
  <2>2. PICK m \in S : d = n - m
    OBVIOUS
  <2>3. ASSUME NEW y \in S PROVE m >= y
    <3>1. n - y \in T /\ n - y \in Nat /\ n - m \in Nat
      OBVIOUS
    <3>2. n - y < n - m => <<n - y, n - m>> \in OpToRel(<, Nat)
      BY <3>1 DEF OpToRel
    <3>3. ~(n - y < n - m)
      BY <2>1, <2>2, <3>1, <3>2
    <3>4. m \in 1 .. n /\ y \in 1 .. n
      OBVIOUS
    <3> HIDE DEF T
    <3> QED
      BY <3>3, <3>4
  <2> QED
    BY <2>3
<1> QED
  BY <1>1, <1>2

-----------------------------------------------------------------------------
(* What parsing has left                                                     *)

\* The inputs that the form may have had when a field was parsed: those of the
\* loaded page at least.
InputSets == {S \in SUBSET Fields : Fields \ (page.late \cup page.outside) \subseteq S}

PresentInv == Fields \ page.late \subseteq present /\ (attached <=> handlers = 1)

OptionsInv ==
    /\ DOMAIN options \subseteq Fields
    /\ \A f \in DOMAIN options :
          \E S \in InputSets : options[f] = RulesOf(Element(f), S, page.additional)

\* The validator has no rules for a field, or those of one time it was parsed.
SettingsInv ==
    \A f \in Fields :
        \/ settings[f] = <<>>
        \/ \E S \in InputSets :
              settings[f] = Copied(RulesOf(Element(f), S, page.additional).rules)

\* Where no script parses, an attached validator has rules for all that was there.
AttachedInv ==
    page.scripted = {} /\ attached =>
        \A f \in (Fields \ page.outside) \ page.late :
            DOMAIN page.attrs[f] # {} => settings[f] # <<>>

ParseInv == PresentInv /\ OptionsInv /\ SettingsInv /\ AttachedInv

LEMMA InFormInputs == ASSUME TypeOK, PresentInv PROVE InForm \in InputSets
BY DEF TypeOK, PresentInv, InForm, InputSets

\* A copy of the rules of a field is never empty.
LEMMA CopiedDummy ==
    ASSUME NEW additional \in BOOLEAN, NEW element, NEW inputs
    PROVE  LET copy == Copied(RulesOf(element, inputs, additional).rules)
           IN  Rule("__dummy__", TRUE) \in ToSet(copy) /\ copy # <<>>
<1> DEFINE rules == RulesOf(element, inputs, additional).rules
           copy == Copied(rules)
           dummy == Rule("__dummy__", TRUE)
<1>1. Distinct(rules) /\ dummy \in ToSet(rules)
  BY RulesOfElement
<1>2. dummy.value # Undefined
  BY Dummy, PagesAssumption
<1> HIDE DEF rules, dummy
<1>3. dummy \in ToSet(copy)
  BY <1>1, <1>2, CopiedRules
<1> HIDE DEF copy
<1>4. copy # <<>>
  BY <1>3, NoneDistinct
<1> QED
  BY <1>3, <1>4 DEF copy, rules, dummy

LEMMA ParseInvInit == Init => ParseInv
<1> SUFFICES ASSUME Init PROVE ParseInv
  OBVIOUS
<1>1. PresentInv
  BY DEF Init, PresentInv
<1>2. DOMAIN options = {}
  BY DEF Init
<1>3. OptionsInv
  BY <1>2 DEF OptionsInv
<1>4. SettingsInv
  BY DEF Init, SettingsInv
<1>5. AttachedInv
  BY DEF Init, AttachedInv
<1> QED
  BY <1>1, <1>3, <1>4, <1>5 DEF ParseInv

\* Parsing some of the elements that are there.
LEMMA ParseElementsKeeps ==
    ASSUME TypeOK, ParseInv, page' = page, NEW S, ParseElements(S)
    PROVE  /\ OptionsInv'
           /\ DOMAIN options' = DOMAIN options \cup (S \cap InForm)
<1>1. /\ DOMAIN options' = DOMAIN options \cup (S \cap InForm)
      /\ \A f \in DOMAIN options' :
            options'[f] = IF f \in S \cap InForm
                          THEN RulesOf(Element(f), InForm, page.additional) ELSE options[f]
  BY DEF ParseElements
<1>2. DOMAIN options' \subseteq Fields
  BY <1>1 DEF ParseInv, OptionsInv, InForm, TypeOK
<1>3. ASSUME NEW f \in DOMAIN options'
      PROVE  \E T \in InputSets : options'[f] = RulesOf(Element(f), T, page.additional)
  <2>1. CASE f \in S \cap InForm
    BY <1>1, <2>1, InFormInputs DEF ParseInv
  <2>2. CASE f \notin S \cap InForm
    BY <1>1, <2>2 DEF ParseInv, OptionsInv
  <2> QED
    BY <2>1, <2>2
<1>4. InputSets' = InputSets /\ \A f : Element(f)' = Element(f)
  BY DEF InputSets, Element
<1>5. OptionsInv'
  <2>1. \A f \in DOMAIN options' :
           \E T \in InputSets' : options'[f] = RulesOf(Element(f)', T, page.additional)
    BY <1>3, <1>4
  <2> QED
    BY <1>2, <1>4, <2>1, Zenon DEF OptionsInv, Element
<1> QED
  BY <1>1, <1>5

\* Attaching the validator.
LEMMA AttachKeeps ==
    ASSUME TypeOK, ParseInv, page' = page, OptionsInv', Attach
    PROVE  /\ SettingsInv'
           /\ attached' /\ handlers' = 1
           /\ \A f \in DOMAIN options' : ~attached => settings'[f] # <<>>
<1>0. page.additional \in BOOLEAN
  BY PagesAssumption DEF TypeOK
<1>1. InputSets' = InputSets /\ \A f : Element(f)' = Element(f)
  BY DEF InputSets, Element
<1>2. /\ DOMAIN options' \subseteq Fields
      /\ \A f \in DOMAIN options' :
          \E S \in InputSets : options'[f] = RulesOf(Element(f), S, page.additional)
  BY <1>1, Zenon DEF OptionsInv, Element
<1>3. ASSUME NEW f \in Fields
      PROVE  \/ settings'[f] = <<>>
             \/ \E S \in InputSets :
                   settings'[f] = Copied(RulesOf(Element(f), S, page.additional).rules)
  <2>1. CASE attached
    BY <2>1 DEF Attach, ParseInv, SettingsInv
  <2>2. CASE ~attached /\ f \in DOMAIN options'
    <3>1. settings'[f] = Copied(options'[f].rules)
      BY <2>2 DEF Attach
    <3>2. PICK S \in InputSets : options'[f] = RulesOf(Element(f), S, page.additional)
      BY <1>2, <2>2
    <3> QED
      BY <3>1, <3>2
  <2>3. CASE ~attached /\ f \notin DOMAIN options'
    BY <2>3 DEF Attach
  <2> QED
    BY <2>1, <2>2, <2>3
<1>4. SettingsInv'
  BY <1>1, <1>3, Zenon DEF SettingsInv, Element
<1>5. ASSUME NEW f \in DOMAIN options', ~attached PROVE settings'[f] # <<>>
  <2>1. settings'[f] = Copied(options'[f].rules)
    BY <1>2, <1>5 DEF Attach
  <2>2. PICK S \in InputSets : options'[f] = RulesOf(Element(f), S, page.additional)
    BY <1>2
  <2>3. Copied(RulesOf(Element(f), S, page.additional).rules) # <<>>
    BY <1>0, CopiedDummy
  <2> QED
    BY <2>1, <2>2, <2>3
<1> QED
  BY <1>4, <1>5 DEF Attach

\* The steps that parse nothing.
LEMMA NothingParsed ==
    ASSUME ParseInv, UNCHANGED <<page, options, handlers, attached, settings>>,
           present \subseteq present'
    PROVE  ParseInv'
<1>1. InputSets' = InputSets /\ \A f : Element(f)' = Element(f)
  BY DEF InputSets, Element
<1>2. PresentInv'
  BY DEF ParseInv, PresentInv
<1>3. OptionsInv'
  BY <1>1, Zenon DEF ParseInv, OptionsInv, Element
<1>4. SettingsInv'
  BY <1>1, Zenon DEF ParseInv, SettingsInv, Element
<1>5. AttachedInv'
  BY DEF ParseInv, AttachedInv
<1> QED
  BY <1>2, <1>3, <1>4, <1>5 DEF ParseInv

\* Parsing the page.
LEMMA ParseKeeps == ASSUME TypeOK, ParseInv, Parse PROVE ParseInv'
<1>1. page' = page /\ present' = present /\ ParseElements(Marked)
  BY DEF Parse, pageVars
<1>2. OptionsInv' /\ DOMAIN options' = DOMAIN options \cup (Marked \cap InForm)
  BY <1>1, ParseElementsKeeps
<1>3. CASE Marked \cap InForm = {}
  <2>1. UNCHANGED <<handlers, attached, settings>>
    BY <1>3 DEF Parse
  <2>2. InputSets' = InputSets /\ \A f : Element(f)' = Element(f)
    BY <1>1 DEF InputSets, Element
  <2>3. SettingsInv'
    BY <1>1, <2>1, <2>2, Zenon DEF ParseInv, SettingsInv, Element
  <2>4. PresentInv' /\ AttachedInv'
    BY <1>1, <2>1 DEF ParseInv, PresentInv, AttachedInv
  <2> QED
    BY <1>2, <2>3, <2>4 DEF ParseInv
<1>4. CASE Marked \cap InForm # {}
  <2>1. Attach
    BY <1>4 DEF Parse
  <2>2. /\ SettingsInv'
        /\ attached' /\ handlers' = 1
        /\ \A f \in DOMAIN options' : ~attached => settings'[f] # <<>>
    BY <1>1, <1>2, <2>1, AttachKeeps
  <2>3. PresentInv'
    BY <1>1, <2>2 DEF ParseInv, PresentInv
  <2>4. AttachedInv'
    <3> SUFFICES ASSUME page.scripted = {}, NEW f \in (Fields \ page.outside) \ page.late,
                        DOMAIN page.attrs[f] # {}
                 PROVE  settings'[f] # <<>>
      BY <1>1 DEF AttachedInv
    <3>1. CASE attached
      BY <2>1, <3>1 DEF Attach, ParseInv, AttachedInv
    <3>2. CASE ~attached
      <4>1. f \in Marked \cap InForm
        BY DEF Marked, InForm, ParseInv, PresentInv
      <4> QED
        BY <1>2, <2>2, <3>2, <4>1
    <3> QED
      BY <3>1, <3>2
  <2> QED
    BY <1>2, <2>2, <2>3, <2>4 DEF ParseInv
<1> QED
  BY <1>3, <1>4

\* A script that parses one element.
LEMMA ParseElementKeeps ==
    ASSUME TypeOK, ParseInv, NEW e \in Fields, ParseElement(e) PROVE ParseInv'
<1>1. page' = page /\ present' = present /\ ParseElements({e}) /\ page.scripted # {}
  BY DEF ParseElement, pageVars
<1>2. OptionsInv'
  BY <1>1, ParseElementsKeeps
<1>3. AttachedInv'
  BY <1>1 DEF AttachedInv
<1>4. CASE UNCHANGED <<handlers, attached, settings>>
  <2>1. InputSets' = InputSets /\ \A f : Element(f)' = Element(f)
    BY <1>1 DEF InputSets, Element
  <2>2. SettingsInv'
    BY <1>1, <1>4, <2>1, Zenon DEF ParseInv, SettingsInv, Element
  <2>3. PresentInv'
    BY <1>1, <1>4 DEF ParseInv, PresentInv
  <2> QED
    BY <1>2, <1>3, <2>2, <2>3 DEF ParseInv
<1>5. CASE Attach
  <2>1. SettingsInv' /\ attached' /\ handlers' = 1
    BY <1>1, <1>2, <1>5, AttachKeeps
  <2>2. PresentInv'
    BY <1>1, <2>1 DEF ParseInv, PresentInv
  <2> QED
    BY <1>2, <1>3, <2>1, <2>2 DEF ParseInv
<1> QED
  BY <1>4, <1>5 DEF ParseElement

LEMMA ParseInvStep == TypeOK /\ ParseInv /\ [Next]_vars => ParseInv'
<1> SUFFICES ASSUME TypeOK, ParseInv, [Next]_vars PROVE ParseInv'
  OBVIOUS
<1>1. CASE Parse
  BY <1>1, ParseKeeps
<1>2. ASSUME NEW f \in Fields, ParseElement(f) PROVE ParseInv'
  BY <1>2, ParseElementKeeps
<1>3. ASSUME NEW f \in Fields,
             \/ Insert(f) \/ Edit(f) \/ CheckField(f)
             \/ AnswerAccepted(f) \/ AnswerSends(f) \/ AnswerThrows(f)
             \/ AnswerRefused(f) \/ AnswerLost(f)
      PROVE  ParseInv'
  <2>1. UNCHANGED <<page, options, handlers, attached, settings>> /\ present \subseteq present'
    BY <1>3 DEF Insert, Edit, CheckField, AnswerAccepted, AnswerSends, AnswerThrows,
                AnswerRefused, AnswerLost, pageVars, parseVars
  <2> QED
    BY <2>1, NothingParsed
<1>4. CASE \/ Submit \/ SubmitThrows \/ SubmitCancelled \/ SubmitUnattached
           \/ Validate \/ ValidateThrows \/ Reset \/ NestedReset \/ ResetEnds \/ UNCHANGED vars
  <2>1. UNCHANGED <<page, options, handlers, attached, settings>> /\ present \subseteq present'
    BY <1>4 DEF Submit, SubmitThrows, SubmitCancelled, SubmitUnattached, Validate,
                ValidateThrows, Reset, NestedReset, ResetEnds, vars, pageVars, parseVars
  <2> QED
    BY <2>1, NothingParsed
<1> QED
  BY <1>1, <1>2, <1>3, <1>4, Zenon DEF Next

LEMMA ParseInvariant == Spec => []ParseInv
<1>1. Init => ParseInv
  BY ParseInvInit
<1>2. TypeOK /\ ParseInv /\ [Next]_vars => ParseInv'
  BY ParseInvStep
<1>3. Spec => []TypeOK
  BY TypeCorrect
<1> QED
  BY <1>1, <1>2, <1>3, PTL DEF Spec

\* The rules that the adapter at a place sets, whatever inputs it found.
LEMMA PlaceSets ==
    ASSUME TypeOK, NEW f \in Fields, NEW inputs, NEW i \in Places
    PROVE  /\ Sets(f, i) = RuleNames(Writes(Adapter(i), Element(f), inputs))
           /\ Sets(f, i) # {} => Adapter(i).name \in DOMAIN page.attrs[f]
           /\ Adapter(i) \in Registered(page.additional)
<1>0. page.additional \in BOOLEAN
  BY PagesAssumption DEF TypeOK
<1>1. Adapter(i) \in Registered(page.additional)
  BY <1>0, AdaptersListed DEF Adapter, Places
<1>2. Element(f).attrs = page.attrs[f]
  BY DEF Element
<1>3. CASE Adapter(i).name \notin DOMAIN page.attrs[f]
  <2>1. Sets(f, i) = {} /\ Writes(Adapter(i), Element(f), inputs) = <<>>
    BY <1>2, <1>3 DEF Sets, Writes
  <2>2. RuleNames(<<>>) = {}
    BY DEF RuleNames
  <2> QED
    BY <1>1, <2>1, <2>2
<1>4. CASE Adapter(i).name \in DOMAIN page.attrs[f]
  <2>1. Sets(f, i) = RuleNames(Adapt(Adapter(i), Element(f), InForm))
    BY <1>4 DEF Sets
  <2>2. Writes(Adapter(i), Element(f), inputs) = Adapt(Adapter(i), Element(f), inputs)
    BY <1>2, <1>4 DEF Writes
  <2>3. RuleNames(Adapt(Adapter(i), Element(f), InForm))
          = RuleNames(Adapt(Adapter(i), Element(f), inputs))
    BY <1>0, <1>1, AdaptDistinct
  <2> QED
    BY <1>1, <1>4, <2>1, <2>2, <2>3
<1> QED
  BY <1>3, <1>4

LEMMA OptionsFollow == TypeOK /\ OptionsInv => RulesFollowAttributes
<1> SUFFICES ASSUME TypeOK, OptionsInv, NEW f \in DOMAIN options,
                    NEW n \in RuleNames(options[f].rules) \ {"__dummy__"}
             PROVE  LET setters == {i \in Places : n \in Sets(f, i)}
                        texts(S) == {page.attrs[f][Adapter(i).name].message : i \in S} \ {Empty}
                        messages == {m.text : m \in {m \in options[f].messages : m.rule = n}}
                        last == texts({Max(setters)})
                    IN  IF last # {} THEN messages = last
                        ELSE messages \subseteq texts(setters) /\ Cardinality(messages) <= 1
  BY DEF RulesFollowAttributes
<1> DEFINE setters == {i \in Places : n \in Sets(f, i)}
           Said(i) == page.attrs[f][Adapter(i).name].message
           texts(S) == {Said(i) : i \in S} \ {Empty}
           messages == Texts(options[f].messages, n)
           last == texts({Max(setters)})
<1> SUFFICES IF last # {} THEN messages = last
             ELSE messages \subseteq texts(setters) /\ Cardinality(messages) <= 1
  BY DEF Texts
<1>0. page.additional \in BOOLEAN /\ f \in Fields /\ page \in Pages
  BY PagesAssumption DEF TypeOK, OptionsInv
<1> DEFINE list == adapters[page.additional]
           k == Len(list)
           e == Element(f)
<1>1. PICK inputs \in InputSets : options[f] = RulesOf(e, inputs, page.additional)
  BY DEF OptionsInv
<1>2. /\ k \in Nat /\ Places = 1 .. k
      /\ \A i \in Places : Adapter(i) = list[i]
  BY <1>0, AdaptersListed DEF Places, Adapter
<1> DEFINE writes(i) == Writes(list[i], e, inputs)
           T == Sayers(e, inputs, list, k, n)
<1>3. /\ \A x \in ToSet(options[f].rules) :
            x = Rule("__dummy__", TRUE) \/ x \in LastSets(e, inputs, list, k)
      /\ LastSaid(e, inputs, list, k, n, messages)
  BY <1>0, <1>1, RulesOfElement
<1>4. \A i \in Places : /\ Sets(f, i) = RuleNames(writes(i))
                        /\ Sets(f, i) # {} => Adapter(i).name \in DOMAIN page.attrs[f]
  BY <1>0, <1>2, PlaceSets
<1>5. \A i \in setters : Said(i) # Undefined /\ MessageOf(list[i], e) = Said(i)
  <2> SUFFICES ASSUME NEW i \in setters
               PROVE  Said(i) # Undefined /\ MessageOf(list[i], e) = Said(i)
    OBVIOUS
  <2>1. i \in Places /\ Sets(f, i) # {}
    OBVIOUS
  <2>2. Adapter(i).name \in DOMAIN page.attrs[f] /\ list[i] = Adapter(i)
    BY <1>2, <1>4, <2>1
  <2>3. Said(i) # Undefined
    BY <1>0, <2>2, PagesAssumption
  <2>4. MessageOf(list[i], e) = Said(i)
    BY <2>2 DEF MessageOf, Element
  <2> QED
    BY <2>3, <2>4
<1>6. setters # {}
  <2>1. PICK x \in ToSet(options[f].rules) : x.name = n
    BY NamesOfSet
  <2>2. x \in LastSets(e, inputs, list, k)
    BY <1>3, <2>1, Dummy
  <2>3. PICK j \in 1 .. k : x \in ToSet(writes(j))
    BY <2>2 DEF LastSets
  <2>4. n \in RuleNames(writes(j))
    BY <2>1, <2>3, NamesOfSet
  <2> QED
    BY <1>2, <1>4, <2>4
<1> HIDE DEF list, k, e, writes
<1>7. T = {i \in setters : Said(i) # Empty}
  <2>1. T = {j \in Places : n \in Sets(f, j) /\ Truthy(MessageOf(list[j], e))}
    BY <1>2, <1>4 DEF Sayers, writes
  <2> QED
    BY <1>5, <2>1 DEF Truthy
<1> DEFINE m == Max(setters)
<1>8. m \in setters /\ \A j \in setters : m >= j
  <2>1. \E x \in setters : \A j \in setters : x >= j
    <3>1. setters \subseteq 1 .. k
      BY <1>2
    <3> HIDE DEF setters
    <3> QED
      BY <1>2, <1>6, <3>1, Ends
  <2> HIDE DEF setters
  <2> QED
    BY <2>1 DEF Max
<1> HIDE DEF m, T, messages
<1>9. IF T = {} THEN messages = {}
      ELSE \E j \in T : (\A i \in T : i <= j) /\ messages = {Said(j)}
  <2>1. IF T = {} THEN messages = {}
        ELSE \E j \in T : (\A i \in T : i <= j) /\ messages = {MessageOf(list[j], e)}
    BY <1>3 DEF LastSaid, T
  <2> QED
    BY <1>5, <1>7, <2>1
<1>10. \A S : Cardinality({}) = 0 /\ Cardinality({S}) = 1
  BY FS_EmptySet, FS_Singleton
<1>11. \A i \in setters : i \in Nat
  BY <1>2
<1> HIDE DEF setters, Said
<1>12. last = {Said(m)} \ {Empty}
  BY DEF m
<1> HIDE DEF last
<1>13. CASE Said(m) # Empty
  <2>1. m \in T /\ last = {Said(m)}
    BY <1>7, <1>8, <1>12, <1>13
  <2>2. PICK j \in T : (\A i \in T : i <= j) /\ messages = {Said(j)}
    BY <1>9, <2>1
  <2>3. j = m
    BY <1>7, <1>8, <1>11, <2>1, <2>2
  <2> QED
    BY <2>1, <2>2, <2>3
<1>14. CASE Said(m) = Empty
  <2>1. last = {}
    BY <1>12, <1>14
  <2>2. CASE T = {}
    BY <1>9, <1>10, <2>1, <2>2
  <2>3. CASE T # {}
    <3>1. PICK j \in T : messages = {Said(j)}
      BY <1>9, <2>3
    <3>2. messages \subseteq texts(setters)
      BY <1>7, <3>1
    <3>3. Cardinality(messages) <= 1
      BY <1>10, <3>1
    <3> QED
      BY <2>1, <3>2, <3>3
  <2> QED
    BY <2>2, <2>3
<1> QED
  BY <1>13, <1>14

\* Whatever is parsed, inserted and parsed again: of the attributes that set a
\* rule, the last one in the order of the adapters gives the message if it has
\* one; else the message is one of the others', or there is none.
THEOREM MessagesFollow == Spec => MessagesFollowRules
<1>1. TypeOK /\ ParseInv => RulesFollowAttributes
  BY OptionsFollow DEF ParseInv
<1>2. Spec => []RulesFollowAttributes
  BY <1>1, TypeCorrect, ParseInvariant, PTL
<1>3. RulesFollowAttributes' => [options' # options => RulesFollowAttributes']_vars
  OBVIOUS
<1> QED
  BY <1>2, <1>3, PTL DEF MessagesFollowRules

-----------------------------------------------------------------------------
(* What the validator finds                                                  *)

\* The rules of a field are a row.
LEMMA SettingsRow ==
    ASSUME TypeOK, ParseInv, NEW f \in Fields
    PROVE  Len(settings[f]) \in Nat /\ DOMAIN settings[f] = 1 .. Len(settings[f])
<1>0. page.additional \in BOOLEAN
  BY PagesAssumption DEF TypeOK
<1>1. CASE settings[f] = <<>>
  BY <1>1
<1>2. ASSUME NEW S \in InputSets,
             settings[f] = Copied(RulesOf(Element(f), S, page.additional).rules)
      PROVE  Len(settings[f]) \in Nat /\ DOMAIN settings[f] = 1 .. Len(settings[f])
  <2>1. Distinct(RulesOf(Element(f), S, page.additional).rules)
    BY <1>0, RulesOfElement
  <2> QED
    BY <1>2, <2>1, CopiedRules
<1> QED
  BY <1>1, <1>2 DEF ParseInv, SettingsInv

\* The rules of a field are those that parsing found, with a value.
LEMMA SettingsRules ==
    ASSUME TypeOK, ParseInv, NEW f \in Fields, settings[f] # <<>>
    PROVE  \E S \in InputSets :
              ToSet(settings[f]) = {x \in ToSet(RulesOf(Element(f), S, page.additional).rules) :
                                       x.value # Undefined}
<1>0. page.additional \in BOOLEAN
  BY PagesAssumption DEF TypeOK
<1>1. PICK S \in InputSets :
         settings[f] = Copied(RulesOf(Element(f), S, page.additional).rules)
  BY DEF ParseInv, SettingsInv
<1>2. Distinct(RulesOf(Element(f), S, page.additional).rules)
  BY <1>0, RulesOfElement
<1> QED
  BY <1>1, <1>2, CopiedRules

\* Among some rules there is a first one to be tried.
LEMMA FirstTried ==
    ASSUME NEW rules, NEW n \in Nat, NEW S, S \subseteq 1 .. n, S # {}
    PROVE  \E i \in S : \A j \in S :
              \/ Rank(rules[i]) < Rank(rules[j])
              \/ Rank(rules[i]) = Rank(rules[j]) /\ i <= j
<1> DEFINE Of(k) == {i \in S : Rank(rules[i]) = k}
<1>1. \A i \in S : Rank(rules[i]) \in {1, 2, 3}
  BY DEF Rank
<1>2. ASSUME NEW k \in {1, 2, 3}, Of(k) # {}, \A j \in S : Rank(rules[j]) >= k
      PROVE  \E i \in S : \A j \in S :
              \/ Rank(rules[i]) < Rank(rules[j])
              \/ Rank(rules[i]) = Rank(rules[j]) /\ i <= j
  <2>1. PICK i \in Of(k) : \A j \in Of(k) : i <= j
    <3>1. Of(k) \subseteq 1 .. n
      OBVIOUS
    <3> HIDE DEF Of
    <3> QED
      BY <1>2, <3>1, Ends
  <2>2. i \in S /\ Rank(rules[i]) = k
    BY <2>1
  <2>3. ASSUME NEW j \in S
        PROVE  \/ Rank(rules[i]) < Rank(rules[j])
               \/ Rank(rules[i]) = Rank(rules[j]) /\ i <= j
    <3>1. Rank(rules[j]) = k \/ Rank(rules[j]) > k
      BY <1>1, <1>2
    <3> QED
      BY <2>1, <2>2, <3>1
  <2> QED
    BY <2>2, <2>3
<1>3. CASE Of(1) # {}
  BY <1>1, <1>2, <1>3
<1>4. CASE Of(1) = {} /\ Of(2) # {}
  <2>1. \A j \in S : Rank(rules[j]) >= 2
    BY <1>1, <1>4
  <2> QED
    BY <1>2, <1>4, <2>1
<1>5. CASE Of(1) = {} /\ Of(2) = {}
  <2>1. \A j \in S : Rank(rules[j]) = 3
    BY <1>1, <1>5
  <2>2. PICK j \in S : TRUE
    OBVIOUS
  <2>3. Of(3) # {}
    BY <2>1, <2>2
  <2>4. \A i \in S : Rank(rules[i]) >= 3
    BY <2>1
  <2> QED
    BY <1>2, <2>3, <2>4
<1> QED
  BY <1>3, <1>4, <1>5

\* A check stops at a rule, unless all rules of the field hold or do not apply.
LEMMA CheckStops ==
    ASSUME NEW f, NEW prev, NEW n \in Nat, DOMAIN settings[f] = 1 .. n
    PROVE  \/ /\ Check(f, prev) \in {"bad", "pending", "throws"}
              /\ \E i \in 1 .. n : Result(settings[f][i], f, prev) = Check(f, prev)
           \/ /\ Check(f, prev) \notin {"bad", "pending", "throws"}
              /\ \A i \in 1 .. n :
                    Result(settings[f][i], f, prev) \notin {"bad", "pending", "throws"}
<1> DEFINE rules == settings[f]
           results == [i \in DOMAIN rules |-> Result(rules[i], f, prev)]
           stops == {i \in DOMAIN rules : results[i] \in {"bad", "pending", "throws"}}
           before(i, j) == \/ Rank(rules[i]) < Rank(rules[j])
                           \/ Rank(rules[i]) = Rank(rules[j]) /\ i <= j
           first == CHOOSE i \in stops : \A j \in stops : before(i, j)
<1>1. Check(f, prev) = IF stops # {} THEN results[first]
                       ELSE IF results = <<"skip">> THEN "skip" ELSE "ok"
  BY DEF Check
<1>2. \A i \in 1 .. n : results[i] = Result(settings[f][i], f, prev)
  OBVIOUS
<1>3. stops = {i \in 1 .. n : results[i] \in {"bad", "pending", "throws"}}
  OBVIOUS
<1> HIDE DEF results, stops
<1>4. CASE stops # {}
  <2>1. \E i \in stops : \A j \in stops : before(i, j)
    <3>1. stops \subseteq 1 .. n
      BY <1>3
    <3> HIDE DEF rules
    <3> QED
      BY <1>4, <3>1, FirstTried
  <2> HIDE DEF before
  <2>2. first \in stops
    BY <2>1
  <2> HIDE DEF first
  <2>3. Check(f, prev) = results[first] /\ first \in 1 .. n
    BY <1>1, <1>3, <1>4, <2>2
  <2> QED
    BY <1>2, <1>3, <2>2, <2>3
<1>5. CASE stops = {}
  <2>1. Check(f, prev) \in {"skip", "ok"}
    BY <1>1, <1>5
  <2> QED
    BY <1>2, <1>3, <1>5, <2>1
<1> QED
  BY <1>4, <1>5

\* The rules that there are methods for.
LEMMA MethodNames ==
    /\ Formats = {"date", "digits", "email", "number", "url", "min", "max", "range"}
    /\ {"required", "equalTo", "regex", "nonalphamin", "__dummy__", "minlength", "maxlength",
        "rangelength", "remote"} \cup Formats \subseteq Methods
    /\ page.additional => {"accept", "extension", "creditcard"} \subseteq Methods
    /\ "undefined" \notin Methods
<1>1. Formats = {"date", "digits", "email", "number", "url", "min", "max", "range"}
  BY PagesAssumption DEF Formats
<1>2. {"required", "equalTo", "regex", "nonalphamin", "__dummy__", "minlength", "maxlength",
        "rangelength", "remote"} \cup Formats \subseteq Methods
  BY DEF Methods, OptionalRules
<1>3. page.additional => {"accept", "extension", "creditcard"} \subseteq Methods
  BY DEF Methods, AdditionalMethods
<1>4. "undefined" \notin Methods
  BY <1>1 DEF Methods, OptionalRules, AdditionalMethods
<1> QED
  BY <1>1, <1>2, <1>3, <1>4

\* The parameters of an attribute of a field.
LEMMA Params ==
    ASSUME page \in Pages, NEW f \in Fields, NEW a, a.name \in DOMAIN page.attrs[f],
           NEW p \in a.params,
           NEW params, params = page.attrs[f][a.name].params,
           NEW P, P = Param(a, Element(f), p)
    PROVE  /\ p \in DOMAIN params => /\ P = params[p]
                                     /\ Truthy(P)
                                     /\ p \in {"min", "max"} => P \in Nat
                                     /\ p \in {"pattern", "regex"} =>
                                           P = Malformed \/ P \in Seq(Seq(STRING))
           /\ p \notin DOMAIN params => P = Undefined /\ ~Truthy(P)
<1>1. P = IF p \in DOMAIN params THEN params[p] ELSE Undefined
  BY DEF Param, Element
<1>2. p \in DOMAIN params =>
         /\ Truthy(params[p])
         /\ p \in {"min", "max"} => params[p] \in Nat
         /\ p \in {"pattern", "regex"} => params[p] = Malformed \/ params[p] \in Seq(Seq(STRING))
  BY PagesAssumption
<1>3. ~Truthy(Undefined)
  BY DEF Truthy
<1>4. CASE p \in DOMAIN params
  <2>1. P = params[p]
    BY <1>1, <1>4
  <2> QED
    BY <1>2, <1>4, <2>1, Zenon
<1>5. CASE p \notin DOMAIN params
  BY <1>1, <1>3, <1>5
<1> QED
  BY <1>4, <1>5, Zenon

\* The rule that an adapter with bounds sets, by the bounds that there are.
LEMMA MinMaxRules ==
    ASSUME page \in Pages, NEW f \in Fields, NEW a, a.adapt = "minMax", a.params = {"min", "max"},
           a.name \in DOMAIN page.attrs[f], NEW inputs,
           NEW params, params = page.attrs[f][a.name].params
    PROVE  LET set == ToSet(Adapt(a, Element(f), inputs))
           IN  /\ {"min", "max"} \subseteq DOMAIN params =>
                     set = {Rule(a.minMaxRule, <<params["min"], params["max"]>>)}
               /\ "min" \in DOMAIN params /\ "max" \notin DOMAIN params =>
                     set = {Rule(a.minRule, params["min"])}
               /\ "min" \notin DOMAIN params /\ "max" \in DOMAIN params =>
                     set = {Rule(a.maxRule, params["max"])}
               /\ DOMAIN params \cap {"min", "max"} = {} => set = {}
               /\ \A p \in DOMAIN params \cap {"min", "max"} : params[p] \in Nat
<1> DEFINE min == Param(a, Element(f), "min")
           max == Param(a, Element(f), "max")
           rules == Adapt(a, Element(f), inputs)
<1>1. rules = MinMax(a, min, max)
  BY AdaptByKind
<1>2. IF "min" \in DOMAIN params THEN min = params["min"] /\ Truthy(min) /\ min \in Nat
      ELSE ~Truthy(min)
  BY Params
<1>3. IF "max" \in DOMAIN params THEN max = params["max"] /\ Truthy(max) /\ max \in Nat
      ELSE ~Truthy(max)
  BY Params
<1> HIDE DEF min, max, rules
<1>4. rules = IF Truthy(min) /\ Truthy(max) THEN <<Rule(a.minMaxRule, <<min, max>>)>>
              ELSE IF Truthy(min) THEN <<Rule(a.minRule, min)>>
              ELSE IF Truthy(max) THEN <<Rule(a.maxRule, max)>> ELSE <<>>
  BY <1>1 DEF MinMax, SetIf
<1>5. \A r : ToSet(<<r>>) = {r}
  BY OneDistinct
<1>6. ToSet(<<>>) = {}
  BY NoneDistinct
<1>7. ToSet(rules) = IF Truthy(min) /\ Truthy(max) THEN {Rule(a.minMaxRule, <<min, max>>)}
                     ELSE IF Truthy(min) THEN {Rule(a.minRule, min)}
                     ELSE IF Truthy(max) THEN {Rule(a.maxRule, max)} ELSE {}
  BY <1>4, <1>5, <1>6
<1>8. CASE "min" \in DOMAIN params /\ "max" \in DOMAIN params
  BY <1>2, <1>3, <1>7, <1>8 DEF rules
<1>9. CASE "min" \in DOMAIN params /\ "max" \notin DOMAIN params
  BY <1>2, <1>3, <1>7, <1>9 DEF rules
<1>10. CASE "min" \notin DOMAIN params /\ "max" \in DOMAIN params
  BY <1>2, <1>3, <1>7, <1>10 DEF rules
<1>11. CASE "min" \notin DOMAIN params /\ "max" \notin DOMAIN params
  BY <1>2, <1>3, <1>7, <1>11 DEF rules
<1> QED
  BY <1>8, <1>9, <1>10, <1>11

\* A rule without a method has its reason in the attribute.
LEMMA UnsupportedRule ==
    ASSUME TypeOK, NEW f \in Fields, NEW a \in Registered(page.additional), NEW inputs,
           a.name \in DOMAIN page.attrs[f],
           NEW x \in ToSet(Adapt(a, Element(f), inputs)), x.name \notin Methods
    PROVE  Unsupported(f)
<1> DEFINE rules == Adapt(a, Element(f), inputs)
<1>0. page \in Pages /\ page.additional \in BOOLEAN
  BY PagesAssumption DEF TypeOK
<1>1. \A name \in Names : name # Undefined
  BY NamesDefined
<1>2. \A r : ToSet(<<r>>) = {r}
  BY OneDistinct
<1>3. \A name \in Names : \A v : Rule(name, v).name = name
  BY <1>1, RuleFields
<1>4. CASE a \in BoolAdapters
  <2>1. /\ a.adapt = "bool" /\ a.rule = a.name
        /\ a.name \in {"creditcard", "date", "digits", "email", "number", "url"}
    BY <1>4, Kinds DEF BoolAdapters
  <2>2. \E v : rules = <<Rule(a.rule, v)>>
    BY <2>1, AdaptByKind
  <2>3. x.name = a.name
    <3>1. \E v : x = Rule(a.name, v)
      BY <1>2, <2>1, <2>2
    <3>2. a.name \in Names
      BY <2>1 DEF Names
    <3> QED
      BY <1>3, <3>1, <3>2
  <2>4. a.name = "creditcard" /\ ~page.additional
    BY <2>1, <2>3, MethodNames
  <2> QED
    BY <2>4 DEF Unsupported
<1>5. CASE a \in ExtensionSet(page.additional)
  <2>1. CASE page.additional
    <3>1. a.adapt = "singleVal" /\ a.rule \in {"accept", "extension"}
      BY <1>5, <2>1, Kinds DEF ExtensionSet
    <3>2. \E v : rules = <<Rule(a.rule, v)>>
      BY <3>1, AdaptByKind
    <3>3. x.name \in {"accept", "extension"}
      BY <1>2, <1>3, <3>1, <3>2 DEF Names
    <3> QED
      BY <2>1, <3>3, MethodNames
  <2>2. CASE ~page.additional
    <3>1. a.name = "extension"
      BY <1>5, <2>2, Kinds DEF ExtensionSet
    <3> QED
      BY <2>2, <3>1 DEF Unsupported
  <2> QED
    BY <2>1, <2>2
<1>6. CASE a = addSingleVal("regex", "pattern", Undefined)
  <2>1. a.adapt = "singleVal" /\ a.rule = "regex"
    BY <1>6, Kinds
  <2>2. \E v : rules = <<Rule(a.rule, v)>>
    BY <2>1, AdaptByKind
  <2>3. x.name = "regex"
    BY <1>2, <1>3, <2>1, <2>2 DEF Names
  <2> QED
    BY <2>3, MethodNames
<1>7. CASE a \in MinMaxAdapters
  <2> DEFINE params == page.attrs[f][a.name].params
  <2>0. a.adapt = "minMax" /\ a.params = {"min", "max"}
    BY <1>7, Kinds DEF MinMaxAdapters
  <2>1. \/ {"min", "max"} \subseteq DOMAIN params /\ \E v : x = Rule(a.minMaxRule, v)
        \/ "max" \notin DOMAIN params /\ \E v : x = Rule(a.minRule, v)
        \/ /\ "max" \in DOMAIN params /\ "min" \notin DOMAIN params
           /\ \E v : x = Rule(a.maxRule, v)
    <3> DEFINE set == ToSet(Adapt(a, Element(f), inputs))
    <3>1. /\ {"min", "max"} \subseteq DOMAIN params =>
                     set = {Rule(a.minMaxRule, <<params["min"], params["max"]>>)}
          /\ "min" \in DOMAIN params /\ "max" \notin DOMAIN params =>
                     set = {Rule(a.minRule, params["min"])}
          /\ "min" \notin DOMAIN params /\ "max" \in DOMAIN params =>
                     set = {Rule(a.maxRule, params["max"])}
          /\ DOMAIN params \cap {"min", "max"} = {} => set = {}
      BY <1>0, <2>0, MinMaxRules
    <3>2. x \in set
      OBVIOUS
    <3> HIDE DEF set, params
    <3>3. CASE "min" \in DOMAIN params /\ "max" \in DOMAIN params
      <4>1. {"min", "max"} \subseteq DOMAIN params
        BY <3>3
      <4>2. x = Rule(a.minMaxRule, <<params["min"], params["max"]>>)
        BY <3>1, <3>2, <4>1
      <4> QED
        BY <4>1, <4>2
    <3>4. CASE "min" \in DOMAIN params /\ "max" \notin DOMAIN params
      BY <3>1, <3>2, <3>4
    <3>5. CASE "min" \notin DOMAIN params /\ "max" \in DOMAIN params
      BY <3>1, <3>2, <3>5
    <3>6. CASE "min" \notin DOMAIN params /\ "max" \notin DOMAIN params
      BY <3>1, <3>2, <3>6
    <3> QED
      BY <3>3, <3>4, <3>5, <3>6
  <2> HIDE DEF params
  <2>2. ASSUME a.minRule \in Names, a.maxRule \in Names, a.minMaxRule \in Names
        PROVE  x.name \in {a.minRule, a.maxRule, a.minMaxRule}
    BY <1>3, <2>1, <2>2
  <2>3. CASE a = addMinMax("length", "minlength", "maxlength", "rangelength", Undefined, Undefined)
    <3>1. a.minRule = "minlength" /\ a.maxRule = "maxlength" /\ a.minMaxRule = "rangelength"
      BY <2>3, Kinds
    <3>2. x.name \in {"minlength", "maxlength", "rangelength"}
      BY <2>2, <3>1 DEF Names
    <3> QED
      BY <3>2, MethodNames
  <2>4. CASE a = addMinMax("range", "min", "max", "range", Undefined, Undefined)
    <3>1. a.minRule = "min" /\ a.maxRule = "max" /\ a.minMaxRule = "range"
      BY <2>4, Kinds
    <3>2. x.name \in {"min", "max", "range"}
      BY <2>2, <3>1 DEF Names
    <3> QED
      BY <3>2, MethodNames
  <2>5. CASE a = addMinMax("minlength", "minlength", Undefined, Undefined, Undefined, Undefined)
    <3>1. a.name = "minlength" /\ a.minRule = "minlength"
      BY <2>5, Kinds
    <3>2. CASE "max" \in DOMAIN params
      BY <3>1, <3>2 DEF Unsupported, params
    <3>3. CASE "max" \notin DOMAIN params
      <4>1. PICK v : x = Rule("minlength", v)
        BY <2>1, <3>1, <3>3
      <4> QED
        BY <1>3, <4>1, MethodNames DEF Names
    <3> QED
      BY <3>2, <3>3
  <2>6. CASE a = addMinMax("maxlength", "minlength", "maxlength", Undefined, Undefined, Undefined)
    <3>1. a.name = "maxlength" /\ a.minRule = "minlength" /\ a.maxRule = "maxlength"
      BY <2>6, Kinds
    <3>2. CASE {"min", "max"} \subseteq DOMAIN params
      BY <3>1, <3>2 DEF Unsupported, params
    <3>3. CASE ~({"min", "max"} \subseteq DOMAIN params)
      <4>1. \E v : x = Rule("minlength", v) \/ x = Rule("maxlength", v)
        BY <2>1, <3>1, <3>3
      <4> QED
        BY <1>3, <4>1, MethodNames DEF Names
    <3> QED
      BY <3>2, <3>3
  <2> QED
    BY <1>7, <2>3, <2>4, <2>5, <2>6 DEF MinMaxAdapters
<1>8. CASE a \in OwnAdapters
  <2>1. CASE a = add("equalto", {"other"})
    <3>1. a.adapt = "equalto"
      BY <2>1, Kinds
    <3>2. \E v : rules = <<Rule("equalTo", v)>>
      BY <3>1, AdaptByKind
    <3> QED
      BY <1>2, <1>3, <3>2, MethodNames DEF Names
  <2>2. CASE a = add("required", {})
    <3>1. a.adapt = "required"
      BY <2>2, Kinds
    <3>2. rules = <<>> \/ \E v : rules = <<Rule("required", v)>>
      BY <3>1, AdaptByKind
    <3> QED
      BY <1>2, <1>3, <3>2, MethodNames, NoneDistinct DEF Names
  <2>3. CASE a = add("remote", {"url", "type", "additionalfields"})
    <3>1. a.adapt = "remote"
      BY <2>3, Kinds
    <3>2. \E v : rules = <<Rule("remote", v)>>
      BY <3>1, AdaptByKind
    <3> QED
      BY <1>2, <1>3, <3>2, MethodNames DEF Names
  <2>4. CASE a = add("password", {"min", "nonalphamin", "regex"})
    <3>1. a.adapt = "password"
      BY <2>4, Kinds
    <3>2. \E min, non, reg : rules = SetIf("minlength", min) \o SetIf("nonalphamin", non)
                                       \o SetIf("regex", reg)
      BY <3>1, AdaptByKind, ZenonT(60)
    <3>3. \E min, non, reg : x \in {Rule("minlength", min), Rule("nonalphamin", non),
                                    Rule("regex", reg)}
      BY <1>1, <3>2, PasswordRules DEF Names
    <3> QED
      BY <1>3, <3>3, MethodNames DEF Names
  <2>5. CASE a = add("fileextensions", {"extensions"})
    <3>1. a.adapt = "fileextensions" /\ a.name = "fileextensions"
      BY <2>5, Kinds
    <3>2. \E v : rules = <<Rule("extension", v)>>
      BY <3>1, AdaptByKind
    <3>3. x.name = "extension"
      BY <1>2, <1>3, <3>2 DEF Names
    <3>4. ~page.additional
      BY <3>3, MethodNames
    <3> QED
      BY <3>1, <3>4 DEF Unsupported
  <2> QED
    BY <1>8, <2>1, <2>2, <2>3, <2>4, <2>5 DEF OwnAdapters
<1> QED
  BY <1>4, <1>5, <1>6, <1>7, <1>8 DEF Registered

\* A rule with a malformed pattern comes of an attribute that gives it.
LEMMA PatternRule ==
    ASSUME TypeOK, NEW f \in Fields, NEW a \in Registered(page.additional), NEW inputs,
           a.name \in DOMAIN page.attrs[f],
           NEW x \in ToSet(Adapt(a, Element(f), inputs)),
           x.name \in {"regex", "extension"}, x.value = Malformed, value[f] # <<>>
    PROVE  BadPattern(f)
<1> DEFINE rules == Adapt(a, Element(f), inputs)
           P(p) == Param(a, Element(f), p)
<1>0. Malformed # Undefined
  BY UnobtrusiveAdaptersAssumption
<1>1. \A r : ToSet(<<r>>) = {r}
  BY OneDistinct
<1>2. \A name \in Names : \A v : Rule(name, v).name = name /\ Rule(name, v).value = v
  BY NamesDefined, RuleFields
<1>3. \A p : P(p) = Malformed =>
         p \in DOMAIN page.attrs[f][a.name].params /\ page.attrs[f][a.name].params[p] = Malformed
  BY <1>0 DEF Param, Element
<1>4. CASE a \in BoolAdapters
  <2>1. /\ a.adapt = "bool" /\ a.rule = a.name
        /\ a.name \in {"creditcard", "date", "digits", "email", "number", "url"}
    BY <1>4, Kinds DEF BoolAdapters
  <2>2. rules = <<Rule(a.rule, TRUE)>>
    BY <2>1, AdaptByKind
  <2>3. x = Rule(a.name, TRUE) /\ a.name \in Names
    BY <1>1, <2>1, <2>2 DEF Names
  <2> QED
    BY <1>2, <2>1, <2>3
<1>5. CASE a \in ExtensionSet(page.additional)
  <2>1. /\ a.adapt = "singleVal" /\ a.rule \in {"accept", "extension"}
        /\ a.rule = "extension" => a.name = "extension" /\ a.attribute = "extension"
    BY <1>5, Kinds DEF ExtensionSet
  <2>2. rules = <<Rule(a.rule, P(a.attribute))>>
    BY <2>1, AdaptByKind
  <2>3. x = Rule(a.rule, P(a.attribute)) /\ a.rule \in Names
    BY <1>1, <2>1, <2>2 DEF Names
  <2>4. x.name = a.rule /\ x.value = P(a.attribute)
    BY <1>2, <2>3
  <2>5. a.name = "extension" /\ P("extension") = Malformed
    BY <2>1, <2>4
  <2> QED
    BY <1>3, <2>5 DEF BadPattern
<1>6. CASE a = addSingleVal("regex", "pattern", Undefined)
  <2>1. a.name = "regex" /\ a.adapt = "singleVal" /\ a.rule = "regex" /\ a.attribute = "pattern"
    BY <1>6, Kinds
  <2>2. rules = <<Rule("regex", P("pattern"))>>
    BY <2>1, AdaptByKind
  <2>3. x.value = P("pattern")
    BY <1>1, <1>2, <2>2 DEF Names
  <2> QED
    BY <1>3, <2>1, <2>3 DEF BadPattern
<1>7. CASE a \in MinMaxAdapters
  <2>1. /\ a.adapt = "minMax"
        /\ {a.minRule, a.maxRule, a.minMaxRule} \subseteq
              {"minlength", "maxlength", "rangelength", "min", "max", "range", Undefined}
    BY <1>7, Kinds DEF MinMaxAdapters
  <2>2. rules = MinMax(a, P("min"), P("max"))
    BY <2>1, AdaptByKind
  <2>3. rules = <<>> \/ \E n \in {a.minRule, a.maxRule, a.minMaxRule} : \E v : rules = <<Rule(n, v)>>
    BY <2>2 DEF MinMax, SetIf
  <2>4. PICK n \in {a.minRule, a.maxRule, a.minMaxRule} : \E v : x = Rule(n, v)
    BY <1>1, <2>3, NoneDistinct
  <2>5. CASE n = Undefined
    BY <2>4, <2>5, UndefinedRule
  <2>6. CASE n # Undefined
    BY <1>2, <2>1, <2>4, <2>6 DEF Names
  <2> QED
    BY <2>5, <2>6
<1>8. CASE a \in OwnAdapters
  <2>1. CASE \/ a = add("equalto", {"other"})
             \/ a = add("required", {})
             \/ a = add("remote", {"url", "type", "additionalfields"})
    <3>1. a.adapt \in {"equalto", "required", "remote"}
      BY <2>1, Kinds
    <3>2. rules = <<>> \/ \E n \in {"equalTo", "required", "remote"} : \E v : rules = <<Rule(n, v)>>
      BY <3>1, AdaptByKind
    <3>3. PICK n \in {"equalTo", "required", "remote"} : \E v : x = Rule(n, v)
      BY <1>1, <3>2, NoneDistinct
    <3> QED
      BY <1>2, <3>3 DEF Names
  <2>2. CASE a = add("password", {"min", "nonalphamin", "regex"})
    <3>1. a.adapt = "password" /\ a.name = "password"
      BY <2>2, Kinds
    <3>2. rules = SetIf("minlength", P("min")) \o SetIf("nonalphamin", P("nonalphamin"))
                    \o SetIf("regex", P("regex"))
      BY <3>1, AdaptByKind
    <3>3. "minlength" # Undefined /\ "nonalphamin" # Undefined /\ "regex" # Undefined
      BY NamesDefined DEF Names
    <3>4. x \in {Rule("minlength", P("min")), Rule("nonalphamin", P("nonalphamin")),
                 Rule("regex", P("regex"))}
      BY <3>2, <3>3, PasswordRules
    <3>5. x = Rule("regex", P("regex"))
      BY <1>2, <3>4 DEF Names
    <3>6. P("regex") = Malformed
      BY <1>2, <3>5 DEF Names
    <3> QED
      BY <1>3, <3>1, <3>6 DEF BadPattern
  <2>3. CASE a = add("fileextensions", {"extensions"})
    <3>1. a.adapt = "fileextensions" /\ a.name = "fileextensions"
      BY <2>3, Kinds
    <3>2. rules = <<Rule("extension", P("extensions"))>>
      BY <3>1, AdaptByKind
    <3>3. P("extensions") = Malformed
      BY <1>1, <1>2, <3>2 DEF Names
    <3> QED
      BY <1>3, <3>1, <3>3 DEF BadPattern
  <2> QED
    BY <1>8, <2>1, <2>2, <2>3 DEF OwnAdapters
<1> QED
  BY <1>4, <1>5, <1>6, <1>7, <1>8 DEF Registered

\* What comes of trying a rule.
LEMMA Results ==
    ASSUME NEW r, NEW f, NEW prev
    PROVE  /\ Result(r, f, prev) = "throws" <=> Throws(r, f)
           /\ Result(r, f, prev) \in {"throws", "skip", "ok", "bad", "pending"}
           /\ Result(r, f, prev) \in {"ok", "skip"} =>
                 \/ r.name \in OptionalRules /\ value[f] = <<>>
                 \/ r.name = "remote" /\ RemoteResult(r, f, prev) = "ok"
                 \/ r.name # "remote" /\ Satisfies(r, f)
<1>1. RemoteResult(r, f, prev) \in {"ok", "bad", "pending"}
  BY DEF RemoteResult
<1>2. Result(r, f, prev) = IF Throws(r, f) THEN "throws"
                           ELSE IF r.name \in OptionalRules /\ value[f] = <<>> THEN "skip"
                           ELSE IF r.name = "remote" THEN RemoteResult(r, f, prev)
                           ELSE IF Satisfies(r, f) THEN "ok" ELSE "bad"
  BY DEF Result
<1>3. CASE Throws(r, f)
  BY <1>2, <1>3
<1>4. CASE ~Throws(r, f) /\ r.name \in OptionalRules /\ value[f] = <<>>
  BY <1>2, <1>4
<1>5. CASE ~Throws(r, f) /\ ~(r.name \in OptionalRules /\ value[f] = <<>>) /\ r.name = "remote"
  BY <1>1, <1>2, <1>5
<1>6. CASE ~Throws(r, f) /\ ~(r.name \in OptionalRules /\ value[f] = <<>>) /\ r.name # "remote"
  BY <1>2, <1>6
<1> QED
  BY <1>3, <1>4, <1>5, <1>6

\* A field whose check throws has an attribute without a method, or a pattern
\* that is none.
LEMMA ThrowsReason ==
    ASSUME TypeOK, ParseInv, NEW f \in Checked, NEW prev, Check(f, prev) = "throws"
    PROVE  Unsupported(f) \/ BadPattern(f)
<1> DEFINE rules == settings[f]
           n == Len(rules)
           list == adapters[page.additional]
           e == Element(f)
<1>0. page \in Pages /\ page.additional \in BOOLEAN /\ f \in Fields /\ rules # <<>>
  BY PagesAssumption DEF TypeOK, Checked, InForm
<1>1. n \in Nat /\ DOMAIN rules = 1 .. n
  BY <1>0, SettingsRow
<1>2. PICK i \in 1 .. n : Result(rules[i], f, prev) = "throws"
  BY <1>1, CheckStops
<1> DEFINE x == rules[i]
<1>3. Throws(x, f) /\ x \in ToSet(rules)
  BY <1>1, <1>2, Results DEF ToSet
<1>4. PICK S \in InputSets : x \in ToSet(RulesOf(e, S, page.additional).rules)
  BY <1>0, <1>3, SettingsRules
<1>5. x # Rule("__dummy__", TRUE)
  BY <1>3, Dummy, MethodNames DEF Throws
<1>6. x \in LastSets(e, S, list, Len(list))
  BY <1>0, <1>4, <1>5, RulesOfElement
<1>7. PICK j \in 1 .. Len(list) : x \in ToSet(Writes(list[j], e, S))
  BY <1>6 DEF LastSets
<1>8. list[j] \in Registered(page.additional)
  BY <1>0, AdaptersListed
<1> DEFINE a == list[j]
<1>9. a.name \in DOMAIN page.attrs[f] /\ x \in ToSet(Adapt(a, e, S))
  BY <1>7, NoneDistinct DEF Writes, Element
<1>10. CASE x.name \notin Methods
  BY <1>0, <1>8, <1>9, <1>10, UnsupportedRule
<1>11. CASE x.name \in {"regex", "extension"} /\ RegExpThrows(value[f], x.value)
  <2>1. x.value = Malformed /\ value[f] # <<>>
    BY <1>11 DEF RegExpThrows
  <2> QED
    BY <1>0, <1>8, <1>9, <1>11, <2>1, PatternRule
<1> QED
  BY <1>3, <1>10, <1>11 DEF Throws

\* Once the form has left, nothing happens.
LEMMA Gone == left # "no" /\ resets = 0 /\ Next => FALSE
<1> SUFFICES ASSUME left # "no", resets = 0, Next PROVE FALSE
  OBVIOUS
<1>1. ~Ready /\ resets # 1
  BY DEF Ready
<1>2. ASSUME NEW f \in Fields,
             \/ ParseElement(f) \/ Insert(f) \/ Edit(f) \/ CheckField(f)
             \/ AnswerAccepted(f) \/ AnswerSends(f) \/ AnswerThrows(f)
             \/ AnswerRefused(f) \/ AnswerLost(f)
      PROVE  FALSE
  BY <1>1, <1>2, Zenon DEF ParseElement, Insert, Edit, CheckField, AnswerAccepted, AnswerSends,
                    AnswerThrows, AnswerRefused, AnswerLost
<1>3. CASE \/ Parse \/ Submit \/ SubmitThrows \/ SubmitCancelled \/ SubmitUnattached
           \/ Validate \/ ValidateThrows \/ Reset
  BY <1>1, <1>3, Zenon DEF Parse, Submit, SubmitThrows, SubmitCancelled, SubmitUnattached,
                    Validate, ValidateThrows, Reset
<1>4. CASE NestedReset \/ ResetEnds
  BY <1>1, <1>4, Zenon DEF NestedReset, ResetEnds
<1> QED
  BY <1>2, <1>3, <1>4, Zenon DEF Next

\* How the form leaves.
LeftInv ==
    /\ left # "no" => resets = 0
    /\ left = "unattached" => ~attached
    /\ left = "thrown" => \E f \in Checked : Unsupported(f) \/ BadPattern(f)
    /\ left = "cancelled" => page.cancels

\* Two steps send a form that was checked.
LEMMA CheckedBySending ==
    LeftInv /\ Next /\ left' = "checked" => Submit \/ \E f \in Fields : AnswerSends(f)
<1> SUFFICES ASSUME LeftInv, Next, left' = "checked"
             PROVE  Submit \/ \E f \in Fields : AnswerSends(f)
  OBVIOUS
<1>1. left = "no"
  BY Gone DEF LeftInv
<1>2. ASSUME NEW f \in Fields
      PROVE  ~(\/ ParseElement(f) \/ Insert(f) \/ Edit(f) \/ CheckField(f)
               \/ AnswerAccepted(f) \/ AnswerThrows(f) \/ AnswerRefused(f) \/ AnswerLost(f))
  BY <1>1 DEF ParseElement, Insert, Edit, CheckField, AnswerAccepted, AnswerThrows, AnswerRefused,
              AnswerLost
<1>3. ~(\/ Parse \/ SubmitThrows \/ SubmitCancelled \/ SubmitUnattached
        \/ Validate \/ ValidateThrows \/ Reset \/ NestedReset \/ ResetEnds)
  BY <1>1 DEF Parse, SubmitThrows, SubmitCancelled, SubmitUnattached, Validate, ValidateThrows,
              Reset, NestedReset, ResetEnds
<1> QED
  BY <1>2, <1>3, Zenon DEF Next

LEMMA LeftInvStep == TypeOK /\ ParseInv /\ LeftInv /\ [Next]_vars => LeftInv'
<1> SUFFICES ASSUME TypeOK, ParseInv, LeftInv, [Next]_vars PROVE LeftInv'
  OBVIOUS
<1>1. CASE UNCHANGED vars
  <2>1. UNCHANGED <<page, present, value, attached, settings, resets, left>>
    BY <1>1 DEF vars, pageVars, parseVars
  <2>2. Checked' = Checked
    BY <2>1 DEF Checked, InForm
  <2>3. \A f : (Unsupported(f)' <=> Unsupported(f)) /\ (BadPattern(f)' <=> BadPattern(f))
    BY <2>1 DEF Unsupported, BadPattern
  <2> QED
    BY <2>1, <2>2, <2>3 DEF LeftInv
<1>2. ASSUME Next, left' = "no" PROVE LeftInv'
  BY <1>2 DEF LeftInv
<1>3. CASE SubmitThrows
  <2>1. PICK f \in Checked : Unsupported(f) \/ BadPattern(f)
    BY <1>3, ThrowsReason DEF SubmitThrows, That
  <2>2. UNCHANGED <<page, present, value, settings, resets>> /\ resets = 0 /\ left' = "thrown"
    BY <1>3 DEF SubmitThrows, Ready, pageVars, parseVars
  <2>3. Checked' = Checked
    BY <2>2 DEF Checked, InForm
  <2>4. (Unsupported(f)' <=> Unsupported(f)) /\ (BadPattern(f)' <=> BadPattern(f))
    BY <2>2 DEF Unsupported, BadPattern
  <2> QED
    BY <2>1, <2>2, <2>3, <2>4 DEF LeftInv
<1>4. CASE SubmitUnattached
  BY <1>4 DEF SubmitUnattached, Ready, LeftInv, parseVars
<1>7. CASE SubmitCancelled
  BY <1>7 DEF SubmitCancelled, Ready, LeftInv, pageVars
<1>5. ASSUME Next, left' = "checked" PROVE LeftInv'
  <2>1. Submit \/ \E f \in Fields : AnswerSends(f)
    BY <1>5, CheckedBySending
  <2>2. resets' = resets /\ resets = 0
    BY <2>1 DEF Submit, AnswerSends, Ready
  <2> QED
    BY <1>5, <2>2 DEF LeftInv
<1>6. ASSUME Next, ~SubmitThrows, ~SubmitCancelled, ~SubmitUnattached PROVE left' \in {"no", "checked"}
  <2>1. left = "no"
    BY <1>6, Gone DEF LeftInv
  <2>2. ASSUME NEW f \in Fields,
               \/ ParseElement(f) \/ Insert(f) \/ Edit(f) \/ CheckField(f)
               \/ AnswerAccepted(f) \/ AnswerSends(f) \/ AnswerThrows(f)
               \/ AnswerRefused(f) \/ AnswerLost(f)
        PROVE  left' \in {"no", "checked"}
    BY <2>1, <2>2 DEF ParseElement, Insert, Edit, CheckField, AnswerAccepted, AnswerSends,
                    AnswerThrows, AnswerRefused, AnswerLost
  <2>3. CASE Parse \/ Submit \/ Validate \/ ValidateThrows \/ Reset \/ NestedReset \/ ResetEnds
    BY <2>1, <2>3 DEF Parse, Submit, Validate, ValidateThrows, Reset, NestedReset, ResetEnds
  <2> QED
    BY <1>6, <2>2, <2>3, Zenon DEF Next
<1> QED
  BY <1>1, <1>2, <1>3, <1>4, <1>5, <1>6, <1>7

LEMMA LeftInvariant == Spec => []LeftInv
<1>1. Init => LeftInv
  BY DEF Init, LeftInv
<1>2. TypeOK /\ ParseInv /\ LeftInv /\ [Next]_vars => LeftInv'
  BY LeftInvStep
<1> QED
  BY <1>1, <1>2, TypeCorrect, ParseInvariant, PTL DEF Spec

\* A form leaves unchecked only if it has no validator, by a button of the page
\* that asks for it, or because of an attribute that no method was loaded for or
\* whose pattern JavaScript does not accept.
THEOREM UncheckedReason == Spec => []UncheckedHasReason
<1>1. TypeOK /\ ParseInv /\ LeftInv => UncheckedHasReason
  <2> SUFFICES ASSUME TypeOK, ParseInv, LeftInv PROVE UncheckedHasReason
    OBVIOUS
  <2>1. ~attached => handlers = 0
    BY DEF TypeOK, ParseInv, PresentInv
  <2> QED
    BY <2>1 DEF LeftInv, UncheckedHasReason
<1> QED
  BY <1>1, TypeCorrect, ParseInvariant, LeftInvariant, PTL

-----------------------------------------------------------------------------
(* Remote checks                                                             *)

\* What the last check of a field knows: the request in flight asks what it
\* recorded, and a result that no answer is awaited for is the server's.
Knows(f, prev, asked, waits) ==
    prev # None =>
        /\ prev = [old |-> prev.old, valid |-> prev.valid]
        /\ asked # None => prev.old = asked
        /\ prev.valid /\ ~waits => Accepts(f, prev.old)

RemoteInv ==
    /\ request = [f \in Fields |-> request[f]]
    /\ \A f \in Fields : Knows(f, previous[f], request[f], f \in pending)

\* Requests record what they ask.
LEMMA RequestsKnow ==
    ASSUME page' = page, NEW S, NEW prevs, NEW requests, NEW wait,
           StartRequests(S, prevs, requests, wait),
           \A f \in Fields : Knows(f, prevs[f], requests[f], f \in wait)
    PROVE  RemoteInv'
<1>1. /\ previous' = [f \in Fields |->
            IF f \in S THEN [old |-> Sent(RemoteRule(f), f),
                             valid |-> prevs[f] = None \/ prevs[f].valid]
            ELSE prevs[f]]
      /\ request' = [f \in Fields |-> IF f \in S THEN Sent(RemoteRule(f), f) ELSE requests[f]]
      /\ pending' = wait \cup S
  BY DEF StartRequests
<1>2. ASSUME NEW f \in Fields
      PROVE  Knows(f, previous'[f], request'[f], f \in pending')
  <2>1. CASE f \in S
    <3> DEFINE sent == Sent(RemoteRule(f), f)
               valid == prevs[f] = None \/ prevs[f].valid
    <3>1. previous'[f] = [old |-> sent, valid |-> valid] /\ request'[f] = sent /\ f \in pending'
      BY <1>1, <2>1
    <3> HIDE DEF sent, valid
    <3> QED
      BY <3>1 DEF Knows
  <2>2. CASE f \notin S
    <3>1. previous'[f] = prevs[f] /\ request'[f] = requests[f] /\ (f \in pending' <=> f \in wait)
      BY <1>1, <2>2
    <3>2. Knows(f, prevs[f], requests[f], f \in wait)
      OBVIOUS
    <3> QED
      BY <3>1, <3>2 DEF Knows
  <2> QED
    BY <2>1, <2>2
<1>3. request' = [f \in Fields |-> request'[f]]
  BY <1>1
<1>4. \A f \in Fields : Knows(f, previous[f], request[f], f \in pending)'
  BY <1>2, Zenon DEF Knows, Accepts
<1> QED
  BY <1>3, <1>4 DEF RemoteInv

\* An answer makes the last check know what the server says.
LEMMA AnsweredKnows ==
    ASSUME RemoteInv, NEW f \in Fields, request[f] # None, NEW v \in BOOLEAN,
           v => Accepts(f, request[f])
    PROVE  \A g \in Fields : Knows(g, Answered(f, v)[g], Asked(f)[g], g \in pending \ {f})
<1> SUFFICES ASSUME NEW g \in Fields
             PROVE  Knows(g, Answered(f, v)[g], Asked(f)[g], g \in pending \ {f})
  OBVIOUS
<1>0. Knows(g, previous[g], request[g], g \in pending)
  BY DEF RemoteInv
<1>1. Asked(f)[g] = IF g = f THEN None ELSE request[g]
  BY DEF Asked, RemoteInv
<1>2. Answered(f, v)[g] = IF g = f /\ previous[f] # None
                          THEN [previous[f] EXCEPT !.valid = v] ELSE previous[g]
  BY DEF Answered
<1>3. CASE g = f /\ previous[f] # None
  <2> DEFINE prev == [previous[f] EXCEPT !.valid = v]
  <2>1. previous[f] = [old |-> previous[f].old, valid |-> previous[f].valid]
        /\ previous[f].old = request[f]
    BY <1>0, <1>3 DEF Knows
  <2>2. prev = [old |-> previous[f].old, valid |-> v]
    BY <2>1
  <2> HIDE DEF prev
  <2>3. /\ prev.old = request[f] /\ prev.valid = v
        /\ prev = [old |-> prev.old, valid |-> prev.valid]
    BY <2>1, <2>2
  <2>4. Answered(f, v)[g] = prev /\ Asked(f)[g] = None
    BY <1>1, <1>2, <1>3 DEF prev
  <2>5. Knows(f, prev, None, f \in pending \ {f})
    BY <2>3 DEF Knows
  <2> QED
    BY <1>3, <2>4, <2>5
<1>4. CASE g = f /\ previous[f] = None
  BY <1>2, <1>4 DEF Knows
<1>5. CASE g # f
  <2>1. Asked(f)[g] = request[g] /\ Answered(f, v)[g] = previous[g]
    BY <1>1, <1>2, <1>5
  <2> QED
    BY <1>0, <1>5, <2>1 DEF Knows
<1> QED
  BY <1>3, <1>4, <1>5

LEMMA RemoteInvStep == RemoteInv /\ [Next]_vars => RemoteInv'
<1> SUFFICES ASSUME RemoteInv, [Next]_vars PROVE RemoteInv'
  OBVIOUS
<1>0. \A f \in Fields : Knows(f, previous[f], request[f], f \in pending)
  BY DEF RemoteInv
<1>1. ASSUME page' = page, UNCHANGED <<previous, request, pending>> PROVE RemoteInv'
  <2>1. \A f \in Fields : Knows(f, previous[f], request[f], f \in pending)'
    BY <1>0, <1>1, Zenon DEF Knows, Accepts
  <2> QED
    BY <1>1, <2>1 DEF RemoteInv
<1>2. CASE \/ Parse \/ SubmitThrows \/ SubmitCancelled \/ SubmitUnattached
           \/ NestedReset \/ ResetEnds \/ UNCHANGED vars
  BY <1>1, <1>2 DEF Parse, SubmitThrows, SubmitCancelled, SubmitUnattached, NestedReset, ResetEnds, vars,
                    pageVars, remoteVars
<1>3. ASSUME NEW f \in Fields, ParseElement(f) \/ Insert(f) \/ Edit(f) PROVE RemoteInv'
  BY <1>1, <1>3 DEF ParseElement, Insert, Edit, pageVars, remoteVars
<1>4. ASSUME NEW f \in Fields, CheckField(f) PROVE RemoteInv'
  <2>1. CASE Check(f, previous[f]) = "throws"
    BY <1>1, <1>4, <2>1 DEF CheckField, pageVars, remoteVars
  <2>2. CASE Check(f, previous[f]) # "throws"
    <3>1. /\ page' = page
          /\ StartRequests(That({f}, previous, "pending"), previous, request, pending)
      BY <1>4, <2>2 DEF CheckField, pageVars
    <3> QED
      BY <1>0, <3>1, RequestsKnow
  <2> QED
    BY <2>1, <2>2
<1>5. CASE Submit \/ Validate
  <2>1. /\ page' = page
        /\ StartRequests(That(Checked, previous, "pending"), previous, request, pending)
    BY <1>5 DEF Submit, Validate, pageVars
  <2> QED
    BY <1>0, <2>1, RequestsKnow
<1>6. CASE Reset
  <2>1. /\ page' = page /\ previous' = [f \in Fields |-> None]
        /\ UNCHANGED <<request, pending>>
    BY <1>6 DEF Reset, pageVars
  <2>2. \A f \in Fields : previous'[f] = None
    BY <2>1
  <2>3. \A f \in Fields : Knows(f, previous[f], request[f], f \in pending)'
    BY <2>2, Zenon DEF Knows
  <2> QED
    BY <2>1, <2>3 DEF RemoteInv
<1>7. ASSUME NEW f \in Fields, AnswerAccepted(f) PROVE RemoteInv'
  <2>1. /\ page' = page /\ request[f] # None /\ Accepts(f, request[f])
        /\ StartRequests({}, Answered(f, TRUE), Asked(f), pending \ {f})
    BY <1>7 DEF AnswerAccepted, pageVars
  <2>2. \A g \in Fields : Knows(g, Answered(f, TRUE)[g], Asked(f)[g], g \in pending \ {f})
    BY <2>1, AnsweredKnows
  <2> QED
    BY <2>1, <2>2, RequestsKnow
<1>8. ASSUME NEW f \in Fields, AnswerSends(f) PROVE RemoteInv'
  <2> DEFINE prevs == Answered(f, TRUE)
  <2>1. /\ page' = page /\ request[f] # None /\ Accepts(f, request[f]) /\ pending = {f}
        /\ StartRequests(That(Checked, prevs, "pending"), prevs, Asked(f), {})
    BY <1>8 DEF AnswerSends, pageVars
  <2>2. \A g \in Fields : Knows(g, prevs[g], Asked(f)[g], g \in pending \ {f})
    BY <2>1, AnsweredKnows
  <2>3. pending \ {f} = {}
    BY <2>1
  <2> HIDE DEF prevs
  <2>4. \A g \in Fields : Knows(g, prevs[g], Asked(f)[g], g \in {})
    BY <2>2, <2>3
  <2> QED
    BY <2>1, <2>4, RequestsKnow
<1>9. ASSUME NEW f \in Fields, AnswerRefused(f) PROVE RemoteInv'
  <2>1. /\ page' = page /\ request[f] # None
        /\ StartRequests({}, Answered(f, FALSE), Asked(f), pending \ {f})
    BY <1>9 DEF AnswerRefused, pageVars
  <2>2. \A g \in Fields : Knows(g, Answered(f, FALSE)[g], Asked(f)[g], g \in pending \ {f})
    BY <2>1, AnsweredKnows
  <2> QED
    BY <2>1, <2>2, RequestsKnow
<1>10. ASSUME NEW f \in Fields, AnswerLost(f) PROVE RemoteInv'
  <2>1. /\ page' = page /\ UNCHANGED <<previous, pending>>
        /\ request' = [request EXCEPT ![f] = None]
    BY <1>10 DEF AnswerLost, pageVars, Asked
  <2>2. request = [g \in Fields |-> request[g]]
    BY DEF RemoteInv
  <2>3. /\ \A g \in Fields : request'[g] = None \/ request'[g] = request[g]
        /\ request' = [g \in Fields |-> request'[g]]
    BY <2>1, <2>2
  <2>4. \A g \in Fields : Knows(g, previous[g], request[g], g \in pending)'
    BY <1>0, <2>1, <2>3, Zenon DEF Knows, Accepts
  <2> QED
    BY <2>3, <2>4 DEF RemoteInv
<1>11. CASE ValidateThrows
  <2>1. page' = page /\ \E S : StartRequests(S, previous, request, pending)
    BY <1>11, Zenon DEF ValidateThrows, FormThrows, pageVars
  <2> QED
    BY <1>0, <2>1, RequestsKnow
<1>12. ASSUME NEW f \in Fields, AnswerThrows(f) PROVE RemoteInv'
  <2> DEFINE prevs == Answered(f, TRUE)
  <2>1. /\ page' = page /\ request[f] # None /\ Accepts(f, request[f]) /\ pending = {f}
        /\ \E S : StartRequests(S, prevs, Asked(f), {})
    BY <1>12, Zenon DEF AnswerThrows, FormThrows, pageVars
  <2>2. \A g \in Fields : Knows(g, prevs[g], Asked(f)[g], g \in pending \ {f})
    BY <2>1, AnsweredKnows
  <2>3. pending \ {f} = {}
    BY <2>1
  <2> HIDE DEF prevs
  <2>4. \A g \in Fields : Knows(g, prevs[g], Asked(f)[g], g \in {})
    BY <2>2, <2>3
  <2> QED
    BY <2>1, <2>4, RequestsKnow
<1> QED
  BY <1>2, <1>3, <1>4, <1>5, <1>6, <1>7, <1>8, <1>9, <1>10, <1>11, <1>12, Zenon DEF Next

LEMMA RemoteInvariant == Spec => []RemoteInv
<1>1. Init => RemoteInv
  <2> SUFFICES ASSUME Init PROVE RemoteInv
    OBVIOUS
  <2>1. \A f \in Fields : previous[f] = None
    BY DEF Init
  <2>2. request = [f \in Fields |-> request[f]]
    BY DEF Init
  <2> QED
    BY <2>1, <2>2 DEF RemoteInv, Knows
<1>2. RemoteInv /\ [Next]_vars => RemoteInv'
  BY RemoteInvStep
<1> QED
  BY <1>1, <1>2, PTL DEF Spec

-----------------------------------------------------------------------------
(* What a form that passes meets                                             *)

\* The rules that an adapter sets for a field hold, or do not apply.
Obeys(f, a, inputs, prev) ==
    \A x \in ToSet(Adapt(a, Element(f), inputs)) :
        x.value # Undefined /\ x.name # "__dummy__" => Result(x, f, prev) \in {"ok", "skip"}

\* What no later adapter sets again is kept.
LEMMA LastKept ==
    ASSUME NEW additional \in BOOLEAN, NEW element, NEW inputs,
           NEW list, list = adapters[additional],
           NEW result, result = RulesOf(element, inputs, additional),
           NEW x \in LastSets(element, inputs, list, Len(list)), x.name # "__dummy__"
    PROVE  x \in ToSet(result.rules)
<1>1. \A y \in LastSets(element, inputs, list, Len(list)) :
         y.name # "__dummy__" => y \in ToSet(result.rules)
  BY RulesOfElement, Zenon
<1> QED
  BY <1>1

\* An adapter whose attribute a field has, and none of whose rules another sets
\* again, has its rules among those that the validator tries.
LEMMA RulesKept ==
    ASSUME TypeOK, ParseInv, NEW f \in Fields, settings[f] # <<>>,
           NEW a \in Registered(page.additional),
           a.name \in DOMAIN page.attrs[f], ~Overridden(f, a.name)
    PROVE  \E S \in InputSets : \A x \in ToSet(Adapt(a, Element(f), S)) :
              x.value # Undefined /\ x.name # "__dummy__" => x \in ToSet(settings[f])
<1> DEFINE e == Element(f)
           list == adapters[page.additional]
           k == Len(list)
<1>0. page.additional \in BOOLEAN
  BY PagesAssumption DEF TypeOK
<1>1. PICK S \in InputSets :
         ToSet(settings[f]) = {x \in ToSet(RulesOf(e, S, page.additional).rules) :
                                  x.value # Undefined}
  BY SettingsRules
<1>2. /\ k \in Nat /\ Places = 1 .. k
      /\ \A i \in Places : Adapter(i) = list[i]
  BY <1>0, AdaptersListed DEF Places, Adapter
<1>3. PICK i \in Places : Adapter(i) = a
  BY <1>0, <1>2, AdaptersListed DEF Places
<1>4. ASSUME NEW x \in LastSets(e, S, list, Len(list)), x.name # "__dummy__"
      PROVE  x \in ToSet(RulesOf(e, S, page.additional).rules)
  BY <1>0, <1>4, LastKept
<1>5. Writes(a, e, S) = Adapt(a, e, S)
  BY DEF Writes, Element
<1>6. \A j \in Places : Sets(f, j) = RuleNames(Writes(Adapter(j), e, S))
  BY PlaceSets
<1>7. ASSUME NEW x \in ToSet(Adapt(a, e, S)) PROVE x \in LastSets(e, S, list, k)
  <2>1. x.name \in RuleNames(Writes(a, e, S))
    BY <1>5, <1>7, NamesOfSet
  <2>2. ASSUME NEW j \in 1 .. k, j > i
        PROVE  x.name \notin RuleNames(Writes(list[j], e, S))
    <3>1. x.name \in Sets(f, i)
      BY <1>3, <1>6, <2>1
    <3>2. Sets(f, i) \cap Sets(f, j) = {}
      BY <1>2, <1>3, <2>2 DEF Overridden
    <3> QED
      BY <1>2, <1>6, <2>2, <3>1, <3>2
  <2>3. i \in 1 .. k /\ x \in ToSet(Writes(list[i], e, S))
    BY <1>2, <1>3, <1>5
  <2> HIDE DEF e, list, k
  <2> QED
    BY <2>2, <2>3 DEF LastSets
<1> QED
  BY <1>1, <1>4, <1>7

\* With these rules an attribute is obeyed.
LEMMA KeptObeyed ==
    ASSUME TypeOK, ParseInv, NEW f \in Fields, settings[f] # <<>>,
           NEW a \in Registered(page.additional),
           a.name \in DOMAIN page.attrs[f], ~Overridden(f, a.name),
           NEW prev, Check(f, prev) \notin {"bad", "pending", "throws"}
    PROVE  \E S \in InputSets : Obeys(f, a, S, prev)
<1>1. PICK S \in InputSets : \A x \in ToSet(Adapt(a, Element(f), S)) :
         x.value # Undefined /\ x.name # "__dummy__" => x \in ToSet(settings[f])
  BY RulesKept
<1>2. Len(settings[f]) \in Nat /\ DOMAIN settings[f] = 1 .. Len(settings[f])
  BY SettingsRow
<1>3. \A i \in 1 .. Len(settings[f]) :
         Result(settings[f][i], f, prev) \notin {"bad", "pending", "throws"}
  BY <1>2, CheckStops
<1>4. \A x \in ToSet(settings[f]) : Result(x, f, prev) \in {"ok", "skip"}
  BY <1>2, <1>3, Results DEF ToSet
<1> QED
  BY <1>1, <1>4 DEF Obeys

\* What each method asks of a value.
LEMMA SatisfiesRule ==
    ASSUME NEW r, NEW f
    PROVE  /\ r.name = "required" => (Satisfies(r, f) <=> value[f] # <<>>)
           /\ r.name = "minlength" => (Satisfies(r, f) <=> Len(value[f]) >= r.value)
           /\ r.name = "maxlength" => (Satisfies(r, f) <=> Len(value[f]) <= r.value)
           /\ r.name = "rangelength" => (Satisfies(r, f) <=> Len(value[f]) \in (r.value)[1] .. (r.value)[2])
           /\ r.name = "equalTo" => (Satisfies(r, f) <=> value[f] = value[r.value])
           /\ r.name = "regex" => (Satisfies(r, f) <=> regex(value[f], r.value))
           /\ r.name = "nonalphamin" => (Satisfies(r, f) <=> nonalphamin(value[f], r.value))
           /\ r.name \in {"date", "digits", "email", "number", "url", "min", "max", "range"} =>
                 (Satisfies(r, f) <=> value[f] \in WellFormed[r.name])
<1>0. Formats = {"date", "digits", "email", "number", "url", "min", "max", "range"}
  BY MethodNames
<1>1. ASSUME r.name = "required" PROVE Satisfies(r, f) <=> value[f] # <<>>
  BY <1>0, <1>1 DEF Satisfies
<1>2. ASSUME r.name = "minlength" PROVE Satisfies(r, f) <=> Len(value[f]) >= r.value
  BY <1>0, <1>2 DEF Satisfies
<1>3. ASSUME r.name = "maxlength" PROVE Satisfies(r, f) <=> Len(value[f]) <= r.value
  BY <1>0, <1>3 DEF Satisfies
<1>4. ASSUME r.name = "rangelength" PROVE Satisfies(r, f) <=> Len(value[f]) \in (r.value)[1] .. (r.value)[2]
  BY <1>0, <1>4 DEF Satisfies
<1>5. ASSUME r.name = "equalTo" PROVE Satisfies(r, f) <=> value[f] = value[r.value]
  BY <1>0, <1>5 DEF Satisfies
<1>6. ASSUME r.name = "regex" PROVE Satisfies(r, f) <=> regex(value[f], r.value)
  BY <1>0, <1>6 DEF Satisfies
<1>7. ASSUME r.name = "nonalphamin" PROVE Satisfies(r, f) <=> nonalphamin(value[f], r.value)
  BY <1>0, <1>7 DEF Satisfies
<1>8. ASSUME r.name \in {"date", "digits", "email", "number", "url", "min", "max", "range"}
      PROVE  Satisfies(r, f) <=> value[f] \in WellFormed[r.name]
  BY <1>8, MethodNames DEF Satisfies
<1> QED
  BY <1>1, <1>2, <1>3, <1>4, <1>5, <1>6, <1>7, <1>8

LEMMA SatisfiesByName ==
    ASSUME NEW f, NEW w
    PROVE  /\ Satisfies(Rule("required", w), f) <=> value[f] # <<>>
           /\ Satisfies(Rule("minlength", w), f) <=> Len(value[f]) >= w
           /\ Satisfies(Rule("maxlength", w), f) <=> Len(value[f]) <= w
           /\ Satisfies(Rule("rangelength", w), f) <=> Len(value[f]) \in w[1] .. w[2]
           /\ Satisfies(Rule("equalTo", w), f) <=> value[f] = value[w]
           /\ Satisfies(Rule("regex", w), f) <=> regex(value[f], w)
           /\ Satisfies(Rule("nonalphamin", w), f) <=> nonalphamin(value[f], w)
           /\ \A name \in {"date", "digits", "email", "number", "url", "min", "max", "range"} :
                 Satisfies(Rule(name, w), f) <=> value[f] \in WellFormed[name]
<1>0. ASSUME NEW name \in Names PROVE Rule(name, w).name = name /\ Rule(name, w).value = w
  BY NamesDefined, RuleFields
<1>1. Satisfies(Rule("required", w), f) <=> value[f] # <<>>
  <2>1. Rule("required", w).name = "required" /\ Rule("required", w).value = w
    BY <1>0 DEF Names
  <2> QED
    BY <2>1, SatisfiesRule
<1>2. Satisfies(Rule("minlength", w), f) <=> Len(value[f]) >= w
  <2>1. Rule("minlength", w).name = "minlength" /\ Rule("minlength", w).value = w
    BY <1>0 DEF Names
  <2> QED
    BY <2>1, SatisfiesRule
<1>3. Satisfies(Rule("maxlength", w), f) <=> Len(value[f]) <= w
  <2>1. Rule("maxlength", w).name = "maxlength" /\ Rule("maxlength", w).value = w
    BY <1>0 DEF Names
  <2> QED
    BY <2>1, SatisfiesRule
<1>4. Satisfies(Rule("rangelength", w), f) <=> Len(value[f]) \in w[1] .. w[2]
  <2>1. Rule("rangelength", w).name = "rangelength" /\ Rule("rangelength", w).value = w
    BY <1>0 DEF Names
  <2> QED
    BY <2>1, SatisfiesRule
<1>5. Satisfies(Rule("equalTo", w), f) <=> value[f] = value[w]
  <2>1. Rule("equalTo", w).name = "equalTo" /\ Rule("equalTo", w).value = w
    BY <1>0 DEF Names
  <2> QED
    BY <2>1, SatisfiesRule
<1>6. Satisfies(Rule("regex", w), f) <=> regex(value[f], w)
  <2>1. Rule("regex", w).name = "regex" /\ Rule("regex", w).value = w
    BY <1>0 DEF Names
  <2> QED
    BY <2>1, SatisfiesRule
<1>7. Satisfies(Rule("nonalphamin", w), f) <=> nonalphamin(value[f], w)
  <2>1. Rule("nonalphamin", w).name = "nonalphamin" /\ Rule("nonalphamin", w).value = w
    BY <1>0 DEF Names
  <2> QED
    BY <2>1, SatisfiesRule
<1>8. ASSUME NEW name \in {"date", "digits", "email", "number", "url", "min", "max", "range"}
      PROVE  Satisfies(Rule(name, w), f) <=> value[f] \in WellFormed[name]
  <2>1. Rule(name, w).name = name
    BY <1>0 DEF Names
  <2> QED
    BY <2>1, SatisfiesRule
<1> QED
  BY <1>1, <1>2, <1>3, <1>4, <1>5, <1>6, <1>7, <1>8

\* What obeying an adapter says of a rule that it sets.
LEMMA Tried ==
    ASSUME NEW f, NEW a, NEW S, NEW prev, Obeys(f, a, S, prev),
           NEW name \in Names \ {"__dummy__"}, NEW w, w # Undefined,
           Rule(name, w) \in ToSet(Adapt(a, Element(f), S))
    PROVE  /\ ~Throws(Rule(name, w), f)
           /\ \/ name \in OptionalRules /\ value[f] = <<>>
              \/ name = "remote" /\ RemoteResult(Rule(name, w), f, prev) = "ok"
              \/ name # "remote" /\ Satisfies(Rule(name, w), f)
<1> DEFINE r == Rule(name, w)
<1>1. r.name = name /\ r.value = w
  BY NamesDefined, RuleFields
<1>2. Result(r, f, prev) \in {"ok", "skip"}
  BY <1>1 DEF Obeys
<1> HIDE DEF r
<1>3. ~Throws(r, f)
  BY <1>2, Results
<1>4. \/ name \in OptionalRules /\ value[f] = <<>>
      \/ name = "remote" /\ RemoteResult(r, f, prev) = "ok"
      \/ name # "remote" /\ Satisfies(r, f)
  BY <1>1, <1>2, Results
<1> QED
  BY <1>3, <1>4 DEF r

\* Formats, and attributes that ask nothing.
LEMMA BoolMeets ==
    ASSUME NEW f, NEW a \in BoolAdapters, NEW S, NEW prev, Obeys(f, a, S, prev)
    PROVE  Meets(f, a.name)
<1>1. /\ a.adapt = "bool" /\ a.rule = a.name
      /\ a.name \in {"creditcard", "date", "digits", "email", "number", "url"}
  BY Kinds DEF BoolAdapters
<1>2. CASE a.name = "creditcard"
  BY <1>2 DEF Meets
<1>3. ASSUME NEW name \in {"date", "digits", "email", "number", "url"}, a.name = name
      PROVE  Meets(f, name)
  <2>1. Rule(name, TRUE) \in ToSet(Adapt(a, Element(f), S))
    <3>1. Adapt(a, Element(f), S) = <<Rule(name, TRUE)>>
      BY <1>1, <1>3, AdaptByKind
    <3> DEFINE r == Rule(name, TRUE)
    <3> HIDE DEF r
    <3>2. ToSet(<<r>>) = {r}
      BY OneDistinct
    <3> QED
      BY <3>1, <3>2 DEF r
  <2>2. TRUE # Undefined
    BY PagesAssumption
  <2>3. name \in Names \ {"__dummy__"} /\ name # "remote"
    BY DEF Names
  <2>4. \/ value[f] = <<>>
        \/ Satisfies(Rule(name, TRUE), f)
    BY <2>1, <2>2, <2>3, Tried, Zenon
  <2>5. Satisfies(Rule(name, TRUE), f) <=> value[f] \in WellFormed[name]
    BY SatisfiesByName, Zenon
  <2> QED
    BY <2>4, <2>5 DEF Meets
<1> QED
  BY <1>1, <1>2, <1>3

\* required
LEMMA RequiredMeets ==
    ASSUME NEW f, NEW a, a = add("required", {}), NEW S, NEW prev, Obeys(f, a, S, prev)
    PROVE  Meets(f, "required")
<1>1. a.adapt = "required"
  BY Kinds
<1>2. CASE f \in page.checkboxes
  BY <1>2 DEF Meets
<1>3. CASE f \notin page.checkboxes
  <2>1. Rule("required", TRUE) \in ToSet(Adapt(a, Element(f), S))
    <3>1. ~Element(f).checkbox
      BY <1>3 DEF Element
    <3>2. Adapt(a, Element(f), S) = <<Rule("required", TRUE)>>
      BY <1>1, <3>1, AdaptByKind
    <3> DEFINE r == Rule("required", TRUE)
    <3> HIDE DEF r
    <3>3. ToSet(<<r>>) = {r}
      BY OneDistinct
    <3> QED
      BY <3>2, <3>3 DEF r
  <2>2. TRUE # Undefined
    BY PagesAssumption
  <2>3. "required" \in Names \ {"__dummy__"} /\ "required" \notin OptionalRules
    BY MethodNames DEF Names, OptionalRules
  <2>4. Satisfies(Rule("required", TRUE), f)
    BY <2>1, <2>2, <2>3, Tried, Zenon
  <2>5. value[f] # <<>>
    BY <2>4, SatisfiesByName, Zenon
  <2> QED
    BY <2>5 DEF Meets
<1> QED
  BY <1>2, <1>3

\* No rule without a name is obeyed: there is no method for it.
LEMMA NamelessFails ==
    ASSUME NEW f, NEW a, NEW S, NEW prev, Obeys(f, a, S, prev), NEW w, w # Undefined,
           Rule(Undefined, w) \in ToSet(Adapt(a, Element(f), S))
    PROVE  FALSE
<1> DEFINE r == Rule(Undefined, w)
<1>1. r.name = "undefined" /\ r.value = w
  BY UndefinedRule
<1>2. Result(r, f, prev) \in {"ok", "skip"}
  BY <1>1 DEF Obeys
<1> HIDE DEF r
<1>3. Result(r, f, prev) = "throws"
  BY <1>1, Results, MethodNames DEF Throws
<1> QED
  BY <1>2, <1>3

\* The bounds of an attribute, and the rule that stands for them.
LEMMA Bounds ==
    ASSUME page \in Pages, NEW f \in Fields, NEW a, a.adapt = "minMax", a.params = {"min", "max"},
           a.name \in DOMAIN page.attrs[f], NEW S,
           NEW params, params = page.attrs[f][a.name].params
    PROVE  /\ \A p \in DOMAIN params \cap {"min", "max"} :
                 params[p] \in Nat /\ params[p] # Undefined
           /\ {"min", "max"} \subseteq DOMAIN params =>
                 /\ <<params["min"], params["max"]>> # Undefined
                 /\ Rule(a.minMaxRule, <<params["min"], params["max"]>>)
                       \in ToSet(Adapt(a, Element(f), S))
           /\ "min" \in DOMAIN params /\ "max" \notin DOMAIN params =>
                 Rule(a.minRule, params["min"]) \in ToSet(Adapt(a, Element(f), S))
           /\ "min" \notin DOMAIN params /\ "max" \in DOMAIN params =>
                 Rule(a.maxRule, params["max"]) \in ToSet(Adapt(a, Element(f), S))
<1> DEFINE set == ToSet(Adapt(a, Element(f), S))
<1>1. /\ {"min", "max"} \subseteq DOMAIN params =>
            set = {Rule(a.minMaxRule, <<params["min"], params["max"]>>)}
      /\ "min" \in DOMAIN params /\ "max" \notin DOMAIN params =>
            set = {Rule(a.minRule, params["min"])}
      /\ "min" \notin DOMAIN params /\ "max" \in DOMAIN params =>
            set = {Rule(a.maxRule, params["max"])}
      /\ \A p \in DOMAIN params \cap {"min", "max"} : params[p] \in Nat
  BY MinMaxRules
<1>2. \A p \in DOMAIN params : params[p] # Undefined
  <2>1. \A p \in DOMAIN params : Truthy(params[p])
    BY PagesAssumption
  <2> QED
    BY <2>1 DEF Truthy
<1>3. {"min", "max"} \subseteq DOMAIN params => <<params["min"], params["max"]>> # Undefined
  <2>1. SUFFICES ASSUME {"min", "max"} \subseteq DOMAIN params
                 PROVE  <<params["min"], params["max"]>> # Undefined
    OBVIOUS
  <2>2. <<params["min"], params["max"]>> \in Nat \X Nat
    BY <1>1, <2>1
  <2> QED
    BY <2>2, PagesAssumption
<1> HIDE DEF set
<1>4. {"min", "max"} \subseteq DOMAIN params =>
         Rule(a.minMaxRule, <<params["min"], params["max"]>>) \in set
  BY <1>1
<1>5. "min" \in DOMAIN params /\ "max" \notin DOMAIN params =>
         Rule(a.minRule, params["min"]) \in set
  BY <1>1
<1>6. "min" \notin DOMAIN params /\ "max" \in DOMAIN params =>
         Rule(a.maxRule, params["max"]) \in set
  BY <1>1
<1> QED
  BY <1>1, <1>2, <1>3, <1>4, <1>5, <1>6 DEF set

\* length, minlength and maxlength
LEMMA LengthMeets ==
    ASSUME TypeOK, NEW f \in Fields, NEW a,
           a.name \in {"length", "minlength", "maxlength"}, a.name \in DOMAIN page.attrs[f],
           a.adapt = "minMax", a.params = {"min", "max"}, a.minRule = "minlength",
           a.maxRule \in {"maxlength", Undefined}, a.minMaxRule \in {"rangelength", Undefined},
           NEW S, NEW prev, Obeys(f, a, S, prev)
    PROVE  Meets(f, a.name)
<1> DEFINE params == page.attrs[f][a.name].params
           v == value[f]
           min == params["min"]
           max == params["max"]
           set == ToSet(Adapt(a, Element(f), S))
<1>0. page \in Pages /\ Len(v) \in Nat
  BY PagesAssumption DEF TypeOK
<1>1. /\ "min" \in DOMAIN params => min \in Nat /\ min # Undefined
      /\ "max" \in DOMAIN params => max \in Nat /\ max # Undefined
      /\ {"min", "max"} \subseteq DOMAIN params =>
            <<min, max>> # Undefined /\ Rule(a.minMaxRule, <<min, max>>) \in set
      /\ "min" \in DOMAIN params /\ "max" \notin DOMAIN params => Rule(a.minRule, min) \in set
      /\ "min" \notin DOMAIN params /\ "max" \in DOMAIN params => Rule(a.maxRule, max) \in set
  BY <1>0, Bounds, ZenonT(60)
<1>2. {"minlength", "maxlength", "rangelength"} \subseteq Names \ {"__dummy__", "remote"}
  BY DEF Names
<1>3. ASSUME NEW w, w # Undefined, NEW name \in {"minlength", "maxlength", "rangelength"},
             Rule(name, w) \in set
      PROVE  v = <<>> \/ Satisfies(Rule(name, w), f)
  BY <1>2, <1>3, Tried, Zenon
<1>4. ASSUME NEW w, w # Undefined, Rule(Undefined, w) \in set PROVE FALSE
  BY <1>4, NamelessFails
<1>5. Meets(f, a.name) <=> \/ v = <<>>
                           \/ /\ "min" \in DOMAIN params => Len(v) >= min
                              /\ "max" \in DOMAIN params => Len(v) <= max
  BY DEF Meets
<1> HIDE DEF params, v, set, min, max
<1>6. CASE {"min", "max"} \subseteq DOMAIN params
  <2>1. Rule("rangelength", <<min, max>>) \in set
    BY <1>1, <1>4, <1>6
  <2>2. v = <<>> \/ Satisfies(Rule("rangelength", <<min, max>>), f)
    BY <1>1, <1>3, <1>6, <2>1
  <2> DEFINE w == <<min, max>>
  <2>3. w[1] = min /\ w[2] = max
    OBVIOUS
  <2> HIDE DEF w
  <2>4. Satisfies(Rule("rangelength", w), f) <=> Len(v) \in w[1] .. w[2]
    BY SatisfiesByName, Zenon DEF v
  <2>5. v = <<>> \/ Len(v) \in min .. max
    BY <2>2, <2>3, <2>4 DEF w
  <2> QED
    BY <1>0, <1>1, <1>5, <1>6, <2>5
<1>7. CASE "min" \in DOMAIN params /\ "max" \notin DOMAIN params
  <2>1. v = <<>> \/ Satisfies(Rule("minlength", min), f)
    BY <1>1, <1>3, <1>7
  <2>2. Satisfies(Rule("minlength", min), f) <=> Len(v) >= min
    BY SatisfiesByName, Zenon DEF v
  <2> QED
    BY <1>5, <1>7, <2>1, <2>2
<1>8. CASE "min" \notin DOMAIN params /\ "max" \in DOMAIN params
  <2>0. Rule("maxlength", max) \in set
    BY <1>1, <1>4, <1>8
  <2>1. v = <<>> \/ Satisfies(Rule("maxlength", max), f)
    BY <1>1, <1>3, <1>8, <2>0
  <2>2. Satisfies(Rule("maxlength", max), f) <=> Len(v) <= max
    BY SatisfiesByName, Zenon DEF v
  <2> QED
    BY <1>5, <1>8, <2>1, <2>2
<1>9. CASE "min" \notin DOMAIN params /\ "max" \notin DOMAIN params
  BY <1>5, <1>9
<1> QED
  BY <1>6, <1>7, <1>8, <1>9

\* range
LEMMA RangeMeets ==
    ASSUME TypeOK, NEW f \in Fields,
           NEW a, a = addMinMax("range", "min", "max", "range", Undefined, Undefined),
           a.name \in DOMAIN page.attrs[f], NEW S, NEW prev, Obeys(f, a, S, prev)
    PROVE  Meets(f, "range")
<1> DEFINE params == page.attrs[f][a.name].params
           v == value[f]
           min == params["min"]
           max == params["max"]
           set == ToSet(Adapt(a, Element(f), S))
<1>0. /\ page \in Pages
      /\ a.name = "range" /\ a.adapt = "minMax" /\ a.params = {"min", "max"}
      /\ a.minRule = "min" /\ a.maxRule = "max" /\ a.minMaxRule = "range"
  BY Kinds DEF TypeOK
<1>1. /\ "min" \in DOMAIN params => min # Undefined
      /\ "max" \in DOMAIN params => max # Undefined
      /\ {"min", "max"} \subseteq DOMAIN params =>
            <<min, max>> # Undefined /\ Rule("range", <<min, max>>) \in set
      /\ "min" \in DOMAIN params /\ "max" \notin DOMAIN params => Rule("min", min) \in set
      /\ "min" \notin DOMAIN params /\ "max" \in DOMAIN params => Rule("max", max) \in set
  BY <1>0, Bounds
<1>2. {"min", "max", "range"} \subseteq Names \ {"__dummy__", "remote"}
  BY DEF Names
<1>3. ASSUME NEW w, w # Undefined, NEW name \in {"min", "max", "range"}, Rule(name, w) \in set
      PROVE  v = <<>> \/ v \in WellFormed[name]
  <2>1. v = <<>> \/ Satisfies(Rule(name, w), f)
    BY <1>2, <1>3, Tried, Zenon
  <2>2. Satisfies(Rule(name, w), f) <=> v \in WellFormed[name]
    BY SatisfiesByName, Zenon
  <2> QED
    BY <2>1, <2>2
<1>4. Meets(f, "range") <=>
         \/ v = <<>>
         \/ /\ "min" \in DOMAIN params /\ "max" \in DOMAIN params => v \in WellFormed["range"]
            /\ "min" \in DOMAIN params /\ ~("max" \in DOMAIN params) => v \in WellFormed["min"]
            /\ ~("min" \in DOMAIN params) /\ "max" \in DOMAIN params => v \in WellFormed["max"]
  BY <1>0 DEF Meets
<1> HIDE DEF params, v, set, min, max
<1>5. {"min", "max"} \subseteq DOMAIN params => v = <<>> \/ v \in WellFormed["range"]
  BY <1>1, <1>3
<1>6. "min" \in DOMAIN params /\ "max" \notin DOMAIN params => v = <<>> \/ v \in WellFormed["min"]
  BY <1>1, <1>3
<1>7. "min" \notin DOMAIN params /\ "max" \in DOMAIN params => v = <<>> \/ v \in WellFormed["max"]
  BY <1>1, <1>3
<1> QED
  BY <1>4, <1>5, <1>6, <1>7

LEMMA RegexThrowing ==
    ASSUME NEW f, NEW w, ~Throws(Rule("regex", w), f) PROVE ~RegExpThrows(value[f], w)
<1>1. Rule("regex", w).name = "regex" /\ Rule("regex", w).value = w
  BY NamesDefined, RuleFields DEF Names
<1> QED
  BY <1>1 DEF Throws

\* A value that the method takes for a pattern is one of its alternatives.
LEMMA RegexExact ==
    ASSUME NEW v \in Seq(STRING), NEW p, p = Malformed \/ p \in Seq(Seq(STRING)),
           ~RegExpThrows(v, p), regex(v, p)
    PROVE  v = <<>> \/ (p # Malformed /\ v \in ToSet(p))
<1> SUFFICES ASSUME v # <<>> PROVE p # Malformed /\ v \in ToSet(p)
  OBVIOUS
<1>0. p # Malformed /\ p \in Seq(Seq(STRING))
  BY DEF RegExpThrows
<1> DEFINE matching == {i \in DOMAIN p : IsPrefix(p[i], v)}
           m == Min(matching)
<1>1. matching # {} /\ Len(p[m]) = Len(v)
  BY <1>0 DEF regex, Matches, MatchLength
<1>2. m \in matching
  <2>1. Len(p) \in Nat /\ matching \subseteq 1 .. Len(p)
    BY <1>0
  <2> HIDE DEF matching
  <2>2. \E i \in matching : \A j \in matching : i <= j
    BY <1>1, <2>1, Ends
  <2> QED
    BY <2>2 DEF Min
<1>3. m \in DOMAIN p /\ IsPrefix(p[m], v)
  BY <1>2
<1> HIDE DEF m, matching
<1>4. p[m] \in Seq(STRING)
  BY <1>0, <1>3
<1> DEFINE q == p[m]
<1>5. q \in Seq(STRING) /\ Len(q) = Len(v) /\ IsPrefix(q, v)
  BY <1>1, <1>3, <1>4
<1> HIDE DEF q
<1>6. SubSeq(q, 1, Len(q)) = SubSeq(v, 1, Len(v))
  BY <1>5 DEF IsPrefix
<1>7. q = v
  BY <1>5, <1>6
<1> QED
  BY <1>0, <1>3, <1>7 DEF q, ToSet

\* regex
LEMMA PatternMeets ==
    ASSUME TypeOK, NEW f \in Fields, NEW a, a = addSingleVal("regex", "pattern", Undefined),
           a.name \in DOMAIN page.attrs[f], NEW S, NEW prev, Obeys(f, a, S, prev)
    PROVE  Meets(f, "regex")
<1> DEFINE params == page.attrs[f]["regex"].params
           v == value[f]
           p == params["pattern"]
<1>0. /\ page \in Pages /\ v \in Seq(STRING)
      /\ a.name = "regex" /\ a.adapt = "singleVal" /\ a.params = {"pattern"}
      /\ a.rule = "regex" /\ a.attribute = "pattern"
  BY PagesAssumption, Kinds DEF TypeOK
<1>1. Meets(f, "regex") <=> v = <<>> \/ ("pattern" \in DOMAIN params => p # Malformed /\ v \in ToSet(p))
  BY DEF Meets
<1>2. CASE "pattern" \in DOMAIN params
  <2>1. /\ Param(a, Element(f), "pattern") = p
        /\ Truthy(p)
        /\ p = Malformed \/ p \in Seq(Seq(STRING))
    BY <1>0, <1>2, Params
  <2>2. p # Undefined
    BY <2>1 DEF Truthy
  <2>3. Rule("regex", p) \in ToSet(Adapt(a, Element(f), S))
    <3>1. Adapt(a, Element(f), S) = <<Rule("regex", p)>>
      BY <1>0, <2>1, AdaptByKind
    <3> DEFINE r == Rule("regex", p)
    <3> HIDE DEF r
    <3>2. ToSet(<<r>>) = {r}
      BY OneDistinct
    <3> QED
      BY <3>1, <3>2 DEF r
  <2>4. "regex" \in Names \ {"__dummy__"} /\ "regex" \notin OptionalRules
    BY MethodNames DEF Names, OptionalRules
  <2>5. Satisfies(Rule("regex", p), f) /\ ~Throws(Rule("regex", p), f)
    BY <2>2, <2>3, <2>4, Tried, Zenon
  <2>6. regex(v, p) /\ ~RegExpThrows(v, p)
    <3>1. regex(v, p)
      BY <2>5, SatisfiesByName, Zenon
    <3>2. ~RegExpThrows(v, p)
      BY <2>5, RegexThrowing
    <3> QED
      BY <3>1, <3>2
  <2>7. v = <<>> \/ (p # Malformed /\ v \in ToSet(p))
    BY <1>0, <2>1, <2>6, RegexExact
  <2> QED
    BY <1>1, <2>7
<1>3. CASE "pattern" \notin DOMAIN params
  BY <1>1, <1>3
<1> QED
  BY <1>2, <1>3

\* password
LEMMA PasswordMeets ==
    ASSUME TypeOK, NEW f \in Fields, NEW a, a = add("password", {"min", "nonalphamin", "regex"}),
           a.name \in DOMAIN page.attrs[f], NEW S, NEW prev, Obeys(f, a, S, prev)
    PROVE  Meets(f, "password")
<1> DEFINE params == page.attrs[f]["password"].params
           v == value[f]
           min == Param(a, Element(f), "min")
           non == Param(a, Element(f), "nonalphamin")
           reg == Param(a, Element(f), "regex")
           set == ToSet(Adapt(a, Element(f), S))
<1>0. /\ page \in Pages /\ v \in Seq(STRING)
      /\ a.name = "password" /\ a.adapt = "password" /\ a.params = {"min", "nonalphamin", "regex"}
  BY PagesAssumption, Kinds DEF TypeOK
<1>1. Meets(f, "password") <=>
         /\ \/ v = <<>>
            \/ /\ "min" \in DOMAIN params => Len(v) >= params["min"]
               /\ "regex" \in DOMAIN params =>
                     params["regex"] # Malformed /\ v \in ToSet(params["regex"])
         /\ "nonalphamin" \in DOMAIN params => NonAlphas(v) >= params["nonalphamin"]
  BY DEF Meets
<1>2. /\ "min" \in DOMAIN params => min = params["min"] /\ Truthy(min)
      /\ "nonalphamin" \in DOMAIN params => non = params["nonalphamin"] /\ Truthy(non)
      /\ "regex" \in DOMAIN params =>
            /\ reg = params["regex"] /\ Truthy(reg)
            /\ reg = Malformed \/ reg \in Seq(Seq(STRING))
  <2>1. "min" \in DOMAIN params => min = params["min"] /\ Truthy(min)
    BY <1>0, Params
  <2>2. "nonalphamin" \in DOMAIN params => non = params["nonalphamin"] /\ Truthy(non)
    BY <1>0, Params
  <2>3. "regex" \in DOMAIN params =>
            /\ reg = params["regex"] /\ Truthy(reg)
            /\ reg = Malformed \/ reg \in Seq(Seq(STRING))
    BY <1>0, Params
  <2> QED
    BY <2>1, <2>2, <2>3
<1>3. "minlength" # Undefined /\ "nonalphamin" # Undefined /\ "regex" # Undefined
  BY NamesDefined DEF Names
<1>4. Adapt(a, Element(f), S) = SetIf("minlength", min) \o SetIf("nonalphamin", non)
                                  \o SetIf("regex", reg)
  BY <1>0, AdaptByKind
<1>5. /\ Truthy(min) => Rule("minlength", min) \in set /\ min # Undefined
      /\ Truthy(non) => Rule("nonalphamin", non) \in set /\ non # Undefined
      /\ Truthy(reg) => Rule("regex", reg) \in set /\ reg # Undefined
  <2>1. /\ Rule("minlength", min).value = min
        /\ Rule("nonalphamin", non).value = non
        /\ Rule("regex", reg).value = reg
    BY <1>3, RuleFields
  <2>2. \A r \in {Rule("minlength", min), Rule("nonalphamin", non), Rule("regex", reg)} :
           Truthy(r.value) => r \in set
    <3> HIDE DEF min, non, reg
    <3>1. \A r : r \in ToSet(SetIf("minlength", min) \o SetIf("nonalphamin", non)
                                \o SetIf("regex", reg))
                   <=> /\ r \in {Rule("minlength", min), Rule("nonalphamin", non), Rule("regex", reg)}
                       /\ Truthy(r.value)
      BY <1>3, PasswordRules
    <3> QED
      BY <1>4, <3>1
  <2>3. \A w : Truthy(w) => w # Undefined
    BY DEF Truthy
  <2> HIDE DEF min, non, reg, set
  <2> QED
    BY <2>1, <2>2, <2>3
<1>6. /\ {"minlength", "nonalphamin", "regex"} \subseteq Names \ {"__dummy__", "remote"}
      /\ "nonalphamin" \notin OptionalRules /\ "regex" \notin OptionalRules
  BY MethodNames DEF Names, OptionalRules
<1>7. ASSUME NEW name \in {"minlength", "nonalphamin", "regex"}, NEW w, w # Undefined,
             Rule(name, w) \in set
      PROVE  \/ name \in OptionalRules /\ v = <<>>
             \/ Satisfies(Rule(name, w), f)
  BY <1>6, <1>7, Tried, Zenon
<1>11. ASSUME Truthy(reg) PROVE ~RegExpThrows(v, reg)
  <2>1. ~Throws(Rule("regex", reg), f)
    BY <1>5, <1>6, <1>11, Tried
  <2> QED
    BY <2>1, RegexThrowing
<1> HIDE DEF min, non, reg, set, v, params
<1>8. "min" \in DOMAIN params => v = <<>> \/ Len(v) >= params["min"]
  <2>1. Satisfies(Rule("minlength", min), f) <=> Len(v) >= min
    BY SatisfiesByName, Zenon DEF v
  <2> QED
    BY <1>2, <1>5, <1>7, <2>1
<1>9. "nonalphamin" \in DOMAIN params => NonAlphas(v) >= params["nonalphamin"]
  <2>1. Satisfies(Rule("nonalphamin", non), f) <=> nonalphamin(v, non)
    BY SatisfiesByName, Zenon DEF v
  <2>2. "nonalphamin" \in DOMAIN params => nonalphamin(v, non)
    BY <1>2, <1>5, <1>6, <1>7, <2>1
  <2>3. nonalphamin(v, non) => NonAlphas(v) >= non
    BY DEF nonalphamin
  <2> QED
    BY <1>2, <2>2, <2>3
<1>10. "regex" \in DOMAIN params =>
          v = <<>> \/ (params["regex"] # Malformed /\ v \in ToSet(params["regex"]))
  <2>1. Satisfies(Rule("regex", reg), f) <=> regex(v, reg)
    BY SatisfiesByName, Zenon DEF v
  <2>2. "regex" \in DOMAIN params => regex(v, reg) /\ ~RegExpThrows(v, reg)
    BY <1>2, <1>5, <1>6, <1>7, <1>11, <2>1
  <2>3. "regex" \in DOMAIN params => v = <<>> \/ (reg # Malformed /\ v \in ToSet(reg))
    BY <1>0, <1>2, <2>2, RegexExact
  <2> QED
    BY <1>2, <2>3
<1> QED
  BY <1>1, <1>8, <1>9, <1>10

\* equalto: the other input was in the form, if the loaded page has it.
LEMMA EqualMeets ==
    ASSUME TypeOK, NEW f \in Fields, NEW a, a = add("equalto", {"other"}),
           a.name \in DOMAIN page.attrs[f], NEW S \in InputSets, NEW prev, Obeys(f, a, S, prev)
    PROVE  Meets(f, "equalto")
<1> DEFINE params == page.attrs[f]["equalto"].params
           other == appendModelPrefix(params["other"], getModelPrefix(f))
<1>0. page \in Pages /\ a.name = "equalto" /\ a.adapt = "equalto" /\ a.params = {"other"}
  BY Kinds DEF TypeOK
<1>1. Meets(f, "equalto") <=>
         (other \in Fields \ (page.late \cup page.outside) => value[f] = value[other])
  BY DEF Meets, appendModelPrefix, getModelPrefix
<1> SUFFICES ASSUME other \in Fields \ (page.late \cup page.outside)
             PROVE  value[f] = value[other]
  BY <1>1
<1>2. "other" \in DOMAIN params
  BY <1>0, PagesAssumption
<1>3. Param(a, Element(f), "other") = params["other"]
  BY <1>0, <1>2, Params
<1>4. other \in S /\ other # Undefined
  BY PagesAssumption DEF InputSets
<1>5. EqualTo(Element(f), params["other"], S) = other
  <2>1. Element(f).name = f
    BY DEF Element
  <2> QED
    BY <1>4, <2>1 DEF EqualTo
<1>6. Rule("equalTo", other) \in ToSet(Adapt(a, Element(f), S))
  <2>1. Adapt(a, Element(f), S) = <<Rule("equalTo", other)>>
    BY <1>0, <1>3, <1>5, AdaptByKind
  <2> DEFINE r == Rule("equalTo", other)
  <2> HIDE DEF r
  <2>2. ToSet(<<r>>) = {r}
    BY OneDistinct
  <2> QED
    BY <2>1, <2>2 DEF r
<1>7. "equalTo" \in Names \ {"__dummy__"} /\ "equalTo" \notin OptionalRules
  BY MethodNames DEF Names, OptionalRules
<1>8. Satisfies(Rule("equalTo", other), f)
  BY <1>4, <1>6, <1>7, Tried, Zenon
<1> HIDE DEF other
<1>9. Satisfies(Rule("equalTo", other), f) <=> value[f] = value[other]
  BY SatisfiesByName, Zenon
<1> QED
  BY <1>8, <1>9

\* The fields that a remote check sends with its own.
Additional(f) ==
    LET params == page.attrs[f]["remote"].params
    IN  IF "additionalfields" \in DOMAIN params
        THEN {appendModelPrefix(n, getModelPrefix(f)) : n \in params["additionalfields"]}
        ELSE {}

\* remote: the last check was made with the values that are there.
LEMMA RemoteMeets ==
    ASSUME TypeOK, NEW f \in Fields, NEW a, a = add("remote", {"url", "type", "additionalfields"}),
           a.name \in DOMAIN page.attrs[f], NEW S, NEW prev, Obeys(f, a, S, prev),
           prev # None /\ prev.valid => Accepts(f, prev.old)
    PROVE  Meets(f, "remote")
<1> DEFINE params == page.attrs[f]["remote"].params
           P == Param(a, Element(f), "additionalfields")
           w == RemoteFields(Element(f), P)
           data == [n \in (Additional(f) \cup {f}) \cap InForm |-> value[n]]
<1>0. /\ page \in Pages /\ a.name = "remote" /\ a.adapt = "remote"
      /\ a.params = {"url", "type", "additionalfields"}
  BY Kinds DEF TypeOK
<1>1. Meets(f, "remote") <=> value[f] = <<>> \/ Accepts(f, data)
  BY DEF Meets, Additional, appendModelPrefix, getModelPrefix
<1>2. /\ "additionalfields" \in DOMAIN params =>
            P = params["additionalfields"] /\ Truthy(P)
      /\ "additionalfields" \notin DOMAIN params => P = Undefined /\ ~Truthy(P)
  <2>1. "additionalfields" \in a.params
    BY <1>0
  <2> QED
    BY <1>0, <2>1, Params
<1>3. w # Undefined
  <2>1. P = IF "additionalfields" \in DOMAIN params THEN params["additionalfields"] ELSE Undefined
    BY <1>2
  <2> HIDE DEF P
  <2>2. RemoteFields([name |-> f], P) # Undefined
    BY <1>0, <2>1, PagesAssumption
  <2>3. Element(f).name = f /\ [name |-> f].name = f
    BY DEF Element
  <2>4. w = RemoteFields([name |-> f], P)
    BY <2>3 DEF RemoteFields
  <2> QED
    BY <2>2, <2>4
<1>4. w \cup {f} = Additional(f) \cup {f}
  <2>0. Element(f).name = f
    BY DEF Element
  <2>1. w = {appendModelPrefix(n, getModelPrefix(f)) : n \in Or(P, {f})}
    BY <2>0 DEF RemoteFields
  <2> HIDE DEF P, w
  <2>2. CASE "additionalfields" \in DOMAIN params
    <3>1. Or(P, {f}) = params["additionalfields"]
      BY <1>2, <2>2 DEF Or
    <3> QED
      BY <2>1, <2>2, <3>1 DEF Additional
  <2>3. CASE "additionalfields" \notin DOMAIN params
    <3>1. Or(P, {f}) = {f}
      BY <1>2, <2>3 DEF Or
    <3>2. appendModelPrefix(f, getModelPrefix(f)) = f
      BY PagesAssumption DEF appendModelPrefix
    <3>3. Additional(f) = {}
      BY <2>3 DEF Additional
    <3> QED
      BY <2>1, <3>1, <3>2, <3>3
  <2> QED
    BY <2>2, <2>3
<1>5. Rule("remote", w) \in ToSet(Adapt(a, Element(f), S))
  <2>1. Adapt(a, Element(f), S) = <<Rule("remote", w)>>
    BY <1>0, AdaptByKind
  <2> DEFINE r == Rule("remote", w)
  <2> HIDE DEF r
  <2>2. ToSet(<<r>>) = {r}
    BY OneDistinct
  <2> QED
    BY <2>1, <2>2 DEF r
<1>6. "remote" \in Names \ {"__dummy__"}
  BY DEF Names
<1>7. \/ value[f] = <<>>
      \/ RemoteResult(Rule("remote", w), f, prev) = "ok"
  <2> HIDE DEF w
  <2> QED
    BY <1>3, <1>5, <1>6, Tried, Zenon
<1>8. ASSUME RemoteResult(Rule("remote", w), f, prev) = "ok" PROVE Accepts(f, data)
  <2> DEFINE r == Rule("remote", w)
  <2>1. r.value = w
    BY <1>6, NamesDefined, RuleFields
  <2> HIDE DEF r, w
  <2>2. prev # None /\ prev.old = Sent(r, f) /\ prev.valid
    BY <1>8 DEF RemoteResult, r
  <2>3. Sent(r, f) = data
    BY <1>4, <2>1 DEF Sent
  <2> QED
    BY <2>2, <2>3
<1> QED
  BY <1>1, <1>7, <1>8

\* The adapters whose attributes ask for something.
LEMMA ObeyedMeets ==
    ASSUME TypeOK, NEW f \in Fields, NEW a \in Registered(page.additional),
           a.name \in DOMAIN page.attrs[f], NEW S \in InputSets, NEW prev, Obeys(f, a, S, prev),
           prev # None /\ prev.valid => Accepts(f, prev.old)
    PROVE  Meets(f, a.name)
<1>1. CASE a \in ExtensionSet(page.additional)
  <2>1. a.name \in {"accept", "extension"}
    BY <1>1, Kinds DEF ExtensionSet
  <2> QED
    BY <2>1 DEF Meets
<1>2. CASE a \in BoolAdapters
  BY <1>2, BoolMeets
<1>3. CASE a \in MinMaxAdapters
  <2>0. a.adapt = "minMax" /\ a.params = {"min", "max"}
    BY <1>3, Kinds DEF MinMaxAdapters
  <2>1. CASE a = addMinMax("length", "minlength", "maxlength", "rangelength", Undefined, Undefined)
    <3>1. /\ a.name = "length" /\ a.minRule = "minlength" /\ a.maxRule = "maxlength"
          /\ a.minMaxRule = "rangelength"
      BY <2>1, Kinds
    <3> QED
      BY <2>0, <3>1, LengthMeets
  <2>2. CASE a = addMinMax("minlength", "minlength", Undefined, Undefined, Undefined, Undefined)
    <3>1. /\ a.name = "minlength" /\ a.minRule = "minlength" /\ a.maxRule = Undefined
          /\ a.minMaxRule = Undefined
      BY <2>2, Kinds
    <3> QED
      BY <2>0, <3>1, LengthMeets
  <2>3. CASE a = addMinMax("maxlength", "minlength", "maxlength", Undefined, Undefined, Undefined)
    <3>1. /\ a.name = "maxlength" /\ a.minRule = "minlength" /\ a.maxRule = "maxlength"
          /\ a.minMaxRule = Undefined
      BY <2>3, Kinds
    <3> QED
      BY <2>0, <3>1, LengthMeets
  <2>4. CASE a = addMinMax("range", "min", "max", "range", Undefined, Undefined)
    <3>1. a.name = "range"
      BY <2>4, Kinds
    <3> QED
      BY <2>4, <3>1, RangeMeets
  <2> QED
    BY <1>3, <2>1, <2>2, <2>3, <2>4 DEF MinMaxAdapters
<1>4. CASE a = addSingleVal("regex", "pattern", Undefined)
  <2>1. a.name = "regex"
    BY <1>4, Kinds
  <2> QED
    BY <1>4, <2>1, PatternMeets
<1>5. CASE a \in OwnAdapters
  <2>1. CASE a = add("equalto", {"other"})
    <3>1. a.name = "equalto"
      BY <2>1, Kinds
    <3> QED
      BY <2>1, <3>1, EqualMeets
  <2>2. CASE a = add("required", {})
    <3>1. a.name = "required"
      BY <2>2, Kinds
    <3> QED
      BY <2>2, <3>1, RequiredMeets
  <2>3. CASE a = add("remote", {"url", "type", "additionalfields"})
    <3>1. a.name = "remote"
      BY <2>3, Kinds
    <3> QED
      BY <2>3, <3>1, RemoteMeets
  <2>4. CASE a = add("password", {"min", "nonalphamin", "regex"})
    <3>1. a.name = "password"
      BY <2>4, Kinds
    <3> QED
      BY <2>4, <3>1, PasswordMeets
  <2>5. CASE a = add("fileextensions", {"extensions"})
    <3>1. a.name = "fileextensions"
      BY <2>5, Kinds
    <3> QED
      BY <3>1 DEF Meets
  <2> QED
    BY <1>5, <2>1, <2>2, <2>3, <2>4, <2>5 DEF OwnAdapters
<1> QED
  BY <1>1, <1>2, <1>3, <1>4, <1>5 DEF Registered

\* Every attribute that asks for something has an adapter.
LEMMA AskingAdapters ==
    ASSUME NEW f, NEW n, ~Meets(f, n)
    PROVE  \E a \in Registered(page.additional) : a.name = n
<1>1. n \in {"required", "length", "minlength", "maxlength", "regex", "password", "equalto",
             "remote", "range", "date", "digits", "email", "number", "url"}
  BY DEF Meets
<1>2. CASE n \in {"date", "digits", "email", "number", "url"}
  BY <1>2, Kinds DEF Registered, BoolAdapters
<1>3. CASE n \in {"length", "minlength", "maxlength", "range"}
  <2>1. \A a \in MinMaxAdapters : a \in Registered(page.additional)
    BY DEF Registered
  <2>2. \E a \in MinMaxAdapters : a.name = n
    BY <1>3, Kinds DEF MinMaxAdapters
  <2> QED
    BY <2>1, <2>2
<1>4. CASE n = "regex"
  BY <1>4, Kinds DEF Registered
<1>5. CASE n \in {"required", "password", "equalto", "remote"}
  <2>1. \A a \in OwnAdapters : a \in Registered(page.additional)
    BY DEF Registered
  <2>2. \E a \in OwnAdapters : a.name = n
    BY <1>5, Kinds DEF OwnAdapters
  <2> QED
    BY <2>1, <2>2
<1> QED
  BY <1>1, <1>2, <1>3, <1>4, <1>5

-----------------------------------------------------------------------------
(* A form that the validator lets pass                                       *)

Passed == \A f \in Covered : \A n \in DOMAIN page.attrs[f] : Overridden(f, n) \/ Meets(f, n)

\* A form whose checks find nothing meets its attributes.
LEMMA PassedIsValid ==
    ASSUME TypeOK, ParseInv, attached, NEW prevs,
           \A f \in Fields : prevs[f] # None /\ prevs[f].valid => Accepts(f, prevs[f].old),
           That(Checked, prevs, "bad") = {}, That(Checked, prevs, "pending") = {},
           That(Checked, prevs, "throws") = {}
    PROVE  Passed
<1> SUFFICES ASSUME NEW f \in Covered, NEW n \in DOMAIN page.attrs[f],
                    ~Overridden(f, n), ~Meets(f, n)
             PROVE  FALSE
  BY DEF Passed
<1>1. f \in InForm \ page.ignored /\ f \in Fields /\ settings[f] # <<>>
  <2>1. CASE page.scripted = {}
    <3>1. f \in InForm \ page.late /\ f \notin page.ignored
      BY <2>1 DEF Covered
    <3>2. f \in (Fields \ page.outside) \ page.late
      BY <3>1 DEF InForm, TypeOK
    <3>3. settings[f] # <<>>
      BY <2>1, <3>2 DEF ParseInv, AttachedInv
    <3> QED
      BY <3>1, <3>2, <3>3
  <2>2. CASE page.scripted # {}
    <3>1. f \in Checked
      BY <2>2 DEF Covered
    <3> QED
      BY <3>1 DEF Checked, InForm, TypeOK
  <2> QED
    BY <2>1, <2>2
<1>2. Check(f, prevs[f]) \notin {"bad", "pending", "throws"}
  BY <1>1 DEF That, Checked
<1>3. PICK a \in Registered(page.additional) : a.name = n
  BY AskingAdapters
<1>4. PICK S \in InputSets : Obeys(f, a, S, prevs[f])
  BY <1>1, <1>2, <1>3, KeptObeyed
<1>5. Meets(f, a.name)
  BY <1>1, <1>3, <1>4, ObeyedMeets
<1> QED
  BY <1>3, <1>5

\* A form that is to be sent has a validator; one that passed meets its
\* attributes, as nothing changes it any more.
ValidInv ==
    /\ formSubmitted => attached
    /\ left = "checked" => Passed

LEMMA PassedKept ==
    UNCHANGED <<page, present, value, settings>> /\ Passed => Passed'
<1> SUFFICES ASSUME UNCHANGED <<page, present, value, settings>>, Passed PROVE Passed'
  OBVIOUS
<1>1. Covered' = Covered
  BY DEF Covered, Checked, InForm
<1>2. ASSUME NEW f, NEW n PROVE Overridden(f, n)' <=> Overridden(f, n)
  BY DEF Overridden, Places, Adapter, Sets, Element, InForm
<1>3. ASSUME NEW f, NEW n PROVE Meets(f, n)' <=> Meets(f, n)
  BY DEF Meets, Accepts, InForm
<1> QED
  BY <1>1, <1>2, <1>3 DEF Passed

LEMMA ValidInvStep ==
    TypeOK /\ ParseInv /\ RemoteInv /\ LeftInv /\ ValidInv /\ [Next]_vars => ValidInv'
<1> SUFFICES ASSUME TypeOK, ParseInv, RemoteInv, LeftInv, ValidInv, [Next]_vars
             PROVE  ValidInv'
  OBVIOUS
<1>1. CASE UNCHANGED vars
  <2>1. UNCHANGED <<page, present, value, settings, formSubmitted, attached, left>>
    BY <1>1 DEF vars, pageVars, parseVars, remoteVars
  <2> QED
    BY <2>1, PassedKept DEF ValidInv
<1>2. ASSUME Next PROVE (formSubmitted => attached)'
  <2>0. formSubmitted => attached
    BY DEF ValidInv
  <2>1. ASSUME NEW f \in Fields,
               \/ ParseElement(f) \/ Insert(f) \/ Edit(f) \/ CheckField(f)
               \/ AnswerAccepted(f) \/ AnswerSends(f) \/ AnswerThrows(f)
               \/ AnswerRefused(f) \/ AnswerLost(f)
        PROVE  (formSubmitted => attached)'
    BY <2>0, <2>1 DEF ParseElement, Attach, Insert, Edit, CheckField, AnswerAccepted, AnswerSends,
                      AnswerThrows, AnswerRefused, AnswerLost, parseVars, remoteVars
  <2>2. CASE \/ Parse \/ Submit \/ SubmitThrows \/ SubmitCancelled \/ SubmitUnattached
             \/ Validate \/ ValidateThrows \/ Reset \/ NestedReset \/ ResetEnds
    BY <2>0, <2>2 DEF Parse, Attach, Submit, SubmitThrows, SubmitCancelled, SubmitUnattached,
                      Validate, ValidateThrows, Reset, NestedReset, ResetEnds, parseVars, remoteVars
  <2> QED
    BY <1>2, <2>1, <2>2, Zenon DEF Next
<1>3. ASSUME Next, left' = "checked" PROVE Passed'
  <2>1. CASE Submit
    <3>1. /\ attached
          /\ That(Checked, previous, "throws") = {}
          /\ errors' = That(Checked, previous, "bad")
          /\ pending' = pending \cup That(Checked, previous, "pending")
          /\ errors' = {} /\ pending' = {}
          /\ UNCHANGED <<page, present, value, settings>>
      BY <1>3, <2>1 DEF Submit, Form, ShowErrors, StartRequests, pageVars, parseVars
    <3>2. \A f \in Fields : previous[f] # None /\ previous[f].valid => Accepts(f, previous[f].old)
      BY <3>1 DEF RemoteInv, Knows
    <3>3. Passed
      BY <3>1, <3>2, PassedIsValid
    <3> QED
      BY <3>1, <3>3, PassedKept
  <2>2. ASSUME NEW f \in Fields, AnswerSends(f) PROVE Passed'
    <3> DEFINE prevs == Answered(f, TRUE)
    <3>1. /\ formSubmitted /\ pending = {f}
          /\ request[f] # None /\ Accepts(f, request[f])
          /\ That(Checked, prevs, "throws") = {}
          /\ errors' = That(Checked, prevs, "bad")
          /\ pending' = That(Checked, prevs, "pending")
          /\ errors' = {} /\ pending' = {}
          /\ UNCHANGED <<page, present, value, settings>>
      BY <1>3, <2>2 DEF AnswerSends, StartRequests, pageVars, parseVars
    <3>2. \A g \in Fields : Knows(g, prevs[g], Asked(f)[g], g \in pending \ {f})
      BY <3>1, AnsweredKnows
    <3> HIDE DEF prevs
    <3>3. \A g \in Fields : prevs[g] # None /\ prevs[g].valid => Accepts(g, prevs[g].old)
      BY <3>1, <3>2 DEF Knows
    <3>4. Passed
      BY <3>1, <3>3, PassedIsValid DEF ValidInv
    <3> QED
      BY <3>1, <3>4, PassedKept
  <2> QED
    BY <1>3, <2>1, <2>2, CheckedBySending
<1> QED
  BY <1>1, <1>2, <1>3 DEF ValidInv

\* A form that the validator lets pass meets each attribute of its fields that
\* are neither hidden nor disabled, the remote checks among them with the values that are sent, whatever was edited,
\* reset, answered or lost in between.
THEOREM Submitted == Spec => []SubmittedIsValid
<1>1. Init => ValidInv
  BY DEF Init, ValidInv
<1>2. TypeOK /\ ParseInv /\ RemoteInv /\ LeftInv /\ ValidInv /\ [Next]_vars => ValidInv'
  BY ValidInvStep
<1>3. ValidInv => SubmittedIsValid
  BY DEF ValidInv, Passed, SubmittedIsValid
<1> QED
  BY <1>1, <1>2, <1>3, TypeCorrect, ParseInvariant, RemoteInvariant, LeftInvariant, PTL DEF Spec
=============================================================================
