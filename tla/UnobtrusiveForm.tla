--------------------------- MODULE UnobtrusiveForm ---------------------------
(***************************************************************************)
(* jquery.validate.unobtrusive.js, the part that lives as long as the page:  *)
(* it attaches the jQuery validator to a form and shows, in the containers    *)
(* of the page, what the validator finds when the user leaves a field, sends  *)
(* or resets the form, and when the server answers a remote check.           *)
(*                                                                         *)
(* A page has one form.  A handler runs to its end before another starts,    *)
(* except that a reset may raise another reset while it runs.  The validator  *)
(* (jquery.validate.js) is modelled as far as it calls this library or is     *)
(* called by it; when it checks a single field is left to the user.          *)
(***************************************************************************)
EXTENDS UnobtrusiveAdapters

CONSTANTS
    Fields,        \* the names of the inputs of a page
    Values,        \* what a user can enter, <<>> among it
    WellFormed,    \* for each rule about a format, the values that have it
    Pages,         \* the pages that are served
    MaxEdits,      \* bound: how often the user changes a value
    None

ASSUME UnobtrusiveFormAssumption ==
    /\ \A p \in Pages : p.boxes \cup p.refused \cup p.ignored \subseteq Fields
    /\ MaxEdits \in Nat
    /\ <<>> \in Values

\* Names and values are sequences; what a page says in an attribute is not
\* undefined, and a parameter that it says is not empty.  What it says about
\* replacing is JSON.
ASSUME PagesAssumption ==
    /\ Fields \subseteq Seq(STRING) /\ Values \subseteq Seq(STRING)
    /\ \A f \in Fields : f[1] # "*"
    /\ Undefined \notin BOOLEAN /\ Undefined \notin Fields /\ Undefined \notin Nat \X Nat
    /\ DOMAIN WellFormed = {"date", "digits", "email", "number", "url", "min", "max", "range"}
    /\ \A p \in Pages : /\ p.additional \in BOOLEAN
                         /\ p.replace \in [Fields -> {"true", "false", "null"}]
    /\ \A p \in Pages : \A f \in Fields : \A a \in DOMAIN p.attrs[f] :
          LET attr == p.attrs[f][a]
          IN  /\ attr.message # Undefined
              /\ \A q \in DOMAIN attr.params :
                    /\ Truthy(attr.params[q])
                    /\ q \in {"min", "max"} => attr.params[q] \in Nat
                    /\ q \in {"pattern", "regex"} => \/ attr.params[q] = Malformed
                                                \/ attr.params[q] \in Seq(Seq(STRING))
              /\ a = "equalto" => "other" \in DOMAIN attr.params
              /\ a = "remote" =>
                    RemoteFields([name |-> f],
                                 IF "additionalfields" \in DOMAIN attr.params
                                 THEN attr.params["additionalfields"] ELSE Undefined) # Undefined

VARIABLES
    page,          \* the page that was loaded
    present,       \* the inputs it has by now
    value,         \* what they hold
    edits,
    options,       \* validationInfo(form).options: rules and messages by field
    handlers,      \* how many times onReset is bound to the form
    attached,      \* whether the form has a validator
    settings,      \* the rules in its copy of the options
    container,     \* the element with data-valmsg-for of a field
    summary,       \* the element with data-valmsg-summary
    resets,        \* calls of onReset under way
    verdict,       \* what the validator showed last for a field
    errors,        \* validator.errorList
    successes,     \* validator.successList
    previous,      \* the data and the result of the last remote check of a field
    request,       \* the data of the remote check in flight
    pending,       \* validator.pending
    formSubmitted, \* the form is sent when the pending checks succeed
    left           \* whether, and how, the form was sent

pageVars == <<page, present, value, edits>>
parseVars == <<options, handlers, attached, settings>>
shownVars == <<container, summary, verdict, errors, successes>>
remoteVars == <<previous, request, pending, formSubmitted>>
vars == <<pageVars, parseVars, shownVars, remoteVars, resets, left>>

Containers == [class : {"valid", "error"},  \* field-validation-valid or -error
               label : BOOLEAN,             \* it holds the validator's label,
               tied  : BOOLEAN]             \* which knows its container

InForm == present \ page.outside

TypeOK ==
    /\ page \in Pages
    /\ present \subseteq Fields
    /\ value \in [Fields -> Values]
    /\ handlers \in {0, 1}
    /\ attached \in BOOLEAN
    /\ resets \in {0, 1}
    /\ container \in [Fields -> Containers]
    /\ summary \in [class : {"valid", "errors"}, list : SUBSET Fields]
    /\ verdict \in [Fields -> {"none", "valid", "invalid"}]
    /\ errors \subseteq Fields
    /\ successes \subseteq Fields
    /\ pending \subseteq Fields
    /\ formSubmitted \in BOOLEAN
    /\ left \in {"no", "checked", "thrown", "cancelled", "unattached"}

\* The server renders a page with the errors that it found in the last one.
Init ==
    /\ page \in Pages
    /\ present = Fields \ page.late
    /\ value = [f \in Fields |-> <<>>]
    /\ edits = 0
    /\ options = [f \in {} |-> NoRules]
    /\ handlers = 0
    /\ attached = FALSE
    /\ settings = [f \in Fields |-> <<>>]
    /\ container = [f \in Fields |->
          [class |-> IF f \in page.refused THEN "error" ELSE "valid",
           label |-> FALSE, tied |-> FALSE]]
    /\ summary = [class |-> IF page.refused = {} THEN "valid" ELSE "errors",
                  list |-> page.refused]
    /\ resets = 0
    /\ verdict = [f \in Fields |-> IF f \in page.refused THEN "invalid" ELSE "none"]
    /\ errors = {}
    /\ successes = {}
    /\ previous = [f \in Fields |-> None]
    /\ request = [f \in Fields |-> None]
    /\ pending = {}
    /\ formSubmitted = FALSE
    /\ left = "no"

\* The page is there and no handler is at work.
Ready == left = "no" /\ resets = 0

-----------------------------------------------------------------------------
(* Parsing                                                                   *)

Element(f) == [name |-> f, checkbox |-> f \in page.checkboxes, attrs |-> page.attrs[f]]

\* Elements with data-val=true.
Marked == {f \in present : DOMAIN page.attrs[f] # {}}

\* parseElement for each of these; one without a form is passed over.
ParseElements(S) ==
    options' = [f \in DOMAIN options \cup (S \cap InForm) |->
                  IF f \in S \cap InForm
                  THEN RulesOf(Element(f), InForm, page.additional)
                  ELSE options[f]]

\* The copy that $.extend makes of the rules leaves undefined values out.
Copied(rules) ==
    FoldLeft(LAMBDA kept, r : IF r.value = Undefined THEN kept ELSE Append(kept, r),
             <<>>, rules)

\* attachValidation: a validator that the form has already keeps its rules.
Attach ==
    /\ handlers' = 1
    /\ attached' = TRUE
    /\ settings' = IF attached THEN settings
                   ELSE [f \in Fields |-> IF f \in DOMAIN options'
                                         THEN Copied(options'[f].rules) ELSE <<>>]

\* parse(document), when the document is ready and when a script of the page
\* says so.
Parse ==
    /\ Ready
    /\ ~attached \/ page.late \cup page.scripted # {}
    /\ ParseElements(Marked)
    /\ IF Marked \cap InForm # {} THEN Attach
       ELSE UNCHANGED <<handlers, attached, settings>>
    /\ UNCHANGED <<pageVars, shownVars, remoteVars, resets, left>>

\* A script parses one element.
ParseElement(f) ==
    /\ Ready
    /\ f \in page.scripted \cap present
    /\ ParseElements({f})
    /\ \/ UNCHANGED <<handlers, attached, settings>>       \* skipAttach, or no form
       \/ f \in InForm /\ Attach
    /\ UNCHANGED <<pageVars, shownVars, remoteVars, resets, left>>

\* A script inserts an input.
Insert(f) ==
    /\ Ready
    /\ f \in page.late \ present
    /\ present' = present \cup {f}
    /\ UNCHANGED <<page, value, edits, parseVars, shownVars, remoteVars, resets, left>>

-----------------------------------------------------------------------------
(* What the validator shows                                                  *)

\* The validator finds its label by its error class: the library takes the
\* default class away from a label that it puts into a container.
Reused(c) == page.custom /\ c.label

\* A new label: it replaces what its container holds, or is hidden.  Of
\* data-valmsg-replace, "null" stands for what parses to a falsy value other
\* than false.
onError(f, c) ==
    IF page.replace[f] \in {"true", "null"}
    THEN [class |-> "error", label |-> TRUE, tied |-> TRUE]
    ELSE [c EXCEPT !.class = "error"]

onSuccess(f, c) ==
    IF page.replace[f] = "true"
    THEN [class |-> "valid", label |-> FALSE, tied |-> FALSE]
    ELSE [c EXCEPT !.class = "valid", !.tied = FALSE]

\* showLabel with a message, and without one: the library is called for a new
\* label, and for a success.
ShowInvalid(f, c) == IF Reused(c) THEN c ELSE onError(f, c)

ShowValid(f, c) ==
    IF ~Reused(c) THEN onSuccess(f, onError(f, c))
    ELSE IF c.tied THEN onSuccess(f, c)
    ELSE c

ShownIn(containers, bad, good) ==
    [f \in Fields |->
        IF f \notin page.boxes THEN containers[f]
        ELSE IF f \in bad THEN ShowInvalid(f, containers[f])
        ELSE IF f \in good THEN ShowValid(f, containers[f])
        ELSE containers[f]]

JudgedIn(verdicts, bad, good) ==
    [f \in Fields |-> IF f \in bad THEN "invalid"
                      ELSE IF f \in good THEN "valid" ELSE verdicts[f]]

\* showErrors, with these in errorList and those in successList.
ShowErrors(bad, good) ==
    /\ container' = ShownIn(container, bad, good)
    /\ verdict' = JudgedIn(verdict, bad, good)
    /\ errors' = bad
    /\ successes' = good

\* Mutant: the list is not emptied.
onErrorsAppending(bad) ==
    summary' = IF page.hasList /\ bad # {}
               THEN [class |-> "errors", list |-> summary.list \cup bad] ELSE summary

\* The handler of invalid-form.
onErrors(bad) ==
    summary' = IF page.hasList /\ bad # {}
               THEN [class |-> "errors", list |-> bad] ELSE summary

-----------------------------------------------------------------------------
(* What the validator finds                                                  *)

Formats == DOMAIN WellFormed
OptionalRules == {"minlength", "maxlength", "rangelength", "remote"} \cup Formats
AdditionalMethods == {"accept", "extension", "creditcard"}
Methods == {"required", "equalTo", "regex", "nonalphamin", "__dummy__"} \cup OptionalRules
             \cup (IF page.additional THEN AdditionalMethods ELSE {})

\* The data of a remote check: the value that each field has now.
Sent(r, f) == [n \in (r.value \cup {f}) \cap InForm |-> value[n]]

Satisfies(r, f) ==
    LET v == value[f]
    IN  CASE r.name = "required" -> v # <<>>
          [] r.name = "minlength" -> Len(v) >= r.value
          [] r.name = "maxlength" -> Len(v) <= r.value
          [] r.name = "rangelength" -> Len(v) \in r.value[1] .. r.value[2]
          [] r.name = "equalTo" -> v = value[r.value]
          [] r.name = "regex" -> regex(v, r.value)
          [] r.name = "nonalphamin" -> nonalphamin(v, r.value)
          [] r.name \in Formats -> v \in WellFormed[r.name]
          [] OTHER -> TRUE

\* A remote check that was made with the same data has its result at once.
RemoteResult(r, f, prev) ==
    IF prev = None \/ prev.old # Sent(r, f) THEN "pending"
    ELSE IF prev.valid THEN "ok" ELSE "bad"

\* A rule without a method, and a pattern that is none, raise an exception.
Throws(r, f) ==
    \/ r.name \notin Methods
    \/ r.name \in {"regex", "extension"} /\ RegExpThrows(value[f], r.value)

Result(r, f, prev) ==
    IF Throws(r, f) THEN "throws"
    ELSE IF r.name \in OptionalRules /\ value[f] = <<>> THEN "skip"
    ELSE IF r.name = "remote" THEN RemoteResult(r, f, prev)
    ELSE IF Satisfies(r, f) THEN "ok" ELSE "bad"

\* "required" is tried first and "remote" last.
Rank(r) == IF r.name = "required" THEN 1 ELSE IF r.name = "remote" THEN 3 ELSE 2

\* check: the first rule that does not hold decides; a field whose only rule
\* does not apply is neither in error nor a success.
Check(f, prev) ==
    LET rules == settings[f]
        results == [i \in DOMAIN rules |-> Result(rules[i], f, prev)]
        stops == {i \in DOMAIN rules : results[i] \in {"bad", "pending", "throws"}}
        before(i, j) == \/ Rank(rules[i]) < Rank(rules[j])
                        \/ Rank(rules[i]) = Rank(rules[j]) /\ i <= j
    IN  IF stops # {} THEN results[CHOOSE i \in stops : \A j \in stops : before(i, j)]
        ELSE IF results = <<"skip">> THEN "skip" ELSE "ok"

\* The fields that the validator looks at: no hidden and no disabled ones.
Checked == {f \in InForm \ page.ignored : settings[f] # <<>>}

That(S, prevs, result) == {f \in S : Check(f, prevs[f]) = result}

RemoteRule(f) ==
    LET rules == settings[f]
    IN  rules[CHOOSE i \in DOMAIN rules : rules[i].name = "remote"]

\* Requests for these fields; a new one aborts the last one of its field.
StartRequests(S, prevs, requests, wait) ==
    /\ previous' = [f \in Fields |->
          IF f \in S THEN [old |-> Sent(RemoteRule(f), f),
                           valid |-> prevs[f] = None \/ prevs[f].valid]
          ELSE prevs[f]]
    /\ request' = [f \in Fields |-> IF f \in S THEN Sent(RemoteRule(f), f) ELSE requests[f]]
    /\ pending' = wait \cup S

\* form(): every field is checked, what is found is shown, and the checks that
\* need the server are asked for.
Form(prevs) ==
    /\ That(Checked, prevs, "throws") = {}
    /\ LET bad == That(Checked, prevs, "bad")
       IN  /\ ShowErrors(bad, That(Checked, prevs, "ok"))
           /\ onErrors(bad)

\* An exception ends the check of the form: some of the other fields, in their
\* order on the page, were checked before, and nothing of it is shown.
FormThrows(prevs, requests, wait) ==
    /\ That(Checked, prevs, "throws") # {}
    /\ \E S \in SUBSET (Checked \ That(Checked, prevs, "throws")) :
          /\ errors' = That(S, prevs, "bad")
          /\ successes' = That(S, prevs, "ok")
          /\ StartRequests(That(S, prevs, "pending"), prevs, requests, wait)

-----------------------------------------------------------------------------
(* The user                                                                  *)

\* The user enters a value, or a script of the page does.
Edit(f) ==
    /\ Ready
    /\ edits < MaxEdits
    /\ f \in InForm
    /\ \E v \in Values : value' = [value EXCEPT ![f] = v]
    /\ edits' = edits + 1
    /\ UNCHANGED <<page, present, parseVars, shownVars, remoteVars, resets, left>>

\* The validator checks the field that the user leaves, types in or clicks.
CheckField(f) ==
    /\ Ready
    /\ f \in Checked
    /\ IF Check(f, previous[f]) = "throws"
       THEN /\ errors' = {}
            /\ successes' = {}
            /\ UNCHANGED <<container, verdict, remoteVars>>
       ELSE /\ ShowErrors(That({f}, previous, "bad"), That({f}, previous, "ok"))
            /\ StartRequests(That({f}, previous, "pending"), previous, request, pending)
            /\ UNCHANGED formSubmitted
    /\ UNCHANGED <<pageVars, parseVars, summary, resets, left>>

\* The form is sent by the user: it is sent to the server if no field is in
\* error and no check is pending, later if one is.
Submit ==
    /\ Ready
    /\ attached
    /\ Form(previous)
    /\ StartRequests(That(Checked, previous, "pending"), previous, request, pending)
    /\ formSubmitted' = (formSubmitted \/ (errors' = {} /\ pending' # {}))
    /\ left' = IF errors' = {} /\ pending' = {} THEN "checked" ELSE "no"
    /\ UNCHANGED <<pageVars, parseVars, resets>>

\* An exception in the validator's handler leaves the sending to the browser.
SubmitThrows ==
    /\ Ready
    /\ That(Checked, previous, "throws") # {}
    /\ left' = "thrown"
    /\ UNCHANGED <<pageVars, parseVars, shownVars, remoteVars, resets>>

\* A button with the class cancel, or with formnovalidate, sends it unchecked.
SubmitCancelled ==
    /\ Ready
    /\ attached
    /\ page.cancels
    /\ left' = "cancelled"
    /\ UNCHANGED <<pageVars, parseVars, shownVars, remoteVars, resets>>

\* So is a form without a validator.
SubmitUnattached ==
    /\ Ready
    /\ ~attached
    /\ left' = "unattached"
    /\ UNCHANGED <<pageVars, parseVars, shownVars, remoteVars, resets>>

\* validate(), which unobtrusive Ajax calls: the check without the sending.
Validate ==
    /\ Ready
    /\ attached
    /\ Form(previous)
    /\ StartRequests(That(Checked, previous, "pending"), previous, request, pending)
    /\ UNCHANGED <<pageVars, parseVars, formSubmitted, resets, left>>

\* Its caller gets the exception.
ValidateThrows ==
    /\ Ready
    /\ FormThrows(previous, request, pending)
    /\ UNCHANGED <<pageVars, parseVars, container, summary, verdict, formSubmitted,
                   resets, left>>

-----------------------------------------------------------------------------
(* A reset                                                                   *)

DefaultValues == value' = [f \in Fields |-> <<>>]

\* Mutant: a reset that runs does not keep another from running.
ResetAgain ==
    /\ left = "no"
    /\ resets < 2
    /\ handlers # 0
    /\ resets' = resets + 1
    /\ errors' = {}
    /\ successes' = {}
    /\ previous' = [f \in Fields |-> None]
    /\ UNCHANGED <<pageVars, parseVars, container, summary, verdict, request,
                   pending, formSubmitted, left>>

\* onReset sets its flag and calls resetForm of the validator, which forgets
\* what it found and asked, but neither what is pending nor that the form is
\* to be sent.
Reset ==
    /\ Ready
    /\ handlers # 0
    /\ resets' = 1
    /\ errors' = {}
    /\ successes' = {}
    /\ previous' = [f \in Fields |-> None]
    /\ UNCHANGED <<pageVars, parseVars, container, summary, verdict, request,
                   pending, formSubmitted, left>>

\* With jquery.form.js, resetForm resets the form: onReset finds its flag set.
NestedReset ==
    /\ resets = 1
    /\ page.plugin
    /\ DefaultValues
    /\ UNCHANGED <<page, present, edits, parseVars, shownVars, remoteVars, resets, left>>

\* A container with an error becomes valid, its label forgets it.
ClearedContainer(f, c) ==
    IF f \notin page.boxes THEN c
    ELSE [c EXCEPT !.class = "valid", !.tied = @ /\ c.class = "valid"]

\* Mutant: the containers are left as they are.
ResetEndsSummary ==
    /\ resets = 1
    /\ resets' = 0
    /\ verdict' = [f \in Fields |-> "none"]
    /\ summary' = [summary EXCEPT !.class = "valid"]
    /\ DefaultValues
    /\ UNCHANGED <<page, present, edits, parseVars, container, errors, successes,
                   remoteVars, left>>

\* The flag is cleared, the containers and the summary are set to valid, and
\* the browser gives the fields their first values.
ResetEnds ==
    /\ resets = 1
    /\ resets' = 0
    /\ container' = [f \in Fields |-> ClearedContainer(f, container[f])]
    /\ verdict' = [f \in Fields |-> "none"]
    /\ summary' = [summary EXCEPT !.class = "valid"]
    /\ DefaultValues
    /\ UNCHANGED <<page, present, edits, parseVars, errors, successes,
                   remoteVars, left>>

-----------------------------------------------------------------------------
(* The server                                                                *)

\* A remote check accepts some values, and none that an additional field has.
Accepts(f, data) ==
    /\ data[f] \in page.accepted
    /\ \A n \in DOMAIN data \ {f} : data[n] # data[f]

\* What the answer to the request of a field leaves: it sets the result of the
\* last check, unless a reset has dropped that.
Answered(f, valid) ==
    [g \in Fields |-> IF g = f /\ previous[f] # None
                      THEN [previous[f] EXCEPT !.valid = valid] ELSE previous[g]]

Asked(f) == [request EXCEPT ![f] = None]

\* The field is shown as valid; the form still waits, or was never sent.
AnswerAccepted(f) ==
    /\ Ready
    /\ request[f] # None
    /\ Accepts(f, request[f])
    /\ ~(formSubmitted /\ pending = {f})
    /\ ShowErrors({}, {f})
    /\ StartRequests({}, Answered(f, TRUE), Asked(f), pending \ {f})
    /\ UNCHANGED <<pageVars, parseVars, summary, formSubmitted, resets, left>>

\* The last check that a sent form waited for: the form is checked once more,
\* and sent if nothing is in error or pending.
AnswerSends(f) ==
    LET prevs == Answered(f, TRUE)
        bad == That(Checked, prevs, "bad")
        good == That(Checked, prevs, "ok")
    IN  /\ Ready
        /\ request[f] # None
        /\ Accepts(f, request[f])
        /\ formSubmitted /\ pending = {f}
        /\ That(Checked, prevs, "throws") = {}
        /\ container' = ShownIn(ShownIn(container, {}, {f}), bad, good)
        /\ verdict' = JudgedIn(JudgedIn(verdict, {}, {f}), bad, good)
        /\ errors' = bad
        /\ successes' = good
        /\ onErrors(bad)
        /\ StartRequests(That(Checked, prevs, "pending"), prevs, Asked(f), {})
        /\ left' = IF errors' = {} /\ pending' = {} THEN "checked" ELSE "no"
        /\ UNCHANGED <<pageVars, parseVars, formSubmitted, resets>>

\* The same, with an exception in the check: the form stays.
AnswerThrows(f) ==
    /\ Ready
    /\ request[f] # None
    /\ Accepts(f, request[f])
    /\ formSubmitted /\ pending = {f}
    /\ container' = ShownIn(container, {}, {f})
    /\ verdict' = JudgedIn(verdict, {}, {f})
    /\ FormThrows(Answered(f, TRUE), Asked(f), {})
    /\ UNCHANGED <<pageVars, parseVars, summary, formSubmitted, resets, left>>

\* The field is added to the errors of the last check, which are all shown
\* again; a sent form that waited for this answer alone is refused.
AnswerRefused(f) ==
    /\ Ready
    /\ request[f] # None
    /\ ~Accepts(f, request[f])
    /\ ShowErrors(errors \cup {f}, successes \ {f})
    /\ StartRequests({}, Answered(f, FALSE), Asked(f), pending \ {f})
    /\ IF formSubmitted /\ pending = {f}
       THEN onErrors(errors \cup {f}) /\ formSubmitted' = FALSE
       ELSE UNCHANGED <<summary, formSubmitted>>
    /\ UNCHANGED <<pageVars, parseVars, resets, left>>

\* The request fails: the validator has no handler for that.
AnswerLost(f) ==
    /\ Ready
    /\ request[f] # None
    /\ request' = Asked(f)
    /\ UNCHANGED <<pageVars, parseVars, shownVars, previous, pending, formSubmitted,
                   resets, left>>

Next ==
    \/ Parse
    \/ \E f \in Fields : ParseElement(f) \/ Insert(f)
    \/ \E f \in Fields : Edit(f) \/ CheckField(f)
    \/ Submit \/ SubmitThrows \/ SubmitCancelled \/ SubmitUnattached
    \/ Validate \/ ValidateThrows
    \/ Reset \/ NestedReset \/ ResetEnds
    \/ \E f \in Fields :
        \/ AnswerAccepted(f) \/ AnswerSends(f) \/ AnswerThrows(f)
        \/ AnswerRefused(f) \/ AnswerLost(f)

Spec == Init /\ [][Next]_vars

-----------------------------------------------------------------------------
(* Properties                                                                *)

\* A label of an errorClass of its own that has lost its container.
Orphan(f) == page.custom /\ container[f].label /\ ~container[f].tied

\* The container of a field has the class of an error exactly if the last that
\* the validator, or the server, said of the field since a reset is that it is
\* invalid: whichever of checks, answers and resets came in between.
ContainersTell ==
    \A f \in page.boxes :
        Orphan(f) \/ (container[f].class = "error" <=> verdict[f] = "invalid")

\* The summary changes to the errors that the validator has just found, all of
\* them and no others, or is hidden as it is by a reset.
SummaryFollowsErrors ==
    [][summary' # summary =>
         \/ summary'.class = "errors" /\ summary'.list = errors' /\ errors' # {}
         \/ summary' = [summary EXCEPT !.class = "valid"] /\ resets = 1]_vars

\* Adapters by their place in the list, and the rules that the i-th one sets.
Adapter(i) == adapters[page.additional][i]
Places == DOMAIN adapters[page.additional]
Sets(f, i) ==
    IF Adapter(i).name \notin DOMAIN page.attrs[f] THEN {}
    ELSE RuleNames(Adapt(Adapter(i), Element(f), InForm))

\* What parsing has left for each field, against the attributes that it has.
RulesFollowAttributes ==
    \A f \in DOMAIN options :
        \A n \in RuleNames(options[f].rules) \ {"__dummy__"} :
            LET setters == {i \in Places : n \in Sets(f, i)}
                texts(S) == {page.attrs[f][Adapter(i).name].message : i \in S} \ {Empty}
                messages == {m.text : m \in {m \in options[f].messages : m.rule = n}}
                last == texts({Max(setters)})
            IN  IF last # {} THEN messages = last
                ELSE messages \subseteq texts(setters) /\ Cardinality(messages) <= 1

\* Whatever is parsed, and however often: of the attributes that set a rule, the
\* last one in the order of the adapters gives the message if it has one; else
\* the message is one of the others', or there is none.
MessagesFollowRules == [][options' # options => RulesFollowAttributes']_vars

\* What an attribute of a field asks of its value, by what the server checks:
\* nothing if a parameter is missing or another attribute sets the same rule.
Overridden(f, a) ==
    \E i, j \in Places : Adapter(i).name = a /\ i < j /\ Sets(f, i) \cap Sets(f, j) # {}

Meets(f, a) ==
    LET v == value[f]
        params == page.attrs[f][a].params
        Has(p) == p \in DOMAIN params
        Formatted(format) == v \in WellFormed[format]
        Sibling(name) == IF name[1] = "*" THEN Front(f) \o Tail(name) ELSE name
        InBounds == /\ Has("min") => Len(v) >= params["min"]
                    /\ Has("max") => Len(v) <= params["max"]
        Like(p) == Has(p) => params[p] # Malformed /\ v \in ToSet(params[p])
        Others == IF Has("additionalfields")
                  THEN {Sibling(n) : n \in params["additionalfields"]} ELSE {}
    IN  CASE a = "required" -> v # <<>> \/ f \in page.checkboxes
          [] a \in {"length", "minlength", "maxlength"} -> v = <<>> \/ InBounds
          [] a = "regex" -> v = <<>> \/ Like("pattern")
          [] a = "password" ->
                /\ v = <<>> \/ ((Has("min") => Len(v) >= params["min"]) /\ Like("regex"))
                /\ Has("nonalphamin") => NonAlphas(v) >= params["nonalphamin"]
          [] a = "equalto" ->
                LET other == Sibling(params["other"])
                IN  other \in Fields \ (page.late \cup page.outside) => v = value[other]
          [] a = "remote" ->
                v = <<>> \/ Accepts(f, [n \in (Others \cup {f}) \cap InForm |-> value[n]])
          [] a = "range" ->
                \/ v = <<>>
                \/ /\ Has("min") /\ Has("max") => Formatted("range")
                   /\ Has("min") /\ ~Has("max") => Formatted("min")
                   /\ ~Has("min") /\ Has("max") => Formatted("max")
          [] a \in {"date", "digits", "email", "number", "url"} -> v = <<>> \/ Formatted(a)
          [] OTHER -> TRUE

\* The fields that the validator must judge: those of the loaded page that are
\* neither hidden nor disabled, unless a script attached the validator before
\* they were parsed.
Covered == IF page.scripted = {} THEN InForm \ (page.late \cup page.ignored) ELSE Checked

\* A form that the validator lets pass meets each attribute of its fields that
\* are neither hidden nor disabled, the remote checks among them with the values
\* that are sent, whatever was edited, reset, answered or lost in between.
SubmittedIsValid ==
    left = "checked" =>
        \A f \in Covered : \A a \in DOMAIN page.attrs[f] : Overridden(f, a) \/ Meets(f, a)

\* A field with an attribute for which the validator has no method.
Unsupported(f) ==
    LET A == DOMAIN page.attrs[f]
    IN  \/ ~page.additional /\ A \cap {"creditcard", "extension", "fileextensions"} # {}
        \/ "minlength" \in A /\ "max" \in DOMAIN page.attrs[f]["minlength"].params
        \/ "maxlength" \in A /\ {"min", "max"} \subseteq DOMAIN page.attrs[f]["maxlength"].params

\* A field with a value, and with a pattern for it that JavaScript does not accept.
BadPattern(f) ==
    LET Given(a, p) == /\ a \in DOMAIN page.attrs[f]
                       /\ p \in DOMAIN page.attrs[f][a].params
                       /\ page.attrs[f][a].params[p] = Malformed
    IN  /\ value[f] # <<>>
        /\ \/ Given("regex", "pattern") \/ Given("password", "regex")
           \/ Given("extension", "extension") \/ Given("fileextensions", "extensions")

\* A form leaves unchecked only before it is parsed, by a button of the page that
\* asks for it, or because of a field that makes the validator throw.
UncheckedHasReason ==
    /\ left = "thrown" => \E f \in Checked : Unsupported(f) \/ BadPattern(f)
    /\ left = "cancelled" => page.cancels
    /\ left = "unattached" => handlers = 0
=============================================================================
