------------------------- MODULE UnobtrusiveAdapters -------------------------
(***************************************************************************)
(* jquery.validate.unobtrusive.js, the part that reads a form: adapters turn *)
(* the data-val-* attributes of an input into rules and messages of the      *)
(* jQuery validator, and the methods it adds judge values.                   *)
(*                                                                         *)
(* A name is the sequence of its segments, "M.A" is <<"M", "A">> and "*.A"   *)
(* is <<"*", "A">>.  A value is a sequence of characters, a pattern the       *)
(* sequence of its alternatives or Malformed, a number in an attribute a      *)
(* natural number.                                                           *)
(* An element is a record of its name, whether it is a checkbox, and its      *)
(* attributes: for some adapters a message and some parameters.              *)
(***************************************************************************)
EXTENDS Naturals, FiniteSets, SequencesExt, FiniteSetsExt

CONSTANTS
    Undefined,   \* JavaScript's undefined
    Empty,       \* the empty string, where it is falsy
    NonWord,     \* the characters that \W matches
    Malformed    \* a pattern that JavaScript does not accept

\* The names of rules and parameters.
Names == {"accept", "creditcard", "date", "digits", "email", "equalTo", "extension", "max",
          "maxlength", "mimtype", "min", "minlength", "nonalphamin", "number", "pattern",
          "range", "rangelength", "regex", "remote", "required", "url", "__dummy__"}

ASSUME UnobtrusiveAdaptersAssumption == 
    /\ Undefined # Empty /\ {Undefined, Empty} \cap Names = {}
    /\ Malformed # Undefined

Truthy(v) == v \notin {Undefined, Empty}
Or(v, default) == IF Truthy(v) THEN v ELSE default

-----------------------------------------------------------------------------
(* Names                                                                     *)

getModelPrefix(fieldName) == Front(fieldName)

appendModelPrefix(name, prefix) ==
    IF name[1] = "*" THEN prefix \o Tail(name) ELSE name

-----------------------------------------------------------------------------
(* Adapters: their registration and what they are registered with            *)

\* The functions with parameters: "adapt" names the function, the other
\* fields are what its closure holds.
addBool(adapterName, ruleName) ==
    [name |-> adapterName, params |-> {}, adapt |-> "bool",
     rule |-> Or(ruleName, adapterName)]

addMinMax(adapterName, minRule, maxRule, minMaxRule, minAttribute, maxAttribute) ==
    [name |-> adapterName, adapt |-> "minMax",
     params |-> {Or(minAttribute, "min"), Or(maxAttribute, "max")},
     minRule |-> minRule, maxRule |-> maxRule, minMaxRule |-> minMaxRule]

addSingleVal(adapterName, attribute, ruleName) ==
    [name |-> adapterName, params |-> {Or(attribute, "val")}, adapt |-> "singleVal",
     attribute |-> attribute, rule |-> Or(ruleName, adapterName)]

add(adapterName, params) == [name |-> adapterName, params |-> params, adapt |-> adapterName]

\* Whether additional-methods.js is loaded decides what "extension" means.
ExtensionAdapters(additional) ==
    IF additional
    THEN << addSingleVal("accept", "mimtype", Undefined),
            addSingleVal("extension", "extension", Undefined) >>
    ELSE << addSingleVal("extension", "extension", "accept") >>

OtherAdapters ==
    << addSingleVal("regex", "pattern", Undefined),
       addBool("creditcard", Undefined), addBool("date", Undefined),
       addBool("digits", Undefined), addBool("email", Undefined),
       addBool("number", Undefined), addBool("url", Undefined),
       addMinMax("length", "minlength", "maxlength", "rangelength", Undefined, Undefined),
       addMinMax("range", "min", "max", "range", Undefined, Undefined),
       addMinMax("minlength", "minlength", Undefined, Undefined, Undefined, Undefined),
       addMinMax("maxlength", "minlength", "maxlength", Undefined, Undefined, Undefined),
       add("equalto", {"other"}), add("required", {}),
       add("remote", {"url", "type", "additionalfields"}),
       add("password", {"min", "nonalphamin", "regex"}),
       add("fileextensions", {"extensions"}) >>

adapters == [additional \in BOOLEAN |-> ExtensionAdapters(additional) \o OtherAdapters]

-----------------------------------------------------------------------------
(* Rules: a sequence of rules with their values in the order they were set,  *)
(* and the messages of some of them.                                         *)

NoRules == [rules |-> <<>>, messages |-> {}]

Rule(name, value) == [name |-> IF name = Undefined THEN "undefined" ELSE name,
                      value |-> value]

RuleNames(rules) == {rules[i].name : i \in DOMAIN rules}

PutRule(rules, r) ==
    IF r.name \in RuleNames(rules)
    THEN [i \in DOMAIN rules |-> IF rules[i].name = r.name THEN r ELSE rules[i]]
    ELSE Append(rules, r)

\* Mutant: an empty message erases the one that another adapter left.
setValidationValuesErasing(result, message, r) ==
    [rules    |-> PutRule(result.rules, r),
     messages |-> {m \in result.messages : m.rule # r.name}
                    \cup {[rule |-> r.name, text |-> message]}]

\* The value is always replaced, the message only by one that is not empty.
setValidationValues(result, message, r) ==
    [rules    |-> PutRule(result.rules, r),
     messages |-> IF ~Truthy(message) THEN result.messages
                  ELSE {m \in result.messages : m.rule # r.name}
                         \cup {[rule |-> r.name, text |-> message]}]

\* The parameters an adapter is handed: those it was registered with, whose
\* attribute may be missing.
Param(adapter, element, name) ==
    LET written == element.attrs[adapter.name].params
    IN  IF name \in adapter.params /\ name \in DOMAIN written
        THEN written[name] ELSE Undefined

SetIf(name, value) == IF Truthy(value) THEN <<Rule(name, value)>> ELSE <<>>

\* Mutant: a single bound sets the rule that has both.
MinMaxAlways(adapter, min, max) == <<Rule(adapter.minMaxRule, <<min, max>>)>>

MinMax(adapter, min, max) ==
    IF Truthy(min) /\ Truthy(max) THEN <<Rule(adapter.minMaxRule, <<min, max>>)>>
    ELSE IF Truthy(min) THEN <<Rule(adapter.minRule, min)>>
    ELSE SetIf(adapter.maxRule, max)

\* The input that "other" names, if the form has one.
EqualTo(element, other, inputs) ==
    LET full == appendModelPrefix(other, getModelPrefix(element.name))
    IN  IF full \in inputs THEN full ELSE Undefined

\* The fields whose values a remote check sends.
RemoteFields(element, additionalfields) ==
    LET prefix == getModelPrefix(element.name)
    IN  {appendModelPrefix(n, prefix) : n \in Or(additionalfields, {element.name})}

\* The rules that an adapter sets for an element of a form with these inputs.
Adapt(adapter, element, inputs) ==
    LET P(name) == Param(adapter, element, name)
    IN  CASE adapter.adapt = "bool" -> <<Rule(adapter.rule, TRUE)>>
          [] adapter.adapt = "singleVal" -> <<Rule(adapter.rule, P(adapter.attribute))>>
          [] adapter.adapt = "minMax" -> MinMax(adapter, P("min"), P("max"))
          [] adapter.adapt = "equalto" ->
                <<Rule("equalTo", EqualTo(element, P("other"), inputs))>>
          [] adapter.adapt = "required" ->
                IF element.checkbox THEN <<>> ELSE <<Rule("required", TRUE)>>
          [] adapter.adapt = "remote" ->
                <<Rule("remote", RemoteFields(element, P("additionalfields")))>>
          [] adapter.adapt = "password" ->
                SetIf("minlength", P("min")) \o SetIf("nonalphamin", P("nonalphamin"))
                  \o SetIf("regex", P("regex"))
          [] adapter.adapt = "fileextensions" ->
                <<Rule("extension", P("extensions"))>>

\* The rules of one adapter, set one after the other.
SetAll(result, message, rules) ==
    FoldLeft(LAMBDA res, r : setValidationValues(res, message, r), result, rules)

\* An adapter is asked if the element has its attribute.
Adapted(result, adapter, element, inputs) ==
    IF adapter.name \in DOMAIN element.attrs
    THEN SetAll(result, element.attrs[adapter.name].message, Adapt(adapter, element, inputs))
    ELSE result

\* parseElement: every adapter, one after the other, and a rule that always holds.
RulesOf(element, inputs, additional) ==
    LET adapted == FoldLeft(LAMBDA result, adapter : Adapted(result, adapter, element, inputs),
                            NoRules, adapters[additional])
    IN  [rules |-> PutRule(adapted.rules, Rule("__dummy__", TRUE)),
         messages |-> adapted.messages]

-----------------------------------------------------------------------------
(* The methods that the library adds to the validator                        *)

\* RegExp.exec at the start of the value: the first alternative that matches.
MatchLength(value, pattern) ==
    LET matching == {i \in DOMAIN pattern : IsPrefix(pattern[i], value)}
    IN  Len(pattern[Min(matching)])

Matches(value, pattern) ==
    \E i \in DOMAIN pattern : IsPrefix(pattern[i], value)

\* Mutant: a match of a part of the value is enough.
regexOfPart(value, pattern) == value = <<>> \/ Matches(value, pattern)

\* new RegExp throws; it is not reached for an empty value.
RegExpThrows(value, pattern) == value # <<>> /\ pattern = Malformed

regex(value, pattern) ==
    \/ value = <<>>
    \/ Matches(value, pattern) /\ MatchLength(value, pattern) = Len(value)

NonAlphas(value) == Cardinality({i \in DOMAIN value : value[i] \in NonWord})

\* value.match(/\W/g) is null when there is none: then no number is reached,
\* not even 0.
nonalphamin(value, min) == Truthy(min) /\ NonAlphas(value) > 0 /\ NonAlphas(value) >= min
=============================================================================
