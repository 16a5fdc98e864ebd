-------------------------- MODULE MCUnobtrusiveForm --------------------------
(***************************************************************************)
(* Pages of two or three inputs for TLC: between them they use every kind of *)
(* adapter, alone and in pairs that set the same rule, and every way to show  *)
(* an error.                                                                 *)
(***************************************************************************)
EXTENDS UnobtrusiveForm

A == <<"M", "A">>
B == <<"M", "B">>
Stray == <<"S">>
MCFields == {A, B, Stray}

\* Nothing, a letter, a letter and a character that is none.
MCValues == {<<>>, <<"a">>, <<"a", "!">>}
MCWellFormed == [r \in {"date", "digits", "email", "number", "url", "min", "max", "range"} |->
                   {<<"a">>}]
MCNonWord == {"!"}

Attr(message, params) == [message |-> message, params |-> params]
NoParams == <<>>

Required == "required" :> Attr("required", NoParams)
Regex == "regex" :> Attr("regex", "pattern" :> << <<"a">>, <<"a", "!">> >>)
Exact == "regex" :> Attr("regex", "pattern" :> << <<"a">> >>)
Length(min, max) == "length" :> Attr("length", "min" :> min @@ "max" :> max)
MaxLength(m, max) == "maxlength" :> Attr(m, "max" :> max)
MinLength(m, min) == "minlength" :> Attr(m, "min" :> min)
Remote(others) == "remote" :> Attr("remote", "url" :> "u" @@ "additionalfields" :> others)

\* A page with these attributes of its two fields and nothing special.
Page(a, b) ==
    [attrs |-> A :> a @@ B :> b @@ Stray :> Required,
     checkboxes |-> {}, late |-> {}, outside |-> {Stray}, scripted |-> {},
     boxes |-> {A, B}, replace |-> [f \in MCFields |-> "true"], hasList |-> TRUE,
     refused |-> {}, accepted |-> {<<"a">>, <<"a", "!">>},
     additional |-> FALSE, plugin |-> FALSE, custom |-> FALSE,
     ignored |-> {}, cancels |-> FALSE]

Unique == Page(Remote({<<"*", "A">>, <<"*", "B">>}), Required)

\* Adapters alone and together.
RulePages ==
    { Page(Required @@ Length(1, 1), "equalto" :> Attr("equalto", "other" :> <<"*", "A">>)),
      Page(Regex @@ MinLength("minlength", 2),
           "length" :> Attr("length", "max" :> 1) @@ MaxLength(Empty, 2)),
      Page("password" :> Attr("password", "min" :> 1 @@ "nonalphamin" :> 1
                                            @@ "regex" :> << <<"a">>, <<"a", "!">> >>)
             @@ Regex, "digits" :> Attr("digits", NoParams)),
      Page("password" :> Attr("password", "nonalphamin" :> 0) @@ Required,
           "range" :> Attr("range", "min" :> 1)),
      [Page(Required @@ "creditcard" :> Attr("creditcard", NoParams),
            "fileextensions" :> Attr("fileextensions", "extensions" :> "x"))
         EXCEPT !.additional = TRUE],
      Page(Required, "creditcard" :> Attr("creditcard", NoParams) @@ Required),
      Page(Required @@ "minlength" :> Attr("minlength", "min" :> 1 @@ "max" :> 2), Required),
      [Page("regex" :> Attr("regex", NoParams), Required) EXCEPT !.checkboxes = {B}],
      [Page(Required @@ "equalto" :> Attr("equalto", "other" :> <<"*", "B">>), Required)
         EXCEPT !.late = {B}],
      [Page(Required @@ Exact, MinLength("minlength", 2)) EXCEPT !.scripted = {A, Stray}] }

\* Fields that are not checked, forms that are not, and patterns that cannot be.
UncheckedPages ==
    { [Page(Required @@ Length(1, 1), "equalto" :> Attr("equalto", "other" :> <<"*", "A">>))
         EXCEPT !.ignored = {A}],
      [Page("regex" :> Attr("regex", "pattern" :> Malformed), Required) EXCEPT !.cancels = TRUE],
      Page("password" :> Attr("password", "min" :> 2 @@ "regex" :> Malformed),
           Remote({<<"*", "B">>, <<"*", "A">>})),
      [Page("extension" :> Attr("extension", "extension" :> Malformed),
            "fileextensions" :> Attr("fileextensions", "extensions" :> Malformed))
         EXCEPT !.additional = TRUE] }

\* Remote checks.
RemotePages ==
    { Unique,
      [Page(Remote({<<"*", "A">>}), Remote({<<"*", "B">>, <<"M", "A">>}))
         EXCEPT !.accepted = {<<"a">>}] }

\* Ways to show errors.
ShownPages ==
    { [Page(MinLength("minlength", 2), Remote({<<"*", "B">>}))
         EXCEPT !.replace = [f \in MCFields |-> r], !.custom = c, !.plugin = c,
                !.boxes = x, !.refused = x, !.hasList = (x = {A, B}), !.accepted = {<<"a">>}] :
      r \in {"true", "false", "null"}, c \in BOOLEAN, x \in {{A, B}, {B}} }

MCPages == RulePages \cup UncheckedPages \cup RemotePages \cup ShownPages
=============================================================================
