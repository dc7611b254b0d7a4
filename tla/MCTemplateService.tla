--------------------------- MODULE MCTemplateService ---------------------------
(* TemplateService for TLC: one body does not parse, nor does the
   text an author writes, nor the text made from another body. *)
EXTENDS TemplateService, TLC

CONSTANTS h1, h2, bad, w1

Unparsed == {Made(h2), [kind |-> "written", of |-> w1]}

Ids == Permutations(Template)
=============================================================================
