--------------------------- MODULE MCIntegrations ---------------------------
(* An integration whose option moves its files (a), a skills agent (b) and one
   that is not multi-install safe (c); a release adds a file of b. *)
EXTENDS Integrations

CONSTANTS a, b, c, a1, a2, b1, b2, c1, skills, template

\* The context file of b is an .mdc file that Spec Kit creates, that of c one of the
\* user's, with frontmatter.
MCContext == a :> <<"text">> @@ b :> <<>> @@ c :> <<"fence", "never", "text", "fence", "text">>
MCOption == a :> {skills} @@ b :> {} @@ c :> {}
MCProvides == [v \in 1..MaxVersion |->
  a :> (Unset :> {a1} @@ skills :> {a2})
  @@ b :> (Unset :> IF v = 1 THEN {b1} ELSE {b1, b2})
  @@ c :> (Unset :> {c1})]
MCSep == a :> (Unset :> "." @@ skills :> "-") @@ b :> (Unset :> "-") @@ c :> (Unset :> ".")
=============================================================================
