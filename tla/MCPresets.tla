----------------------------- MODULE MCPresets -----------------------------
(* Three presets over a core command, an extension's command and one of their own. *)
EXTENDS Presets, TLC

CONSTANTS a1, a2, p, q, r, spec, sync, own, core, extension, overrides

MCRank == p :> 1 @@ q :> 2 @@ r :> 3
MCProvides ==
  p :> (spec :> "append" @@ own :> "append")
  @@ q :> (spec :> "wrap" @@ sync :> "prepend")
  @@ r :> (spec :> "replace" @@ sync :> "replace" @@ own :> "replace")
\* The files of r's own command and of the extension's command have other names; q
\* lists a file for own that is missing beside one of the command's name.
MCByName == p :> {spec, own} @@ q :> {spec, sync, own} @@ r :> {spec, sync}
=============================================================================
