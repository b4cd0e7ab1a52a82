--------------------------- MODULE PresetResolver ---------------------------
(***************************************************************************)
(* PresetResolver (specify_cli/presets.py): the stack of layers that may    *)
(* provide a command and what they compose to.  A layer is a project        *)
(* override, an installed preset, an extension or the core.                 *)
(***************************************************************************)
EXTENDS Naturals, Sequences, FiniteSets, CommandRegistrar

CONSTANTS
  Preset, Rank,       \* presets, and their alphabetical order
  Provides,           \* [Preset -> [names whose file, as its manifest gives it, is there -> strategy]]
  ByName,             \* [Preset -> the names with a file commands/<name>.md]
  ExtCommand,         \* the names provided by the extension
  ExtByName,          \* those of them with a file commands/<name>.md
  CoreCommand,        \* the names provided by the core
  HasScripts,         \* the layers whose frontmatter has a scripts key
  Override, Extension, Core, NoLayer  \* the other layers

LayerId == Preset \cup {Override, Extension, Core}
Strategy == {"replace", "prepend", "append", "wrap"}

ASSUME ResolverAssumption ==
  /\ IsFiniteSet(Preset) /\ Rank \in [Preset -> Nat]
  /\ \A p, q \in Preset : Rank[p] = Rank[q] => p = q
  /\ \A p \in Preset : DOMAIN Provides[p] \subseteq Name /\ Provides[p] \in [DOMAIN Provides[p] -> Strategy]
  /\ ByName \in [Preset -> SUBSET Name] /\ ExtByName \subseteq ExtCommand
  /\ ExtCommand \subseteq Name /\ CoreCommand \subseteq Name /\ ExtCommand \cap CoreCommand = {}
  /\ {Override, Extension, Core, NoLayer} \cap Preset = {}
  /\ Override \notin {Extension, Core, NoLayer} /\ Extension \notin {Core, NoLayer} /\ Core # NoLayer

\* PresetRegistry.list_by_priority: enabled entries by priority, then by id.
Ahead(reg, p, q) ==
  \/ reg[p].prio < reg[q].prio
  \/ reg[p].prio = reg[q].prio /\ Rank[p] < Rank[q]
Sorted(reg, S) ==
  {s \in [1..Cardinality(S) -> S] :
     /\ \A p \in S : \E i \in DOMAIN s : s[i] = p
     /\ \A i, j \in DOMAIN s : i < j => Ahead(reg, s[i], s[j])}
ListByPriority(reg, among) == CHOOSE s \in Sorted(reg, {p \in among : reg[p].enabled}) : TRUE

Layer(id, strategy) == [id |-> id, strategy |-> strategy]

\* collect_all_layers, highest precedence first: the manifest says where a preset's
\* file is, and presets without it are passed over (every file of a preset is listed
\* in its manifest here); an extension's command is also looked for in its manifest.  ext: is the extension in the stack (enabled, or a
\* directory without registry entry)?
CollectAllLayers(reg, override, ext, n) ==
  LET packs == ListByPriority(reg, {p \in Preset : n \in DOMAIN Provides[p]})
  IN  (IF n \in override THEN <<Layer(Override, "replace")>> ELSE <<>>)
      \o [i \in 1..Len(packs) |-> Layer(packs[i], Provides[packs[i]][n])]
      \o (IF ext /\ n \in ExtCommand THEN <<Layer(Extension, "replace")>> ELSE <<>>)
      \o (IF n \in CoreCommand THEN <<Layer(Core, "replace")>> ELSE <<>>)

\* The first preset of a sequence with a file of the command's name, or another layer.
FirstMatch(packs, override, ext, n) ==
  LET hits == {i \in 1..Len(packs) : n \in ByName[packs[i]]}
  IN  IF n \in override THEN Override
      ELSE IF hits # {} THEN packs[CHOOSE i \in hits : \A j \in hits : i <= j]
      ELSE IF ext /\ n \in ExtByName THEN Extension
      ELSE IF n \in CoreCommand THEN Core
      ELSE NoLayer

\* Variant of Resolve: disabled presets count.
ResolveDisabledToo(reg, override, ext, n) ==
  FirstMatch(ListByPriority([p \in Preset |-> [reg[p] EXCEPT !.enabled = @ \/ reg[p].prio > 0]],
                            Preset), override, ext, n)

\* resolve: the first file found, with its own walk through the sources.  It looks
\* for commands/<name>.md only, whatever file a manifest gives.
Resolve(reg, override, ext, n) == FirstMatch(ListByPriority(reg, Preset), override, ext, n)

\* One composition step: the text of a layer around what is below it.
Apply(l, body) ==
  CASE l.strategy = "replace" -> <<l.id>>
    [] l.strategy = "prepend" -> <<l.id>> \o body
    [] l.strategy = "append" -> body \o <<l.id>>
    [] l.strategy = "wrap" -> <<l.id>> \o body \o <<l.id>>

NoContent == [body |-> <<>>, fm |-> NoLayer, scripts |-> NoLayer]

\* Frontmatter is the top layer's; the base layer's scripts fill in.
Composed(body, top, base) ==
  [body |-> body, fm |-> top,
   scripts |-> IF top \in HasScripts THEN top ELSE IF base \in HasScripts THEN base ELSE NoLayer]

\* Variant of ResolveContent: composition starts at the lowest replace layer.
ResolveContentFromBottom(layers) ==
  LET bases == {i \in 1..Len(layers) : layers[i].strategy = "replace"}
      base == CHOOSE i \in bases : \A j \in bases : i >= j
      from[i \in 1..base] ==
        IF i = base THEN <<layers[base].id>>
        ELSE IF layers[i].strategy = "replace" THEN from[i + 1] ELSE Apply(layers[i], from[i + 1])
  IN  IF bases = {} THEN NoContent ELSE Composed(from[1], layers[1].id, layers[base].id)

\* resolve_content: bottom-up from the nearest layer that replaces.
ResolveContent(layers) ==
  LET bases == {i \in 1..Len(layers) : layers[i].strategy = "replace"}
      base == CHOOSE i \in bases : \A j \in bases : i <= j
      from[i \in 1..base] ==
        IF i = base THEN <<layers[base].id>> ELSE Apply(layers[i], from[i + 1])
  IN  IF bases = {} THEN NoContent ELSE Composed(from[1], layers[1].id, layers[base].id)

\* What the layers mean, top-down: a layer that replaces hides what is below
\* it, and each other layer surrounds the content below it.
Nested(layers) ==
  LET from[i \in 1..(Len(layers) + 1)] ==
        IF i > Len(layers) THEN <<>>
        ELSE IF layers[i].strategy = "replace" THEN <<layers[i].id>>
        ELSE IF from[i + 1] = <<>> THEN <<>>
        ELSE Apply(layers[i], from[i + 1])
  IN from[1]
=============================================================================
