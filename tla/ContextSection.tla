--------------------------- MODULE ContextSection ---------------------------
(***************************************************************************)
(* The managed section of an agent's context file (CLAUDE.md, AGENTS.md,    *)
(* ...): a file is a sequence of pieces, the user's text and the two marker *)
(* lines with the body that Spec Kit writes between them.  In a file of the *)
(* suffix .mdc the frontmatter, between two fences at the top, matters too. *)
(* The blank lines and line endings that are tidied around the markers are  *)
(* left out.                                                                *)
(***************************************************************************)
EXTENDS Naturals, SequencesExt

CONSTANTS
  Text,           \* the pieces the user may write; among them
  Fence,          \* a line ---
  Always, Never   \* a line "alwaysApply: true", and one with another value

ASSUME ContextSectionAssumption ==
  /\ Text \cap {"start", "body", "end"} = {} /\ {Fence, Always, Never} \subseteq Text
  /\ Fence \notin {Always, Never} /\ Always # Never

Section == <<"start", "body", "end">>

\* content.find(piece, from): 0 if there is none.
Find(c, piece, from) ==
  LET at == {i \in from..Len(c) : c[i] = piece}
  IN IF at = {} THEN 0 ELSE CHOOSE i \in at : \A j \in at : i <= j
Start(c) == Find(c, "start", 1)
\* The end marker counts from the start marker on, or from the top without one.
End(c) == Find(c, "end", IF Start(c) = 0 THEN 1 ELSE Start(c))

Before(c) == SubSeq(c, 1, Start(c) - 1)
After(c) == SubSeq(c, End(c) + 1, Len(c))

\* A lone marker stands for a damaged section.
WriteSection(c) ==
  CASE Start(c) # 0 /\ End(c) # 0 -> Before(c) \o Section \o After(c)
    [] Start(c) # 0 /\ End(c) = 0 -> Before(c) \o Section
    [] Start(c) = 0 /\ End(c) # 0 -> Section \o After(c)
    [] OTHER -> c \o Section

\* Frontmatter begins with the file and has at least a line of its own; it ends at
\* the next fence, wherever that is.
Closing(c) == Find(c, Fence, 3)
HasFrontmatter(c) == c # <<>> /\ c[1] = Fence /\ Closing(c) # 0
Settings(c) == {c[i] : i \in 2..(Closing(c) - 1)}

\* _ensure_mdc_frontmatter
EnsureFrontmatter(c) ==
  CASE ~HasFrontmatter(c) -> <<Fence, Always, Fence>> \o c
    [] HasFrontmatter(c) /\ Always \in Settings(c) -> c
    [] HasFrontmatter(c) /\ Always \notin Settings(c) /\ Never \in Settings(c) ->
         ReplaceAt(c, Find(c, Never, 2), Always)
    [] OTHER -> InsertAt(c, Closing(c), Always)

\* upsert_context_section
Upsert(mdc, c) == IF mdc THEN EnsureFrontmatter(WriteSection(c)) ELSE WriteSection(c)

\* Only a whole section is cut out.
CutSection(c) == IF Start(c) = 0 \/ End(c) = 0 THEN c ELSE Before(c) \o After(c)

\* The file begins and ends with a fence: what is taken for frontmatter only.
Framed(c) == Len(c) >= 3 /\ c[1] = Fence /\ c[Len(c)] = Fence

\* Variant of RemoveSection: everything from the start marker on goes.
RemoveSectionToEnd(mdc, c) == IF Start(c) = 0 THEN c ELSE Before(c)

\* remove_context_section: a file that is left empty (<<>>) is deleted, and an .mdc
\* file of which only frontmatter is left.
RemoveSection(mdc, c) ==
  IF mdc /\ CutSection(c) # c /\ Framed(CutSection(c)) THEN <<>> ELSE CutSection(c)

-----------------------------------------------------------------------------
\* The pieces of a file that are in S, and whether the markers stand as Spec Kit
\* wrote them.
PiecesIn(c, S) ==
  LET upTo[i \in 0..Len(c)] ==
        IF i = 0 THEN <<>>
        ELSE IF c[i] \in S THEN Append(upTo[i - 1], c[i]) ELSE upTo[i - 1]
  IN upTo[Len(c)]
WellFormed(c) ==
  \/ \A i \in DOMAIN c : c[i] \in Text
  \/ \E i \in 1..(Len(c) - 2) :
       /\ SubSeq(c, i, i + 2) = Section
       /\ \A j \in DOMAIN c \ (i..(i + 2)) : c[j] \in Text
=============================================================================
