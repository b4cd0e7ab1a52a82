---------------------------- MODULE PresetsProofs ----------------------------
(***************************************************************************)
(* Proofs about presets: the two walks through the stack agree, composition *)
(* is nesting, and the files follow the stack, for any presets, names,      *)
(* priorities and number of commands.                                       *)
(***************************************************************************)
EXTENDS Presets, SequenceTheorems, FiniteSetTheorems, WellFoundedInduction, TLAPS

Entry == [enabled : BOOLEAN, prio : Nat, cmds : SUBSET Key, skills : SUBSET Name]
LayerRecord == [id : LayerId, strategy : Strategy]
\* The enabled presets that provide n, and those that are enabled.
Providers(r, n) == {p \in {q \in Preset : n \in DOMAIN Provides[q]} : r[p].enabled}
Enabled(r) == {p \in Preset : r[p].enabled}

-----------------------------------------------------------------------------
(* Sorted lists of presets. *)

(* A set of natural numbers that is not empty has a least element.          *)
LEMMA LeastNumber ==
  ASSUME NEW D \in SUBSET Nat, D # {}
  PROVE  \E d \in D : \A e \in D : d <= e
  <1>1. D \subseteq Nat
    OBVIOUS
  <1>2. PICK d \in D : \A e \in D : ~ (<<e, d>> \in OpToRel(<, Nat))
    BY <1>1, WFMin, NatLessThanWellFounded
  <1>3. ASSUME NEW e \in D PROVE d <= e
    <2>1. <<e, d>> \in Nat \X Nat
      BY <1>1
    <2>2. ~ (e < d)
      BY <1>2, <2>1 DEF OpToRel
    <2> QED
      BY <1>1, <2>2
  <1> QED
    BY <1>3

(* A family of finite sets that is not empty has a member from which no     *)
(* element can be taken away.                                               *)
LEMMA SmallestSet ==
  ASSUME NEW S, IsFiniteSet(S), NEW T \in SUBSET SUBSET S, T # {}
  PROVE  \E m \in T : \A x \in m : m \ {x} \notin T
  <1>1. T \subseteq FiniteSubsetsOf(S)
    BY FS_Subset DEF FiniteSubsetsOf
  <1>2. PICK m \in T : \A y \in T : ~ (<<y, m>> \in StrictSubsetOrdering(S))
    BY <1>1, WFMin, FS_StrictSubsetOrderingWellFounded
  <1>3. ASSUME NEW x \in m PROVE m \ {x} \notin T
    <2>1. <<m \ {x}, m>> \in StrictSubsetOrdering(S)
      BY DEF StrictSubsetOrdering
    <2> QED
      BY <1>2, <2>1
  <1> QED
    BY <1>3

(* Priority and id put the presets in a strict total order.                 *)
LEMMA AheadIsOrder ==
  ASSUME NEW r, \A p \in Preset : r[p].prio \in Nat
  PROVE  /\ \A p \in Preset : ~Ahead(r, p, p)
         /\ \A p, q \in Preset : Ahead(r, p, q) => ~Ahead(r, q, p)
         /\ \A p, q \in Preset : p = q \/ Ahead(r, p, q) \/ Ahead(r, q, p)
         /\ \A p, q, s \in Preset : Ahead(r, p, q) /\ Ahead(r, q, s) => Ahead(r, p, s)
  <1>1. \A p \in Preset : Rank[p] \in Nat
    BY ResolverAssumption
  <1>2. \A p, q \in Preset : Rank[p] = Rank[q] => p = q
    BY ResolverAssumption
  <1> QED
    BY <1>1, <1>2 DEF Ahead

(* Some preset of a set comes last.                                         *)
LEMMA LastPreset ==
  ASSUME NEW r, \A p \in Preset : r[p].prio \in Nat, NEW S \in SUBSET Preset, S # {}
  PROVE  \E m \in S : \A p \in S : p = m \/ Ahead(r, p, m)
  <1> DEFINE HasLast(X) == \E m \in X : \A p \in X : p = m \/ Ahead(r, p, m)
             T == {X \in SUBSET S : X # {} /\ ~HasLast(X)}
  <1>1. SUFFICES ASSUME T # {} PROVE FALSE
    OBVIOUS
  <1>2. IsFiniteSet(S)
    BY FS_Subset, ResolverAssumption
  <1>3. PICK X \in T : \A x \in X : X \ {x} \notin T
    BY <1>1, <1>2, SmallestSet
  <1>4. PICK x \in X : TRUE
    BY <1>3
  <1>5. X \ {x} = {} \/ HasLast(X \ {x})
    BY <1>3, <1>4
  <1>6. CASE X \ {x} = {}
    BY <1>3, <1>4, <1>6
  <1>7. CASE HasLast(X \ {x})
    <2>1. PICK m \in X \ {x} : \A p \in X \ {x} : p = m \/ Ahead(r, p, m)
      BY <1>7
    <2>2. x \in Preset /\ m \in Preset /\ X \subseteq Preset
      BY <1>3, <1>4, <2>1
    <2>3. CASE Ahead(r, x, m)
      BY <1>3, <2>1, <2>3
    <2>4. CASE Ahead(r, m, x)
      <3>1. \A p \in X : p = x \/ Ahead(r, p, x)
        <4>1. SUFFICES ASSUME NEW p \in X, p # x PROVE Ahead(r, p, x)
          OBVIOUS
        <4>2. p = m \/ Ahead(r, p, m)
          BY <2>1, <4>1
        <4> QED
          BY <2>2, <2>4, <4>1, <4>2, AheadIsOrder
      <3> QED
        BY <1>3, <1>4, <3>1
    <2> QED
      BY <2>1, <2>2, <2>3, <2>4, AheadIsOrder
  <1> QED
    BY <1>5, <1>6, <1>7

(* Every set of presets can be listed by priority.                          *)
LEMMA SortedExists ==
  ASSUME NEW r, \A p \in Preset : r[p].prio \in Nat, NEW S \in SUBSET Preset
  PROVE  Sorted(r, S) # {}
  <1> DEFINE T == {X \in SUBSET S : Sorted(r, X) = {}}
  <1>1. SUFFICES ASSUME T # {} PROVE FALSE
    OBVIOUS
  <1>2. IsFiniteSet(S)
    BY FS_Subset, ResolverAssumption
  <1>3. PICK X \in T : \A x \in X : X \ {x} \notin T
    BY <1>1, <1>2, SmallestSet
  <1>4. X \subseteq Preset /\ IsFiniteSet(X)
    BY <1>2, <1>3, FS_Subset
  <1>5. CASE X = {}
    <2>1. Cardinality(X) = 0
      BY <1>5, FS_EmptySet
    <2>2. 1..0 = {}
      OBVIOUS
    <2> DEFINE e == [i \in {} |-> i]
    <2>3. e \in [1..Cardinality(X) -> X] /\ DOMAIN e = {}
      BY <2>1, <2>2
    <2>4. e \in Sorted(r, X)
      BY <1>5, <2>3 DEF Sorted
    <2> QED
      BY <1>3, <2>4
  <1>6. CASE X # {}
    <2>1. PICK m \in X : \A p \in X : p = m \/ Ahead(r, p, m)
      BY <1>4, <1>6, LastPreset
    <2> DEFINE Y == X \ {m}
    <2>2. PICK s : s \in Sorted(r, Y)
      BY <1>3, <2>1
    <2>3. Cardinality(X) = Cardinality(Y) + 1 /\ Cardinality(Y) \in Nat
      <3>1. IsFiniteSet(Y) /\ Cardinality(Y) = Cardinality(X) - 1
        BY <1>4, <2>1, FS_RemoveElement
      <3>2. Cardinality(X) \in Nat
        BY <1>4, FS_CardinalityType
      <3>3. Cardinality(Y) \in Nat
        BY <3>1, FS_CardinalityType
      <3> QED
        BY <3>1, <3>2, <3>3
    <2> DEFINE c == Cardinality(Y)
               t == [i \in 1..(c + 1) |-> IF i = c + 1 THEN m ELSE s[i]]
    <2>4. /\ s \in [1..c -> Y] /\ DOMAIN s = 1..c
          /\ \A p \in Y : \E i \in DOMAIN s : s[i] = p
          /\ \A i, j \in DOMAIN s : i < j => Ahead(r, s[i], s[j])
      BY <2>2 DEF Sorted
    <2>5. c \in Nat
      BY <2>3
    <2> HIDE DEF c
    <2>6. \A i \in 1..(c + 1) : i = c + 1 \/ i \in 1..c
      BY <2>5
    <2>7. t \in [1..(c + 1) -> X]
      BY <2>1, <2>4, <2>6
    <2>8. \A p \in X : \E i \in 1..(c + 1) : t[i] = p
      <3>1. SUFFICES ASSUME NEW p \in X PROVE \E i \in 1..(c + 1) : t[i] = p
        OBVIOUS
      <3>2. CASE p = m
        <4>1. c + 1 \in 1..(c + 1)
          BY <2>5
        <4> QED
          BY <3>2, <4>1
      <3>3. CASE p # m
        <4>1. PICK i \in 1..c : s[i] = p
          BY <2>4, <3>1, <3>3
        <4>2. i \in 1..(c + 1) /\ i # c + 1
          BY <2>5
        <4> QED
          BY <4>1, <4>2
      <3> QED
        BY <3>2, <3>3
    <2>9. ASSUME NEW i \in 1..(c + 1), NEW j \in 1..(c + 1), i < j PROVE Ahead(r, t[i], t[j])
      <3>1. i \in 1..c /\ i # c + 1
        BY <2>5, <2>9
      <3>2. t[i] = s[i] /\ s[i] \in X /\ s[i] # m
        BY <2>4, <3>1
      <3>3. CASE j = c + 1
        BY <2>1, <3>2, <3>3
      <3>4. CASE j # c + 1
        <4>1. j \in 1..c /\ t[j] = s[j]
          BY <2>6, <3>4
        <4> QED
          BY <2>4, <2>9, <3>1, <3>2, <4>1
      <3> QED
        BY <3>3, <3>4
    <2> HIDE DEF t
    <2>10. t \in [1..Cardinality(X) -> X] /\ DOMAIN t = 1..(c + 1)
      BY <2>3, <2>7 DEF c
    <2>11. t \in Sorted(r, X)
      BY <2>8, <2>9, <2>10 DEF Sorted
    <2> QED
      BY <1>3, <2>11
  <1> QED
    BY <1>5, <1>6

\* s lists the presets of S by priority.
Lists(r, S, s) ==
  /\ s \in Seq(S) /\ DOMAIN s = 1..Len(s) /\ Len(s) \in Nat
  /\ \A p \in S : \E i \in 1..Len(s) : s[i] = p
  /\ \A i, j \in 1..Len(s) : i < j => Ahead(r, s[i], s[j])

(* What list_by_priority returns.                                           *)
LEMMA ListIs ==
  ASSUME NEW r, \A p \in Preset : r[p].prio \in Nat, NEW among \in SUBSET Preset
  PROVE  Lists(r, {p \in among : r[p].enabled}, ListByPriority(r, among))
  <1> DEFINE S == {p \in among : r[p].enabled}
             s == ListByPriority(r, among)
  <1>1. S \in SUBSET Preset /\ IsFiniteSet(S)
    BY FS_Subset, ResolverAssumption
  <1>2. s \in Sorted(r, S)
    BY <1>1, SortedExists DEF ListByPriority
  <1>3. Cardinality(S) \in Nat
    BY <1>1, FS_CardinalityType
  <1> HIDE DEF s, S
  <1>4. s \in [1..Cardinality(S) -> S]
    BY <1>2 DEF Sorted
  <1>5. s \in Seq(S) /\ Len(s) = Cardinality(S) /\ DOMAIN s = 1..Len(s)
    BY <1>3, <1>4
  <1>6. /\ \A p \in S : \E i \in 1..Len(s) : s[i] = p
        /\ \A i, j \in 1..Len(s) : i < j => Ahead(r, s[i], s[j])
    BY <1>2, <1>5 DEF Sorted
  <1> QED
    BY <1>3, <1>5, <1>6 DEF s, S, Lists

-----------------------------------------------------------------------------
(* The stack of a command. *)

\* The parts of the stack.
OverrideLayers(o, n) == IF n \in o THEN <<Layer(Override, "replace")>> ELSE <<>>
PresetLayers(r, n) ==
  LET list == ListByPriority(r, {p \in Preset : n \in DOMAIN Provides[p]})
  IN [i \in 1..Len(list) |-> Layer(list[i], Provides[list[i]][n])]
ExtensionLayers(e, n) == IF e /\ n \in ExtCommand THEN <<Layer(Extension, "replace")>> ELSE <<>>
CoreLayers(n) == IF n \in CoreCommand THEN <<Layer(Core, "replace")>> ELSE <<>>

(* The layers that presets provide.                                         *)
LEMMA PresetLayersAre ==
  ASSUME NEW r, \A p \in Preset : r[p].prio \in Nat, NEW n
  PROVE  /\ PresetLayers(r, n) \in Seq(LayerRecord)
         /\ PresetLayers(r, n) = <<>> <=> Providers(r, n) = {}
         /\ PresetLayers(r, n) # <<>> =>
              LET s == ListByPriority(r, {p \in Preset : n \in DOMAIN Provides[p]})
              IN  s[1] \in Providers(r, n) /\ PresetLayers(r, n)[1] = Layer(s[1], Provides[s[1]][n])
  <1> DEFINE P == {p \in Preset : n \in DOMAIN Provides[p]}
             s == ListByPriority(r, P)
             l == PresetLayers(r, n)
  <1>1. P \in SUBSET Preset
    OBVIOUS
  <1>2. Providers(r, n) = {p \in P : r[p].enabled}
    BY DEF Providers
  <1>3. /\ s \in Seq(Providers(r, n)) /\ Len(s) \in Nat /\ DOMAIN s = 1..Len(s)
        /\ \A p \in Providers(r, n) : \E i \in 1..Len(s) : s[i] = p
    <2> HIDE DEF P
    <2>1. Lists(r, {p \in P : r[p].enabled}, s)
      BY <1>1, ListIs
    <2> HIDE DEF s
    <2> QED
      BY <1>2, <2>1 DEF Lists
  <1> HIDE DEF s
  <1>4. l = [i \in 1..Len(s) |-> Layer(s[i], Provides[s[i]][n])]
    BY DEF PresetLayers, s
  <1>5. ASSUME NEW i \in 1..Len(s)
        PROVE  s[i] \in Providers(r, n) /\ Layer(s[i], Provides[s[i]][n]) \in LayerRecord
    <2>1. s[i] \in Providers(r, n)
      BY <1>3, ElementOfSeq
    <2>2. s[i] \in Preset /\ n \in DOMAIN Provides[s[i]]
      BY <2>1 DEF Providers
    <2>3. Provides[s[i]][n] \in Strategy
      BY <2>2, ResolverAssumption
    <2> QED
      BY <2>1, <2>2, <2>3 DEF Layer, LayerRecord, LayerId
  <1> HIDE DEF l
  <1>6. l \in Seq(LayerRecord) /\ Len(l) = Len(s)
    BY <1>3, <1>4, <1>5
  <1>7. l = <<>> <=> Len(s) = 0
    BY <1>3, <1>6, EmptySeq
  <1>8. Len(s) = 0 <=> Providers(r, n) = {}
    BY <1>3, <1>5
  <1>9. l # <<>> => s[1] \in Providers(r, n) /\ l[1] = Layer(s[1], Provides[s[1]][n])
    <2>1. l # <<>> => 1 \in 1..Len(s)
      BY <1>3, <1>7
    <2> QED
      BY <1>4, <1>5, <2>1
  <1> QED
    BY <1>6, <1>7, <1>8, <1>9 DEF s, l

\* The top layer t of a stack.
TopOf(r, o, e, n, t) ==
  \/ n \in o /\ t = Layer(Override, "replace")
  \/ /\ n \notin o /\ t.id \in Providers(r, n) /\ t = Layer(t.id, Provides[t.id][n])
     /\ t.id = ListByPriority(r, {p \in Preset : n \in DOMAIN Provides[p]})[1]
  \/ n \notin o /\ Providers(r, n) = {} /\ e /\ n \in ExtCommand /\ t = Layer(Extension, "replace")
  \/ /\ n \notin o /\ Providers(r, n) = {} /\ ~(e /\ n \in ExtCommand) /\ n \in CoreCommand
     /\ t = Layer(Core, "replace")

(* A stack is a sequence of layers, and the source that comes first decides *)
(* its top.                                                                 *)
LEMMA LayersAre ==
  ASSUME NEW r, \A p \in Preset : r[p].prio \in Nat, NEW o, NEW e, NEW n
  PROVE  LET l == CollectAllLayers(r, o, e, n)
         IN  /\ l \in Seq(LayerRecord)
             /\ l = <<>> <=> /\ n \notin o /\ Providers(r, n) = {}
                             /\ ~(e /\ n \in ExtCommand) /\ n \notin CoreCommand
             /\ l # <<>> => TopOf(r, o, e, n, l[1])
  <1> DEFINE l == CollectAllLayers(r, o, e, n)
             A == OverrideLayers(o, n)
             B == PresetLayers(r, n)
             C == ExtensionLayers(e, n)
             D == CoreLayers(n)
  <1>1. l = ((A \o B) \o C) \o D
    BY DEF CollectAllLayers, OverrideLayers, PresetLayers, ExtensionLayers, CoreLayers
  <1>2. /\ Layer(Override, "replace") \in LayerRecord /\ Layer(Extension, "replace") \in LayerRecord
        /\ Layer(Core, "replace") \in LayerRecord
    BY DEF Layer, LayerRecord, LayerId, Strategy
  <1>3. A \in Seq(LayerRecord) /\ (n \in o => A = <<Layer(Override, "replace")>>) /\ (n \notin o => A = <<>>)
    BY <1>2 DEF OverrideLayers
  <1>4. B \in Seq(LayerRecord)
    BY PresetLayersAre
  <1>5. /\ C \in Seq(LayerRecord)
        /\ e /\ n \in ExtCommand => C = <<Layer(Extension, "replace")>>
        /\ ~(e /\ n \in ExtCommand) => C = <<>>
    BY <1>2 DEF ExtensionLayers
  <1>6. /\ D \in Seq(LayerRecord)
        /\ n \in CoreCommand => D = <<Layer(Core, "replace")>>
        /\ n \notin CoreCommand => D = <<>>
    BY <1>2 DEF CoreLayers
  <1> HIDE DEF A, B, C, D, l
  <1>7. A \o B \in Seq(LayerRecord) /\ (A \o B) \o C \in Seq(LayerRecord)
    BY <1>3, <1>4, <1>5, ConcatProperties
  <1>8. l \in Seq(LayerRecord)
    BY <1>1, <1>6, <1>7, ConcatProperties
  <1>9. \A s, t \in Seq(LayerRecord) :
          /\ s \o t = <<>> <=> s = <<>> /\ t = <<>>
          /\ s # <<>> => (s \o t)[1] = s[1]
          /\ s = <<>> => s \o t = t
    <2>1. SUFFICES ASSUME NEW s \in Seq(LayerRecord), NEW t \in Seq(LayerRecord)
                   PROVE  /\ s \o t = <<>> <=> s = <<>> /\ t = <<>>
                          /\ s # <<>> => (s \o t)[1] = s[1]
                          /\ s = <<>> => s \o t = t
      OBVIOUS
    <2>2. s \o t = <<>> <=> s = <<>> /\ t = <<>>
      BY ConcatEqualIffEmpty
    <2>3. s = <<>> => s \o t = t
      BY ConcatEmptySeq
    <2>4. s # <<>> => 1 \in 1..(Len(s) + Len(t)) /\ 1 <= Len(s)
      BY EmptySeq, LenProperties
    <2>5. \A i \in 1..(Len(s) + Len(t)) : (s \o t)[i] = IF i <= Len(s) THEN s[i] ELSE t[i - Len(s)]
      BY ConcatProperties
    <2> QED
      BY <2>2, <2>3, <2>4, <2>5
  <1>10. /\ l = <<>> <=> A = <<>> /\ B = <<>> /\ C = <<>> /\ D = <<>>
         /\ A # <<>> => l[1] = A[1]
         /\ A = <<>> /\ B # <<>> => l[1] = B[1]
         /\ A = <<>> /\ B = <<>> /\ C # <<>> => l[1] = C[1]
         /\ A = <<>> /\ B = <<>> /\ C = <<>> => l = D
    <2>1. l = <<>> <=> A = <<>> /\ B = <<>> /\ C = <<>> /\ D = <<>>
      BY <1>1, <1>3, <1>4, <1>5, <1>6, <1>7, <1>9
    <2>2. A # <<>> => l[1] = A[1]
      <3>1. A # <<>> => (A \o B) # <<>> /\ (A \o B)[1] = A[1]
        BY <1>3, <1>4, <1>9
      <3>2. A # <<>> => (A \o B) \o C # <<>> /\ ((A \o B) \o C)[1] = A[1]
        BY <1>5, <1>7, <1>9, <3>1
      <3> QED
        BY <1>1, <1>6, <1>7, <1>9, <3>2
    <2>3. A = <<>> => A \o B = B
      BY <1>3, <1>4, <1>9
    <2>4. A = <<>> /\ B # <<>> => l[1] = B[1]
      <3>1. A = <<>> /\ B # <<>> => (A \o B) \o C # <<>> /\ ((A \o B) \o C)[1] = B[1]
        BY <1>4, <1>5, <1>9, <2>3
      <3> QED
        BY <1>1, <1>6, <1>7, <1>9, <3>1
    <2>5. A = <<>> /\ B = <<>> => (A \o B) \o C = C
      BY <1>4, <1>5, <1>9, <2>3
    <2>6. A = <<>> /\ B = <<>> /\ C # <<>> => l[1] = C[1]
      BY <1>1, <1>5, <1>6, <1>9, <2>5
    <2>7. A = <<>> /\ B = <<>> /\ C = <<>> => l = D
      BY <1>1, <1>5, <1>6, <1>9, <2>5
    <2> QED
      BY <2>1, <2>2, <2>4, <2>6, <2>7
  <1>11. \A x : <<x>> # <<>> /\ <<x>>[1] = x
    OBVIOUS
  <1>12. B = <<>> <=> Providers(r, n) = {}
    BY PresetLayersAre DEF B
  <1>13. l = <<>> <=> /\ n \notin o /\ Providers(r, n) = {}
                      /\ ~(e /\ n \in ExtCommand) /\ n \notin CoreCommand
    BY <1>3, <1>5, <1>6, <1>10, <1>11, <1>12
  <1>14. l # <<>> => TopOf(r, o, e, n, l[1])
    <2>1. CASE n \in o
      BY <1>3, <1>10, <1>11, <2>1 DEF TopOf
    <2>2. CASE n \notin o /\ B # <<>>
      <3> DEFINE p == ListByPriority(r, {q \in Preset : n \in DOMAIN Provides[q]})[1]
      <3>1. p \in Providers(r, n) /\ B[1] = Layer(p, Provides[p][n])
        BY <2>2, PresetLayersAre DEF B
      <3>2. l[1] = Layer(p, Provides[p][n])
        BY <1>3, <1>10, <2>2, <3>1
      <3> HIDE DEF p
      <3>3. l[1].id = p
        BY <3>2 DEF Layer
      <3> QED
        BY <2>2, <3>1, <3>2, <3>3 DEF TopOf, p
    <2>3. CASE n \notin o /\ B = <<>> /\ e /\ n \in ExtCommand
      BY <1>3, <1>5, <1>10, <1>11, <1>12, <2>3 DEF TopOf
    <2>4. CASE n \notin o /\ B = <<>> /\ ~(e /\ n \in ExtCommand)
      BY <1>3, <1>5, <1>6, <1>10, <1>11, <1>12, <2>4 DEF TopOf
    <2> QED
      BY <2>1, <2>2, <2>3, <2>4
  <1> QED
    BY <1>8, <1>13, <1>14 DEF l

(* The stack of a command depends only on the presets that provide it, on   *)
(* its override and, for an extension's command, on the extension.          *)
LEMMA LayersSame ==
  ASSUME NEW r1, NEW r2, NEW o1, NEW o2, NEW e1, NEW e2, NEW n,
         Providers(r1, n) = Providers(r2, n),
         \A p \in Providers(r1, n) : r1[p].prio = r2[p].prio,
         n \in o1 <=> n \in o2, n \in ExtCommand => (e1 <=> e2)
  PROVE  CollectAllLayers(r1, o1, e1, n) = CollectAllLayers(r2, o2, e2, n)
  <1> DEFINE P == {p \in Preset : n \in DOMAIN Provides[p]}
             S == Providers(r1, n)
  <1>1. S = {p \in P : r1[p].enabled} /\ S = {p \in P : r2[p].enabled}
    BY DEF Providers
  <1>2. \A p, q \in S : Ahead(r1, p, q) <=> Ahead(r2, p, q)
    BY DEF Ahead
  <1> HIDE DEF S
  <1>3. \A s \in [1..Cardinality(S) -> S] :
          (\A i, j \in DOMAIN s : i < j => Ahead(r1, s[i], s[j]))
            <=> (\A i, j \in DOMAIN s : i < j => Ahead(r2, s[i], s[j]))
    BY <1>2
  <1>4. Sorted(r1, S) = Sorted(r2, S)
    BY <1>3 DEF Sorted
  <1>5. ListByPriority(r1, P) = ListByPriority(r2, P)
    BY <1>1, <1>4 DEF ListByPriority
  <1> QED
    BY <1>5 DEF CollectAllLayers

(* resolve's own walk finds the top layer that collect_all_layers finds,    *)
(* unless the file of the one or the other is misplaced: the higher of two  *)
(* different layers is missed by one of the walks.                          *)
LEMMA WalksAgree ==
  ASSUME NEW r, \A p \in Preset : r[p].prio \in Nat, NEW o, NEW e, NEW n
  PROVE  LET found == Resolve(r, o, e, n)
             top == TopLayer(CollectAllLayers(r, o, e, n))
         IN  found = top \/ Misplaced(found, n) \/ Misplaced(top, n)
  <1> DEFINE l == CollectAllLayers(r, o, e, n)
             found == Resolve(r, o, e, n)
             top == TopLayer(l)
             P == {p \in Preset : n \in DOMAIN Provides[p]}
             E == {p \in Preset : r[p].enabled}
             A == ListByPriority(r, Preset)
             B == ListByPriority(r, P)
             hits == {i \in 1..Len(A) : n \in ByName[A[i]]}
             first == CHOOSE i \in hits : \A j \in hits : i <= j
  <1>1. /\ l \in Seq(LayerRecord)
        /\ l = <<>> <=> /\ n \notin o /\ Providers(r, n) = {}
                        /\ ~(e /\ n \in ExtCommand) /\ n \notin CoreCommand
        /\ l # <<>> => TopOf(r, o, e, n, l[1])
    BY LayersAre
  <1>2. /\ l # <<>> => top = l[1].id
        /\ l = <<>> => top = NoLayer
    BY <1>1 DEF TopLayer
  <1>3. Lists(r, E, A)
    <2>1. Preset \in SUBSET Preset
      OBVIOUS
    <2> QED
      BY <2>1, ListIs
  <1>4. Lists(r, Providers(r, n), B)
    <2>1. P \in SUBSET Preset
      OBVIOUS
    <2>2. Lists(r, {p \in P : r[p].enabled}, B)
      BY <2>1, ListIs
    <2> QED
      BY <2>2 DEF Providers
  <1>5. found =
          IF n \in o THEN Override ELSE IF hits # {} THEN A[first]
          ELSE IF e /\ n \in ExtByName THEN Extension ELSE IF n \in CoreCommand THEN Core ELSE NoLayer
    BY DEF Resolve, FirstMatch
  <1> HIDE DEF l, A, B, found, top
  <1>6. \A i \in 1..Len(A) : A[i] \in E
    BY <1>3, ElementOfSeq DEF Lists
  <1>7. \A p : p \in Providers(r, n) <=> p \in E /\ n \in DOMAIN Provides[p]
    BY DEF Providers
  <1>8. E \subseteq Preset /\ Providers(r, n) \subseteq E
    BY <1>7
  <1> HIDE DEF E
  <1>9. \A p \in E : \E j \in 1..Len(A) : A[j] = p
    BY <1>3 DEF Lists
  <1>10. n \notin o /\ Providers(r, n) # {} => B[1] \in Providers(r, n) /\ top = B[1]
    <2>1. SUFFICES ASSUME n \notin o, Providers(r, n) # {} PROVE B[1] \in Providers(r, n) /\ top = B[1]
      OBVIOUS
    <2>2. l # <<>> /\ l[1].id = B[1] /\ l[1].id \in Providers(r, n)
      BY <1>1, <2>1 DEF TopOf, B
    <2> QED
      BY <1>2, <2>2
  <1>11. CASE n \in o
    <2>1. l # <<>> /\ l[1] = Layer(Override, "replace")
      BY <1>1, <1>11 DEF TopOf
    <2>2. top = Override /\ found = Override
      BY <1>2, <1>5, <1>11, <2>1 DEF Layer
    <2> QED
      BY <2>2 DEF found, top, l
  <1>12. CASE n \notin o /\ hits # {}
    <2>1. hits \in SUBSET Nat
      BY <1>3 DEF Lists
    <2>2. \E i \in hits : \A j \in hits : i <= j
      BY <1>12, <2>1, LeastNumber
    <2>3. first \in hits /\ \A j \in hits : first <= j
      BY <2>2
    <2>4. found = A[first]
      BY <1>5, <1>12
    <2> HIDE DEF first
    <2>5. first \in 1..Len(A) /\ n \in ByName[found] /\ found \in E /\ found \in Preset
      BY <1>6, <1>8, <2>3, <2>4
    <2>6. CASE n \notin DOMAIN Provides[found]
      <3>1. Misplaced(found, n)
        BY <2>5, <2>6 DEF Misplaced
      <3> QED
        BY <3>1 DEF found
    <2>7. CASE n \in DOMAIN Provides[found]
      <3>1. found \in Providers(r, n)
        BY <1>7, <2>5, <2>7
      <3>2. B[1] \in Providers(r, n) /\ top = B[1]
        BY <1>10, <1>12, <3>1
      <3>3. top \in E /\ top \in Preset /\ n \in DOMAIN Provides[top]
        BY <1>7, <1>8, <3>2
      <3>4. CASE n \notin ByName[top]
        <4>1. Misplaced(top, n)
          BY <3>3, <3>4 DEF Misplaced
        <4> QED
          BY <4>1 DEF top, l
      <3>5. CASE n \in ByName[top]
        <4>1. PICK j \in 1..Len(A) : A[j] = top
          BY <1>9, <3>3
        <4>2. j \in hits
          BY <3>5, <4>1
        <4>3. first = j \/ first < j
          BY <2>1, <2>3, <4>2
        <4>4. /\ Len(B) \in Nat
              /\ \A p \in Providers(r, n) : \E i \in 1..Len(B) : B[i] = p
              /\ \A i, k \in 1..Len(B) : i < k => Ahead(r, B[i], B[k])
              /\ \A i, k \in 1..Len(A) : i < k => Ahead(r, A[i], A[k])
          BY <1>3, <1>4 DEF Lists
        <4>5. PICK k \in 1..Len(B) : B[k] = found
          BY <3>1, <4>4
        <4>6. 1 \in 1..Len(B) /\ (k = 1 \/ 1 < k)
          BY <4>4, <4>5
        <4>7. ~(Ahead(r, found, top) /\ Ahead(r, top, found))
          BY <2>5, <3>3, AheadIsOrder
        <4>8. first < j => Ahead(r, found, top)
          BY <2>4, <2>5, <4>1, <4>4
        <4>9. 1 < k => Ahead(r, top, found)
          BY <3>2, <4>4, <4>5, <4>6
        <4>10. found = top
          BY <2>4, <3>2, <4>1, <4>3, <4>5, <4>6, <4>7, <4>8, <4>9
        <4> QED
          BY <4>10 DEF found, top, l
      <3> QED
        BY <3>4, <3>5
    <2> QED
      BY <2>6, <2>7
  <1>13. CASE n \notin o /\ hits = {} /\ Providers(r, n) # {}
    <2>1. top \in E /\ top \in Preset /\ n \in DOMAIN Provides[top]
      BY <1>7, <1>8, <1>10, <1>13
    <2>2. PICK j \in 1..Len(A) : A[j] = top
      BY <1>9, <2>1
    <2>3. n \notin ByName[top]
      BY <1>13, <2>2
    <2>4. Misplaced(top, n)
      BY <2>1, <2>3 DEF Misplaced
    <2> QED
      BY <2>4 DEF top, l
  <1>14. CASE n \notin o /\ hits = {} /\ Providers(r, n) = {} /\ e /\ n \in ExtCommand
    <2>1. l # <<>> /\ l[1] = Layer(Extension, "replace")
      BY <1>1, <1>14 DEF TopOf
    <2>2. top = Extension
      BY <1>2, <2>1 DEF Layer
    <2>3. found = top \/ Misplaced(top, n)
      BY <1>5, <1>14, <2>2 DEF Misplaced
    <2> QED
      BY <2>3 DEF found, top, l
  <1>15. CASE n \notin o /\ hits = {} /\ Providers(r, n) = {} /\ ~(e /\ n \in ExtCommand) /\ n \in CoreCommand
    <2>1. l # <<>> /\ l[1] = Layer(Core, "replace")
      BY <1>1, <1>15 DEF TopOf
    <2>2. top = Core
      BY <1>2, <2>1 DEF Layer
    <2>3. found = Core
      BY <1>5, <1>15, ResolverAssumption
    <2> QED
      BY <2>2, <2>3 DEF found, top, l
  <1>16. CASE n \notin o /\ hits = {} /\ Providers(r, n) = {} /\ ~(e /\ n \in ExtCommand) /\ n \notin CoreCommand
    <2>1. top = NoLayer
      BY <1>1, <1>2, <1>16
    <2>2. found = NoLayer
      BY <1>5, <1>16, ResolverAssumption
    <2> QED
      BY <2>1, <2>2 DEF found, top, l
  <1> QED
    BY <1>11, <1>12, <1>13, <1>14, <1>15, <1>16

-----------------------------------------------------------------------------
(* Composition. *)

\* h[i] is what layers i to base compose to, and what layers i and below nest to.
Builds(h, layers, a, base) ==
  h = [i \in a..base |-> IF i = base THEN <<layers[base].id>> ELSE Apply(layers[i], h[i + 1])]
Nests(h, layers, a) ==
  h = [i \in a..(Len(layers) + 1) |->
        IF i > Len(layers) THEN <<>>
        ELSE IF layers[i].strategy = "replace" THEN <<layers[i].id>>
        ELSE IF h[i + 1] = <<>> THEN <<>>
        ELSE Apply(layers[i], h[i + 1])]

(* The layers above any base can be composed.                               *)
LEMMA BuildExists ==
  ASSUME NEW layers, NEW base \in Nat, NEW a \in Nat, a <= base
  PROVE  \E h : Builds(h, layers, a, base)
  <1> DEFINE D == {k \in Nat : k <= base /\ ~ \E h : Builds(h, layers, base - k, base)}
  <1>1. SUFFICES ASSUME D # {} PROVE FALSE
    <2>1. base - a \in Nat /\ base - a <= base /\ base - (base - a) = a
      OBVIOUS
    <2>2. base - a \notin D
      BY <1>1
    <2> QED
      BY <2>1, <2>2
  <1>2. D \in SUBSET Nat
    OBVIOUS
  <1>3. PICK k \in D : \A e \in D : k <= e
    BY <1>1, <1>2, LeastNumber
  <1>4. CASE k = 0
    <2>1. base - 0 = base /\ base..base = {base}
      OBVIOUS
    <2> DEFINE h == [i \in {base} |-> <<layers[base].id>>]
    <2>2. Builds(h, layers, base, base)
      BY <2>1 DEF Builds
    <2> QED
      BY <1>3, <1>4, <2>1, <2>2
  <1>5. CASE k # 0
    <2>1. k \in Nat /\ k - 1 \in Nat /\ ~ (k <= k - 1) /\ k <= base /\ k - 1 <= base
      BY <1>3, <1>5
    <2>2. PICK g : Builds(g, layers, base - (k - 1), base)
      BY <1>3, <2>1
    <2>3. PICK b \in Nat : b = base - k /\ base - (k - 1) = b + 1 /\ b < base
      BY <2>1
    <2> DEFINE h == [i \in b..base |-> IF i = b THEN Apply(layers[b], g[b + 1]) ELSE g[i]]
    <2>4. ASSUME NEW i \in b..base
          PROVE  h[i] = IF i = base THEN <<layers[base].id>> ELSE Apply(layers[i], h[i + 1])
      <3>1. CASE i = b
        <4>1. b + 1 \in b..base /\ b + 1 # b /\ b # base
          BY <2>3
        <4>2. h[b + 1] = g[b + 1]
          BY <4>1
        <4> QED
          BY <3>1, <4>1, <4>2
      <3>2. CASE i # b
        <4>1. i \in (b + 1)..base /\ h[i] = g[i]
          BY <2>3, <3>2
        <4>2. i # base => i + 1 \in b..base /\ i + 1 # b
          BY <2>3, <3>2
        <4>3. i # base => h[i + 1] = g[i + 1]
          BY <4>2
        <4>4. g[i] = IF i = base THEN <<layers[base].id>> ELSE Apply(layers[i], g[i + 1])
          BY <2>2, <2>3, <4>1 DEF Builds
        <4> HIDE DEF h
        <4> QED
          BY <4>1, <4>3, <4>4
      <3> QED
        BY <3>1, <3>2
    <2>5. h = [i \in b..base |-> h[i]]
      OBVIOUS
    <2> HIDE DEF h
    <2>6. Builds(h, layers, b, base)
      BY <2>4, <2>5 DEF Builds
    <2> QED
      BY <1>3, <2>3, <2>6
  <1> QED
    BY <1>4, <1>5

(* Any stack nests.                                                         *)
LEMMA NestExists ==
  ASSUME NEW layers, Len(layers) \in Nat
  PROVE  \E h : Nests(h, layers, 1)
  <1> DEFINE top == Len(layers) + 1
             F(h, i) == IF i > Len(layers) THEN <<>>
                        ELSE IF layers[i].strategy = "replace" THEN <<layers[i].id>>
                        ELSE IF h[i + 1] = <<>> THEN <<>>
                        ELSE Apply(layers[i], h[i + 1])
             D == {k \in Nat : k <= Len(layers) /\ ~ \E h : Nests(h, layers, top - k)}
  <1>1. SUFFICES ASSUME D # {} PROVE FALSE
    <2>1. top - Len(layers) = 1 /\ Len(layers) <= Len(layers)
      OBVIOUS
    <2>2. Len(layers) \notin D
      BY <1>1
    <2> QED
      BY <2>1, <2>2
  <1>2. D \in SUBSET Nat
    OBVIOUS
  <1>3. PICK k \in D : \A e \in D : k <= e
    BY <1>1, <1>2, LeastNumber
  <1>4. CASE k = 0
    <2>1. top - 0 = top /\ top..top = {top} /\ top > Len(layers)
      OBVIOUS
    <2> DEFINE h == [i \in {top} |-> <<>>]
    <2>2. Nests(h, layers, top)
      BY <2>1 DEF Nests
    <2> QED
      BY <1>3, <1>4, <2>1, <2>2
  <1>5. CASE k # 0
    <2>1. k \in Nat /\ k - 1 \in Nat /\ ~ (k <= k - 1) /\ k <= Len(layers) /\ k - 1 <= Len(layers)
      BY <1>3, <1>5
    <2>2. PICK g : Nests(g, layers, top - (k - 1))
      BY <1>3, <2>1
    <2>3. PICK b \in Nat : b = top - k /\ top - (k - 1) = b + 1 /\ b < top
      BY <2>1
    <2> DEFINE h == [i \in b..top |-> IF i = b THEN F(g, b) ELSE g[i]]
    <2>4. ASSUME NEW i \in b..top PROVE h[i] = F(h, i)
      <3>1. CASE i = b
        <4>1. b + 1 \in b..top /\ b + 1 # b
          BY <2>3
        <4>2. h[b + 1] = g[b + 1] /\ h[b] = F(g, b)
          BY <2>3, <4>1
        <4> HIDE DEF h
        <4> QED
          BY <3>1, <4>1, <4>2
      <3>2. CASE i # b
        <4>1. i \in (b + 1)..top /\ h[i] = g[i]
          BY <2>3, <3>2
        <4>2. i <= Len(layers) => i + 1 \in b..top /\ i + 1 # b
          BY <2>3, <3>2
        <4>3. i <= Len(layers) => h[i + 1] = g[i + 1]
          BY <4>2
        <4>4. g[i] = F(g, i)
          BY <2>2, <2>3, <4>1 DEF Nests
        <4>5. i > Len(layers) \/ i <= Len(layers)
          BY <2>3
        <4> HIDE DEF h
        <4> QED
          BY <4>1, <4>3, <4>4, <4>5
      <3> QED
        BY <3>1, <3>2
    <2>5. h = [i \in b..top |-> h[i]]
      OBVIOUS
    <2> HIDE DEF h
    <2>6. Nests(h, layers, b)
      BY <2>4, <2>5 DEF Nests
    <2> QED
      BY <1>3, <2>3, <2>6
  <1> QED
    BY <1>4, <1>5

(* A layer around a text is a text that is not empty.                       *)
LEMMA ApplyIs ==
  ASSUME NEW l \in LayerRecord, NEW body \in Seq(LayerId)
  PROVE  Apply(l, body) \in Seq(LayerId) /\ Apply(l, body) # <<>>
  <1>1. l.id \in LayerId /\ l.strategy \in {"replace", "prepend", "append", "wrap"}
    BY DEF LayerRecord, Strategy
  <1>2. <<l.id>> \in Seq(LayerId) /\ <<l.id>> # <<>>
    BY <1>1
  <1>3. \A s, t \in Seq(LayerId) : s \o t \in Seq(LayerId) /\ (s \o t = <<>> <=> s = <<>> /\ t = <<>>)
    BY ConcatProperties, ConcatEqualIffEmpty
  <1>4. <<l.id>> \o body \in Seq(LayerId) /\ <<l.id>> \o body # <<>>
    BY <1>2, <1>3
  <1>5. body \o <<l.id>> \in Seq(LayerId) /\ body \o <<l.id>> # <<>>
    BY <1>2, <1>3
  <1>6. <<l.id>> \o body \o <<l.id>> \in Seq(LayerId) /\ <<l.id>> \o body \o <<l.id>> # <<>>
    BY <1>2, <1>3, <1>4
  <1> QED
    BY <1>1, <1>2, <1>4, <1>5, <1>6 DEF Apply

\* What resolve_content returns for the layers.
ComposesTo(layers, c) ==
  /\ c.body = Nested(layers) /\ c \in Texts \cup {NoContent}
  /\ layers = <<>> => c = NoContent
  /\ layers # <<>> /\ layers[1].strategy = "replace" => c = Only(layers[1].id)

(* Composing bottom-up from the nearest layer that replaces gives what the  *)
(* strategies nest to.                                                      *)
LEMMA CompositionIs ==
  ASSUME NEW layers \in Seq(LayerRecord)
  PROVE  ComposesTo(layers, ResolveContent(layers))
  <1> DEFINE bases == {i \in 1..Len(layers) : layers[i].strategy = "replace"}
             base == CHOOSE i \in bases : \A j \in bases : i <= j
             b == CHOOSE h : Builds(h, layers, 1, base)
             h == CHOOSE g : Nests(g, layers, 1)
             N == Len(layers)
  <1>1. N \in Nat /\ \A i \in 1..N : layers[i] \in LayerRecord
    BY LenProperties, ElementOfSeq
  <1>2. Nests(h, layers, 1)
    BY <1>1, NestExists
  <1>3. Nested(layers) = h[1]
    BY DEF Nested, Nests
  <1>4. ResolveContent(layers) =
          IF bases = {} THEN NoContent ELSE Composed(b[1], layers[1].id, layers[base].id)
    BY DEF ResolveContent, Builds
  <1> HIDE DEF h
  <1>5. \A i \in 1..(N + 1) :
          h[i] = IF i > N THEN <<>>
                 ELSE IF layers[i].strategy = "replace" THEN <<layers[i].id>>
                 ELSE IF h[i + 1] = <<>> THEN <<>> ELSE Apply(layers[i], h[i + 1])
    BY <1>2 DEF Nests
  <1>6. layers = <<>> => N = 0
    BY EmptySeq
  <1>7. CASE bases = {}
    <2> DEFINE K == {k \in Nat : k <= N /\ h[(N + 1) - k] # <<>>}
    <2>1. K = {}
      <3>1. SUFFICES ASSUME K # {} PROVE FALSE
        OBVIOUS
      <3>2. K \in SUBSET Nat
        OBVIOUS
      <3>3. PICK k \in K : \A e \in K : k <= e
        BY <3>1, <3>2, LeastNumber
      <3>4. PICK i \in Nat : i = (N + 1) - k /\ i \in 1..(N + 1)
        BY <1>1, <3>3
      <3>5. k # 0
        <4>1. k = 0 => i = N + 1 /\ i > N
          BY <1>1, <3>4
        <4> QED
          BY <1>5, <3>3, <3>4, <4>1
      <3>6. i \in 1..N /\ ~(i > N) /\ (N + 1) - (k - 1) = i + 1 /\ k - 1 \in Nat /\ k - 1 <= N /\ ~(k <= k - 1)
        BY <1>1, <3>3, <3>4, <3>5
      <3>7. h[i + 1] = <<>>
        BY <3>3, <3>6
      <3>8. layers[i].strategy # "replace"
        BY <1>7, <3>6
      <3> QED
        BY <1>5, <3>3, <3>4, <3>6, <3>7, <3>8
    <2>2. (N + 1) - N = 1 /\ N <= N
      BY <1>1
    <2>3. h[1] = <<>>
      BY <1>1, <2>1, <2>2
    <2>4. layers # <<>> => 1 \in 1..N
      BY <1>1, EmptySeq
    <2> QED
      BY <1>3, <1>4, <1>7, <2>3, <2>4 DEF ComposesTo, NoContent
  <1>8. CASE bases # {}
    <2>1. bases \in SUBSET Nat
      BY <1>1
    <2>2. base \in bases /\ \A j \in bases : base <= j
      BY <1>8, <2>1, LeastNumber
    <2> HIDE DEF base
    <2>3. base \in 1..N /\ base \in Nat /\ 1 <= base /\ layers[base].strategy = "replace"
      BY <1>1, <2>2
    <2>4. Builds(b, layers, 1, base)
      BY <2>3, BuildExists
    <2> HIDE DEF b
    <2>5. \A i \in 1..base :
            b[i] = IF i = base THEN <<layers[base].id>> ELSE Apply(layers[i], b[i + 1])
      BY <2>4 DEF Builds
    <2> DEFINE K == {k \in Nat : k < base /\ ~(h[base - k] = b[base - k] /\ b[base - k] \in Seq(LayerId)
                                              /\ b[base - k] # <<>>)}
    <2>6. K = {}
      <3>1. SUFFICES ASSUME K # {} PROVE FALSE
        OBVIOUS
      <3>2. K \in SUBSET Nat
        OBVIOUS
      <3>3. PICK k \in K : \A e \in K : k <= e
        BY <3>1, <3>2, LeastNumber
      <3>4. PICK i \in Nat : i = base - k /\ i \in 1..base /\ i \in 1..N /\ i \in 1..(N + 1) /\ ~(i > N)
        BY <1>1, <2>3, <3>3
      <3>5. k # 0
        <4>1. SUFFICES ASSUME k = 0 PROVE FALSE
          OBVIOUS
        <4>2. i = base
          BY <2>3, <3>4, <4>1
        <4>3. h[i] = <<layers[base].id>> /\ b[i] = <<layers[base].id>>
          BY <1>5, <2>3, <2>5, <3>4, <4>2
        <4>4. layers[base].id \in LayerId
          BY <1>1, <2>3 DEF LayerRecord
        <4>5. <<layers[base].id>> \in Seq(LayerId) /\ <<layers[base].id>> # <<>>
          BY <4>4
        <4> QED
          BY <3>3, <3>4, <4>3, <4>5
      <3>6. /\ base - (k - 1) = i + 1 /\ k - 1 \in Nat /\ k - 1 < base /\ ~(k <= k - 1)
            /\ i # base /\ ~(base <= i)
        BY <2>3, <3>3, <3>4, <3>5
      <3>7. h[i + 1] = b[i + 1] /\ b[i + 1] \in Seq(LayerId) /\ b[i + 1] # <<>>
        BY <3>3, <3>6
      <3>8. layers[i].strategy # "replace" /\ layers[i] \in LayerRecord
        BY <1>1, <2>2, <3>4, <3>6
      <3>9. h[i] = Apply(layers[i], b[i + 1]) /\ b[i] = Apply(layers[i], b[i + 1])
        BY <1>5, <2>5, <3>4, <3>6, <3>7, <3>8
      <3>10. Apply(layers[i], b[i + 1]) \in Seq(LayerId) /\ Apply(layers[i], b[i + 1]) # <<>>
        BY <3>7, <3>8, ApplyIs
      <3> QED
        BY <3>3, <3>4, <3>9, <3>10
    <2>7. base - (base - 1) = 1 /\ base - 1 \in Nat /\ base - 1 < base
      BY <2>3
    <2>8. h[1] = b[1] /\ b[1] \in Seq(LayerId)
      BY <2>6, <2>7
    <2>9. layers[1].id \in LayerId /\ layers[base].id \in LayerId
      <3>1. 1 \in 1..N
        BY <1>1, <2>3
      <3> QED
        BY <1>1, <2>3, <3>1 DEF LayerRecord
    <2>10. Composed(b[1], layers[1].id, layers[base].id) \in Texts
      BY <2>8, <2>9 DEF Composed, Texts
    <2>11. Composed(b[1], layers[1].id, layers[base].id).body = b[1]
      BY DEF Composed
    <2>12. layers # <<>>
      BY <1>6, <2>3, <1>1
    <2>13. layers[1].strategy = "replace" => base = 1
      <3>1. layers[1].strategy = "replace" => 1 \in bases
        BY <1>1, <2>3
      <3> QED
        BY <2>2, <2>3, <3>1
    <2>14. base = 1 => b[1] = <<layers[1].id>>
      BY <2>3, <2>5
    <2>15. layers[1].strategy = "replace" =>
             Composed(b[1], layers[1].id, layers[base].id) = Only(layers[1].id)
      BY <2>13, <2>14 DEF Only
    <2> HIDE DEF bases
    <2> QED
      BY <1>3, <1>4, <1>8, <2>8, <2>10, <2>11, <2>12, <2>15 DEF ComposesTo
  <1> QED
    BY <1>7, <1>8

-----------------------------------------------------------------------------
(* The invariant. *)

AddTodo ==
  {<<"copy", "register", "commands", "skills", "reconcile", "reskill">>,
   <<"register", "commands", "skills", "reconcile", "reskill">>,
   <<"commands", "skills", "reconcile", "reskill">>,
   <<"skills", "reconcile", "reskill">>, <<"reconcile", "reskill">>, <<"reskill">>}
RemoveTodo ==
  {<<"unskill", "unregister", "rmtree", "unregistry", "reconcile", "reskill">>,
   <<"unregister", "rmtree", "unregistry", "reconcile", "reskill">>,
   <<"rmtree", "unregistry", "reconcile", "reskill">>,
   <<"unregistry", "reconcile", "reskill">>, <<"reconcile", "reskill">>, <<"reskill">>}

CommandOK(c) ==
  /\ c = [op |-> c.op, p |-> c.p, prio |-> c.prio, names |-> c.names, todo |-> c.todo]
  /\ c.p \in Preset /\ c.prio \in Nat /\ c.names \subseteq Names(c.p)
  /\ \/ c.op = "configure" /\ c.todo = <<"done">> /\ c.names = {}
     \/ c.op = "add" /\ c.todo \in AddTodo
     \/ c.op = "remove" /\ c.todo \in RemoveTodo

TypeOK ==
  /\ reg \in [Preset -> Entry] /\ packs \subseteq Preset
  /\ composed \in [Preset -> [Name -> Texts \cup {NoContent}]]
  /\ files \in [Key -> Texts \cup {NoFile, EmptySkill}]
  /\ override \subseteq Name /\ coreCopy \in BOOLEAN
  /\ ext \in {"enabled", "disabled", "unregistered", "absent"}
  /\ ops \in Nat /\ stale \subseteq Name /\ broken \subseteq Name /\ unskilled \subseteq Name
  /\ cli # Idle => CommandOK(cli)

Running(op) == cli # Idle /\ cli.op = op
\* Step s is still to come.
Has(todo, s) == \E i \in DOMAIN todo : todo[i] = s
Due(s) == cli # Idle /\ Has(cli.todo, s)

\* What a registry entry lists: all that was registered, for every agent.
EntryOK(p) ==
  /\ reg[p].cmds = Agent \X Registered(p) /\ Registered(p) \subseteq Names(p)
  /\ reg[p].skills \subseteq Registered(p)
  /\ \A n \in Registered(p) \ broken : n \in reg[p].skills \/ (Due("skills") /\ p = cli.p)
RegistryOK ==
  /\ \A p \in Preset : EntryOK(p)
  /\ Running("add") =>
       /\ cli.names = Applicable(cli.p)
       /\ Registered(cli.p) = IF Due("commands") THEN {} ELSE cli.names
       /\ ~Due("register") => reg[cli.p].enabled
  /\ Running("remove") => IF Due("unregistry") THEN Registered(cli.p) = cli.names ELSE reg[cli.p] = NoEntry

\* Only composed texts are kept in .composed.
ComposedOK ==
  \A p \in Preset, n \in Name :
    composed[p][n] # NoContent => n \in Names(p) /\ Provides[p][n] # "replace"

\* The skills of the core and the extension are there until one is deleted.
Here(n) == n \in ExtCommand => ext # "absent"
SkillsOK ==
  /\ \A k \in Key : files[k] # EmptySkill
  /\ \A n \in (CoreCommand \cup ExtCommand) \ (broken \cup unskilled) : Here(n) => SkillExists(n)

\* A file is what the stack composes to.
Right(n, a) == files[<<a, n>>] = IF Content(n) = NoContent THEN NoFile ELSE Content(n)
Follows(n, a) ==
  ~LeftOut(n) /\ Here(n) /\ (Content(n) = NoContent \/ n \in unskilled => a = CommandAgent) => Right(n, a)
\* The names a command is at work on.
Busy == IF Running("add") \/ Running("remove") THEN Names(cli.p) ELSE {}
FollowOK ==
  /\ Running("configure") => Names(cli.p) \subseteq stale
  /\ \A n \in Name \ (stale \cup broken \cup Busy), a \in Agent : Follows(n, a)

\* What the steps of a command have done to the names it reconciles.
RunOK ==
  /\ Running("add") /\ ~Due("commands") => \A n \in cli.names : SkillExists(n)
  /\ Running("remove") /\ ~Due("unregister") /\ Due("reconcile") =>
       \A n \in cli.names : files[<<CommandAgent, n>>] = NoFile
  /\ Running("remove") /\ ~Due("unregistry") => Names(cli.p) \ cli.names \subseteq stale
  /\ (Running("add") \/ Running("remove")) /\ ~Due("reconcile") =>
       \A n \in cli.names :
         /\ Right(n, CommandAgent)
         /\ \A p \in Preset : Layers(n) # <<>> /\ Content(n) # NoContent /\ Layers(n)[1].id = p
                /\ Layers(n)[1].strategy # "replace" => composed[p][n] = Content(n)

IInv == TypeOK /\ RegistryOK /\ ComposedOK /\ SkillsOK /\ FollowOK /\ RunOK

-----------------------------------------------------------------------------
(* Facts about the state. *)

(* Texts are told apart from what stands for no text.                       *)
LEMMA TextFacts ==
  /\ NoContent \notin Texts /\ NoFile \notin Texts /\ EmptySkill \notin Texts
  /\ NoFile # EmptySkill /\ CommandAgent # SkillAgent /\ Agent = {CommandAgent, SkillAgent}
  /\ \A l \in LayerId : Only(l) \in Texts
  /\ Override \in LayerId /\ Extension \in LayerId /\ Core \in LayerId /\ Preset \subseteq LayerId
  <1>1. NoLayer \notin LayerId
    BY ResolverAssumption DEF LayerId
  <1>2. NoContent \notin Texts
    BY <1>1 DEF NoContent, Texts
  <1>3. \A l \in LayerId : <<l>> \in Seq(LayerId)
    OBVIOUS
  <1>4. \A l \in LayerId : Only(l) \in Texts
    BY <1>3 DEF Only, Composed, Texts
  <1> QED
    BY <1>2, <1>4, PresetsAssumption DEF LayerId

\* The stack of n has top layer t.
HasTop(n, t) == Layers(n) # <<>> /\ t = Layers(n)[1] /\ TopOf(reg, override, InStack, n, t)

(* The stack of a command and what it composes to.                          *)
LEMMA StackIs ==
  ASSUME TypeOK, NEW n
  PROVE  /\ Layers(n) \in Seq(LayerRecord) /\ ComposesTo(Layers(n), Content(n))
         /\ Layers(n) = <<>> <=> /\ n \notin override /\ Providers(reg, n) = {}
                                 /\ ~(InStack /\ n \in ExtCommand) /\ n \notin CoreCommand
         /\ Layers(n) # <<>> => HasTop(n, Layers(n)[1]) /\ Head(Layers(n)) = Layers(n)[1]
  <1>1. \A p \in Preset : reg[p].prio \in Nat
    BY DEF TypeOK, Entry
  <1>2. /\ Layers(n) \in Seq(LayerRecord)
        /\ Layers(n) = <<>> <=> /\ n \notin override /\ Providers(reg, n) = {}
                                /\ ~(InStack /\ n \in ExtCommand) /\ n \notin CoreCommand
        /\ Layers(n) # <<>> => TopOf(reg, override, InStack, n, Layers(n)[1])
    BY <1>1, LayersAre DEF Layers
  <1>3. ComposesTo(Layers(n), Content(n))
    BY <1>2, CompositionIs DEF Content
  <1>4. Layers(n) # <<>> => Head(Layers(n)) = Layers(n)[1]
    BY <1>2
  <1> QED
    BY <1>2, <1>3, <1>4 DEF HasTop

(* What the top layer of a stack says of the presets and of the content.    *)
LEMMA TopIs ==
  ASSUME TypeOK, NEW n, NEW t, HasTop(n, t)
  PROVE  /\ t.id \in LayerId
         /\ t.strategy = "replace" => Content(n) = Only(t.id)
         /\ t.id \in Preset => /\ n \in Names(t.id) /\ reg[t.id].enabled /\ n \notin override
                               /\ t.strategy = Provides[t.id][n]
         /\ t.id = Override => t.strategy = "replace"
         /\ t.id \notin Preset \cup {Override} =>
              /\ \A p \in Preset : n \in Names(p) => ~reg[p].enabled
              /\ t.strategy = "replace"
              /\ \/ t.id = Extension /\ n \in ExtCommand /\ InStack
                 \/ t.id = Core /\ n \in CoreCommand
  <1>1. TopOf(reg, override, InStack, n, t) /\ Layers(n) # <<>> /\ t = Layers(n)[1]
    BY DEF HasTop
  <1>2. t.strategy = "replace" => Content(n) = Only(t.id)
    BY <1>1, StackIs DEF ComposesTo
  <1>3. \A p : p \in Providers(reg, n) <=> p \in Preset /\ n \in Names(p) /\ reg[p].enabled
    BY DEF Providers, Names
  <1>4. \A i, s : Layer(i, s).id = i /\ Layer(i, s).strategy = s
    BY DEF Layer
  <1>5. Override \notin Preset /\ Extension \notin Preset /\ Core \notin Preset
        /\ Override # Extension /\ Override # Core
    BY ResolverAssumption
  <1>6. CASE n \in override /\ t = Layer(Override, "replace")
    BY <1>2, <1>4, <1>5, <1>6, TextFacts
  <1>7. CASE n \notin override /\ t.id \in Providers(reg, n) /\ t = Layer(t.id, Provides[t.id][n])
    <2>1. t.strategy = Provides[t.id][n]
      BY <1>4, <1>7
    <2> QED
      BY <1>2, <1>3, <1>5, <1>7, <2>1, TextFacts
  <1>8. CASE n \notin override /\ Providers(reg, n) = {} /\ InStack /\ n \in ExtCommand /\ t = Layer(Extension, "replace")
    BY <1>2, <1>3, <1>4, <1>5, <1>8, TextFacts
  <1>9. CASE /\ n \notin override /\ Providers(reg, n) = {} /\ ~(InStack /\ n \in ExtCommand) /\ n \in CoreCommand
             /\ t = Layer(Core, "replace")
    BY <1>2, <1>3, <1>4, <1>5, <1>9, TextFacts
  <1> QED
    BY <1>1, <1>6, <1>7, <1>8, <1>9 DEF TopOf

\* A step leaves the presets, the sources and the files of n alone.
SameStack(n) ==
  /\ \A p \in Preset : n \in Names(p) =>
       /\ (reg[p].enabled <=> reg'[p].enabled)
       /\ reg[p].enabled => reg[p].prio = reg'[p].prio
  /\ n \in override <=> n \in override'
  /\ n \in ExtCommand => (InStack <=> InStack')
Untouched(n) ==
  /\ \A p \in Preset : n \in Names(p) => reg'[p] = reg[p]
  /\ n \in override <=> n \in override'
  /\ n \in ExtCommand => ext' = ext
  /\ n \in unskilled <=> n \in unskilled'
  /\ \A a \in Agent : files'[<<a, n>>] = files[<<a, n>>]

(* The stack is the same then.                                              *)
LEMMA StackSame ==
  ASSUME NEW n, SameStack(n)
  PROVE  Layers(n)' = Layers(n) /\ Content(n)' = Content(n)
  <1>1. PICK r1 : r1 = reg
    OBVIOUS
  <1>2. PICK r2 : r2 = reg'
    OBVIOUS
  <1>3. Providers(r1, n) = Providers(r2, n) /\ \A p \in Providers(r1, n) : r1[p].prio = r2[p].prio
    BY <1>1, <1>2 DEF SameStack, Providers, Names
  <1>4. (n \in override <=> n \in override') /\ (n \in ExtCommand => (InStack <=> InStack'))
    BY DEF SameStack
  <1>5. CollectAllLayers(r1, override, InStack, n) = CollectAllLayers(r2, override', InStack', n)
    BY <1>3, <1>4, LayersSame
  <1>6. Layers(n)' = Layers(n)
    BY <1>1, <1>2, <1>5 DEF Layers
  <1> QED
    BY <1>6 DEF Content

(* A command that a step leaves alone follows its stack as before.          *)
LEMMA FollowsSame ==
  ASSUME NEW n, Untouched(n), NEW a \in Agent, Follows(n, a)
  PROVE  Follows(n, a)'
  <1>1. SameStack(n)
    BY DEF Untouched, SameStack, InStack
  <1>2. Layers(n)' = Layers(n) /\ Content(n)' = Content(n)
    BY <1>1, StackSame
  <1>3. LeftOut(n)' => LeftOut(n)
    <2>1. SUFFICES ASSUME NEW p \in Preset, Installed(p)', n \in Names(p) \ Registered(p)' PROVE LeftOut(n)
      BY DEF LeftOut
    <2>2. reg'[p] = reg[p]
      BY <2>1 DEF Untouched
    <2> QED
      BY <2>1, <2>2 DEF LeftOut, Installed, Registered
  <1>4. LeftOut(n) => LeftOut(n)'
    <2>1. SUFFICES ASSUME NEW p \in Preset, Installed(p), n \in Names(p) \ Registered(p) PROVE LeftOut(n)'
      BY DEF LeftOut
    <2>2. reg'[p] = reg[p]
      BY <2>1 DEF Untouched
    <2> QED
      BY <2>1, <2>2 DEF LeftOut, Installed, Registered
  <1>5. Here(n)' <=> Here(n)
    BY DEF Here, Untouched
  <1>6. (n \in unskilled <=> n \in unskilled') /\ files'[<<a, n>>] = files[<<a, n>>]
    BY DEF Untouched
  <1> QED
    BY <1>2, <1>3, <1>4, <1>5, <1>6 DEF Follows, Right

-----------------------------------------------------------------------------
(* The steps of a command. *)

(* The members of each list of steps.                                       *)
LEMMA HasIs ==
  ASSUME NEW s
  PROVE  /\ Has(<<"done">>, s) <=> s = "done"
         /\ Has(<<"reskill">>, s) <=> s = "reskill"
         /\ Has(<<"reconcile", "reskill">>, s) <=> s \in {"reconcile", "reskill"}
         /\ Has(<<"skills", "reconcile", "reskill">>, s) <=> s \in {"skills", "reconcile", "reskill"}
         /\ Has(<<"commands", "skills", "reconcile", "reskill">>, s)
              <=> s \in {"commands", "skills", "reconcile", "reskill"}
         /\ Has(<<"register", "commands", "skills", "reconcile", "reskill">>, s)
              <=> s \in {"register", "commands", "skills", "reconcile", "reskill"}
         /\ Has(<<"copy", "register", "commands", "skills", "reconcile", "reskill">>, s)
              <=> s \in {"copy", "register", "commands", "skills", "reconcile", "reskill"}
         /\ Has(<<"unregistry", "reconcile", "reskill">>, s) <=> s \in {"unregistry", "reconcile", "reskill"}
         /\ Has(<<"rmtree", "unregistry", "reconcile", "reskill">>, s)
              <=> s \in {"rmtree", "unregistry", "reconcile", "reskill"}
         /\ Has(<<"unregister", "rmtree", "unregistry", "reconcile", "reskill">>, s)
              <=> s \in {"unregister", "rmtree", "unregistry", "reconcile", "reskill"}
         /\ Has(<<"unskill", "unregister", "rmtree", "unregistry", "reconcile", "reskill">>, s)
              <=> s \in {"unskill", "unregister", "rmtree", "unregistry", "reconcile", "reskill"}
  <1>1. Has(<<"done">>, s) <=> s = "done"
    BY DEF Has
  <1>2. Has(<<"reskill">>, s) <=> s = "reskill"
    BY DEF Has
  <1>3. Has(<<"reconcile", "reskill">>, s) <=> s \in {"reconcile", "reskill"}
    BY DEF Has
  <1>4. Has(<<"skills", "reconcile", "reskill">>, s) <=> s \in {"skills", "reconcile", "reskill"}
    BY DEF Has
  <1>5. Has(<<"commands", "skills", "reconcile", "reskill">>, s)
          <=> s \in {"commands", "skills", "reconcile", "reskill"}
    BY DEF Has
  <1>6. Has(<<"register", "commands", "skills", "reconcile", "reskill">>, s)
          <=> s \in {"register", "commands", "skills", "reconcile", "reskill"}
    BY DEF Has
  <1>7. Has(<<"copy", "register", "commands", "skills", "reconcile", "reskill">>, s)
          <=> s \in {"copy", "register", "commands", "skills", "reconcile", "reskill"}
    BY DEF Has
  <1>8. Has(<<"unregistry", "reconcile", "reskill">>, s) <=> s \in {"unregistry", "reconcile", "reskill"}
    BY DEF Has
  <1>9. Has(<<"rmtree", "unregistry", "reconcile", "reskill">>, s)
          <=> s \in {"rmtree", "unregistry", "reconcile", "reskill"}
    BY DEF Has
  <1>10. Has(<<"unregister", "rmtree", "unregistry", "reconcile", "reskill">>, s)
          <=> s \in {"unregister", "rmtree", "unregistry", "reconcile", "reskill"}
    BY DEF Has
  <1>11. Has(<<"unskill", "unregister", "rmtree", "unregistry", "reconcile", "reskill">>, s)
          <=> s \in {"unskill", "unregister", "rmtree", "unregistry", "reconcile", "reskill"}
    BY DEF Has
  <1> QED
    BY <1>1, <1>2, <1>3, <1>4, <1>5, <1>6, <1>7, <1>8, <1>9, <1>10, <1>11

\* A command of kind op takes a step: the steps to come before and after it.
Moves(op, before, after) ==
  /\ cli # Idle /\ cli.op = op /\ cli.p \in Preset /\ cli.prio \in Nat /\ cli.names \subseteq Names(cli.p)
  /\ \A t : Due(t) <=> t \in before
  /\ \A t : Due(t)' <=> t \in after
  /\ after = {} => cli' = Idle
  /\ after # {} => /\ cli' # Idle /\ cli'.op = op /\ cli'.p = cli.p /\ cli'.names = cli.names
                   /\ CommandOK(cli')

(* A command that runs is not the idle one.                                 *)
LEMMA CommandIs ==
  ASSUME NEW c, CommandOK(c)
  PROVE  /\ c.op \in {"add", "remove", "configure"} /\ c # Idle
         /\ c.op = "add" => c.todo \in AddTodo
         /\ c.op = "remove" => c.todo \in RemoveTodo
         /\ c.op = "configure" => c.todo = <<"done">>
         /\ c.p \in Preset /\ c.prio \in Nat /\ c.names \subseteq Names(c.p)
  <1>1. c.op \in {"add", "remove", "configure"}
    BY DEF CommandOK
  <1>2. Idle.op = "idle"
    BY DEF Idle
  <1> QED
    BY <1>1, <1>2 DEF CommandOK

(* The last step of a command.                                              *)
LEMMA Ending ==
  ASSUME TypeOK, cli # Idle, Go, NEW s, cli.todo = <<s>>, \A t : Has(<<s>>, t) <=> t = s
  PROVE  Moves(cli.op, {s}, {})
  <1>1. CommandOK(cli)
    BY DEF TypeOK
  <1>2. cli.p \in Preset /\ cli.prio \in Nat /\ cli.names \subseteq Names(cli.p)
    BY <1>1, CommandIs
  <1>3. Len(cli.todo) = 1
    OBVIOUS
  <1>4. cli' = Idle
    BY <1>3 DEF Go
  <1>5. \A t : Due(t) <=> t = s
    BY DEF Due
  <1>6. \A t : ~Due(t)'
    BY <1>4 DEF Due
  <1> QED
    BY <1>2, <1>4, <1>5, <1>6 DEF Moves

(* Any other step.                                                          *)
LEMMA Going ==
  ASSUME TypeOK, cli # Idle, Go, NEW rest, NEW B, NEW A, A # {}, Len(cli.todo) # 1, Tail(cli.todo) = rest,
         \A t : Has(cli.todo, t) <=> t \in B,
         \A t : Has(rest, t) <=> t \in A,
         (cli.op = "add" /\ rest \in AddTodo) \/ (cli.op = "remove" /\ rest \in RemoveTodo)
  PROVE  Moves(cli.op, B, A)
  <1>1. CommandOK(cli)
    BY DEF TypeOK
  <1>2. cli.p \in Preset /\ cli.prio \in Nat /\ cli.names \subseteq Names(cli.p)
    BY <1>1, CommandIs
  <1>3. cli = [op |-> cli.op, p |-> cli.p, prio |-> cli.prio, names |-> cli.names, todo |-> cli.todo]
    BY <1>1 DEF CommandOK
  <1>4. cli' = [cli EXCEPT !.todo = rest]
    BY DEF Go
  <1>5. /\ cli' = [op |-> cli.op, p |-> cli.p, prio |-> cli.prio, names |-> cli.names, todo |-> rest]
        /\ cli'.op = cli.op /\ cli'.p = cli.p /\ cli'.prio = cli.prio /\ cli'.names = cli.names /\ cli'.todo = rest
    BY <1>3, <1>4
  <1>6. CommandOK(cli')
    BY <1>2, <1>5 DEF CommandOK
  <1>7. cli' # Idle
    BY <1>6, CommandIs
  <1>8. \A t : Due(t) <=> t \in B
    BY DEF Due
  <1>9. \A t : Due(t)' <=> t \in A
    BY <1>5, <1>7 DEF Due
  <1> QED
    BY <1>2, <1>5, <1>6, <1>7, <1>8, <1>9 DEF Moves

(* The step at the head of the list tells the list.                         *)
LEMMA HeadTells ==
  ASSUME TypeOK, NEW s, At(s)
  PROVE  /\ cli # Idle /\ CommandOK(cli)
         /\ s = "copy" => cli.op = "add" /\ cli.todo = <<"copy", "register", "commands", "skills", "reconcile", "reskill">>
         /\ s = "register" => cli.op = "add" /\ cli.todo = <<"register", "commands", "skills", "reconcile", "reskill">>
         /\ s = "commands" => cli.op = "add" /\ cli.todo = <<"commands", "skills", "reconcile", "reskill">>
         /\ s = "skills" => cli.op = "add" /\ cli.todo = <<"skills", "reconcile", "reskill">>
         /\ s = "unskill" => cli.op = "remove" /\ cli.todo = <<"unskill", "unregister", "rmtree", "unregistry", "reconcile", "reskill">>
         /\ s = "unregister" => cli.op = "remove" /\ cli.todo = <<"unregister", "rmtree", "unregistry", "reconcile", "reskill">>
         /\ s = "rmtree" => cli.op = "remove" /\ cli.todo = <<"rmtree", "unregistry", "reconcile", "reskill">>
         /\ s = "unregistry" => cli.op = "remove" /\ cli.todo = <<"unregistry", "reconcile", "reskill">>
         /\ s = "reconcile" => cli.op \in {"add", "remove"} /\ cli.todo = <<"reconcile", "reskill">>
         /\ s = "reskill" => cli.op \in {"add", "remove"} /\ cli.todo = <<"reskill">>
         /\ s = "done" => cli.op = "configure" /\ cli.todo = <<"done">>
  <1>1. CommandOK(cli) /\ cli # Idle /\ Head(cli.todo) = s
    BY DEF TypeOK, At
  <1>2. /\ cli.op \in {"add", "remove", "configure"}
        /\ cli.op = "add" => cli.todo \in AddTodo
        /\ cli.op = "remove" => cli.todo \in RemoveTodo
        /\ cli.op = "configure" => cli.todo = <<"done">>
    BY <1>1, CommandIs
  <1>3. CASE cli.op = "add"
    BY <1>1, <1>2, <1>3 DEF AddTodo
  <1>4. CASE cli.op = "remove"
    BY <1>1, <1>2, <1>4 DEF RemoveTodo
  <1>5. CASE cli.op = "configure"
    BY <1>1, <1>2, <1>5
  <1> QED
    BY <1>2, <1>3, <1>4, <1>5

(* The step "copy".                                                        *)
LEMMA Copying ==
  ASSUME TypeOK, At("copy"), Go
  PROVE  Moves("add", {"copy", "register", "commands", "skills", "reconcile", "reskill"}, {"register", "commands", "skills", "reconcile", "reskill"})
  <1>1. cli # Idle /\ cli.op = "add" /\ cli.todo = <<"copy", "register", "commands", "skills", "reconcile", "reskill">>
    BY HeadTells
  <1>2. Len(cli.todo) # 1 /\ Tail(cli.todo) = <<"register", "commands", "skills", "reconcile", "reskill">>
    BY <1>1
  <1>3. \A t : Has(cli.todo, t) <=> t \in {"copy", "register", "commands", "skills", "reconcile", "reskill"}
    BY <1>1, HasIs
  <1>4. \A t : Has(<<"register", "commands", "skills", "reconcile", "reskill">>, t) <=> t \in {"register", "commands", "skills", "reconcile", "reskill"}
    BY HasIs
  <1>5. <<"register", "commands", "skills", "reconcile", "reskill">> \in AddTodo
    BY DEF AddTodo
  <1>6. {"register", "commands", "skills", "reconcile", "reskill"} # {}
    OBVIOUS
  <1> QED
    BY <1>1, <1>2, <1>3, <1>4, <1>5, <1>6, Going

(* The step "register".                                                    *)
LEMMA Registering ==
  ASSUME TypeOK, At("register"), Go
  PROVE  Moves("add", {"register", "commands", "skills", "reconcile", "reskill"}, {"commands", "skills", "reconcile", "reskill"})
  <1>1. cli # Idle /\ cli.op = "add" /\ cli.todo = <<"register", "commands", "skills", "reconcile", "reskill">>
    BY HeadTells
  <1>2. Len(cli.todo) # 1 /\ Tail(cli.todo) = <<"commands", "skills", "reconcile", "reskill">>
    BY <1>1
  <1>3. \A t : Has(cli.todo, t) <=> t \in {"register", "commands", "skills", "reconcile", "reskill"}
    BY <1>1, HasIs
  <1>4. \A t : Has(<<"commands", "skills", "reconcile", "reskill">>, t) <=> t \in {"commands", "skills", "reconcile", "reskill"}
    BY HasIs
  <1>5. <<"commands", "skills", "reconcile", "reskill">> \in AddTodo
    BY DEF AddTodo
  <1>6. {"commands", "skills", "reconcile", "reskill"} # {}
    OBVIOUS
  <1> QED
    BY <1>1, <1>2, <1>3, <1>4, <1>5, <1>6, Going

(* The step "commands".                                                    *)
LEMMA Commanding ==
  ASSUME TypeOK, At("commands"), Go
  PROVE  Moves("add", {"commands", "skills", "reconcile", "reskill"}, {"skills", "reconcile", "reskill"})
  <1>1. cli # Idle /\ cli.op = "add" /\ cli.todo = <<"commands", "skills", "reconcile", "reskill">>
    BY HeadTells
  <1>2. Len(cli.todo) # 1 /\ Tail(cli.todo) = <<"skills", "reconcile", "reskill">>
    BY <1>1
  <1>3. \A t : Has(cli.todo, t) <=> t \in {"commands", "skills", "reconcile", "reskill"}
    BY <1>1, HasIs
  <1>4. \A t : Has(<<"skills", "reconcile", "reskill">>, t) <=> t \in {"skills", "reconcile", "reskill"}
    BY HasIs
  <1>5. <<"skills", "reconcile", "reskill">> \in AddTodo
    BY DEF AddTodo
  <1>6. {"skills", "reconcile", "reskill"} # {}
    OBVIOUS
  <1> QED
    BY <1>1, <1>2, <1>3, <1>4, <1>5, <1>6, Going

(* The step "skills".                                                      *)
LEMMA Skilling ==
  ASSUME TypeOK, At("skills"), Go
  PROVE  Moves("add", {"skills", "reconcile", "reskill"}, {"reconcile", "reskill"})
  <1>1. cli # Idle /\ cli.op = "add" /\ cli.todo = <<"skills", "reconcile", "reskill">>
    BY HeadTells
  <1>2. Len(cli.todo) # 1 /\ Tail(cli.todo) = <<"reconcile", "reskill">>
    BY <1>1
  <1>3. \A t : Has(cli.todo, t) <=> t \in {"skills", "reconcile", "reskill"}
    BY <1>1, HasIs
  <1>4. \A t : Has(<<"reconcile", "reskill">>, t) <=> t \in {"reconcile", "reskill"}
    BY HasIs
  <1>5. <<"reconcile", "reskill">> \in AddTodo
    BY DEF AddTodo
  <1>6. {"reconcile", "reskill"} # {}
    OBVIOUS
  <1> QED
    BY <1>1, <1>2, <1>3, <1>4, <1>5, <1>6, Going

(* The step "unskill".                                                     *)
LEMMA Unskilling ==
  ASSUME TypeOK, At("unskill"), Go
  PROVE  Moves("remove", {"unskill", "unregister", "rmtree", "unregistry", "reconcile", "reskill"}, {"unregister", "rmtree", "unregistry", "reconcile", "reskill"})
  <1>1. cli # Idle /\ cli.op = "remove" /\ cli.todo = <<"unskill", "unregister", "rmtree", "unregistry", "reconcile", "reskill">>
    BY HeadTells
  <1>2. Len(cli.todo) # 1 /\ Tail(cli.todo) = <<"unregister", "rmtree", "unregistry", "reconcile", "reskill">>
    BY <1>1
  <1>3. \A t : Has(cli.todo, t) <=> t \in {"unskill", "unregister", "rmtree", "unregistry", "reconcile", "reskill"}
    BY <1>1, HasIs
  <1>4. \A t : Has(<<"unregister", "rmtree", "unregistry", "reconcile", "reskill">>, t) <=> t \in {"unregister", "rmtree", "unregistry", "reconcile", "reskill"}
    BY HasIs
  <1>5. <<"unregister", "rmtree", "unregistry", "reconcile", "reskill">> \in RemoveTodo
    BY DEF RemoveTodo
  <1>6. {"unregister", "rmtree", "unregistry", "reconcile", "reskill"} # {}
    OBVIOUS
  <1> QED
    BY <1>1, <1>2, <1>3, <1>4, <1>5, <1>6, Going

(* The step "unregister".                                                  *)
LEMMA Unregistering ==
  ASSUME TypeOK, At("unregister"), Go
  PROVE  Moves("remove", {"unregister", "rmtree", "unregistry", "reconcile", "reskill"}, {"rmtree", "unregistry", "reconcile", "reskill"})
  <1>1. cli # Idle /\ cli.op = "remove" /\ cli.todo = <<"unregister", "rmtree", "unregistry", "reconcile", "reskill">>
    BY HeadTells
  <1>2. Len(cli.todo) # 1 /\ Tail(cli.todo) = <<"rmtree", "unregistry", "reconcile", "reskill">>
    BY <1>1
  <1>3. \A t : Has(cli.todo, t) <=> t \in {"unregister", "rmtree", "unregistry", "reconcile", "reskill"}
    BY <1>1, HasIs
  <1>4. \A t : Has(<<"rmtree", "unregistry", "reconcile", "reskill">>, t) <=> t \in {"rmtree", "unregistry", "reconcile", "reskill"}
    BY HasIs
  <1>5. <<"rmtree", "unregistry", "reconcile", "reskill">> \in RemoveTodo
    BY DEF RemoveTodo
  <1>6. {"rmtree", "unregistry", "reconcile", "reskill"} # {}
    OBVIOUS
  <1> QED
    BY <1>1, <1>2, <1>3, <1>4, <1>5, <1>6, Going

(* The step "rmtree".                                                      *)
LEMMA Removing ==
  ASSUME TypeOK, At("rmtree"), Go
  PROVE  Moves("remove", {"rmtree", "unregistry", "reconcile", "reskill"}, {"unregistry", "reconcile", "reskill"})
  <1>1. cli # Idle /\ cli.op = "remove" /\ cli.todo = <<"rmtree", "unregistry", "reconcile", "reskill">>
    BY HeadTells
  <1>2. Len(cli.todo) # 1 /\ Tail(cli.todo) = <<"unregistry", "reconcile", "reskill">>
    BY <1>1
  <1>3. \A t : Has(cli.todo, t) <=> t \in {"rmtree", "unregistry", "reconcile", "reskill"}
    BY <1>1, HasIs
  <1>4. \A t : Has(<<"unregistry", "reconcile", "reskill">>, t) <=> t \in {"unregistry", "reconcile", "reskill"}
    BY HasIs
  <1>5. <<"unregistry", "reconcile", "reskill">> \in RemoveTodo
    BY DEF RemoveTodo
  <1>6. {"unregistry", "reconcile", "reskill"} # {}
    OBVIOUS
  <1> QED
    BY <1>1, <1>2, <1>3, <1>4, <1>5, <1>6, Going

(* The step "unregistry".                                                  *)
LEMMA Forgetting ==
  ASSUME TypeOK, At("unregistry"), Go
  PROVE  Moves("remove", {"unregistry", "reconcile", "reskill"}, {"reconcile", "reskill"})
  <1>1. cli # Idle /\ cli.op = "remove" /\ cli.todo = <<"unregistry", "reconcile", "reskill">>
    BY HeadTells
  <1>2. Len(cli.todo) # 1 /\ Tail(cli.todo) = <<"reconcile", "reskill">>
    BY <1>1
  <1>3. \A t : Has(cli.todo, t) <=> t \in {"unregistry", "reconcile", "reskill"}
    BY <1>1, HasIs
  <1>4. \A t : Has(<<"reconcile", "reskill">>, t) <=> t \in {"reconcile", "reskill"}
    BY HasIs
  <1>5. <<"reconcile", "reskill">> \in RemoveTodo
    BY DEF RemoveTodo
  <1>6. {"reconcile", "reskill"} # {}
    OBVIOUS
  <1> QED
    BY <1>1, <1>2, <1>3, <1>4, <1>5, <1>6, Going

(* The step "reconcile", of an installation or a removal.                   *)
LEMMA Reconciling ==
  ASSUME TypeOK, At("reconcile"), Go
  PROVE  cli.op \in {"add", "remove"} /\ Moves(cli.op, {"reconcile", "reskill"}, {"reskill"})
  <1>1. cli # Idle /\ cli.op \in {"add", "remove"} /\ cli.todo = <<"reconcile", "reskill">>
    BY HeadTells
  <1>2. Len(cli.todo) # 1 /\ Tail(cli.todo) = <<"reskill">>
    BY <1>1
  <1>3. \A t : Has(cli.todo, t) <=> t \in {"reconcile", "reskill"}
    BY <1>1, HasIs
  <1>4. \A t : Has(<<"reskill">>, t) <=> t \in {"reskill"}
    BY HasIs
  <1>5. <<"reskill">> \in AddTodo /\ <<"reskill">> \in RemoveTodo
    BY DEF AddTodo, RemoveTodo
  <1>6. {"reskill"} # {}
    OBVIOUS
  <1> QED
    BY <1>1, <1>2, <1>3, <1>4, <1>5, <1>6, Going

(* The last step of an installation or a removal.                           *)
LEMMA Reskilling ==
  ASSUME TypeOK, At("reskill"), Go
  PROVE  cli.op \in {"add", "remove"} /\ Moves(cli.op, {"reskill"}, {})
  <1>1. cli # Idle /\ cli.op \in {"add", "remove"} /\ cli.todo = <<"reskill">>
    BY HeadTells
  <1>2. \A t : Has(<<"reskill">>, t) <=> t = "reskill"
    BY HasIs
  <1> QED
    BY <1>1, <1>2, Ending

(* The last step of the commands that only write the registry.              *)
LEMMA Finishing ==
  ASSUME TypeOK, At("done"), Go
  PROVE  Moves("configure", {"done"}, {})
  <1>1. cli # Idle /\ cli.op = "configure" /\ cli.todo = <<"done">>
    BY HeadTells
  <1>2. \A t : Has(<<"done">>, t) <=> t = "done"
    BY HasIs
  <1> QED
    BY <1>1, <1>2, Ending

(* What the steps to come say of the command that runs.                     *)
LEMMA MovesIs ==
  ASSUME NEW op, NEW B, NEW A, Moves(op, B, A)
  PROVE  /\ \A o : Running(o) <=> o = op
         /\ \A o : Running(o)' <=> A # {} /\ o = op
         /\ op \in {"add", "remove"} => Busy = Names(cli.p)
         /\ op = "configure" => Busy = {}
         /\ A # {} /\ op \in {"add", "remove"} => Busy' = Names(cli.p)
         /\ A = {} => Busy' = {}
  <1>1. \A o : Running(o) <=> o = op
    BY DEF Moves, Running
  <1>2. \A o : Running(o)' <=> A # {} /\ o = op
    BY DEF Moves, Running
  <1>3. op = "configure" => op # "add" /\ op # "remove"
    OBVIOUS
  <1>4. A # {} => Names(cli'.p) = Names(cli.p)
    BY DEF Moves
  <1>5. A # {} /\ op \in {"add", "remove"} => Busy' = Names(cli.p)
    BY <1>2, <1>4 DEF Busy, Names
  <1>6. A = {} => Busy' = {}
    BY <1>2 DEF Busy
  <1> QED
    BY <1>1, <1>2, <1>3, <1>5, <1>6 DEF Busy

(* FollowOK is kept when every name it still speaks of was spoken of and    *)
(* left alone.                                                              *)
LEMMA FollowFrame ==
  ASSUME FollowOK, Running("configure")' => Names(cli'.p) \subseteq stale',
         \A n \in Name : n \notin stale' /\ n \notin broken' /\ n \notin Busy' =>
                           n \notin stale /\ n \notin broken /\ n \notin Busy /\ Untouched(n)
  PROVE  FollowOK'
  <1>1. ASSUME NEW n \in Name, n \notin stale', n \notin broken', n \notin Busy', NEW a \in Agent
        PROVE  Follows(n, a)'
    <2>1. n \notin stale /\ n \notin broken /\ n \notin Busy /\ Untouched(n)
      BY <1>1
    <2>2. Follows(n, a)
      BY <2>1 DEF FollowOK
    <2> QED
      BY <2>1, <2>2, FollowsSame
  <1>2. Running("configure")' => Names(cli.p)' \subseteq stale'
    BY DEF Names
  <1> QED
    BY <1>1, <1>2 DEF FollowOK

(* A step of an installation or removal that leaves alone all but its       *)
(* preset's names.                                                          *)
LEMMA AsideFollows ==
  ASSUME FollowOK, NEW op \in {"add", "remove"}, NEW B, NEW A, Moves(op, B, A), A # {},
         override' = override, ext' = ext, broken' = broken, stale \subseteq stale',
         \A q \in Preset : q # cli.p => reg'[q] = reg[q],
         \A n \in Name : n \notin Names(cli.p) =>
           (n \in unskilled <=> n \in unskilled') /\ \A a \in Agent : files'[<<a, n>>] = files[<<a, n>>]
  PROVE  FollowOK'
  <1>1. Busy = Names(cli.p) /\ Busy' = Names(cli.p) /\ ~Running("configure")'
    BY MovesIs
  <1>2. ASSUME NEW n \in Name, n \notin stale', n \notin broken', n \notin Busy'
        PROVE  n \notin stale /\ n \notin broken /\ n \notin Busy /\ Untouched(n)
    <2>1. \A q \in Preset : n \in Names(q) => reg'[q] = reg[q]
      BY <1>1, <1>2
    <2> QED
      BY <1>1, <1>2, <2>1 DEF Untouched
  <1> QED
    BY <1>1, <1>2, FollowFrame

(* A registry entry that is left alone stays in order.                      *)
LEMMA EntrySame ==
  ASSUME NEW q \in Preset, EntryOK(q), reg'[q].cmds = reg[q].cmds, reg'[q].skills = reg[q].skills,
         broken \subseteq broken',
         Due("skills") /\ q = cli.p => (Due("skills")' /\ q = cli'.p) \/ Names(q) \subseteq broken'
  PROVE  EntryOK(q)'
  <1>1. Registered(q)' = Registered(q)
    BY DEF Registered
  <1>2. Registered(q) \subseteq Names(q) /\ reg'[q].cmds = Agent \X Registered(q)' /\ reg'[q].skills \subseteq Registered(q)'
    BY <1>1 DEF EntryOK
  <1>3. ASSUME NEW n \in Registered(q)', n \notin broken'
        PROVE  n \in reg'[q].skills \/ (Due("skills")' /\ q = cli'.p)
    <2>1. n \in reg[q].skills \/ (Due("skills") /\ q = cli.p)
      BY <1>1, <1>3 DEF EntryOK
    <2> QED
      BY <1>1, <1>2, <1>3, <2>1
  <1>4. Registered(q)' \subseteq Names(q)'
    BY <1>1, <1>2 DEF Names
  <1> QED
    BY <1>2, <1>3, <1>4 DEF EntryOK

(* The entry of a preset that is not installed.                             *)
LEMMA NoEntryIs ==
  /\ NoEntry \in Entry /\ NoEntry.cmds = {} /\ NoEntry.skills = {} /\ ~NoEntry.enabled /\ NoEntry.prio = 0
  BY DEF NoEntry, Entry

(* An entry without commands and skills is in order.                        *)
LEMMA EntryEmpty ==
  ASSUME NEW q \in Preset, reg'[q].cmds = {}, reg'[q].skills = {}
  PROVE  EntryOK(q)' /\ Registered(q)' = {}
  <1>1. Registered(q)' = {}
    BY DEF Registered
  <1> QED
    BY <1>1 DEF EntryOK

-----------------------------------------------------------------------------
(* Each step keeps the invariant. *)

(* No content is remembered for a preset whose directory is new or gone.    *)
LEMMA ClearedComposed ==
  ASSUME TypeOK, ComposedOK, NEW p \in Preset,
         composed' = [composed EXCEPT ![p] = [n \in Name |-> NoContent]]
  PROVE  composed' \in [Preset -> [Name -> Texts \cup {NoContent}]] /\ ComposedOK'
  <1>1. composed \in [Preset -> [Name -> Texts \cup {NoContent}]]
    BY DEF TypeOK
  <1>2. composed' \in [Preset -> [Name -> Texts \cup {NoContent}]]
    BY <1>1
  <1>3. \A q \in Preset, n \in Name : composed'[q][n] = IF q = p THEN NoContent ELSE composed[q][n]
    BY <1>1
  <1>4. ComposedOK'
    BY <1>3 DEF ComposedOK, Names
  <1> QED
    BY <1>2, <1>4

(* The directory of a new preset.                                           *)
LEMMA CopyKeeps ==
  ASSUME IInv, Copy
  PROVE  IInv'
  <1> DEFINE B == {"copy", "register", "commands", "skills", "reconcile", "reskill"}
             A == {"register", "commands", "skills", "reconcile", "reskill"}
  <1>1. TypeOK /\ RegistryOK /\ ComposedOK /\ SkillsOK /\ FollowOK /\ RunOK
    BY DEF IInv
  <1>2. /\ packs' = packs \cup {cli.p} /\ composed' = [composed EXCEPT ![cli.p] = [n \in Name |-> NoContent]]
        /\ reg' = reg /\ files' = files /\ override' = override /\ ext' = ext /\ coreCopy' = coreCopy
        /\ ops' = ops /\ stale' = stale /\ broken' = broken /\ unskilled' = unskilled
    BY DEF Copy, project, history
  <1>3. Moves("add", B, A)
    BY <1>1, Copying DEF Copy
  <1>4. A # {} /\ "add" \in {"add", "remove"}
    OBVIOUS
  <1>5. /\ \A o : Running(o) <=> o = "add"
        /\ \A o : Running(o)' <=> o = "add"
    BY <1>3, <1>4, MovesIs
  <1>6. /\ cli.p \in Preset /\ cli'.p = cli.p /\ cli'.names = cli.names /\ CommandOK(cli')
        /\ \A t : Due(t) <=> t \in B
        /\ \A t : Due(t)' <=> t \in A
    BY <1>3, <1>4 DEF Moves
  <1>7. composed' \in [Preset -> [Name -> Texts \cup {NoContent}]] /\ ComposedOK'
    BY <1>1, <1>2, <1>6, ClearedComposed
  <1>8. TypeOK'
    BY <1>1, <1>2, <1>6, <1>7 DEF TypeOK
  <1>9. RegistryOK'
    <2>1. ASSUME NEW q \in Preset PROVE EntryOK(q)'
      BY <1>1, <1>2, <1>6, EntrySame DEF RegistryOK
    <2>2. Registered(cli.p)' = Registered(cli.p) /\ Applicable(cli.p)' = Applicable(cli.p)
      BY <1>2, <1>6 DEF Registered, Applicable, Names
    <2> QED
      BY <1>1, <1>2, <1>5, <1>6, <2>1, <2>2 DEF RegistryOK
  <1>10. SkillsOK'
    BY <1>1, <1>2 DEF SkillsOK, Here, SkillExists
  <1>11. FollowOK'
    BY <1>1, <1>2, <1>3, <1>4, AsideFollows
  <1>12. RunOK'
    BY <1>5, <1>6 DEF RunOK
  <1> QED
    BY <1>7, <1>8, <1>9, <1>10, <1>11, <1>12 DEF IInv

(* The registry entry of a new preset.                                      *)
LEMMA RegisterKeeps ==
  ASSUME IInv, Register
  PROVE  IInv'
  <1> DEFINE B == {"register", "commands", "skills", "reconcile", "reskill"}
             A == {"commands", "skills", "reconcile", "reskill"}
             e == [NoEntry EXCEPT !.enabled = TRUE, !.prio = cli.prio]
  <1>1. TypeOK /\ RegistryOK /\ ComposedOK /\ SkillsOK /\ FollowOK /\ RunOK
    BY DEF IInv
  <1>2. /\ reg' = [reg EXCEPT ![cli.p] = e] /\ packs' = packs /\ composed' = composed
        /\ files' = files /\ override' = override /\ ext' = ext /\ coreCopy' = coreCopy
        /\ ops' = ops /\ stale' = stale /\ broken' = broken /\ unskilled' = unskilled
    BY DEF Register, project, history
  <1>3. Moves("add", B, A)
    BY <1>1, Registering DEF Register
  <1>4. A # {} /\ "add" \in {"add", "remove"}
    OBVIOUS
  <1>5. /\ \A o : Running(o) <=> o = "add"
        /\ \A o : Running(o)' <=> o = "add"
    BY <1>3, <1>4, MovesIs
  <1>6. /\ cli.p \in Preset /\ cli'.p = cli.p /\ cli'.names = cli.names /\ CommandOK(cli') /\ cli.prio \in Nat
        /\ \A t : Due(t) <=> t \in B
        /\ \A t : Due(t)' <=> t \in A
    BY <1>3, <1>4 DEF Moves
  <1>7. e \in Entry /\ e.cmds = {} /\ e.skills = {} /\ e.enabled
    BY <1>6 DEF NoEntry, Entry
  <1>8. /\ reg' \in [Preset -> Entry] /\ reg'[cli.p] = e
        /\ \A q \in Preset : q # cli.p => reg'[q] = reg[q]
    BY <1>1, <1>2, <1>6, <1>7 DEF TypeOK
  <1> HIDE DEF e
  <1>9. TypeOK'
    BY <1>1, <1>2, <1>6, <1>8 DEF TypeOK
  <1>10. RegistryOK'
    <2>1. EntryOK(cli.p)' /\ Registered(cli.p)' = {}
      <3>1. PICK p \in Preset : p = cli.p
        BY <1>6
      <3>2. reg'[p].cmds = {} /\ reg'[p].skills = {}
        BY <1>7, <1>8, <3>1
      <3>3. EntryOK(p)' /\ Registered(p)' = {}
        BY <3>2, EntryEmpty
      <3> QED
        BY <1>6, <3>1, <3>3
    <2>2. ASSUME NEW q \in Preset PROVE EntryOK(q)'
      <3>1. CASE q = cli.p
        <4>1. reg'[q].cmds = {} /\ reg'[q].skills = {}
          BY <1>7, <1>8, <3>1
        <4> QED
          BY <4>1, EntryEmpty
      <3>2. CASE q # cli.p
        BY <1>1, <1>2, <1>6, <1>8, <3>2, EntrySame DEF RegistryOK
      <3> QED
        BY <3>1, <3>2
    <2>3. Applicable(cli.p)' = Applicable(cli.p)
      BY <1>2, <1>6 DEF Applicable, Names
    <2> QED
      BY <1>1, <1>2, <1>5, <1>6, <1>7, <1>8, <2>1, <2>2, <2>3 DEF RegistryOK
  <1>11. SkillsOK' /\ ComposedOK'
    BY <1>1, <1>2 DEF SkillsOK, Here, SkillExists, ComposedOK, Names
  <1>12. FollowOK'
    BY <1>1, <1>2, <1>3, <1>4, <1>8, AsideFollows
  <1>13. RunOK'
    BY <1>5, <1>6 DEF RunOK
  <1> QED
    BY <1>9, <1>10, <1>11, <1>12, <1>13 DEF IInv

(* The end of a command that only wrote the registry.                       *)
LEMMA DoneKeeps ==
  ASSUME IInv, Done
  PROVE  IInv'
  <1>1. TypeOK /\ RegistryOK /\ ComposedOK /\ SkillsOK /\ FollowOK /\ RunOK
    BY DEF IInv
  <1>2. /\ reg' = reg /\ packs' = packs /\ composed' = composed
        /\ files' = files /\ override' = override /\ ext' = ext /\ coreCopy' = coreCopy
        /\ ops' = ops /\ stale' = stale /\ broken' = broken /\ unskilled' = unskilled
    BY DEF Done, project, history
  <1>3. Moves("configure", {"done"}, {})
    BY <1>1, Finishing DEF Done
  <1>4. /\ \A o : ~Running(o)'
        /\ Busy = {} /\ Busy' = {}
    BY <1>3, MovesIs
  <1>5. cli' = Idle /\ ~Due("skills") /\ ~Due("skills")'
    BY <1>3 DEF Moves
  <1>6. TypeOK'
    BY <1>1, <1>2, <1>5 DEF TypeOK
  <1>7. RegistryOK'
    <2>1. ASSUME NEW q \in Preset PROVE EntryOK(q)'
      BY <1>1, <1>2, <1>5, EntrySame DEF RegistryOK
    <2> QED
      BY <1>4, <2>1 DEF RegistryOK
  <1>8. SkillsOK' /\ ComposedOK'
    BY <1>1, <1>2 DEF SkillsOK, Here, SkillExists, ComposedOK, Names
  <1>9. FollowOK'
    <2>1. \A n \in Name : Untouched(n)
      BY <1>2 DEF Untouched
    <2> QED
      BY <1>1, <1>2, <1>4, <2>1, FollowFrame
  <1>10. RunOK'
    BY <1>4 DEF RunOK
  <1> QED
    BY <1>6, <1>7, <1>8, <1>9, <1>10 DEF IInv

(* The directory of a preset is deleted.                                    *)
LEMMA RmtreeKeeps ==
  ASSUME IInv, Rmtree
  PROVE  IInv'
  <1> DEFINE B == {"rmtree", "unregistry", "reconcile", "reskill"}
             A == {"unregistry", "reconcile", "reskill"}
  <1>1. TypeOK /\ RegistryOK /\ ComposedOK /\ SkillsOK /\ FollowOK /\ RunOK
    BY DEF IInv
  <1>2. /\ packs' = packs \ {cli.p} /\ composed' = [composed EXCEPT ![cli.p] = [n \in Name |-> NoContent]]
        /\ reg' = reg /\ files' = files /\ override' = override /\ ext' = ext /\ coreCopy' = coreCopy
        /\ ops' = ops /\ stale' = stale /\ broken' = broken /\ unskilled' = unskilled
    BY DEF Rmtree, project, history
  <1>3. Moves("remove", B, A)
    BY <1>1, Removing DEF Rmtree
  <1>4. A # {} /\ "remove" \in {"add", "remove"}
    OBVIOUS
  <1>5. /\ \A o : Running(o) <=> o = "remove"
        /\ \A o : Running(o)' <=> o = "remove"
    BY <1>3, <1>4, MovesIs
  <1>6. /\ cli.p \in Preset /\ cli'.p = cli.p /\ cli'.names = cli.names /\ CommandOK(cli')
        /\ \A t : Due(t) <=> t \in B
        /\ \A t : Due(t)' <=> t \in A
    BY <1>3, <1>4 DEF Moves
  <1>7. composed' \in [Preset -> [Name -> Texts \cup {NoContent}]] /\ ComposedOK'
    BY <1>1, <1>2, <1>6, ClearedComposed
  <1>8. TypeOK'
    BY <1>1, <1>2, <1>6, <1>7 DEF TypeOK
  <1>9. RegistryOK'
    <2>1. ASSUME NEW q \in Preset PROVE EntryOK(q)'
      BY <1>1, <1>2, <1>6, EntrySame DEF RegistryOK
    <2>2. Registered(cli.p)' = Registered(cli.p)
      BY <1>2, <1>6 DEF Registered
    <2> QED
      BY <1>1, <1>2, <1>5, <1>6, <2>1, <2>2 DEF RegistryOK
  <1>10. SkillsOK'
    BY <1>1, <1>2 DEF SkillsOK, Here, SkillExists
  <1>11. FollowOK'
    BY <1>1, <1>2, <1>3, <1>4, AsideFollows
  <1>12. RunOK'
    <2>1. \A n \in cli.names : files[<<CommandAgent, n>>] = NoFile
      BY <1>1, <1>5, <1>6 DEF RunOK
    <2> QED
      BY <1>2, <1>5, <1>6, <2>1 DEF RunOK
  <1> QED
    BY <1>7, <1>8, <1>9, <1>10, <1>11, <1>12 DEF IInv

(* The registry entry of a preset is deleted.                               *)
LEMMA UnregistryKeeps ==
  ASSUME IInv, Unregistry
  PROVE  IInv'
  <1> DEFINE B == {"unregistry", "reconcile", "reskill"}
             A == {"reconcile", "reskill"}
  <1>1. TypeOK /\ RegistryOK /\ ComposedOK /\ SkillsOK /\ FollowOK /\ RunOK
    BY DEF IInv
  <1>2. /\ reg' = [reg EXCEPT ![cli.p] = NoEntry] /\ packs' = packs /\ composed' = composed
        /\ files' = files /\ override' = override /\ ext' = ext /\ coreCopy' = coreCopy
        /\ ops' = ops /\ stale' = stale \cup (Names(cli.p) \ cli.names)
        /\ broken' = broken /\ unskilled' = unskilled
    BY DEF Unregistry, project
  <1>3. Moves("remove", B, A)
    BY <1>1, Forgetting DEF Unregistry
  <1>4. A # {} /\ "remove" \in {"add", "remove"}
    OBVIOUS
  <1>5. /\ \A o : Running(o) <=> o = "remove"
        /\ \A o : Running(o)' <=> o = "remove"
    BY <1>3, <1>4, MovesIs
  <1>6. /\ cli.p \in Preset /\ cli'.p = cli.p /\ cli'.names = cli.names /\ CommandOK(cli')
        /\ \A t : Due(t) <=> t \in B
        /\ \A t : Due(t)' <=> t \in A
    BY <1>3, <1>4 DEF Moves
  <1>7. /\ reg' \in [Preset -> Entry] /\ reg'[cli.p] = NoEntry
        /\ \A q \in Preset : q # cli.p => reg'[q] = reg[q]
    BY <1>1, <1>2, <1>6, NoEntryIs DEF TypeOK
  <1>8. Names(cli.p) \subseteq Name
    BY <1>6, ResolverAssumption DEF Names
  <1>9. TypeOK'
    BY <1>1, <1>2, <1>6, <1>7, <1>8 DEF TypeOK
  <1>10. RegistryOK'
    <2>1. ASSUME NEW q \in Preset PROVE EntryOK(q)'
      <3>1. CASE q = cli.p
        <4>1. reg'[q].cmds = {} /\ reg'[q].skills = {}
          BY <1>7, <3>1, NoEntryIs
        <4> QED
          BY <4>1, EntryEmpty
      <3>2. CASE q # cli.p
        BY <1>1, <1>2, <1>6, <1>7, <3>2, EntrySame DEF RegistryOK
      <3> QED
        BY <3>1, <3>2
    <2> QED
      BY <1>5, <1>6, <1>7, <2>1 DEF RegistryOK
  <1>11. SkillsOK' /\ ComposedOK'
    BY <1>1, <1>2 DEF SkillsOK, Here, SkillExists, ComposedOK, Names
  <1>12. FollowOK'
    BY <1>1, <1>2, <1>3, <1>4, <1>7, AsideFollows
  <1>13. RunOK'
    <2>1. \A n \in cli.names : files[<<CommandAgent, n>>] = NoFile
      BY <1>1, <1>5, <1>6 DEF RunOK
    <2>2. Names(cli.p)' \ cli'.names \subseteq stale'
      BY <1>2, <1>6 DEF Names
    <2> QED
      BY <1>2, <1>5, <1>6, <2>1, <2>2 DEF RunOK
  <1> QED
    BY <1>9, <1>10, <1>11, <1>12, <1>13 DEF IInv

(* The keys of a name.                                                      *)
LEMMA KeyIs ==
  /\ \A n \in Name, a \in Agent : <<a, n>> \in Key /\ <<a, n>>[1] = a /\ <<a, n>>[2] = n
  /\ \A k \in Key : k = <<k[1], k[2]>> /\ k[1] \in Agent /\ k[2] \in Name
  /\ CommandAgent \in Agent /\ SkillAgent \in Agent
  <1>1. CommandAgent \in Agent /\ SkillAgent \in Agent
    BY PresetsAssumption
  <1> QED
    BY <1>1 DEF Key

(* The names presets provide.                                               *)
LEMMA NamesIs ==
  /\ \A q \in Preset : Names(q) \subseteq Name
  /\ ExtCommand \subseteq Name /\ CoreCommand \subseteq Name
  BY ResolverAssumption DEF Names

(* Every skill that a step deletes is recorded, so the others are there.    *)
LEMMA SkillsKept ==
  ASSUME SkillsOK, ext' = ext, broken' = broken, unskilled' = unskilled \cup Deleted,
         \A k \in Key : files'[k] # EmptySkill
  PROVE  SkillsOK'
  <1>1. ASSUME NEW n \in (CoreCommand \cup ExtCommand) \ (broken' \cup unskilled'), Here(n)'
        PROVE  SkillExists(n)'
    <2>1. n \notin broken /\ n \notin unskilled /\ n \notin Deleted /\ n \in CoreCommand \cup ExtCommand
      BY <1>1
    <2>2. SkillExists(n)
      BY <1>1, <2>1 DEF SkillsOK, Here
    <2> QED
      BY <2>1, <2>2 DEF Deleted, SkillExists
  <1> QED
    BY <1>1 DEF SkillsOK

(* What a skill is restored to.                                             *)
LEMMA RestoredIs ==
  ASSUME TypeOK, SkillsOK, NEW n \in Name
  PROVE  Restored(n) \in Texts \cup {NoFile}
  <1>1. <<SkillAgent, n>> \in Key
    BY KeyIs
  <1>2. files[<<SkillAgent, n>>] # EmptySkill /\ files[<<SkillAgent, n>>] \in Texts \cup {NoFile, EmptySkill}
    BY <1>1 DEF SkillsOK, TypeOK
  <1>3. Only(Core) \in Texts /\ Only(Extension) \in Texts
    BY TextFacts
  <1> QED
    BY <1>2, <1>3 DEF Restored

(* The skills of a preset that is removed are restored.                     *)
LEMMA UnskillKeeps ==
  ASSUME IInv, Unskill
  PROVE  IInv'
  <1> DEFINE B == {"unskill", "unregister", "rmtree", "unregistry", "reconcile", "reskill"}
             A == {"unregister", "rmtree", "unregistry", "reconcile", "reskill"}
  <1>1. TypeOK /\ RegistryOK /\ ComposedOK /\ SkillsOK /\ FollowOK /\ RunOK
    BY DEF IInv
  <1>2. /\ reg' = reg /\ packs' = packs /\ composed' = composed
        /\ override' = override /\ ext' = ext /\ coreCopy' = coreCopy
        /\ ops' = ops /\ stale' = stale /\ broken' = broken /\ unskilled' = unskilled \cup Deleted
        /\ files' = [k \in Key |-> IF k[1] = SkillAgent /\ k[2] \in reg[cli.p].skills
                                   THEN Restored(k[2]) ELSE files[k]]
    BY DEF Unskill, project
  <1>3. Moves("remove", B, A)
    BY <1>1, Unskilling DEF Unskill
  <1>4. A # {} /\ "remove" \in {"add", "remove"}
    OBVIOUS
  <1>5. /\ \A o : Running(o) <=> o = "remove"
        /\ \A o : Running(o)' <=> o = "remove"
    BY <1>3, <1>4, MovesIs
  <1>6. /\ cli.p \in Preset /\ cli'.p = cli.p /\ cli'.names = cli.names /\ CommandOK(cli')
        /\ \A t : Due(t) <=> t \in B
        /\ \A t : Due(t)' <=> t \in A
    BY <1>3, <1>4 DEF Moves
  <1>7. reg[cli.p].skills \subseteq Names(cli.p)
    BY <1>1, <1>6 DEF RegistryOK, EntryOK
  <1>8. \A k \in Key : files'[k] \in Texts \cup {NoFile}
    <2>1. ASSUME NEW k \in Key PROVE files'[k] \in Texts \cup {NoFile}
      <3>1. files[k] \in Texts \cup {NoFile}
        BY <1>1 DEF SkillsOK, TypeOK
      <3>2. Restored(k[2]) \in Texts \cup {NoFile}
        BY <1>1, KeyIs, RestoredIs
      <3>3. files'[k] = IF k[1] = SkillAgent /\ k[2] \in reg[cli.p].skills THEN Restored(k[2]) ELSE files[k]
        BY <1>2
      <3> QED
        BY <3>1, <3>2, <3>3
    <2> QED
      BY <2>1
  <1>9. \A n \in Name : n \notin Names(cli.p) => \A a \in Agent : files'[<<a, n>>] = files[<<a, n>>]
    BY <1>2, <1>7, KeyIs
  <1>10. \A n \in Name : n \notin Names(cli.p) => n \notin Deleted
    BY <1>9, KeyIs DEF Deleted, SkillExists
  <1>11. TypeOK'
    <2>1. files' \in [Key -> Texts \cup {NoFile, EmptySkill}]
      BY <1>2, <1>8
    <2>2. Deleted \subseteq Name
      BY NamesIs DEF Deleted
    <2> QED
      BY <1>1, <1>2, <1>6, <2>1, <2>2 DEF TypeOK
  <1>12. RegistryOK'
    <2>1. ASSUME NEW q \in Preset PROVE EntryOK(q)'
      BY <1>1, <1>2, <1>6, EntrySame DEF RegistryOK
    <2>2. Registered(cli.p)' = Registered(cli.p)
      BY <1>2, <1>6 DEF Registered
    <2> QED
      BY <1>1, <1>2, <1>5, <1>6, <2>1, <2>2 DEF RegistryOK
  <1>13. SkillsOK'
    <2>1. \A k \in Key : files'[k] # EmptySkill
      BY <1>8, TextFacts
    <2> QED
      BY <1>1, <1>2, <2>1, SkillsKept
  <1>14. ComposedOK'
    BY <1>1, <1>2 DEF ComposedOK, Names
  <1>15. FollowOK'
    <2>1. \A n \in Name : n \notin Names(cli.p) =>
            (n \in unskilled <=> n \in unskilled') /\ \A a \in Agent : files'[<<a, n>>] = files[<<a, n>>]
      BY <1>2, <1>9, <1>10
    <2> QED
      BY <1>1, <1>2, <1>3, <1>4, <2>1, AsideFollows
  <1>16. RunOK'
    BY <1>5, <1>6 DEF RunOK
  <1> QED
    BY <1>11, <1>12, <1>13, <1>14, <1>15, <1>16 DEF IInv

(* The command files of a preset that is removed are deleted.               *)
LEMMA UnregisterKeeps ==
  ASSUME IInv, Unregister
  PROVE  IInv'
  <1> DEFINE B == {"unregister", "rmtree", "unregistry", "reconcile", "reskill"}
             A == {"rmtree", "unregistry", "reconcile", "reskill"}
             K == {k \in reg[cli.p].cmds : reg[cli.p].skills = {} \/ k[1] # SkillAgent}
  <1>1. TypeOK /\ RegistryOK /\ ComposedOK /\ SkillsOK /\ FollowOK /\ RunOK
    BY DEF IInv
  <1>2. /\ reg' = reg /\ packs' = packs /\ composed' = composed
        /\ override' = override /\ ext' = ext /\ coreCopy' = coreCopy
        /\ ops' = ops /\ stale' = stale /\ broken' = broken /\ unskilled' = unskilled
        /\ files' = [k \in Key |-> IF k \in K THEN NoFile ELSE files[k]]
    BY DEF Unregister, project, history, UnregisterCommands
  <1>3. Moves("remove", B, A)
    BY <1>1, Unregistering DEF Unregister
  <1>4. A # {} /\ "remove" \in {"add", "remove"}
    OBVIOUS
  <1>5. /\ \A o : Running(o) <=> o = "remove"
        /\ \A o : Running(o)' <=> o = "remove"
    BY <1>3, <1>4, MovesIs
  <1>6. /\ cli.p \in Preset /\ cli'.p = cli.p /\ cli'.names = cli.names /\ CommandOK(cli')
        /\ \A t : Due(t) <=> t \in B
        /\ \A t : Due(t)' <=> t \in A
    BY <1>3, <1>4 DEF Moves
  <1>7. /\ reg[cli.p].cmds = Agent \X Registered(cli.p) /\ Registered(cli.p) \subseteq Names(cli.p)
        /\ Registered(cli.p) = cli.names
        /\ \A n \in Registered(cli.p) \ broken : n \in reg[cli.p].skills
    BY <1>1, <1>5, <1>6 DEF RegistryOK, EntryOK
  <1>8. \A n \in Name, a \in Agent :
          <<a, n>> \in K <=> n \in cli.names /\ (reg[cli.p].skills = {} \/ a # SkillAgent)
    BY <1>7
  <1> HIDE DEF K
  <1>9. /\ \A k \in Key : files'[k] = IF k \in K THEN NoFile ELSE files[k]
        /\ \A k \in Key : files'[k] \in Texts \cup {NoFile}
    BY <1>1, <1>2 DEF SkillsOK, TypeOK
  <1>10. TypeOK'
    <2>1. files' \in [Key -> Texts \cup {NoFile, EmptySkill}]
      BY <1>2, <1>9
    <2> QED
      BY <1>1, <1>2, <1>6, <2>1 DEF TypeOK
  <1>11. RegistryOK'
    <2>1. ASSUME NEW q \in Preset PROVE EntryOK(q)'
      BY <1>1, <1>2, <1>6, EntrySame DEF RegistryOK
    <2>2. Registered(cli.p)' = Registered(cli.p)
      BY <1>2, <1>6 DEF Registered
    <2> QED
      BY <1>1, <1>2, <1>5, <1>6, <2>1, <2>2 DEF RegistryOK
  <1>12. SkillsOK'
    <2>1. \A k \in Key : files'[k] # EmptySkill
      BY <1>9, TextFacts
    <2>2. ASSUME NEW n \in (CoreCommand \cup ExtCommand) \ (broken' \cup unskilled'), Here(n)'
          PROVE  SkillExists(n)'
      <3>1. n \in Name /\ n \notin broken /\ n \notin unskilled /\ Here(n)
        BY <1>2, <2>2, NamesIs DEF Here
      <3>2. files[<<SkillAgent, n>>] # NoFile
        BY <1>1, <2>2, <3>1 DEF SkillsOK, SkillExists
      <3>3. <<SkillAgent, n>> \notin K
        <4>1. <<SkillAgent, n>> \in K <=> n \in cli.names /\ reg[cli.p].skills = {}
          BY <1>8, <3>1, KeyIs
        <4>2. n \in cli.names => n \in reg[cli.p].skills
          BY <1>7, <3>1
        <4> QED
          BY <4>1, <4>2
      <3> QED
        BY <1>9, <3>1, <3>2, <3>3, KeyIs DEF SkillExists
    <2> QED
      BY <2>1, <2>2 DEF SkillsOK
  <1>13. ComposedOK'
    BY <1>1, <1>2 DEF ComposedOK, Names
  <1>14. FollowOK'
    <2>1. \A n \in Name : n \notin Names(cli.p) => \A a \in Agent : files'[<<a, n>>] = files[<<a, n>>]
      BY <1>7, <1>8, <1>9, KeyIs
    <2> QED
      BY <1>1, <1>2, <1>3, <1>4, <2>1, AsideFollows
  <1>15. RunOK'
    <2>1. \A n \in cli.names : files'[<<CommandAgent, n>>] = NoFile
      <3>1. ASSUME NEW n \in cli.names PROVE files'[<<CommandAgent, n>>] = NoFile
        <4>1. n \in Name
          BY <1>6, <1>7, NamesIs
        <4>2. <<CommandAgent, n>> \in K /\ <<CommandAgent, n>> \in Key
          BY <1>8, <3>1, <4>1, KeyIs, TextFacts
        <4> QED
          BY <1>9, <4>2
      <3> QED
        BY <3>1
    <2> QED
      BY <1>5, <1>6, <2>1 DEF RunOK
  <1> QED
    BY <1>10, <1>11, <1>12, <1>13, <1>14, <1>15 DEF IInv

(* The command files of a new preset are written.                           *)
LEMMA CommandsKeeps ==
  ASSUME IInv, Commands
  PROVE  IInv'
  <1> DEFINE B == {"commands", "skills", "reconcile", "reskill"}
             A == {"skills", "reconcile", "reskill"}
             N == Applicable(cli.p)
  <1>1. TypeOK /\ RegistryOK /\ ComposedOK /\ SkillsOK /\ FollowOK /\ RunOK
    BY DEF IInv
  <1>2. /\ packs' = packs /\ override' = override /\ ext' = ext /\ coreCopy' = coreCopy
        /\ ops' = ops /\ stale' = stale /\ broken' = broken /\ unskilled' = unskilled \ N
        /\ files' = [k \in Key |-> IF k[2] \notin N THEN files[k]
                                   ELSE IF Composes(cli.p, k[2]) THEN Content(k[2]) ELSE Only(cli.p)]
        /\ reg' = [reg EXCEPT ![cli.p].cmds = Agent \X N]
        /\ composed' = [composed EXCEPT ![cli.p] = [n \in Name |->
             IF n \in N /\ Composes(cli.p, n) THEN Content(n) ELSE composed[cli.p][n]]]
    <2>1. cli.p \in Preset /\ composed \in [Preset -> [Name -> Texts \cup {NoContent}]]
      BY <1>1, HeadTells, CommandIs DEF Commands, TypeOK
    <2> QED
      BY <2>1 DEF Commands, project, RegisteredForAll
  <1>3. Moves("add", B, A)
    BY <1>1, Commanding DEF Commands
  <1>4. A # {} /\ "add" \in {"add", "remove"}
    OBVIOUS
  <1>5. /\ \A o : Running(o) <=> o = "add"
        /\ \A o : Running(o)' <=> o = "add"
    BY <1>3, <1>4, MovesIs
  <1>6. /\ cli.p \in Preset /\ cli'.p = cli.p /\ cli'.names = cli.names /\ CommandOK(cli')
        /\ \A t : Due(t) <=> t \in B
        /\ \A t : Due(t)' <=> t \in A
    BY <1>3, <1>4 DEF Moves
  <1>7. /\ cli.names = N /\ Registered(cli.p) = {} /\ reg[cli.p].enabled /\ reg[cli.p].skills = {}
        /\ N \subseteq Names(cli.p) /\ N \subseteq Name
    <2>1. cli.names = N /\ Registered(cli.p) = {} /\ reg[cli.p].enabled
      BY <1>1, <1>5, <1>6 DEF RegistryOK
    <2>2. reg[cli.p].skills \subseteq Registered(cli.p)
      BY <1>1, <1>6 DEF RegistryOK, EntryOK
    <2> QED
      BY <1>6, <2>1, <2>2, NamesIs DEF Applicable
  <1>8. \A n \in N : Composes(cli.p, n) => Content(n) \in Texts
    <2>1. ASSUME NEW n \in N, Composes(cli.p, n) PROVE Content(n) \in Texts
      <3>1. Content(n) # NoContent
        BY <2>1 DEF Commands, Unfounded
      <3>2. Content(n) \in Texts \cup {NoContent}
        BY <1>1, StackIs DEF ComposesTo
      <3> QED
        BY <3>1, <3>2
    <2> QED
      BY <2>1
  <1>9. \A n \in N : Composes(cli.p, n) => Provides[cli.p][n] # "replace"
    BY DEF Composes
  <1>10. Only(cli.p) \in Texts
    BY <1>6, TextFacts
  <1>11. Applicable(cli.p)' = N
    BY <1>2, <1>6 DEF Applicable, Names
  <1> HIDE DEF N
  <1>12. /\ \A k \in Key : k[2] \in N => files'[k] \in Texts
         /\ \A k \in Key : k[2] \notin N => files'[k] = files[k]
         /\ \A k \in Key : files'[k] \in Texts \cup {NoFile}
    <2>1. \A k \in Key : files[k] \in Texts \cup {NoFile}
      BY <1>1 DEF SkillsOK, TypeOK
    <2> QED
      BY <1>2, <1>8, <1>10, <2>1
  <1>13. /\ reg' \in [Preset -> Entry] /\ reg'[cli.p].cmds = Agent \X N /\ reg'[cli.p].skills = {}
         /\ reg'[cli.p].enabled
         /\ \A q \in Preset : q # cli.p => reg'[q] = reg[q]
    <2>1. Agent \X N \in SUBSET Key
      BY <1>7 DEF Key
    <2>2. reg \in [Preset -> Entry] /\ reg[cli.p] \in Entry
      BY <1>1, <1>6 DEF TypeOK
    <2>3. PICK e : e = [reg[cli.p] EXCEPT !.cmds = Agent \X N]
      OBVIOUS
    <2>4. e \in Entry /\ e.cmds = Agent \X N /\ e.skills = reg[cli.p].skills /\ e.enabled = reg[cli.p].enabled
      BY <2>1, <2>2, <2>3 DEF Entry
    <2>5. reg' = [reg EXCEPT ![cli.p] = e]
      BY <1>2, <2>3
    <2> QED
      BY <1>6, <1>7, <2>2, <2>4, <2>5
  <1>14. Registered(cli.p)' = N
    <2>1. Registered(cli.p)' = {k[2] : k \in Agent \X N}
      BY <1>6, <1>13 DEF Registered
    <2>2. \A n \in N : <<CommandAgent, n>> \in Agent \X N /\ <<CommandAgent, n>>[2] = n
      BY KeyIs
    <2>3. N \subseteq Registered(cli.p)'
      BY <2>1, <2>2
    <2>4. \A k \in Agent \X N : k[2] \in N
      OBVIOUS
    <2>5. Registered(cli.p)' \subseteq N
      BY <2>1, <2>4
    <2> QED
      BY <2>3, <2>5
  <1>15. composed' \in [Preset -> [Name -> Texts \cup {NoContent}]] /\ ComposedOK'
    <2>1. composed \in [Preset -> [Name -> Texts \cup {NoContent}]]
      BY <1>1 DEF TypeOK
    <2>2. \A q \in Preset, n \in Name :
            composed'[q][n] = IF q = cli.p /\ n \in N /\ Composes(cli.p, n) THEN Content(n) ELSE composed[q][n]
      BY <1>2, <1>6, <2>1
    <2>3. [n \in Name |-> IF n \in N /\ Composes(cli.p, n) THEN Content(n) ELSE composed[cli.p][n]]
            \in [Name -> Texts \cup {NoContent}]
      BY <1>6, <1>8, <2>1
    <2>4. composed' \in [Preset -> [Name -> Texts \cup {NoContent}]]
      BY <1>2, <1>6, <2>1, <2>3
    <2>5. ASSUME NEW q \in Preset, NEW n \in Name, composed'[q][n] # NoContent
          PROVE  n \in Names(q) /\ Provides[q][n] # "replace"
      <3>1. CASE q = cli.p /\ n \in N /\ Composes(cli.p, n)
        BY <1>7, <1>9, <3>1
      <3>2. CASE ~(q = cli.p /\ n \in N /\ Composes(cli.p, n))
        <4>1. composed'[q][n] = composed[q][n]
          BY <2>2, <3>2
        <4> QED
          BY <1>1, <2>5, <4>1 DEF ComposedOK
      <3> QED
        BY <3>1, <3>2
    <2> QED
      BY <2>4, <2>5 DEF ComposedOK, Names
  <1>16. TypeOK'
    <2>1. files' \in [Key -> Texts \cup {NoFile, EmptySkill}]
      BY <1>2, <1>12
    <2> QED
      BY <1>1, <1>2, <1>6, <1>13, <1>15, <2>1 DEF TypeOK
  <1>17. RegistryOK'
    <2>1. ASSUME NEW q \in Preset PROVE EntryOK(q)'
      <3>1. CASE q = cli.p
        <4>1. Registered(q)' = N
          BY <1>6, <1>14, <3>1
        <4>2. /\ reg'[q].cmds = Agent \X N /\ reg'[q].skills \subseteq N /\ N \subseteq Names(q)
              /\ Due("skills")' /\ q = cli'.p
          BY <1>6, <1>7, <1>13, <3>1
        <4> QED
          BY <4>1, <4>2 DEF EntryOK, Names
      <3>2. CASE q # cli.p
        BY <1>1, <1>2, <1>6, <1>13, <3>2, EntrySame DEF RegistryOK
      <3> QED
        BY <3>1, <3>2
    <2> QED
      BY <1>5, <1>6, <1>7, <1>11, <1>13, <1>14, <2>1 DEF RegistryOK
  <1>18. SkillsOK'
    <2>1. \A k \in Key : files'[k] # EmptySkill
      BY <1>12, TextFacts
    <2>2. ASSUME NEW n \in (CoreCommand \cup ExtCommand) \ (broken' \cup unskilled'), Here(n)'
          PROVE  SkillExists(n)'
      <3>1. n \in Name /\ n \notin broken /\ (n \notin unskilled \/ n \in N) /\ Here(n)
        BY <1>2, <2>2, NamesIs DEF Here
      <3>2. <<SkillAgent, n>> \in Key /\ <<SkillAgent, n>>[2] = n
        BY <3>1, KeyIs
      <3>3. CASE n \in N
        BY <1>12, <3>2, <3>3, TextFacts DEF SkillExists
      <3>4. CASE n \notin N
        <4>1. files[<<SkillAgent, n>>] # NoFile
          BY <1>1, <2>2, <3>1, <3>4 DEF SkillsOK, SkillExists
        <4> QED
          BY <1>12, <3>2, <3>4, <4>1 DEF SkillExists
      <3> QED
        BY <3>3, <3>4
    <2> QED
      BY <2>1, <2>2 DEF SkillsOK
  <1>19. FollowOK'
    <2>1. \A n \in Name : n \notin Names(cli.p) => \A a \in Agent : files'[<<a, n>>] = files[<<a, n>>]
      BY <1>7, <1>12, KeyIs
    <2>2. \A n \in Name : n \notin Names(cli.p) => (n \in unskilled <=> n \in unskilled')
      BY <1>2, <1>7
    <2> QED
      BY <1>1, <1>2, <1>3, <1>4, <1>13, <2>1, <2>2, AsideFollows
  <1>20. RunOK'
    <2>1. ASSUME NEW n \in cli.names PROVE SkillExists(n)'
      <3>1. <<SkillAgent, n>> \in Key /\ <<SkillAgent, n>>[2] = n
        BY <1>7, <2>1, KeyIs
      <3> QED
        BY <1>7, <1>12, <2>1, <3>1, TextFacts DEF SkillExists
    <2> QED
      BY <1>5, <1>6, <2>1 DEF RunOK
  <1> QED
    BY <1>15, <1>16, <1>17, <1>18, <1>19, <1>20 DEF IInv

(* What a preset writes into a skill.                                       *)
LEMMA SkillTextIs ==
  ASSUME TypeOK, NEW p \in Preset, NEW n \in Name
  PROVE  SkillText(p, n) \in Texts
  <1>1. composed[p][n] \in Texts \cup {NoContent}
    BY DEF TypeOK
  <1>2. Only(p) \in Texts
    BY TextFacts
  <1> QED
    BY <1>1, <1>2 DEF SkillText

(* The skills of a new preset are written.                                  *)
LEMMA SkillsKeeps ==
  ASSUME IInv, Skills
  PROVE  IInv'
  <1> DEFINE B == {"skills", "reconcile", "reskill"}
             A == {"reconcile", "reskill"}
             N == Applicable(cli.p)
             W == {n \in N : SkillExists(n)}
  <1>1. TypeOK /\ RegistryOK /\ ComposedOK /\ SkillsOK /\ FollowOK /\ RunOK
    BY DEF IInv
  <1>2. /\ packs' = packs /\ override' = override /\ ext' = ext /\ coreCopy' = coreCopy /\ composed' = composed
        /\ ops' = ops /\ stale' = stale /\ broken' = broken /\ unskilled' = unskilled
        /\ files' = [k \in Key |-> IF k[1] = SkillAgent /\ k[2] \in W THEN SkillText(cli.p, k[2]) ELSE files[k]]
        /\ reg' = [reg EXCEPT ![cli.p].skills = W]
    BY DEF Skills, project, history
  <1>3. Moves("add", B, A)
    BY <1>1, Skilling DEF Skills
  <1>4. A # {} /\ "add" \in {"add", "remove"}
    OBVIOUS
  <1>5. /\ \A o : Running(o) <=> o = "add"
        /\ \A o : Running(o)' <=> o = "add"
    BY <1>3, <1>4, MovesIs
  <1>6. /\ cli.p \in Preset /\ cli'.p = cli.p /\ cli'.names = cli.names /\ CommandOK(cli')
        /\ \A t : Due(t) <=> t \in B
        /\ \A t : Due(t)' <=> t \in A
    BY <1>3, <1>4 DEF Moves
  <1>7. /\ cli.names = N /\ Registered(cli.p) = N /\ reg[cli.p].enabled
        /\ N \subseteq Names(cli.p) /\ N \subseteq Name
        /\ reg[cli.p].cmds = Agent \X Registered(cli.p)
    <2>1. cli.names = N /\ Registered(cli.p) = cli.names /\ reg[cli.p].enabled
      BY <1>1, <1>5, <1>6 DEF RegistryOK
    <2>2. reg[cli.p].cmds = Agent \X Registered(cli.p)
      BY <1>1, <1>6 DEF RegistryOK, EntryOK
    <2> QED
      BY <1>6, <2>1, <2>2, NamesIs DEF Applicable
  <1>8. W = N
    <2>1. \A n \in cli.names : SkillExists(n)
      BY <1>1, <1>5, <1>6 DEF RunOK
    <2> QED
      BY <1>7, <2>1
  <1>9. Applicable(cli.p)' = N
    BY <1>2, <1>6 DEF Applicable, Names
  <1> HIDE DEF N, W
  <1>10. /\ \A k \in Key : k[1] = SkillAgent /\ k[2] \in N => files'[k] \in Texts
         /\ \A k \in Key : ~(k[1] = SkillAgent /\ k[2] \in N) => files'[k] = files[k]
         /\ \A k \in Key : files'[k] \in Texts \cup {NoFile}
    <2>1. \A k \in Key : files[k] \in Texts \cup {NoFile}
      BY <1>1 DEF SkillsOK, TypeOK
    <2>2. \A n \in N : SkillText(cli.p, n) \in Texts
      BY <1>1, <1>6, <1>7, SkillTextIs
    <2> QED
      BY <1>2, <1>8, <2>1, <2>2
  <1>11. /\ reg' \in [Preset -> Entry] /\ reg'[cli.p].cmds = reg[cli.p].cmds /\ reg'[cli.p].skills = N
         /\ reg'[cli.p].enabled
         /\ \A q \in Preset : q # cli.p => reg'[q] = reg[q]
    <2>1. reg \in [Preset -> Entry] /\ reg[cli.p] \in Entry
      BY <1>1, <1>6 DEF TypeOK
    <2>2. PICK e : e = [reg[cli.p] EXCEPT !.skills = N]
      OBVIOUS
    <2>3. e \in Entry /\ e.cmds = reg[cli.p].cmds /\ e.skills = N /\ e.enabled = reg[cli.p].enabled
      BY <1>7, <2>1, <2>2 DEF Entry
    <2>4. reg' = [reg EXCEPT ![cli.p] = e]
      BY <1>2, <1>8, <2>2
    <2> QED
      BY <1>6, <1>7, <2>1, <2>3, <2>4
  <1>12. Registered(cli.p)' = N
    BY <1>6, <1>7, <1>11 DEF Registered
  <1>13. TypeOK'
    <2>1. files' \in [Key -> Texts \cup {NoFile, EmptySkill}]
      BY <1>2, <1>10
    <2> QED
      BY <1>1, <1>2, <1>6, <1>11, <2>1 DEF TypeOK
  <1>14. RegistryOK'
    <2>1. ASSUME NEW q \in Preset PROVE EntryOK(q)'
      <3>1. CASE q = cli.p
        <4>1. Registered(q)' = N
          BY <1>6, <1>12, <3>1
        <4>2. reg'[q].cmds = Agent \X N /\ reg'[q].skills = N /\ N \subseteq Names(q)
          BY <1>6, <1>7, <1>11, <3>1
        <4> QED
          BY <4>1, <4>2 DEF EntryOK, Names
      <3>2. CASE q # cli.p
        BY <1>1, <1>2, <1>6, <1>11, <3>2, EntrySame DEF RegistryOK
      <3> QED
        BY <3>1, <3>2
    <2> QED
      BY <1>5, <1>6, <1>7, <1>9, <1>11, <1>12, <2>1 DEF RegistryOK
  <1>15. \A n \in Name : SkillExists(n) => SkillExists(n)'
    <2>1. ASSUME NEW n \in Name, SkillExists(n) PROVE SkillExists(n)'
      <3>1. <<SkillAgent, n>> \in Key
        BY KeyIs
      <3> QED
        BY <1>10, <2>1, <3>1, TextFacts DEF SkillExists
    <2> QED
      BY <2>1
  <1>16. SkillsOK'
    <2>1. \A k \in Key : files'[k] # EmptySkill
      BY <1>10, TextFacts
    <2> QED
      BY <1>1, <1>2, <1>15, <2>1, NamesIs DEF SkillsOK, Here
  <1>17. ComposedOK'
    BY <1>1, <1>2 DEF ComposedOK, Names
  <1>18. FollowOK'
    <2>1. \A n \in Name : n \notin Names(cli.p) => \A a \in Agent : files'[<<a, n>>] = files[<<a, n>>]
      BY <1>7, <1>10, KeyIs
    <2> QED
      BY <1>1, <1>2, <1>3, <1>4, <1>11, <2>1, AsideFollows
  <1>19. RunOK'
    <2>1. \A n \in cli.names : SkillExists(n)'
      BY <1>1, <1>5, <1>6, <1>7, <1>15 DEF RunOK
    <2> QED
      BY <1>5, <1>6, <2>1 DEF RunOK
  <1> QED
    BY <1>13, <1>14, <1>16, <1>17, <1>18, <1>19 DEF IInv

(* The stack is recomputed for the names of the command.                    *)
LEMMA ReconcileKeeps ==
  ASSUME IInv, Reconcile
  PROVE  IInv'
  <1> DEFINE B == {"reconcile", "reskill"}
             A == {"reskill"}
             TopComposed(q, n) ==
               /\ n \in cli.names /\ Layers(n) # <<>> /\ Content(n) # NoContent
               /\ Layers(n)[1] = Layer(q, Layers(n)[1].strategy) /\ Layers(n)[1].strategy # "replace"
  <1>1. TypeOK /\ RegistryOK /\ ComposedOK /\ SkillsOK /\ FollowOK /\ RunOK
    BY DEF IInv
  <1>2. /\ packs' = packs /\ override' = override /\ ext' = ext /\ coreCopy' = coreCopy /\ reg' = reg
        /\ ops' = ops /\ stale' = stale /\ broken' = broken /\ unskilled' = unskilled
        /\ files' = [k \in Key |->
             IF k[1] = SkillAgent \/ k[2] \notin cli.names \/ Layers(k[2]) = <<>> THEN files[k]
             ELSE IF Content(k[2]) = NoContent THEN NoFile ELSE Content(k[2])]
        /\ composed' = [q \in Preset |-> [n \in Name |->
             IF TopComposed(q, n) THEN Content(n) ELSE composed[q][n]]]
    BY DEF Reconcile, project, history
  <1>3. PICK op : op = cli.op /\ op \in {"add", "remove"} /\ Moves(op, B, A)
    BY <1>1, Reconciling DEF Reconcile
  <1>4. A # {}
    OBVIOUS
  <1>5. /\ \A o : Running(o) <=> o = op
        /\ \A o : Running(o)' <=> o = op
    BY <1>3, <1>4, MovesIs
  <1>6. /\ cli.p \in Preset /\ cli'.p = cli.p /\ cli'.names = cli.names /\ CommandOK(cli')
        /\ cli.names \subseteq Names(cli.p) /\ cli.names \subseteq Name
        /\ \A t : Due(t) <=> t \in B
        /\ \A t : Due(t)' <=> t \in A
    BY <1>3, <1>4, NamesIs DEF Moves
  <1>7. \A n : Layers(n)' = Layers(n) /\ Content(n)' = Content(n)
    <2>1. \A n : SameStack(n)
      BY <1>2 DEF SameStack, InStack
    <2> QED
      BY <2>1, StackSame
  <1>8. \A n : Content(n) \in Texts \cup {NoContent} /\ (Layers(n) = <<>> => Content(n) = NoContent)
    BY <1>1, StackIs DEF ComposesTo
  <1>9. \A k \in Key : files'[k] \in Texts \cup {NoFile}
    <2>1. \A k \in Key : files[k] \in Texts \cup {NoFile}
      BY <1>1 DEF SkillsOK, TypeOK
    <2> QED
      BY <1>2, <1>8, <2>1
  <1>10. \A q \in Preset, n \in Name :
           composed'[q][n] = IF TopComposed(q, n) THEN Content(n) ELSE composed[q][n]
    BY <1>2
  <1>11. \A q \in Preset, n \in Name : TopComposed(q, n) => n \in Names(q) /\ Provides[q][n] # "replace"
    <2>1. ASSUME NEW q \in Preset, NEW n \in Name, TopComposed(q, n)
          PROVE  n \in Names(q) /\ Provides[q][n] # "replace"
      <3>1. PICK t : t = Layers(n)[1]
        OBVIOUS
      <3>2. HasTop(n, t)
        BY <1>1, <2>1, <3>1, StackIs
      <3>3. t.id = q
        BY <2>1, <3>1 DEF Layer
      <3>4. n \in Names(t.id) /\ t.strategy = Provides[t.id][n]
        BY <1>1, <3>2, <3>3, TopIs
      <3> QED
        BY <2>1, <3>1, <3>3, <3>4
    <2> QED
      BY <2>1
  <1> HIDE DEF TopComposed
  <1>12. TypeOK'
    <2>1. files' \in [Key -> Texts \cup {NoFile, EmptySkill}]
      BY <1>2, <1>9
    <2>2. \A q \in Preset, n \in Name : composed[q][n] \in Texts \cup {NoContent}
      BY <1>1 DEF TypeOK
    <2>3. composed' \in [Preset -> [Name -> Texts \cup {NoContent}]]
      BY <1>2, <1>8, <2>2
    <2> QED
      BY <1>1, <1>2, <1>6, <2>1, <2>3 DEF TypeOK
  <1>13. RegistryOK'
    <2>1. ASSUME NEW q \in Preset PROVE EntryOK(q)'
      BY <1>1, <1>2, <1>6, EntrySame DEF RegistryOK
    <2>2. Registered(cli.p)' = Registered(cli.p) /\ Applicable(cli.p)' = Applicable(cli.p)
      BY <1>2, <1>6 DEF Registered, Applicable, Names
    <2> QED
      BY <1>1, <1>2, <1>5, <1>6, <2>1, <2>2 DEF RegistryOK
  <1>14. \A n \in Name : files'[<<SkillAgent, n>>] = files[<<SkillAgent, n>>]
    BY <1>2, KeyIs
  <1>15. SkillsOK'
    <2>1. \A k \in Key : files'[k] # EmptySkill
      BY <1>9, TextFacts
    <2> QED
      BY <1>1, <1>2, <1>14, <2>1, NamesIs DEF SkillsOK, Here, SkillExists
  <1>16. ComposedOK'
    <2>1. ASSUME NEW q \in Preset, NEW n \in Name, composed'[q][n] # NoContent
          PROVE  n \in Names(q) /\ Provides[q][n] # "replace"
      <3>1. CASE TopComposed(q, n)
        BY <1>11, <3>1
      <3>2. CASE ~TopComposed(q, n)
        <4>1. composed'[q][n] = composed[q][n]
          BY <1>10, <3>2
        <4> QED
          BY <1>1, <2>1, <4>1 DEF ComposedOK
      <3> QED
        BY <3>1, <3>2
    <2> QED
      BY <2>1 DEF ComposedOK, Names
  <1>17. FollowOK'
    <2>1. \A n \in Name : n \notin Names(cli.p) => \A a \in Agent : files'[<<a, n>>] = files[<<a, n>>]
      BY <1>2, <1>6, KeyIs
    <2> QED
      BY <1>1, <1>2, <1>3, <1>4, <2>1, AsideFollows
  <1>18. RunOK'
    <2>1. ASSUME NEW n \in cli.names PROVE Right(n, CommandAgent)'
      <3>1. n \in Name /\ <<CommandAgent, n>> \in Key /\ CommandAgent # SkillAgent
        BY <1>6, <2>1, KeyIs, TextFacts
      <3>2. CASE Layers(n) # <<>>
        <4>1. files'[<<CommandAgent, n>>] = IF Content(n) = NoContent THEN NoFile ELSE Content(n)
          BY <1>2, <2>1, <3>1, <3>2
        <4> QED
          BY <1>7, <4>1 DEF Right
      <3>3. CASE Layers(n) = <<>>
        <4>1. op # "add"
          <5>1. SUFFICES ASSUME op = "add" PROVE FALSE
            OBVIOUS
          <5>2. reg[cli.p].enabled
            BY <1>1, <1>5, <1>6, <5>1 DEF RegistryOK
          <5>3. cli.p \in Providers(reg, n)
            BY <1>6, <2>1, <5>2 DEF Providers, Names
          <5> QED
            BY <1>1, <3>3, <5>3, StackIs
        <4>2. Running("remove") /\ ~Due("unregister") /\ Due("reconcile")
          BY <1>3, <1>5, <1>6, <4>1
        <4>3. files[<<CommandAgent, n>>] = NoFile
          BY <1>1, <2>1, <4>2 DEF RunOK
        <4>4. files'[<<CommandAgent, n>>] = files[<<CommandAgent, n>>]
          BY <1>2, <3>1, <3>3
        <4>5. Content(n) = NoContent
          BY <1>8, <3>3
        <4> QED
          BY <1>7, <4>3, <4>4, <4>5 DEF Right
      <3> QED
        BY <3>2, <3>3
    <2>2. ASSUME NEW n \in cli.names, NEW q \in Preset, Layers(n) # <<>>, Content(n) # NoContent,
                 Layers(n)[1].id = q, Layers(n)[1].strategy # "replace"
          PROVE  composed'[q][n] = Content(n)
      <3>1. Layers(n) \in Seq(LayerRecord)
        BY <1>1, StackIs
      <3>2. Layers(n)[1] \in LayerRecord
        BY <2>2, <3>1, ElementOfSeq, EmptySeq, LenProperties
      <3>3. Layers(n)[1] = Layer(q, Layers(n)[1].strategy)
        BY <2>2, <3>2 DEF LayerRecord, Layer
      <3>4. TopComposed(q, n)
        BY <2>2, <3>3 DEF TopComposed
      <3> QED
        BY <1>6, <1>10, <2>2, <3>4
    <2>3. \A n \in cli.names :
            /\ Right(n, CommandAgent)'
            /\ \A q \in Preset : Layers(n)' # <<>> /\ Content(n)' # NoContent /\ Layers(n)'[1].id = q
                 /\ Layers(n)'[1].strategy # "replace" => composed'[q][n] = Content(n)'
      BY <1>7, <2>1, <2>2
    <2>4. Running("add")' => \A n \in cli.names : SkillExists(n)'
      <3>1. Running("add")' => \A n \in cli.names : SkillExists(n)
        BY <1>1, <1>5, <1>6 DEF RunOK
      <3> QED
        BY <1>6, <1>14, <3>1 DEF SkillExists
    <2>5. Running("remove")' => Names(cli.p) \ cli.names \subseteq stale'
      BY <1>1, <1>2, <1>5, <1>6 DEF RunOK
    <2>6. ~Due("reconcile")'
      BY <1>6
    <2> QED
      BY <1>6, <2>3, <2>4, <2>5, <2>6 DEF RunOK, Names
  <1> QED
    BY <1>12, <1>13, <1>15, <1>16, <1>17, <1>18 DEF IInv

\* An enabled preset has written the skill of n.
Managed(n) == \E p \in Preset : reg[p].enabled /\ n \in reg[p].skills

(* The owner of the top layer decides what becomes of a skill; below the    *)
(* presets no preset has written it.                                        *)
LEMMA ReskilledIs ==
  ASSUME TypeOK, RegistryOK, NEW n \in Name, NEW t, HasTop(n, t)
  PROVE  /\ t.id = Override => Reskilled(n) = Only(Override)
         /\ t.id \in Preset => Reskilled(n) = IF SkillExists(n) \/ Managed(n) THEN SkillText(t.id, n) ELSE NoFile
         /\ t.id \notin Preset \cup {Override} => Reskilled(n) = Restored(n)
  <1>1. Head(Layers(n)) = t
    BY StackIs DEF HasTop
  <1>2. Override \notin Preset
    BY ResolverAssumption
  <1>3. t.id \notin Preset \cup {Override} => ~Managed(n)
    <2>1. SUFFICES ASSUME t.id \notin Preset \cup {Override}, NEW p \in Preset, reg[p].enabled, n \in reg[p].skills
                   PROVE  FALSE
      BY DEF Managed
    <2>2. n \in Names(p)
      BY <2>1 DEF RegistryOK, EntryOK
    <2>3. \A q \in Preset : n \in Names(q) => ~reg[q].enabled
      BY <2>1, TopIs
    <2> QED
      BY <2>1, <2>2, <2>3
  <1>4. Reskilled(n) =
          CASE t.id = Override -> Only(Override)
            [] t.id \in Preset -> IF SkillExists(n) \/ Managed(n) THEN SkillText(t.id, n) ELSE NoFile
            [] OTHER -> IF ~SkillExists(n) /\ Managed(n) THEN EmptySkill ELSE Restored(n)
    BY <1>1 DEF Reskilled, Managed
  <1>5. CASE t.id = Override
    BY <1>2, <1>4, <1>5
  <1>6. CASE t.id \in Preset
    BY <1>2, <1>4, <1>6
  <1>7. CASE t.id \notin Preset \cup {Override}
    BY <1>3, <1>4, <1>7
  <1> QED
    BY <1>2, <1>5, <1>6, <1>7

(* A skill that is reconciled is a text or is deleted.                      *)
LEMMA ReskilledText ==
  ASSUME TypeOK, RegistryOK, SkillsOK, NEW n \in Name, Layers(n) # <<>>
  PROVE  Reskilled(n) \in Texts \cup {NoFile}
  <1>1. PICK t : HasTop(n, t)
    BY StackIs
  <1>2. CASE t.id = Override
    BY <1>1, <1>2, ReskilledIs, TextFacts
  <1>3. CASE t.id \in Preset
    BY <1>1, <1>3, ReskilledIs, SkillTextIs
  <1>4. CASE t.id \notin Preset \cup {Override}
    BY <1>1, <1>4, ReskilledIs, RestoredIs
  <1> QED
    BY <1>2, <1>3, <1>4

(* The skills follow the stack: the last step of a command.                 *)
LEMMA ReskillKeeps ==
  ASSUME IInv, Reskill
  PROVE  IInv'
  <1> DEFINE B == {"reskill"}
  <1>1. TypeOK /\ RegistryOK /\ ComposedOK /\ SkillsOK /\ FollowOK /\ RunOK
    BY DEF IInv
  <1>2. /\ packs' = packs /\ override' = override /\ ext' = ext /\ coreCopy' = coreCopy /\ reg' = reg
        /\ composed' = composed
        /\ ops' = ops /\ stale' = stale \ cli.names /\ broken' = broken /\ unskilled' = unskilled \cup Deleted
        /\ files' = [k \in Key |->
             IF k[1] = SkillAgent /\ k[2] \in cli.names /\ Layers(k[2]) # <<>>
             THEN Reskilled(k[2]) ELSE files[k]]
    BY DEF Reskill, project
  <1>3. PICK op : op = cli.op /\ op \in {"add", "remove"} /\ Moves(op, B, {})
    BY <1>1, Reskilling DEF Reskill
  <1>4. /\ \A o : Running(o) <=> o = op
        /\ \A o : ~Running(o)'
        /\ Busy = Names(cli.p) /\ Busy' = {}
    BY <1>3, MovesIs
  <1>5. /\ cli.p \in Preset /\ cli' = Idle
        /\ cli.names \subseteq Names(cli.p) /\ cli.names \subseteq Name
        /\ \A t : Due(t) <=> t \in B
        /\ \A t : ~Due(t)'
    BY <1>3, NamesIs DEF Moves
  <1>6. \A n : Layers(n)' = Layers(n) /\ Content(n)' = Content(n)
    <2>1. \A n : SameStack(n)
      BY <1>2 DEF SameStack, InStack
    <2> QED
      BY <2>1, StackSame
  <1>7. \A k \in Key : files'[k] \in Texts \cup {NoFile}
    <2>1. \A k \in Key : files[k] \in Texts \cup {NoFile}
      BY <1>1 DEF SkillsOK, TypeOK
    <2>2. \A n \in Name : Layers(n) # <<>> => Reskilled(n) \in Texts \cup {NoFile}
      BY <1>1, ReskilledText
    <2>3. \A k \in Key : k[2] \in Name
      BY KeyIs
    <2> QED
      BY <1>2, <2>1, <2>2, <2>3
  <1>8. TypeOK'
    <2>1. files' \in [Key -> Texts \cup {NoFile, EmptySkill}]
      BY <1>2, <1>7
    <2>2. Deleted \subseteq Name
      BY NamesIs DEF Deleted
    <2> QED
      BY <1>1, <1>2, <1>5, <2>1, <2>2 DEF TypeOK
  <1>9. RegistryOK'
    <2>1. ASSUME NEW q \in Preset PROVE EntryOK(q)'
      BY <1>1, <1>2, <1>5, EntrySame DEF RegistryOK
    <2> QED
      BY <1>4, <2>1 DEF RegistryOK
  <1>10. SkillsOK'
    <2>1. \A k \in Key : files'[k] # EmptySkill
      BY <1>7, TextFacts
    <2> QED
      BY <1>1, <1>2, <2>1, SkillsKept
  <1>11. ComposedOK'
    BY <1>1, <1>2 DEF ComposedOK, Names
  <1>12. \A n \in Name : n \notin cli.names => \A a \in Agent : files'[<<a, n>>] = files[<<a, n>>]
    BY <1>2, KeyIs
  <1>13. \A n \in Name : n \notin cli.names => n \notin Deleted
    BY <1>12, KeyIs DEF Deleted, SkillExists
  <1>14. ASSUME NEW n \in Name, n \notin stale', n \notin broken', n \notin Names(cli.p), NEW a \in Agent
         PROVE  Follows(n, a)'
    <2>1. n \notin cli.names /\ n \notin stale /\ n \notin broken /\ n \notin Busy
      BY <1>2, <1>4, <1>5, <1>14
    <2>2. Untouched(n)
      BY <1>2, <1>12, <1>13, <2>1 DEF Untouched
    <2>3. Follows(n, a)
      BY <1>1, <2>1 DEF FollowOK
    <2> QED
      BY <2>2, <2>3, FollowsSame
  <1>15. ASSUME NEW n \in Name, n \notin stale', n \in Names(cli.p), n \notin cli.names, NEW a \in Agent
         PROVE  Follows(n, a)'
    <2>1. n \notin stale
      BY <1>2, <1>15
    <2>2. CASE op = "remove"
      <3>1. Names(cli.p) \ cli.names \subseteq stale
        BY <1>1, <1>4, <1>5, <2>2 DEF RunOK
      <3> QED
        BY <1>15, <2>1, <3>1
    <2>3. CASE op = "add"
      <3>1. cli.names = Applicable(cli.p)
        BY <1>1, <1>4, <2>3 DEF RegistryOK
      <3>2. ~Here(n)
        BY <1>15, <3>1 DEF Applicable, Here
      <3>3. ~Here(n)'
        BY <1>2, <3>2 DEF Here
      <3> QED
        BY <3>3 DEF Follows
    <2> QED
      BY <1>3, <2>2, <2>3
  <1>16. ASSUME NEW n \in cli.names PROVE Follows(n, CommandAgent)'
    <2>1. Right(n, CommandAgent)
      BY <1>1, <1>3, <1>4, <1>5, <1>16 DEF RunOK
    <2>2. files'[<<CommandAgent, n>>] = files[<<CommandAgent, n>>]
      BY <1>2, <1>5, <1>16, KeyIs, TextFacts
    <2> QED
      BY <1>6, <2>1, <2>2 DEF Follows, Right
  <1>17. ASSUME NEW n \in cli.names, n \notin broken'
         PROVE  Follows(n, SkillAgent)'
    <2>1. SUFFICES ASSUME ~LeftOut(n)', Here(n)', Content(n)' # NoContent, n \notin unskilled'
                   PROVE  files'[<<SkillAgent, n>>] = Content(n)'
      BY TextFacts DEF Follows, Right
    <2>2. ~LeftOut(n) /\ Here(n) /\ Content(n) # NoContent /\ n \notin unskilled /\ n \notin Deleted /\ n \notin broken
          /\ n \in Name
      BY <1>2, <1>5, <1>6, <1>17, <2>1 DEF LeftOut, Installed, Registered, Here, Names
    <2>3. Layers(n) # <<>>
      BY <1>1, <2>2, StackIs DEF ComposesTo
    <2>4. <<SkillAgent, n>> \in Key /\ <<SkillAgent, n>>[1] = SkillAgent /\ <<SkillAgent, n>>[2] = n
      BY <2>2, KeyIs
    <2>5. files'[<<SkillAgent, n>>] = Reskilled(n)
      BY <1>2, <1>17, <2>3, <2>4
    <2>6. PICK t : t = Layers(n)[1] /\ HasTop(n, t)
      BY <1>1, <2>3, StackIs
    <2>7. CASE t.id = Override
      BY <1>1, <1>6, <2>2, <2>5, <2>6, <2>7, ReskilledIs, TopIs
    <2>8. CASE t.id \in Preset
      <3>1. /\ n \in Names(t.id) /\ reg[t.id].enabled /\ t.strategy = Provides[t.id][n]
            /\ t.strategy = "replace" => Content(n) = Only(t.id)
        BY <1>1, <2>6, <2>8, TopIs
      <3>2. SkillExists(n) \/ Managed(n)
        <4>1. CASE op = "add"
          BY <1>1, <1>4, <1>5, <1>17, <4>1 DEF RunOK
        <4>2. CASE op = "remove"
          <5>1. Installed(t.id)
            BY <3>1, NoEntryIs DEF Installed
          <5>2. n \in Registered(t.id)
            BY <2>2, <2>8, <3>1, <5>1 DEF LeftOut
          <5>3. n \in reg[t.id].skills
            BY <1>1, <1>5, <2>2, <2>8, <5>2 DEF RegistryOK, EntryOK
          <5> QED
            BY <2>8, <3>1, <5>3 DEF Managed
        <4> QED
          BY <1>3, <4>1, <4>2
      <3>3. SkillText(t.id, n) = Content(n)
        <4>1. CASE t.strategy = "replace"
          <5>1. composed[t.id][n] = NoContent
            BY <1>1, <2>2, <2>8, <3>1, <4>1 DEF ComposedOK
          <5> QED
            BY <3>1, <4>1, <5>1 DEF SkillText
        <4>2. CASE t.strategy # "replace"
          <5>1. composed[t.id][n] = Content(n)
            BY <1>1, <1>3, <1>4, <1>5, <1>17, <2>2, <2>3, <2>6, <2>8, <4>2 DEF RunOK
          <5> QED
            BY <2>2, <5>1 DEF SkillText
        <4> QED
          BY <4>1, <4>2
      <3>4. Reskilled(n) = IF SkillExists(n) \/ Managed(n) THEN SkillText(t.id, n) ELSE NoFile
        BY <1>1, <2>2, <2>6, <2>8, ReskilledIs
      <3> QED
        BY <1>6, <2>5, <3>2, <3>3, <3>4
    <2>9. CASE t.id \notin Preset \cup {Override}
      <3>1. /\ Content(n) = Only(t.id)
            /\ \/ t.id = Extension /\ n \in ExtCommand /\ InStack
               \/ t.id = Core /\ n \in CoreCommand
        BY <1>1, <2>6, <2>9, TopIs
      <3>2. Reskilled(n) = Restored(n)
        BY <1>1, <2>2, <2>6, <2>9, ReskilledIs
      <3>3. SkillExists(n)
        BY <1>1, <2>2, <3>1 DEF SkillsOK
      <3>4. Reskilled(n) # NoFile
        BY <2>2, <2>5, <3>1, <3>3 DEF Deleted
      <3>5. files[<<SkillAgent, n>>] \notin {NoFile, EmptySkill}
        BY <1>1, <2>4, <3>3 DEF SkillExists, SkillsOK
      <3>6. ~(n \in ExtCommand /\ n \in CoreCommand)
        BY ResolverAssumption
      <3>7. CASE n \in CoreCommand
        BY <1>6, <2>5, <3>1, <3>2, <3>4, <3>5, <3>6, <3>7 DEF Restored
      <3>8. CASE n \in ExtCommand
        BY <1>6, <2>5, <3>1, <3>2, <3>4, <3>5, <3>6, <3>8 DEF Restored
      <3> QED
        BY <3>1, <3>7, <3>8
    <2> QED
      BY <2>7, <2>8, <2>9
  <1>18. FollowOK'
    <2>1. ASSUME NEW n \in Name, n \notin stale', n \notin broken', NEW a \in Agent
          PROVE  Follows(n, a)'
      <3>1. a = CommandAgent \/ a = SkillAgent
        BY TextFacts
      <3> QED
        BY <1>14, <1>15, <1>16, <1>17, <2>1, <3>1
    <2> QED
      BY <1>4, <2>1 DEF FollowOK
  <1>19. RunOK'
    BY <1>4 DEF RunOK
  <1> QED
    BY <1>8, <1>9, <1>10, <1>11, <1>18, <1>19 DEF IInv

(* A command starts: c is what it is to do.                                 *)
LEMMA BeginIs ==
  ASSUME NEW op, NEW p, NEW prio, NEW names, NEW todo, Begin(op, p, prio, names, todo)
  PROVE  /\ cli = Idle /\ ops' = ops + 1
         /\ cli' = [op |-> op, p |-> p, prio |-> prio, names |-> names, todo |-> todo]
         /\ cli'.op = op /\ cli'.p = p /\ cli'.prio = prio /\ cli'.names = names /\ cli'.todo = todo
         /\ packs' = packs /\ composed' = composed /\ files' = files
         /\ override' = override /\ ext' = ext /\ coreCopy' = coreCopy
         /\ broken' = broken /\ unskilled' = unskilled
         /\ \A o : ~Running(o)
         /\ \A s : ~Due(s)
         /\ Busy = {}
  <1>1. cli = Idle
    BY DEF Begin
  <1>2. cli' = [op |-> op, p |-> p, prio |-> prio, names |-> names, todo |-> todo]
    BY DEF Begin
  <1>3. /\ \A o : ~Running(o)
        /\ \A s : ~Due(s)
    BY <1>1 DEF Running, Due
  <1>4. Busy = {}
    BY <1>3 DEF Busy
  <1>5. cli'.op = op /\ cli'.p = p /\ cli'.prio = prio /\ cli'.names = names /\ cli'.todo = todo
    BY <1>2
  <1> QED
    BY <1>1, <1>2, <1>3, <1>4, <1>5 DEF Begin, project

(* An installation starts.                                                  *)
LEMMA AddKeeps ==
  ASSUME IInv, NEW p \in Preset, NEW prio \in Priority, Add(p, prio)
  PROVE  IInv'
  <1> DEFINE todo == <<"copy", "register", "commands", "skills", "reconcile", "reskill">>
             T == {"copy", "register", "commands", "skills", "reconcile", "reskill"}
  <1>1. TypeOK /\ RegistryOK /\ ComposedOK /\ SkillsOK /\ FollowOK /\ RunOK
    BY DEF IInv
  <1>2. Begin("add", p, prio, Applicable(p), todo) /\ reg' = reg /\ stale' = stale /\ reg[p] = NoEntry
    BY DEF Add, Installed
  <1>3. /\ cli = Idle /\ ops' = ops + 1
        /\ cli' = [op |-> "add", p |-> p, prio |-> prio, names |-> Applicable(p), todo |-> todo]
        /\ cli'.op = "add" /\ cli'.p = p /\ cli'.prio = prio /\ cli'.names = Applicable(p) /\ cli'.todo = todo
        /\ packs' = packs /\ composed' = composed /\ files' = files
        /\ override' = override /\ ext' = ext /\ coreCopy' = coreCopy
        /\ broken' = broken /\ unskilled' = unskilled
        /\ ~Due("skills") /\ Busy = {}
    BY <1>2, BeginIs
  <1>4. CommandOK(cli')
    <2>1. prio \in Nat /\ Applicable(p) \subseteq Names(p)
      BY PresetsAssumption DEF Applicable
    <2>2. todo \in AddTodo
      BY DEF AddTodo
    <2> HIDE DEF todo
    <2> QED
      BY <1>3, <2>1, <2>2 DEF CommandOK
  <1>5. cli' # Idle
    BY <1>4, CommandIs
  <1>6. \A s : Due(s)' <=> s \in T
    BY <1>3, <1>5, HasIs DEF Due
  <1>7. \A o : Running(o)' <=> o = "add"
    BY <1>3, <1>5 DEF Running
  <1>8. TypeOK'
    BY <1>1, <1>2, <1>3, <1>4 DEF TypeOK
  <1>9. RegistryOK'
    <2>1. ASSUME NEW q \in Preset PROVE EntryOK(q)'
      BY <1>1, <1>2, <1>3, EntrySame DEF RegistryOK
    <2>2. Registered(cli.p)' = {}
      BY <1>2, <1>3, NoEntryIs DEF Registered
    <2>3. Applicable(cli.p)' = Applicable(p)
      BY <1>3 DEF Applicable, Names
    <2> QED
      BY <1>3, <1>6, <1>7, <2>1, <2>2, <2>3 DEF RegistryOK
  <1>10. SkillsOK' /\ ComposedOK'
    BY <1>1, <1>3 DEF SkillsOK, Here, SkillExists, ComposedOK, Names
  <1>11. FollowOK'
    <2>1. \A n \in Name : Untouched(n)
      BY <1>2, <1>3 DEF Untouched
    <2> QED
      BY <1>1, <1>2, <1>3, <1>7, <2>1, FollowFrame
  <1>12. RunOK'
    BY <1>6, <1>7 DEF RunOK
  <1> QED
    BY <1>8, <1>9, <1>10, <1>11, <1>12 DEF IInv

(* A removal starts.                                                        *)
LEMMA RemoveKeeps ==
  ASSUME IInv, NEW p \in Preset, Remove(p)
  PROVE  IInv'
  <1> DEFINE todo == <<"unskill", "unregister", "rmtree", "unregistry", "reconcile", "reskill">>
             T == {"unskill", "unregister", "rmtree", "unregistry", "reconcile", "reskill"}
  <1>1. TypeOK /\ RegistryOK /\ ComposedOK /\ SkillsOK /\ FollowOK /\ RunOK
    BY DEF IInv
  <1>2. Begin("remove", p, 0, Registered(p), todo) /\ reg' = reg /\ stale' = stale
    BY DEF Remove
  <1>3. /\ cli = Idle /\ ops' = ops + 1
        /\ cli' = [op |-> "remove", p |-> p, prio |-> 0, names |-> Registered(p), todo |-> todo]
        /\ cli'.op = "remove" /\ cli'.p = p /\ cli'.prio = 0 /\ cli'.names = Registered(p) /\ cli'.todo = todo
        /\ packs' = packs /\ composed' = composed /\ files' = files
        /\ override' = override /\ ext' = ext /\ coreCopy' = coreCopy
        /\ broken' = broken /\ unskilled' = unskilled
        /\ ~Due("skills") /\ Busy = {}
    BY <1>2, BeginIs
  <1>4. CommandOK(cli')
    <2>1. 0 \in Nat /\ Registered(p) \subseteq Names(p)
      BY <1>1 DEF RegistryOK, EntryOK
    <2>2. todo \in RemoveTodo
      BY DEF RemoveTodo
    <2> HIDE DEF todo
    <2> QED
      BY <1>3, <2>1, <2>2 DEF CommandOK
  <1>5. cli' # Idle
    BY <1>4, CommandIs
  <1>6. \A s : Due(s)' <=> s \in T
    BY <1>3, <1>5, HasIs DEF Due
  <1>7. \A o : Running(o)' <=> o = "remove"
    BY <1>3, <1>5 DEF Running
  <1>8. TypeOK'
    BY <1>1, <1>2, <1>3, <1>4 DEF TypeOK
  <1>9. RegistryOK'
    <2>1. ASSUME NEW q \in Preset PROVE EntryOK(q)'
      BY <1>1, <1>2, <1>3, EntrySame DEF RegistryOK
    <2>2. Registered(cli.p)' = Registered(p)
      BY <1>2, <1>3 DEF Registered
    <2> QED
      BY <1>3, <1>6, <1>7, <2>1, <2>2 DEF RegistryOK
  <1>10. SkillsOK' /\ ComposedOK'
    BY <1>1, <1>3 DEF SkillsOK, Here, SkillExists, ComposedOK, Names
  <1>11. FollowOK'
    <2>1. \A n \in Name : Untouched(n)
      BY <1>2, <1>3 DEF Untouched
    <2> QED
      BY <1>1, <1>2, <1>3, <1>7, <2>1, FollowFrame
  <1>12. RunOK'
    BY <1>6, <1>7 DEF RunOK
  <1> QED
    BY <1>8, <1>9, <1>10, <1>11, <1>12 DEF IInv

(* A command that only writes the registry: the entry keeps its lists.      *)
LEMMA ConfigureKeeps ==
  ASSUME IInv, NEW p \in Preset, NEW r \in Entry, r.cmds = reg[p].cmds, r.skills = reg[p].skills, Configure(p, r)
  PROVE  IInv'
  <1>1. TypeOK /\ RegistryOK /\ ComposedOK /\ SkillsOK /\ FollowOK /\ RunOK
    BY DEF IInv
  <1>2. Begin("configure", p, 0, {}, <<"done">>) /\ reg' = [reg EXCEPT ![p] = r] /\ stale' = stale \cup Names(p)
    BY DEF Configure
  <1>3. /\ cli = Idle /\ ops' = ops + 1
        /\ cli' = [op |-> "configure", p |-> p, prio |-> 0, names |-> {}, todo |-> <<"done">>]
        /\ cli'.op = "configure" /\ cli'.p = p /\ cli'.prio = 0 /\ cli'.names = {} /\ cli'.todo = <<"done">>
        /\ packs' = packs /\ composed' = composed /\ files' = files
        /\ override' = override /\ ext' = ext /\ coreCopy' = coreCopy
        /\ broken' = broken /\ unskilled' = unskilled
        /\ ~Due("skills") /\ Busy = {}
    BY <1>2, BeginIs
  <1>4. CommandOK(cli')
    BY <1>3 DEF CommandOK
  <1>5. cli' # Idle
    BY <1>4, CommandIs
  <1>6. \A o : Running(o)' <=> o = "configure"
    BY <1>3, <1>5 DEF Running
  <1>7. /\ reg' \in [Preset -> Entry] /\ reg'[p] = r
        /\ \A q \in Preset : q # p => reg'[q] = reg[q]
    BY <1>1, <1>2 DEF TypeOK
  <1>8. TypeOK'
    BY <1>1, <1>2, <1>3, <1>4, <1>7, NamesIs DEF TypeOK
  <1>9. RegistryOK'
    <2>1. ASSUME NEW q \in Preset PROVE EntryOK(q)'
      <3>1. reg'[q].cmds = reg[q].cmds /\ reg'[q].skills = reg[q].skills
        BY <1>7
      <3> QED
        BY <1>1, <1>3, <3>1, EntrySame DEF RegistryOK
    <2> QED
      BY <1>6, <2>1 DEF RegistryOK
  <1>10. SkillsOK' /\ ComposedOK'
    BY <1>1, <1>3 DEF SkillsOK, Here, SkillExists, ComposedOK, Names
  <1>11. FollowOK'
    <2>1. \A n \in Name : n \notin Names(p) => Untouched(n)
      BY <1>3, <1>7 DEF Untouched
    <2>2. Names(cli'.p) \subseteq stale'
      BY <1>2, <1>3
    <2> QED
      BY <1>1, <1>2, <1>3, <2>1, <2>2, FollowFrame
  <1>12. RunOK'
    BY <1>6 DEF RunOK
  <1> QED
    BY <1>8, <1>9, <1>10, <1>11, <1>12 DEF IInv

(* The user adds or deletes an override.                                    *)
LEMMA EditOverrideKeeps ==
  ASSUME IInv, NEW m \in Name, EditOverride(m)
  PROVE  IInv'
  <1>1. TypeOK /\ RegistryOK /\ ComposedOK /\ SkillsOK /\ FollowOK /\ RunOK
    BY DEF IInv
  <1>2. /\ cli = Idle /\ cli' = cli /\ ops' = ops + 1 /\ reg' = reg
        /\ override' = IF m \in override THEN override \ {m} ELSE override \cup {m}
        /\ packs' = packs /\ composed' = composed /\ files' = files
        /\ ext' = ext /\ coreCopy' = coreCopy /\ stale' = stale \cup {m}
        /\ broken' = broken /\ unskilled' = unskilled
    BY DEF EditOverride
  <1>3. /\ \A o : ~Running(o)'
        /\ \A s : ~Due(s)
        /\ Busy = {}
    BY <1>2 DEF Running, Due, Busy
  <1>4. TypeOK'
    BY <1>1, <1>2 DEF TypeOK
  <1>5. RegistryOK'
    <2>1. ASSUME NEW q \in Preset PROVE EntryOK(q)'
      BY <1>1, <1>2, <1>3, EntrySame DEF RegistryOK
    <2> QED
      BY <1>3, <2>1 DEF RegistryOK
  <1>6. SkillsOK' /\ ComposedOK'
    BY <1>1, <1>2 DEF SkillsOK, Here, SkillExists, ComposedOK, Names
  <1>7. FollowOK'
    <2>1. \A n \in Name : n # m => Untouched(n)
      BY <1>2 DEF Untouched
    <2> QED
      BY <1>1, <1>2, <1>3, <2>1, FollowFrame
  <1>8. RunOK'
    BY <1>3 DEF RunOK
  <1> QED
    BY <1>4, <1>5, <1>6, <1>7, <1>8 DEF IInv

(* The extension is added, removed, enabled or disabled.                    *)
LEMMA ExtensionChangesKeeps ==
  ASSUME IInv, NEW s \in {"enabled", "disabled", "unregistered", "absent"}, ExtensionChanges(s)
  PROVE  IInv'
  <1>1. TypeOK /\ RegistryOK /\ ComposedOK /\ SkillsOK /\ FollowOK /\ RunOK
    BY DEF IInv
  <1>2. /\ cli = Idle /\ cli' = cli /\ ops' = ops + 1 /\ reg' = reg
        /\ packs' = packs /\ composed' = composed /\ override' = override
        /\ ext' = s /\ s # ext /\ coreCopy' = coreCopy /\ stale' = stale \cup ExtCommand /\ broken' = broken
        /\ unskilled' = IF ext = "absent" THEN unskilled \ ExtCommand ELSE unskilled
        /\ files' = [k \in Key |-> CASE k[2] \in ExtCommand /\ s = "absent" -> NoFile
                                     [] k[2] \in ExtCommand /\ ext = "absent" -> Only(Extension)
                                     [] OTHER -> files[k]]
    BY DEF ExtensionChanges
  <1>3. /\ \A o : ~Running(o)'
        /\ \A t : ~Due(t)
        /\ Busy = {}
    BY <1>2 DEF Running, Due, Busy
  <1>4. Only(Extension) \in Texts
    BY TextFacts
  <1>5. /\ \A k \in Key : k[2] \in ExtCommand /\ s = "absent" => files'[k] = NoFile
        /\ \A k \in Key : k[2] \in ExtCommand /\ s # "absent" /\ ext = "absent" => files'[k] = Only(Extension)
        /\ \A k \in Key : k[2] \notin ExtCommand \/ (s # "absent" /\ ext # "absent") => files'[k] = files[k]
    BY <1>2
  <1>6. \A k \in Key : files'[k] \in Texts \cup {NoFile}
    <2>1. \A k \in Key : files[k] \in Texts \cup {NoFile}
      BY <1>1 DEF SkillsOK, TypeOK
    <2> QED
      BY <1>4, <1>5, <2>1
  <1>7. TypeOK'
    <2>1. files' \in [Key -> Texts \cup {NoFile, EmptySkill}]
      BY <1>2, <1>6
    <2> QED
      BY <1>1, <1>2, <2>1, NamesIs DEF TypeOK
  <1>8. RegistryOK'
    <2>1. ASSUME NEW q \in Preset PROVE EntryOK(q)'
      BY <1>1, <1>2, <1>3, EntrySame DEF RegistryOK
    <2> QED
      BY <1>3, <2>1 DEF RegistryOK
  <1>9. SkillsOK'
    <2>1. \A k \in Key : files'[k] # EmptySkill
      BY <1>6, TextFacts
    <2>2. ASSUME NEW n \in (CoreCommand \cup ExtCommand) \ (broken' \cup unskilled'), Here(n)'
          PROVE  SkillExists(n)'
      <3>1. n \in Name /\ n \notin broken /\ (n \in ExtCommand => s # "absent")
        BY <1>2, <2>2, NamesIs DEF Here
      <3>2. <<SkillAgent, n>> \in Key /\ <<SkillAgent, n>>[2] = n
        BY <3>1, KeyIs
      <3>3. CASE n \in ExtCommand /\ ext = "absent"
        BY <1>4, <1>5, <3>1, <3>2, <3>3, TextFacts DEF SkillExists
      <3>4. CASE n \notin ExtCommand \/ ext # "absent"
        <4>1. n \notin unskilled /\ Here(n)
          BY <1>2, <2>2, <3>4 DEF Here
        <4>2. files[<<SkillAgent, n>>] # NoFile
          BY <1>1, <2>2, <3>1, <4>1 DEF SkillsOK, SkillExists
        <4> QED
          BY <1>5, <3>1, <3>2, <3>4, <4>2 DEF SkillExists
      <3> QED
        BY <3>3, <3>4
    <2> QED
      BY <2>1, <2>2 DEF SkillsOK
  <1>10. ComposedOK'
    BY <1>1, <1>2 DEF ComposedOK, Names
  <1>11. FollowOK'
    <2>1. \A n \in Name : n \notin ExtCommand => Untouched(n)
      BY <1>2, <1>5, KeyIs DEF Untouched
    <2> QED
      BY <1>1, <1>2, <1>3, <2>1, FollowFrame
  <1>12. RunOK'
    BY <1>3 DEF RunOK
  <1> QED
    BY <1>7, <1>8, <1>9, <1>10, <1>11, <1>12 DEF IInv

(* A command stops before its end: the names of its preset are given up.    *)
LEMMA StopKeeps ==
  ASSUME IInv, cli # Idle, cli' = Idle, NEW S, Names(cli.p) \subseteq S, S \subseteq Name, broken' = broken \cup S,
         reg' \in [Preset -> Entry], packs' \subseteq Preset,
         composed' \in [Preset -> [Name -> Texts \cup {NoContent}]], ComposedOK',
         files' \in [Key -> Texts \cup {NoFile, EmptySkill}], \A k \in Key : files'[k] # EmptySkill,
         override' = override, ext' = ext, coreCopy' = coreCopy, ops' = ops + 1,
         stale' = stale, unskilled' = unskilled,
         \A q \in Preset : q # cli.p => reg'[q] = reg[q] \/ (reg'[q] = NoEntry /\ Name \subseteq S),
         reg'[cli.p] = reg[cli.p] \/ reg'[cli.p] = NoEntry,
         \A n \in Name : n \notin Names(cli.p) => \A a \in Agent : files'[<<a, n>>] = files[<<a, n>>]
  PROVE  IInv'
  <1>1. TypeOK /\ RegistryOK /\ ComposedOK /\ SkillsOK /\ FollowOK /\ RunOK
    BY DEF IInv
  <1>2. /\ \A o : ~Running(o)'
        /\ \A s : ~Due(s)'
        /\ Busy' = {}
    BY DEF Running, Due, Busy
  <1>3. cli.p \in Preset
    BY <1>1, CommandIs DEF TypeOK
  <1>4. Busy \subseteq Names(cli.p)
    BY DEF Busy
  <1>5. TypeOK'
    BY <1>1 DEF TypeOK
  <1>6. RegistryOK'
    <2>1. ASSUME NEW q \in Preset PROVE EntryOK(q)'
      <3>1. CASE reg'[q] = NoEntry
        BY <3>1, NoEntryIs, EntryEmpty
      <3>2. CASE reg'[q] = reg[q]
        <4>1. Due("skills") /\ q = cli.p => Names(q) \subseteq broken'
          OBVIOUS
        <4> QED
          BY <1>1, <3>2, <4>1, EntrySame DEF RegistryOK
      <3> QED
        BY <1>3, <3>1, <3>2
    <2> QED
      BY <1>2, <2>1 DEF RegistryOK
  <1>7. SkillsOK'
    <2>1. ASSUME NEW n \in (CoreCommand \cup ExtCommand) \ (broken' \cup unskilled'), Here(n)'
          PROVE  SkillExists(n)'
      <3>1. n \in Name /\ n \notin broken /\ n \notin unskilled /\ n \notin Names(cli.p) /\ Here(n)
        BY <2>1, NamesIs DEF Here
      <3>2. files[<<SkillAgent, n>>] # NoFile
        BY <1>1, <2>1, <3>1 DEF SkillsOK, SkillExists
      <3> QED
        BY <3>1, <3>2, KeyIs DEF SkillExists
    <2> QED
      BY <2>1 DEF SkillsOK
  <1>8. FollowOK'
    <2>1. ASSUME NEW n \in Name, n \notin stale', n \notin broken', n \notin Busy'
          PROVE  n \notin stale /\ n \notin broken /\ n \notin Busy /\ Untouched(n)
      <3>1. n \notin stale /\ n \notin broken /\ n \notin Busy /\ n \notin Names(cli.p) /\ n \notin S
        BY <1>4, <2>1
      <3>2. \A q \in Preset : n \in Names(q) => reg'[q] = reg[q]
        BY <3>1
      <3> QED
        BY <3>1, <3>2 DEF Untouched
    <2> QED
      BY <1>1, <1>2, <2>1, FollowFrame
  <1>9. RunOK'
    BY <1>2 DEF RunOK
  <1> QED
    BY <1>5, <1>6, <1>7, <1>8, <1>9 DEF IInv

(* A step fails.                                                            *)
LEMMA FailKeeps ==
  ASSUME IInv, Fail
  PROVE  IInv'
  <1> DEFINE S == Names(cli.p) \cup cli.names
             undone == cli.op = "add" /\ (At("commands") \/ At("skills"))
  <1>1. TypeOK /\ RegistryOK /\ ComposedOK /\ SkillsOK /\ FollowOK /\ RunOK
    BY DEF IInv
  <1>2. /\ cli # Idle /\ cli' = Idle /\ broken' = broken \cup S
        /\ override' = override /\ ext' = ext /\ coreCopy' = coreCopy /\ ops' = ops + 1
        /\ stale' = stale /\ unskilled' = unskilled
    BY DEF Fail, project
  <1>3. cli.p \in Preset /\ cli.names \subseteq Names(cli.p)
    BY <1>1, <1>2, CommandIs DEF TypeOK
  <1>4. Names(cli.p) \subseteq S /\ S \subseteq Name
    BY <1>3, NamesIs
  <1>5. \A k \in Key : files[k] \in Texts \cup {NoFile}
    BY <1>1 DEF SkillsOK, TypeOK
  <1>6. CASE undone
    <2>1. /\ files' = [k \in Key |-> IF k \in reg[cli.p].cmds THEN NoFile ELSE files[k]]
          /\ packs' = packs \ {cli.p}
          /\ composed' = [composed EXCEPT ![cli.p] = [n \in Name |-> NoContent]]
          /\ reg' = [reg EXCEPT ![cli.p] = NoEntry]
      BY <1>6 DEF Fail, UnregisterCommands
    <2>2. reg' \in [Preset -> Entry] /\ reg'[cli.p] = NoEntry /\ \A q \in Preset : q # cli.p => reg'[q] = reg[q]
      BY <1>1, <1>3, <2>1, NoEntryIs DEF TypeOK
    <2>3. composed' \in [Preset -> [Name -> Texts \cup {NoContent}]] /\ ComposedOK'
      BY <1>1, <1>3, <2>1, ClearedComposed
    <2>4. \A k \in Key : files'[k] \in Texts \cup {NoFile}
      BY <1>5, <2>1
    <2>5. files' \in [Key -> Texts \cup {NoFile, EmptySkill}] /\ \A k \in Key : files'[k] # EmptySkill
      BY <2>1, <2>4, TextFacts
    <2>6. \A n \in Name : n \notin Names(cli.p) => \A a \in Agent : files'[<<a, n>>] = files[<<a, n>>]
      <3>1. reg[cli.p].cmds = Agent \X Registered(cli.p) /\ Registered(cli.p) \subseteq Names(cli.p)
        BY <1>1, <1>3 DEF RegistryOK, EntryOK
      <3>2. \A n \in Name, a \in Agent : <<a, n>> \in reg[cli.p].cmds => n \in Names(cli.p)
        BY <3>1
      <3> QED
        BY <2>1, <3>2, KeyIs
    <2>7. packs' \subseteq Preset
      BY <1>1, <2>1 DEF TypeOK
    <2> QED
      BY <1>2, <1>4, <2>2, <2>3, <2>5, <2>6, <2>7, StopKeeps
  <1>7. CASE ~undone
    <2>1. files' = files /\ packs' = packs /\ composed' = composed /\ reg' = reg
      BY <1>7 DEF Fail
    <2>2. ComposedOK'
      BY <1>1, <2>1 DEF ComposedOK, Names
    <2>3. /\ reg' \in [Preset -> Entry] /\ packs' \subseteq Preset
          /\ composed' \in [Preset -> [Name -> Texts \cup {NoContent}]]
          /\ files' \in [Key -> Texts \cup {NoFile, EmptySkill}]
      BY <1>1, <2>1 DEF TypeOK
    <2>4. \A k \in Key : files'[k] # EmptySkill
      BY <1>1, <2>1 DEF SkillsOK
    <2> QED
      BY <1>2, <1>4, <2>1, <2>2, <2>3, <2>4, StopKeeps
  <1> QED
    BY <1>6, <1>7

(* The process is killed.                                                   *)
LEMMA InterruptKeeps ==
  ASSUME IInv, Interrupt
  PROVE  IInv'
  <1>1. TypeOK /\ RegistryOK /\ ComposedOK /\ SkillsOK /\ FollowOK /\ RunOK
    BY DEF IInv
  <1>2. /\ cli # Idle /\ cli' = Idle /\ files' = files /\ packs' = packs /\ composed' = composed
        /\ override' = override /\ ext' = ext /\ coreCopy' = coreCopy /\ ops' = ops + 1
        /\ stale' = stale /\ unskilled' = unskilled
    BY DEF Interrupt, project
  <1>3. cli.p \in Preset /\ cli.names \subseteq Names(cli.p)
    BY <1>1, <1>2, CommandIs DEF TypeOK
  <1>4. ComposedOK'
    BY <1>1, <1>2 DEF ComposedOK, Names
  <1>5. /\ reg \in [Preset -> Entry] /\ packs' \subseteq Preset
        /\ composed' \in [Preset -> [Name -> Texts \cup {NoContent}]]
        /\ files' \in [Key -> Texts \cup {NoFile, EmptySkill}]
    BY <1>1, <1>2 DEF TypeOK
  <1>6. \A k \in Key : files'[k] # EmptySkill
    BY <1>1, <1>2 DEF SkillsOK
  <1>7. CASE broken' = broken \cup Names(cli.p) \cup cli.names /\ reg' = reg
    <2>1. PICK S : S = Names(cli.p) \cup cli.names
      OBVIOUS
    <2>2. Names(cli.p) \subseteq S /\ S \subseteq Name /\ broken' = broken \cup S
      BY <1>3, <1>7, <2>1, NamesIs
    <2> QED
      BY <1>2, <1>4, <1>5, <1>6, <1>7, <2>2, StopKeeps
  <1>8. CASE reg' = [p \in Preset |-> NoEntry] /\ broken' = Name
    <2>1. broken' = broken \cup Name
      BY <1>1, <1>8 DEF TypeOK
    <2>2. /\ reg' \in [Preset -> Entry] /\ \A q \in Preset : reg'[q] = NoEntry
      BY <1>8, NoEntryIs
    <2>3. Names(cli.p) \subseteq Name /\ Name \subseteq Name
      BY <1>3, NamesIs
    <2> QED
      BY <1>2, <1>3, <1>4, <1>5, <1>6, <2>1, <2>2, <2>3, StopKeeps
  <1> QED
    BY <1>7, <1>8 DEF Interrupt

-----------------------------------------------------------------------------
(* The theorems. *)

(* The files of a fresh project follow a stack without presets.             *)
LEMMA InitHolds == Init => IInv
  <1> SUFFICES ASSUME Init PROVE IInv
    OBVIOUS
  <1>1. /\ reg = [p \in Preset |-> NoEntry] /\ packs = {}
        /\ composed = [p \in Preset |-> [n \in Name |-> NoContent]]
        /\ override = {} /\ coreCopy \in BOOLEAN /\ ext \in {"enabled", "absent"}
        /\ files = [k \in Key |-> CASE k[2] \in CoreCommand -> Only(Core)
                                    [] k[2] \in ExtCommand /\ ext = "enabled" -> Only(Extension)
                                    [] OTHER -> NoFile]
        /\ cli = Idle /\ ops = 0 /\ stale = {} /\ broken = {} /\ unskilled = {}
    BY DEF Init
  <1>2. /\ \A o : ~Running(o)
        /\ \A s : ~Due(s)
    BY <1>1 DEF Running, Due
  <1>3. Only(Core) \in Texts /\ Only(Extension) \in Texts /\ NoFile \notin Texts /\ EmptySkill \notin Texts
        /\ NoFile # EmptySkill
    BY TextFacts
  <1>4. ExtCommand \cap CoreCommand = {}
    BY ResolverAssumption
  <1>5. /\ \A k \in Key : k[2] \in CoreCommand => files[k] = Only(Core)
        /\ \A k \in Key : k[2] \in ExtCommand /\ ext = "enabled" => files[k] = Only(Extension)
        /\ \A k \in Key : k[2] \notin CoreCommand /\ ~(k[2] \in ExtCommand /\ ext = "enabled") => files[k] = NoFile
    BY <1>1, <1>4
  <1>6. \A k \in Key : files[k] \in Texts \cup {NoFile}
    BY <1>3, <1>5
  <1>7. TypeOK
    <2>1. files \in [Key -> Texts \cup {NoFile, EmptySkill}]
      BY <1>1, <1>6
    <2>2. reg \in [Preset -> Entry] /\ composed \in [Preset -> [Name -> Texts \cup {NoContent}]]
      BY <1>1, NoEntryIs
    <2> QED
      BY <1>1, <2>1, <2>2 DEF TypeOK
  <1>8. \A p \in Preset : reg[p] = NoEntry /\ ~reg[p].enabled /\ reg[p].cmds = {} /\ reg[p].skills = {}
    BY <1>1, NoEntryIs
  <1>9. RegistryOK
    <2>1. \A p \in Preset : Registered(p) = {}
      BY <1>8 DEF Registered
    <2>2. \A p \in Preset : EntryOK(p)
      BY <1>8, <2>1 DEF EntryOK
    <2> QED
      BY <1>2, <2>2 DEF RegistryOK
  <1>10. ComposedOK
    BY <1>1 DEF ComposedOK
  <1>11. SkillsOK
    <2>1. ASSUME NEW n \in CoreCommand \cup ExtCommand, Here(n) PROVE SkillExists(n)
      <3>1. <<SkillAgent, n>> \in Key /\ <<SkillAgent, n>>[2] = n
        BY <2>1, NamesIs, KeyIs
      <3> QED
        BY <1>1, <1>3, <1>5, <2>1, <3>1 DEF SkillExists, Here
    <2> QED
      BY <1>3, <1>6, <2>1 DEF SkillsOK
  <1>12. FollowOK
    <2>1. ASSUME NEW n \in Name, NEW a \in Agent, Here(n) PROVE Right(n, a)
      <3>1. <<a, n>> \in Key /\ <<a, n>>[2] = n
        BY KeyIs
      <3>2. Providers(reg, n) = {}
        BY <1>8 DEF Providers
      <3>3. InStack <=> ext = "enabled"
        BY <1>1 DEF InStack
      <3>4. n \in ExtCommand => ext = "enabled"
        BY <1>1, <2>1 DEF Here
      <3>5. CASE n \notin CoreCommand /\ n \notin ExtCommand
        <4>1. Layers(n) = <<>>
          BY <1>1, <1>7, <3>2, <3>5, StackIs
        <4>2. Content(n) = NoContent
          BY <1>7, <4>1, StackIs DEF ComposesTo
        <4> QED
          BY <1>5, <3>1, <3>5, <4>2 DEF Right
      <3>6. CASE n \in CoreCommand \/ n \in ExtCommand
        <4>1. Layers(n) # <<>>
          BY <1>1, <1>7, <3>3, <3>4, <3>6, StackIs
        <4>2. PICK t : HasTop(n, t)
          BY <1>7, <4>1, StackIs
        <4>3. t.id \notin Preset
          BY <1>7, <1>8, <4>2, TopIs
        <4>4. t.id # Override
          <5>1. TopOf(reg, override, InStack, n, t)
            BY <4>2 DEF HasTop
          <5>2. /\ Layer(Extension, "replace").id # Override /\ Layer(Core, "replace").id # Override
                /\ n \notin override
            BY <1>1, ResolverAssumption DEF Layer
          <5> QED
            BY <3>2, <5>1, <5>2 DEF TopOf
        <4>5. /\ Content(n) = Only(t.id)
              /\ \/ t.id = Extension /\ n \in ExtCommand /\ InStack
                 \/ t.id = Core /\ n \in CoreCommand
          BY <1>7, <4>2, <4>3, <4>4, TopIs
        <4>6. Content(n) \in Texts
          BY <1>3, <4>5
        <4>7. files[<<a, n>>] = Content(n)
          BY <1>5, <3>1, <3>3, <4>5
        <4>8. Content(n) # NoContent
          BY <4>6, TextFacts
        <4> QED
          BY <4>7, <4>8 DEF Right
      <3> QED
        BY <3>5, <3>6
    <2> QED
      BY <1>2, <2>1 DEF FollowOK, Follows
  <1>13. RunOK
    BY <1>2 DEF RunOK
  <1> QED
    BY <1>7, <1>9, <1>10, <1>11, <1>12, <1>13 DEF IInv

(* Nothing changes in a step outside the presets.                           *)
LEMMA StutterKeeps ==
  ASSUME IInv, UNCHANGED vars
  PROVE  IInv'
  <1>1. TypeOK /\ RegistryOK /\ ComposedOK /\ SkillsOK /\ FollowOK /\ RunOK
    BY DEF IInv
  <1>2. /\ reg' = reg /\ packs' = packs /\ composed' = composed /\ files' = files /\ override' = override
        /\ ext' = ext /\ coreCopy' = coreCopy /\ cli' = cli /\ ops' = ops
        /\ stale' = stale /\ broken' = broken /\ unskilled' = unskilled
    BY DEF vars, history
  <1>3. TypeOK'
    BY <1>1, <1>2 DEF TypeOK
  <1>4. /\ \A o : Running(o)' <=> Running(o)
        /\ \A s : Due(s)' <=> Due(s)
        /\ \A n : Here(n)' <=> Here(n)
        /\ \A n : SkillExists(n)' <=> SkillExists(n)
        /\ \A p : Registered(p)' = Registered(p) /\ Applicable(p)' = Applicable(p)
    BY <1>2 DEF Running, Due, Here, SkillExists, Registered, Applicable, Names
  <1>5. RegistryOK'
    <2>1. ASSUME NEW q \in Preset PROVE EntryOK(q)'
      BY <1>1, <1>2, <1>4, EntrySame DEF RegistryOK
    <2> QED
      BY <1>1, <1>2, <1>4, <2>1 DEF RegistryOK
  <1>6. ComposedOK' /\ SkillsOK'
    BY <1>1, <1>2, <1>4 DEF ComposedOK, SkillsOK, Names
  <1>7. \A n : Untouched(n) /\ SameStack(n)
    BY <1>2 DEF Untouched, SameStack, InStack
  <1>8. Busy' = Busy
    BY <1>2, <1>4 DEF Busy, Names
  <1>9. FollowOK'
    <2>1. Running("configure")' => Names(cli'.p) \subseteq stale'
      BY <1>1, <1>2, <1>4 DEF FollowOK
    <2> QED
      BY <1>1, <1>2, <1>7, <1>8, <2>1, FollowFrame
  <1>10. \A n : Layers(n)' = Layers(n) /\ Content(n)' = Content(n)
    BY <1>7, StackSame
  <1>11. \A n, a : Right(n, a)' <=> Right(n, a)
    BY <1>2, <1>10 DEF Right
  <1>12. RunOK'
    BY <1>1, <1>2, <1>4, <1>10, <1>11 DEF RunOK, Names
  <1> QED
    BY <1>3, <1>5, <1>6, <1>9, <1>12 DEF IInv

(* Every step keeps the invariant.                                          *)
LEMMA NextKeeps == IInv /\ [Next]_vars => IInv'
  <1> SUFFICES ASSUME IInv, [Next]_vars PROVE IInv'
    OBVIOUS
  <1>1. CASE UNCHANGED vars
    BY <1>1, StutterKeeps
  <1>2. CASE \E p \in Preset, prio \in Priority : Add(p, prio)
    BY <1>2, AddKeeps
  <1>3. CASE \E p \in Preset, prio \in Priority : SetPriority(p, prio)
    <2>1. PICK p \in Preset, prio \in Priority : SetPriority(p, prio)
      BY <1>3
    <2>2. reg[p] \in Entry /\ prio \in Nat
      BY PresetsAssumption DEF IInv, TypeOK
    <2>3. PICK r : r = [reg[p] EXCEPT !.prio = prio]
      OBVIOUS
    <2>4. r \in Entry /\ r.cmds = reg[p].cmds /\ r.skills = reg[p].skills
      BY <2>2, <2>3 DEF Entry
    <2>5. Configure(p, r)
      BY <2>1, <2>3 DEF SetPriority
    <2> QED
      BY <2>4, <2>5, ConfigureKeeps
  <1>4. CASE \E p \in Preset, on \in BOOLEAN : SetEnabled(p, on)
    <2>1. PICK p \in Preset, on \in BOOLEAN : SetEnabled(p, on)
      BY <1>4
    <2>2. reg[p] \in Entry
      BY DEF IInv, TypeOK
    <2>3. PICK r : r = [reg[p] EXCEPT !.enabled = on]
      OBVIOUS
    <2>4. r \in Entry /\ r.cmds = reg[p].cmds /\ r.skills = reg[p].skills
      BY <2>2, <2>3 DEF Entry
    <2>5. Configure(p, r)
      BY <2>1, <2>3 DEF SetEnabled
    <2> QED
      BY <2>4, <2>5, ConfigureKeeps
  <1>5. CASE \E p \in Preset : Remove(p)
    BY <1>5, RemoveKeeps
  <1>6. CASE \E n \in Name : EditOverride(n)
    BY <1>6, EditOverrideKeeps
  <1>7. CASE \E s \in {"enabled", "disabled", "unregistered", "absent"} : ExtensionChanges(s)
    BY <1>7, ExtensionChangesKeeps
  <1>8. CASE Step
    BY <1>8, CopyKeeps, RegisterKeeps, CommandsKeeps, SkillsKeeps, ReconcileKeeps, ReskillKeeps,
       UnskillKeeps, UnregisterKeeps, RmtreeKeeps, UnregistryKeeps, DoneKeeps DEF Step
  <1>9. CASE Fail
    BY <1>9, FailKeeps
  <1>10. CASE Interrupt
    BY <1>10, InterruptKeeps
  <1> QED
    BY <1>1, <1>2, <1>3, <1>4, <1>5, <1>6, <1>7, <1>8, <1>9, <1>10 DEF Next

(* The invariant of the preset commands: the types, what the registry       *)
(* lists, where composed texts are kept, which skills exist, and what each  *)
(* step of preset_add and preset_remove has done.                           *)
THEOREM PresetsInvariant == Spec => []IInv
  BY InitHolds, NextKeeps, PTL DEF Spec

(* Whatever the order of installations and removals, the files and skills   *)
(* follow the priority stack: what _reconcile_composed_commands and         *)
(* _reconcile_skills are for.                                               *)
THEOREM StackDecidesFiles == Spec => []FilesFollowStack
  <1>1. IInv => FilesFollowStack
    <2>1. SUFFICES ASSUME IInv, cli = Idle, NEW n \in Name \ (stale \cup broken), NEW a \in Agent,
                          ~LeftOut(n), n \in ExtCommand => ext # "absent",
                          Content(n) = NoContent \/ n \in unskilled => a = CommandAgent
                   PROVE  files[<<a, n>>] = IF Content(n) = NoContent THEN NoFile ELSE Content(n)
      BY DEF FilesFollowStack
    <2>2. Busy = {}
      BY <2>1 DEF Busy, Running
    <2>3. Follows(n, a)
      BY <2>1, <2>2 DEF IInv, FollowOK
    <2>4. Here(n)
      BY <2>1 DEF Here
    <2> QED
      BY <2>1, <2>3, <2>4 DEF Follows, Right
  <1> QED
    BY <1>1, PresetsInvariant, PTL

(* resolve and collect_all_layers, which walk the sources by the names of   *)
(* the files and by the manifests, give the same layer in every state       *)
(* unless one of the layers they give has its file elsewhere than its name  *)
(* says.                                                                    *)
THEOREM WalksAlwaysAgree == Spec => []ResolversAgree
  <1>1. IInv => ResolversAgree
    <2>1. SUFFICES ASSUME IInv PROVE ResolversAgree
      OBVIOUS
    <2>2. \A p \in Preset : reg[p].prio \in Nat
      BY <2>1 DEF IInv, TypeOK, Entry
    <2> QED
      BY <2>2, WalksAgree DEF ResolversAgree, Layers
  <1> QED
    BY <1>1, PresetsInvariant, PTL

(* The bottom-up composition of resolve_content is what the strategies      *)
(* nest to, for every stack the commands can build.                         *)
THEOREM CompositionAlwaysNests == Spec => []CompositionNests
  <1>1. IInv => CompositionNests
    <2>1. SUFFICES ASSUME IInv, NEW n \in Name PROVE Content(n).body = Nested(Layers(n))
      BY DEF CompositionNests
    <2> QED
      BY <2>1, StackIs DEF IInv, ComposesTo
  <1> QED
    BY <1>1, PresetsInvariant, PTL
=============================================================================
