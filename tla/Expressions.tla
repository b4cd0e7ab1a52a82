---------------------------- MODULE Expressions ----------------------------
(***************************************************************************)
(* The evaluator of {{ ... }} expressions (workflows/expressions.py).  It   *)
(* has no grammar: it splits the text at the first place of the first       *)
(* operator it finds, in a fixed order of operators, inside quotes as well. *)
(* A text is a sequence of words and signs; a quote is a sign of its own,   *)
(* next to the words it encloses, and the other words have spaces around.   *)
(***************************************************************************)
EXTENDS Naturals, Sequences, SequencesExt

Open  == "'("    \* the quote before a string
Close == ")'"    \* the quote after it
Q(words) == <<Open>> \o words \o <<Close>>

\* Values carry their type first; a string is its words, a list its values.
None    == <<"none">>
Bool(b) == <<"bool", b>>
Num(n)  == <<"num", n>>
Str(w)  == <<"str">> \o w
Numbers == "0" :> 0 @@ "1" :> 1 @@ "2" :> 2
Literals == "true" :> Bool(TRUE) @@ "false" :> Bool(FALSE) @@ "none" :> None
            @@ [w \in DOMAIN Numbers |-> Num(Numbers[w])]

\* bool(value)
Truthy(v) == v \notin {None, Bool(FALSE), Num(0), <<"str">>, <<"list">>}
\* Python's ==, where the Booleans are numbers.
Same(v, w) == v = w \/ {v, w} \in {{Num(0), Bool(FALSE)}, {Num(1), Bool(TRUE)}}
\* Python's in: the element of a list or a part of a string.
In(v, w) ==
  CASE w = None -> FALSE
    [] w[1] = "list" -> \E i \in 2..Len(w) : Same(v, w[i])
    [] w[1] = "str"  -> \E i \in 2..Len(w) + 1 : \E j \in 1..Len(w) : SubSeq(w, i, j) = Tail(v)

\* _safe_compare: a string is read as a number, and what is none compares as false.
AsNumber(v) ==
  CASE v[1] = "num" -> {v[2]}
    [] v[1] = "bool" -> {IF v[2] THEN 1 ELSE 0}
    [] v[1] = "str" /\ Len(v) = 2 -> {Numbers[w] : w \in {v[2]} \cap DOMAIN Numbers}
    [] OTHER -> {}
SafeCompare(v, w, op) ==
  \E m \in AsNumber(v), n \in AsNumber(w) :
    CASE op = ">"  -> m > n [] op = "<"  -> m < n [] op = ">=" -> m >= n [] op = "<=" -> m <= n

\* _resolve_dot_path and _build_namespace: an unknown name is None.
ResolveDotPath(e, ns) == IF Len(e) = 1 /\ e[1] \in DOMAIN ns THEN ns[e[1]] ELSE None

\* The places where the text has an operator; one that is a word has spaces around.
Words(op) == IF op = "not in" THEN <<"not", "in">> ELSE <<op>>
Spaced(e, i, n) == i > 1 /\ i + n <= Len(e) /\ e[i - 1] # Open /\ e[i + n] # Close
Occurrences(e, op) ==
  LET w == Words(op)
  IN  {i \in 1..Len(e) : /\ e[i] = w[1] /\ SubSeq(e, i, i + Len(w) - 1) = w
                         /\ op \in {"or", "and", "not in", "in"} => Spaced(e, i, Len(w))}
Has(e, op)    == Occurrences(e, op) # {}
Before(e, op) == SubSeq(e, 1, Min(Occurrences(e, op)) - 1)
After(e, op)  == SubSeq(e, Min(Occurrences(e, op)) + Len(Words(op)), Len(e))
FirstOf(ops, e) == ops[SelectInSeq(ops, LAMBDA op : Has(e, op))]

\* Variant of Booleans: conjunctions are split before disjunctions.
BooleansAndFirst == <<"and", "or">>

Booleans == <<"or", "and">>
Comparisons == <<"!=", "==", ">=", "<=", ">", "<", "not in", "in">>

Compare(v, op, w) ==
  CASE op = "==" -> Same(v, w) [] op = "!=" -> ~Same(v, w)
    [] op = "in" -> In(v, w)   [] op = "not in" -> ~In(v, w)
    [] OTHER -> SafeCompare(v, w, op)

RECURSIVE Split(_)
Split(e) == IF Has(e, ",") THEN <<Before(e, ",")>> \o Split(After(e, ",")) ELSE <<e>>

\* The filters default and contains; any other name leaves the value.
Filtered(v, filter, arg) ==
  CASE filter = "default" /\ v \in {None, <<"str">>} -> arg
    [] filter = "contains" -> Bool(v[1] \in {"str", "list"} /\ In(arg, v))
    [] OTHER -> v

RECURSIVE Evaluate(_, _)
\* _evaluate_simple_expression.  A text that starts and ends with a quote is a
\* string, whatever is in between; a filter applies to all of its left side.
Evaluate(e, ns) ==
  CASE e = <<>> -> None
    [] e # <<>> /\ e[1] = Open /\ Last(e) = Close -> Str(SubSeq(e, 2, Len(e) - 1))
    [] Has(e, "|") ->
         LET f == After(e, "|")
         IN  Filtered(Evaluate(Before(e, "|"), ns), f[1],
                      IF Len(f) > 3 THEN Evaluate(SubSeq(f, 3, Len(f) - 1), ns) ELSE <<"str">>)
    [] \E op \in ToSet(Booleans) : Has(e, op) ->
         LET op == FirstOf(Booleans, e)
             l  == Truthy(Evaluate(Before(e, op), ns))
             r  == Truthy(Evaluate(After(e, op), ns))
         IN  Bool(IF op = "or" THEN l \/ r ELSE l /\ r)
    [] Len(e) > 1 /\ e[1] = "not" -> Bool(~Truthy(Evaluate(Tail(e), ns)))
    [] \E op \in ToSet(Comparisons) : Has(e, op) ->
         LET op == FirstOf(Comparisons, e)
         IN  Bool(Compare(Evaluate(Before(e, op), ns), op, Evaluate(After(e, op), ns)))
    [] Len(e) = 1 /\ e[1] \in DOMAIN Literals -> Literals[e[1]]
    [] Len(e) > 1 /\ e[1] = "[" /\ Last(e) = "]" ->
         LET items == IF Len(e) = 2 THEN <<>> ELSE Split(SubSeq(e, 2, Len(e) - 1))
         IN  <<"list">> \o [i \in DOMAIN items |-> Evaluate(items[i], ns)]
    [] OTHER -> ResolveDotPath(e, ns)

\* evaluate_condition: the strings "true" and "false" count as Booleans.
EvaluateCondition(e, ns) ==
  LET v == Evaluate(e, ns)
  IN  v = Str(<<"true">>) \/ (v # Str(<<"false">>) /\ Truthy(v))

(***************************************************************************)
(* The reference: conditions in disjunctive form over atoms, and the text   *)
(* a workflow author writes for them.                                       *)
(***************************************************************************)
GoWord == <<"go">>
GoOn == <<"go", "on">>
Atom == << <<"a">>, <<"not", "b">>, <<"a", "<", "b">>, <<"a", "!=", "b">>,
           Q(GoWord) \o <<"==", "a">>,
           <<"not", "b", "==">> \o Q(GoOn),
           <<"a", "in", "[">> \o Q(GoWord) \o <<",", "b", "]">>,
           <<"b", "not", "in", "[">> \o Q(GoOn) \o <<",">> \o Q(GoWord) \o <<"]">> >>
Meaning(k, a, b) ==
  CASE k = 1 -> Truthy(a)
    [] k = 2 -> ~Truthy(b)
    [] k = 3 -> SafeCompare(a, b, "<")
    [] k = 4 -> ~Same(a, b)
    [] k = 5 -> a = Str(GoWord)
    [] k = 6 -> b # Str(GoOn)
    [] k = 7 -> a = Str(GoWord) \/ Same(a, b)
    [] k = 8 -> b # Str(GoOn) /\ b # Str(GoWord)

Joined(texts, op) == IF Len(texts) = 1 THEN texts[1] ELSE texts[1] \o <<op>> \o texts[2]
UpTo2(S) == {<<x>> : x \in S} \cup (S \X S)
Disjunct(c) == Joined([j \in DOMAIN c |-> Atom[c[j]]], "and")
Disjunction(cs) == Joined([i \in DOMAIN cs |-> Disjunct(cs[i])], "or")
InQuotes(e) == e[1] = Open /\ Last(e) = Close
Environments ==
  [a : {None, Num(0), Num(1), Str(GoWord)}, b : {None, Num(1), Str(GoWord), Str(GoOn)}]

\* Conditions in and, or, not, comparisons and in mean what their usual
\* precedences say (not over comparisons, and over not, or over and), although
\* the evaluator only searches the text for the words.  Claimed when neither the
\* text nor a side of its or begins and ends with a quote and no string holds the
\* word or sign of an operator: in the others the code unquotes or splits the
\* wrong text.
ConditionsMeanTheirLogic ==
  \A cs \in UpTo2(UpTo2(DOMAIN Atom)) :
    ~InQuotes(Disjunction(cs)) /\ (\A i \in DOMAIN cs : ~InQuotes(Disjunct(cs[i]))) =>
      \A ns \in Environments :
        Truthy(Evaluate(Disjunction(cs), ns))
          <=> \E i \in DOMAIN cs : \A j \in DOMAIN cs[i] : Meaning(cs[i][j], ns.a, ns.b)
=============================================================================
