----------------------------- MODULE MCWorkflow -----------------------------
(* A small workflow with every kind of step: a do-while loop whose switch    *)
(* leads to an aborting gate or to a fan-in and a step of unknown type, and  *)
(* a fan-out over a shell step.                                              *)
EXTENDS WorkflowEngine, Expressions, TLC

CONSTANTS p1, p2

MCStep == {"w", "b", "i", "g", "u", "f", "t", "j"}
MCTop  == <<"w", "f">>
MCKind == "w" :> "do-while" @@ "b" :> "prompt" @@ "i" :> "switch"
          @@ "g" :> "gate" @@ "u" :> "unknown" @@ "f" :> "fan-out" @@ "t" :> "shell"
          @@ "j" :> "fan-in"
MCBody == [s \in MCStep |-> CASE s = "w" -> <<"i", "b">> [] s = "i" -> <<"g">>
                             [] s = "f" -> <<"t">> [] OTHER -> <<>>]
MCElse == [s \in MCStep |-> IF s = "i" THEN <<"j", "u">> ELSE <<>>]
MCCond == [s \in MCStep |-> IF s = "w" THEN <<"b", "==">> \o Q(GoWord)
                                        ELSE <<"input", "==">> \o Q(GoWord)]
\* The values of the run's names are strings of one word.
MCEvalCondition(e, ns) == EvaluateCondition(e, [n \in DOMAIN ns |-> Str(<<ns[n]>>)])
MCWaitFor == [s \in MCStep |-> "f"]
MCOnReject == [s \in MCStep |-> "abort"]
MCContinue == {"b", "g"}

\* Conditions mean what their words say.  This mentions no state: it is
\* evaluated once, in the initial state.
ConditionsAreLogic == starts = 0 => ConditionsMeanTheirLogic

MCSymmetry == Permutations({p1, p2})
=============================================================================
