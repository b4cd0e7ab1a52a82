--------------------------- MODULE WorkflowEngine ---------------------------
(***************************************************************************)
(* The Spec Kit workflow engine (workflows/engine.py, workflows/steps/* and *)
(* the workflow run/resume commands): CLI processes that execute one run,   *)
(* its state file, and the operator, the shells and the agents that answer  *)
(* the steps.  A process is a stack of _execute_steps calls; between two    *)
(* steps it can be interrupted (Ctrl-C) or killed, also in the middle of    *)
(* writing the state file.                                                  *)
(***************************************************************************)
EXTENDS Naturals, Sequences

CONSTANTS
  Proc,            \* CLI processes
  Step,            \* the ids of the definition's steps, nested ones included
  Top,             \* definition.steps: a sequence of step ids
  Kind,            \* [Step -> step type]
  Body,            \* [Step -> Seq(Step)]: then / matched case / steps / step
  Else,            \* [Step -> Seq(Step)]: else / default
  Cond,            \* [Step -> the condition of a branch or a loop]
  EvalCondition(_, _), \* evaluate_condition(condition, namespace)
  WaitFor,         \* [Step -> Step]: the step a fan-in collects
  Items,           \* how many items a fan-out finds
  MaxIter,         \* max_iterations of the loops
  OnReject,        \* [Step -> {"abort", "retry", "skip"}] (gates)
  ContinueOnError, \* steps with continue_on_error: true
  Given,           \* the --input values users give: "absent", "bad" or a value
  MaxStarts        \* bound: processes started on the run

Halted == {"paused", "failed", "aborted"}
Loop   == {"while", "do-while"}
Branch == {"if", "switch"}
Worker == {"shell", "prompt"}
Values == {"go", "stop"}

\* A step id of the definition is <<s>>; the engine names the n-th repetition
\* of s under parent p <<p, s, n>> (f"{step_id}:{base_id}:{n}").
NoResult == [status |-> "none", out |-> "none", list |-> <<>>]
Result(st, o) == [status |-> st, out |-> o, list |-> <<>>]
Get(res, id) == IF id \in DOMAIN res THEN res[id] ELSE NoResult
Put(res, id, r) == [i \in DOMAIN res \cup {id} |-> IF i = id THEN r ELSE res[i]]

\* Where the definition mentions a step; a fan-out's template gets generated ids.
Places ==
  {<<"top", "top", i, Top[i]>> : i \in DOMAIN Top}
  \cup UNION {{<<"body", s, i, Body[s][i]>> : i \in DOMAIN Body[s]} :
                s \in {t \in Step : Kind[t] # "fan-out"}}
  \cup UNION {{<<"else", s, i, Else[s][i]>> : i \in DOMAIN Else[s]} : s \in Step}

\* What validate_workflow accepts: at least one step, no step id twice, loops
\* with max_iterations >= 1, a fan-out with a template.
ValidateWorkflow ==
  /\ Top \in Seq(Step) /\ Top # <<>>
  /\ \A s \in Step : Body[s] \in Seq(Step) /\ Else[s] \in Seq(Step)
  /\ \A s \in Step : Kind[s] = "fan-out" => Len(Body[s]) = 1
  /\ \A a, b \in Places : a[4] = b[4] => a = b
  /\ MaxIter \in Nat \ {0} /\ Items \in Nat
ASSUME WorkflowIsValid == ValidateWorkflow

\* A definition is a YAML document: no step lies inside itself.
Inside(s) == {Body[s][i] : i \in DOMAIN Body[s]} \cup {Else[s][i] : i \in DOMAIN Else[s]}
ASSUME StepsNest == \A S \in SUBSET Step : S # {} => \E s \in S : Inside(s) \cap S = {}

VARIABLES
  disk,     \* state.json and inputs.json of the run
  proc,     \* [Proc -> the process: its RunState and its call stack]
  done,     \* history: top-level positions finished since the run was created
  starts    \* history: processes started

vars == <<disk, proc, done, starts>>

NoRun == [status |-> "none", index |-> 1, results |-> <<>>, input |-> "none"]
Torn  == [NoRun EXCEPT !.status = "torn"]
Idle  == [pc |-> "idle", status |-> "created", index |-> 1, input |-> "none",
          results |-> <<>>, stack |-> <<>>, tty |-> FALSE, aborted |-> FALSE,
          fresh |-> {}]   \* aborted, fresh: history, see the properties

Frame(kind, steps, owner, n) ==
  [kind |-> kind, steps |-> steps, i |-> 1, owner |-> owner, n |-> n]

TopFrame(k) == [Frame("top", Top, <<>>, 0) EXCEPT !.i = k]
Cur(P)      == P.stack[Len(P.stack)]
CurStep(P)  == Cur(P).steps[Cur(P).i]
IdIn(f)     == IF f.kind \in {"iter", "item"} THEN <<f.owner, f.steps[f.i], f.n>>
                                               ELSE <<f.steps[f.i]>>
Id(P)       == IdIn(Cur(P))
Pop(P)      == [P EXCEPT !.stack = SubSeq(@, 1, Len(@) - 1)]
Push(P, f)  == [P EXCEPT !.stack = Append(@, f), !.pc = "next"]

\* RunState.save: state.json, then inputs.json.
Saved(P) == [status |-> P.status, index |-> P.index, results |-> P.results,
             input |-> P.input]

\* The names a condition can mention: the input and the outputs of the steps
\* that have run, under their plain ids.
Namespace(P) == [n \in {"input"} \cup {s \in Step : <<s>> \in DOMAIN P.results} |->
                   IF n = "input" THEN P.input ELSE P.results[<<n>>].out]
Holds(s, P) == EvalCondition(Cond[s], Namespace(P))

\* _resolve_inputs and _coerce_input for one enum input with a default.
Resolve(given, default) == IF given = "absent" THEN default ELSE given
Resolves(v) == v \in Values

(***************************************************************************)
(* Starting a process.                                                     *)
(***************************************************************************)

\* execute() on a run id nobody is working on: a new one, or one given again
\* through SPECKIT_WORKFLOW_RUN_ID, which overwrites the earlier run.  A
\* rejected input raises before there is a state file.
Execute(p, given, tty) ==
  /\ \A q \in Proc : proc[q].pc = "idle"
  /\ starts < MaxStarts
  /\ Resolves(Resolve(given, "stop"))
  /\ LET P == [Idle EXCEPT !.pc = "next", !.status = "running", !.tty = tty,
                           !.input = Resolve(given, "stop"), !.stack = <<TopFrame(1)>>]
     IN  proc' = [proc EXCEPT ![p] = P] /\ disk' = Saved(P)
  /\ done' = {} /\ starts' = starts + 1

\* resume() reads a persisted paused or failed state; context.steps is
\* state.step_results, and the step it stopped at is executed again.
Resume(p, given, tty) ==
  /\ proc[p].pc = "idle" /\ starts < MaxStarts
  /\ disk.status \in {"paused", "failed"}
  /\ Resolves(Resolve(given, disk.input))
  /\ proc' = [proc EXCEPT ![p] =
       [Idle EXCEPT !.pc = "loaded", !.status = "running", !.tty = tty,
                    !.input = Resolve(given, disk.input),
                    !.index = disk.index, !.results = disk.results,
                    !.stack = <<TopFrame(disk.index)>>]]
  /\ starts' = starts + 1 /\ UNCHANGED <<disk, done>>

\* Only then it marks the run as running: two resumes can read the same state.
ResumeSaves(p) ==
  /\ proc[p].pc = "loaded"
  /\ proc' = [proc EXCEPT ![p].pc = "next"]
  /\ disk' = Saved(proc[p])
  /\ UNCHANGED <<done, starts>>

(***************************************************************************)
(* _execute_steps.                                                         *)
(***************************************************************************)

\* Variant of StepStart: the index already points at the next step.
StepStartAhead(p) ==
  LET P == proc[p]
      Q == [P EXCEPT !.pc = "run",
                     !.index = IF Cur(P).kind = "top" THEN Cur(P).i + 1 ELSE @]
  IN  /\ P.pc = "next" /\ Cur(P).i <= Len(Cur(P).steps)
      /\ proc' = [proc EXCEPT ![p] = Q] /\ disk' = Saved(Q)
      /\ UNCHANGED <<done, starts>>

\* The head of the loop: note the step (the index only at the top level) and
\* save; what completed before is persisted by this save.
StepStart(p) ==
  LET P == proc[p]
      Q == [P EXCEPT !.pc = "run",
                     !.index = IF Cur(P).kind = "top" THEN Cur(P).i ELSE @]
  IN  /\ P.pc = "next" /\ Cur(P).i <= Len(Cur(P).steps)
      /\ proc' = [proc EXCEPT ![p] = Q] /\ disk' = Saved(Q)
      /\ UNCHANGED <<done, starts>>

\* Variant of Advance: a repetition's result stays under its generated id only.
AdvanceWithoutAlias(P) ==
  LET f == Cur(P)
      s == f.steps[f.i]
  IN  [P EXCEPT !.pc = "next",
                !.fresh = IF f.kind = "item" THEN @
                          ELSE {c \in @ : c[1] # s} \cup {<<s, Get(P.results, IdIn(f)), IdIn(f)>>},
                !.stack[Len(P.stack)].i = f.i + 1]

\* The step of the innermost call and its nested steps are through: the loop
\* copies a repetition's result back to the plain id, and goes on.
Advance(P) ==
  LET f == Cur(P)
      s == f.steps[f.i]
      res == IF f.kind = "iter" /\ IdIn(f) \in DOMAIN P.results
             THEN Put(P.results, <<s>>, P.results[IdIn(f)]) ELSE P.results
  IN  [P EXCEPT !.results = res, !.pc = "next",
                !.fresh = IF f.kind = "item" THEN @
                          ELSE {c \in @ : c[1] # s} \cup {<<s, Get(P.results, IdIn(f)), IdIn(f)>>},
                !.stack[Len(P.stack)].i = f.i + 1]

Finished(P) == IF Cur(P).kind = "top" THEN {Cur(P).i} ELSE {}

Record(P, r) == [P EXCEPT !.results = Put(@, Id(P), r),
                          !.fresh = {c \in @ : c[1] # CurStep(P)}]
Halt(P, st)  == [P EXCEPT !.status = st, !.pc = "return"]

\* A step came back with result r and no nested steps.
Settle(P, r, aborted) ==
  LET Q == Record(P, r)
      s == CurStep(P)
  IN  CASE r.status = "paused" -> Halt(Q, "paused")
        [] r.status = "failed" /\ aborted -> [Halt(Q, "aborted") EXCEPT !.aborted = TRUE]
        [] r.status = "failed" /\ ~aborted /\ s \notin ContinueOnError -> Halt(Q, "failed")
        [] OTHER -> Advance(Q)

\* Pausing, failing, aborting and continue_on_error save; completing does not.
Settled(p, r, aborted) ==
  LET P == proc[p]
      Q == Settle(P, r, aborted)
  IN  /\ proc' = [proc EXCEPT ![p] = Q]
      /\ disk' = IF r.status = "completed" THEN disk ELSE Saved(Q)
      /\ done' = IF Q.pc = "next" THEN done \cup Finished(P) ELSE done
      /\ UNCHANGED starts

Running(p, kinds) == proc[p].pc = "run" /\ Kind[CurStep(proc[p])] \in kinds

\* A shell, command or prompt step: exit code 0 with some output, or a failure
\* (exit code, timeout, the agent's CLI missing, Ctrl-C in an agent).
Work(p, r) ==
  /\ Running(p, Worker)
  /\ Settled(p, r, FALSE)

\* A gate: without a terminal it pauses; the operator approves or rejects, and
\* Ctrl-C or end of input picks the last option, a rejection.
Gate(p, approve) ==
  /\ Running(p, {"gate"})
  /\ LET tty == proc[p].tty
         how == OnReject[CurStep(proc[p])]
     IN  IF tty /\ approve THEN Settled(p, Result("completed", "go"), FALSE)
         ELSE IF ~tty \/ how = "retry" THEN Settled(p, Result("paused", "stop"), FALSE)
         ELSE IF how = "abort" THEN Settled(p, Result("failed", "stop"), TRUE)
         ELSE Settled(p, Result("completed", "stop"), FALSE)

UnknownType(p) ==
  /\ Running(p, {"unknown"})
  /\ LET Q == Halt(proc[p], "failed")
     IN  proc' = [proc EXCEPT ![p] = Q] /\ disk' = Saved(Q)
  /\ UNCHANGED <<done, starts>>

\* if, switch, while, do-while: the step completes and hands over its nested
\* steps, which run in a call of their own.
Control(p) ==
  LET P == proc[p]
      s == CurStep(P)
      nested == CASE Kind[s] \in Branch -> IF Holds(s, P) THEN Body[s] ELSE Else[s]
                  [] Kind[s] = "while" -> IF Holds(s, P) THEN Body[s] ELSE <<>>
                  [] OTHER -> Body[s]
      Q == Record(P, Result("completed", IF Holds(s, P) THEN "go" ELSE "stop"))
  IN  /\ Running(p, Branch \cup Loop)
      /\ proc' = [proc EXCEPT ![p] = IF nested = <<>> THEN Advance(Q)
                                     ELSE Push(Q, Frame("body", nested, Id(P), 0))]
      /\ done' = IF nested = <<>> THEN done \cup Finished(P) ELSE done
      /\ UNCHANGED <<disk, starts>>

FanOut(p) ==
  LET P == proc[p]
      Q == Record(P, Result("completed", "go"))
  IN  /\ Running(p, {"fan-out"})
      /\ proc' = [proc EXCEPT ![p] =
                    IF Items = 0 THEN Advance(Q)
                    ELSE Push(Q, Frame("item", Body[CurStep(P)], Id(P), 1))]
      /\ done' = IF Items = 0 THEN done \cup Finished(P) ELSE done
      /\ UNCHANGED <<disk, starts>>

\* fan-in collects the outputs of the steps it names (here: its WaitFor).
FanIn(p) ==
  /\ Running(p, {"fan-in"})
  /\ LET r == Get(proc[p].results, <<WaitFor[CurStep(proc[p])]>>)
     IN  Settled(p, [Result("completed", r.out) EXCEPT !.list = r.list], FALSE)

\* A nested call is over, by its last step or by a halt.
Returned(P) == /\ Len(P.stack) > 1
               /\ P.pc = "return" \/ (P.pc = "next" /\ Cur(P).i > Len(Cur(P).steps))

\* Variant of StopsCaller: a nested abort does not stop the caller.
StopsCallerButAbort(P) == P.status \in {"paused", "failed"}

\* The caller's check after every nested call.
StopsCaller(P) == P.status \in Halted

\* Variant of BodyReturns: the loop does not count its repetitions.
BodyReturnsUncounted(p) ==
  LET P == proc[p]
      f == Cur(P)
      Q == Pop(P)
      s == CurStep(Q)
      again == Kind[s] \in Loop /\ Holds(s, P)
  IN  /\ Returned(P) /\ f.kind \in {"body", "iter"}
      /\ proc' = [proc EXCEPT ![p] =
                    IF StopsCaller(P) THEN [Q EXCEPT !.pc = "return"]
                    ELSE IF again THEN Push(Q, Frame("iter", f.steps, f.owner, 1))
                    ELSE Advance(Q)]
      /\ done' = IF ~StopsCaller(P) /\ ~again THEN done \cup Finished(Q) ELSE done
      /\ UNCHANGED <<disk, starts>>

\* if / switch / the first pass of a loop / one repetition of a loop returned.
BodyReturns(p) ==
  LET P == proc[p]
      f == Cur(P)
      Q == Pop(P)
      s == CurStep(Q)
      again == Kind[s] \in Loop /\ f.n + 1 < MaxIter /\ Holds(s, P)
  IN  /\ Returned(P) /\ f.kind \in {"body", "iter"}
      /\ proc' = [proc EXCEPT ![p] =
                    IF StopsCaller(P) THEN [Q EXCEPT !.pc = "return"]
                    ELSE IF again THEN Push(Q, Frame("iter", f.steps, f.owner, f.n + 1))
                    ELSE Advance(Q)]
      /\ done' = IF ~StopsCaller(P) /\ ~again THEN done \cup Finished(Q) ELSE done
      /\ UNCHANGED <<disk, starts>>

\* Variant of ItemReturns: the last item is not collected.
ItemReturnsShort(p) ==
  LET P == proc[p]
      f == Cur(P)
      Q == Pop(P)
      item == <<f.owner, f.steps[1], f.n>>
      more == f.n < Items
      R == IF more THEN [Q EXCEPT !.results[f.owner].list = Append(@, Get(P.results, item).out)]
           ELSE Q
  IN  /\ Returned(P) /\ f.kind = "item"
      /\ proc' = [proc EXCEPT ![p] =
                    IF StopsCaller(P) THEN [R EXCEPT !.pc = "return"]
                    ELSE IF more THEN Push(R, Frame("item", f.steps, f.owner, f.n + 1))
                    ELSE Advance(R)]
      /\ done' = IF ~StopsCaller(P) /\ ~more THEN done \cup Finished(Q) ELSE done
      /\ UNCHANGED <<disk, starts>>

\* One item of a fan-out returned: its output is collected, a halt breaks.
ItemReturns(p) ==
  LET P == proc[p]
      f == Cur(P)
      Q == Pop(P)
      item == <<f.owner, f.steps[1], f.n>>
      R == [Q EXCEPT !.results[f.owner].list = Append(@, Get(P.results, item).out)]
      more == f.n < Items
  IN  /\ Returned(P) /\ f.kind = "item"
      /\ proc' = [proc EXCEPT ![p] =
                    IF StopsCaller(P) THEN [R EXCEPT !.pc = "return"]
                    ELSE IF more THEN Push(R, Frame("item", f.steps, f.owner, f.n + 1))
                    ELSE Advance(R)]
      /\ done' = IF ~StopsCaller(P) /\ ~more THEN done \cup Finished(Q) ELSE done
      /\ UNCHANGED <<disk, starts>>

\* Variant of Finish: the run is reported completed whatever stopped it.
FinishUnchecked(p) ==
  LET P == proc[p]
      Q == [P EXCEPT !.status = "completed"]
  IN  /\ Len(P.stack) = 1
      /\ P.pc = "return" \/ (P.pc = "next" /\ Cur(P).i > Len(Top))
      /\ disk' = Saved(Q) /\ proc' = [proc EXCEPT ![p] = Idle]
      /\ UNCHANGED <<done, starts>>

\* The outermost call is over: running becomes completed, and the final save.
Finish(p) ==
  LET P == proc[p]
      Q == IF P.status = "running" THEN [P EXCEPT !.status = "completed"] ELSE P
  IN  /\ Len(P.stack) = 1
      /\ P.pc = "return" \/ (P.pc = "next" /\ Cur(P).i > Len(Top))
      /\ disk' = Saved(Q) /\ proc' = [proc EXCEPT ![p] = Idle]
      /\ UNCHANGED <<done, starts>>

(***************************************************************************)
(* Faults.                                                                 *)
(***************************************************************************)

\* KeyboardInterrupt leaves _execute_steps: the run is paused.  A gate and an
\* agent's step catch it themselves.
Interrupt(p) ==
  LET Q == [proc[p] EXCEPT !.status = "paused"]
  IN  /\ proc[p].pc \in {"next", "return"} \/ Running(p, {"shell"})
      /\ disk' = Saved(Q) /\ proc' = [proc EXCEPT ![p] = Idle]
      /\ UNCHANGED <<done, starts>>

\* A step raises (a filter in an expression, for one): the run has failed.
Raise(p) ==
  LET Q == [proc[p] EXCEPT !.status = "failed"]
  IN  /\ proc[p].pc = "run"
      /\ disk' = Saved(Q) /\ proc' = [proc EXCEPT ![p] = Idle]
      /\ UNCHANGED <<done, starts>>

\* The process dies; in the middle of save() it leaves a truncated state file.
Kill(p, inSave) ==
  /\ proc[p].pc # "idle"
  /\ proc' = [proc EXCEPT ![p] = Idle]
  /\ disk' = IF inSave THEN Torn ELSE disk
  /\ UNCHANGED <<done, starts>>

WorkResults == {Result("completed", v) : v \in Values} \cup {Result("failed", "none")}

Go(p) ==
  \/ ResumeSaves(p) \/ StepStart(p) \/ Control(p) \/ FanOut(p) \/ FanIn(p) \/ UnknownType(p)
  \/ \E r \in WorkResults : Work(p, r)
  \/ \E approve \in BOOLEAN : Gate(p, approve)
  \/ BodyReturns(p) \/ ItemReturns(p) \/ Finish(p)

Init == disk = NoRun /\ proc = [p \in Proc |-> Idle] /\ done = {} /\ starts = 0

Next == \E p \in Proc :
  \/ \E given \in Given, tty \in BOOLEAN : Execute(p, given, tty)
  \/ \E given \in Given, tty \in BOOLEAN : Resume(p, given, tty)
  \/ Go(p) \/ Interrupt(p) \/ Raise(p)
  \/ \E inSave \in BOOLEAN : Kill(p, inSave)

\* Weak fairness of Go(p), which is enabled exactly while p is not idle: a
\* process keeps being scheduled, and what its steps call comes back.
Spec == Init /\ [][Next]_vars /\ \A p \in Proc : []<>(proc[p].pc = "idle") \/ []<><<Go(p)>>_vars

(***************************************************************************)
(* Properties.                                                             *)
(***************************************************************************)

\* The position a run can be resumed from never lies beyond a top-level step
\* that has not finished with all its nested steps, whatever was interrupted,
\* killed, retried, or resumed by two processes at once (resume, engine.py).
NoStepSkipped ==
  disk.status \in {"running", "paused", "failed"} => 1..(disk.index - 1) \subseteq done

\* A run reported as completed has finished every top-level step.
CompletedIsWhole == disk.status = "completed" => done = DOMAIN Top

\* After the operator rejected a gate that aborts, the process executes no
\* further step, however deep in branches, loops and fan-outs the gate was and
\* whatever continue_on_error says on the way out.
AbortHalts == \A p \in Proc : proc[p].aborted => proc[p].pc = "return"

\* Between two steps, what a condition reads under a step's own id is the
\* latest result of that step in this process, also after the loop repeated it
\* under generated ids.
LatestVisible ==
  \A p \in Proc : proc[p].pc = "next" =>
    \A c \in proc[p].fresh : Get(proc[p].results, <<c[1]>>) = c[2]

\* A fan-out that the run went past has collected one output per item, in
\* order, and each is the output its item recorded, also when a loop repeated
\* the fan-out under a generated id.
FanOutWhole ==
  \A p \in Proc : \A c \in proc[p].fresh :
    (Kind[c[1]] = "fan-out" /\ proc[p].pc = "next") =>
       c[2].list = [n \in 1..Items |-> Get(proc[p].results, <<c[3], Body[c[1]][1], n>>).out]

\* Every process that keeps being scheduled, and whose shells, agents and
\* operator answer, comes to an end: loops stop at max_iterations.
Terminates == \A p \in Proc : proc[p].pc # "idle" ~> proc[p].pc = "idle"

=============================================================================
