------------------------ MODULE WorkflowEngineProofs ------------------------
(***************************************************************************)
(* Proofs about the workflow engine, for every valid definition (any        *)
(* nesting of branches, loops, fan-outs and gates), any number of processes *)
(* on the run, any number of items and repetitions.                         *)
(*                                                                         *)
(* The invariant describes the call stack of a process: which frames can    *)
(* lie on which, and what each says about the recorded results and about    *)
(* the top-level steps that are through.  Its parts take the process, the   *)
(* stack or the results as parameters, so that the lemmas are about the     *)
(* operators the actions are built from: Record, Advance, Push and Pop.     *)
(***************************************************************************)
EXTENDS WorkflowEngine, TLAPS

StepAt(f) == f.steps[f.i]

(* A stack is a finite sequence of frames, whatever the frames' ids are.    *)
IsStack(st) == Len(st) \in Nat /\ st \in Seq({st[k] : k \in 1..Len(st)})

FrameOK(f) ==
  /\ DOMAIN f = {"kind", "steps", "i", "owner", "n"}
  /\ f.kind \in {"top", "body", "iter", "item"}
  /\ f.steps \in Seq(Step)
  /\ f.i \in Nat \ {0} /\ f.n \in Nat

(* Frame g is a call the step of frame f made.                              *)
Calls(f, g) ==
  /\ f.i \in 1..Len(f.steps)
  /\ g.owner = IdIn(f)
  /\ g.kind # "top"
  /\ g.kind = "item" <=> Kind[StepAt(f)] = "fan-out"
  /\ g.kind = "item" => g.steps = Body[StepAt(f)]
  /\ g.steps \in {Body[StepAt(f)], Else[StepAt(f)]}

StackOK(st) ==
  /\ IsStack(st) /\ Len(st) > 0
  /\ st[1].kind = "top" /\ st[1].steps = Top
  /\ \A k \in 1..Len(st) : FrameOK(st[k])
  /\ \A k \in 2..Len(st) : Calls(st[k - 1], st[k])

(* Every recorded result is a step's record.                                *)
ResultsOK(res) == \A id \in DOMAIN res : DOMAIN res[id] = {"status", "out", "list"}

(* The first n items of fan-out s under id are in its list.                 *)
Collected(res, id, s, n) ==
  Get(res, id).list = [m \in 1..n |-> Get(res, <<id, Body[s][1], m>>).out]

(* A caller has recorded its own result; a fan-out has collected the items  *)
(* before the one that runs.                                                *)
CallersOK(st, res) ==
  /\ \A k \in 1..(Len(st) - 1) : IdIn(st[k]) \in DOMAIN res
  /\ \A k \in 2..Len(st) : st[k].kind = "item" =>
       st[k].n \in 1..Items /\ Collected(res, st[k].owner, StepAt(st[k - 1]), st[k].n - 1)

IsIdOf(id, s) == id = <<s>> \/ id = <<id[1], s, id[3]>>

(* The latest results are what the plain ids show; a step that still has a  *)
(* call open has none.                                                      *)
FreshOK(fresh, st, res) ==
  \A c \in fresh :
    /\ IsIdOf(c[3], c[1])
    /\ Get(res, <<c[1]>>) = c[2]
    /\ \A k \in 1..(Len(st) - 1) : c[1] # StepAt(st[k])
    /\ Kind[c[1]] = "fan-out" =>
         c[2].list = [n \in 1..Items |-> Get(res, <<c[3], Body[c[1]][1], n>>).out]

Fields == {"pc", "status", "index", "input", "results", "stack", "tty", "aborted", "fresh"}

(* A process that keeps running has status running; one that returns has    *)
(* been halted; only one that returns was aborted.                          *)
StatusOK(P) ==
  /\ P.pc \in {"idle", "loaded", "next", "run", "return"}
  /\ P.pc \in {"loaded", "next", "run"} => P.status = "running"
  /\ P.pc = "return" => P.status \in Halted
  /\ P.aborted => P.pc = "return"

(* Everything before the saved index, and before the position of the        *)
(* outermost call, is through.                                              *)
PositionOK(P, dn) ==
  /\ 1..(P.index - 1) \subseteq dn
  /\ 1..(P.stack[1].i - 1) \subseteq dn

ProcOK(P, dn) ==
  /\ DOMAIN P = Fields
  /\ StatusOK(P)
  /\ P.index \in Nat \ {0}
  /\ ResultsOK(P.results)
  /\ P.pc # "idle" =>
       /\ StackOK(P.stack)
       /\ P.pc = "run" => Cur(P).i <= Len(Cur(P).steps)
       /\ PositionOK(P, dn)
       /\ CallersOK(P.stack, P.results)
       /\ FreshOK(P.fresh, P.stack, P.results)

DiskOK(d, dn) ==
  /\ d.index \in Nat \ {0}
  /\ ResultsOK(d.results)
  /\ d.status \in {"running", "paused", "failed"} => 1..(d.index - 1) \subseteq dn
  /\ d.status = "completed" => dn = DOMAIN Top

IInv ==
  /\ DOMAIN proc = Proc
  /\ \A p \in Proc : ProcOK(proc[p], done)
  /\ DiskOK(disk, done)
  /\ done \subseteq DOMAIN Top

-----------------------------------------------------------------------------
(* A function from 1..n is a stack of n frames.                             *)
LEMMA AnyStack ==
  ASSUME NEW s, NEW n \in Nat, DOMAIN s = 1..n, s = [k \in 1..n |-> s[k]]
  PROVE  IsStack(s) /\ Len(s) = n
  <1> DEFINE S == {s[k] : k \in 1..n}
  <1>1. s \in [1..n -> S]
    OBVIOUS
  <1>2. s \in Seq(S)
    BY <1>1
  <1> HIDE DEF S
  <1>3. Len(s) = n
    BY <1>2
  <1> QED
    BY <1>2, <1>3 DEF IsStack, S

(* Stacks grow and shrink at their end.                                     *)
LEMMA StackPush ==
  ASSUME NEW st, IsStack(st), NEW g
  PROVE  /\ IsStack(Append(st, g))
         /\ Len(Append(st, g)) = Len(st) + 1
         /\ Append(st, g)[Len(st) + 1] = g
         /\ \A k \in 1..Len(st) : Append(st, g)[k] = st[k]
  <1> DEFINE S == {st[k] : k \in 1..Len(st)} \cup {g}
             new == Append(st, g)
  <1>1. st \in Seq(S) /\ Len(st) \in Nat
    BY DEF IsStack
  <1> HIDE DEF S
  <1>2. /\ new \in Seq(S) /\ Len(new) = Len(st) + 1 /\ new[Len(st) + 1] = g
        /\ \A k \in 1..Len(st) : new[k] = st[k]
    BY <1>1, g \in S DEF S
  <1> HIDE DEF new
  <1>3. DOMAIN new = 1..Len(new) /\ Len(new) \in Nat /\ new = [k \in 1..Len(new) |-> new[k]]
    BY <1>2
  <1> QED
    BY <1>2, <1>3, AnyStack DEF new

(* The innermost call is removed.                                           *)
LEMMA StackPop ==
  ASSUME NEW st, IsStack(st), Len(st) > 1
  PROVE  /\ IsStack(SubSeq(st, 1, Len(st) - 1))
         /\ Len(SubSeq(st, 1, Len(st) - 1)) = Len(st) - 1
         /\ \A k \in 1..(Len(st) - 1) : SubSeq(st, 1, Len(st) - 1)[k] = st[k]
  <1> DEFINE S == {st[k] : k \in 1..Len(st)}
             new == SubSeq(st, 1, Len(st) - 1)
  <1>1. st \in Seq(S) /\ Len(st) \in Nat
    BY DEF IsStack
  <1> HIDE DEF S
  <1>2. /\ new \in Seq(S) /\ Len(new) = Len(st) - 1
        /\ \A k \in 1..(Len(st) - 1) : new[k] = st[k]
    BY <1>1
  <1> HIDE DEF new
  <1>3. DOMAIN new = 1..Len(new) /\ Len(new) \in Nat /\ new = [k \in 1..Len(new) |-> new[k]]
    BY <1>2
  <1> QED
    BY <1>2, <1>3, AnyStack DEF new

(* The innermost call is at step i of its list.                             *)
Stepped(st, i) == [st EXCEPT ![Len(st)].i = i]
(* Moving the innermost call on changes its position and nothing else.      *)
LEMMA StackStep ==
  ASSUME NEW st, IsStack(st), Len(st) > 0, NEW i, NEW new, new = Stepped(st, i),
         DOMAIN st[Len(st)] = {"kind", "steps", "i", "owner", "n"}
  PROVE  /\ IsStack(new) /\ Len(new) = Len(st)
         /\ \A k \in 1..(Len(st) - 1) : new[k] = st[k]
         /\ DOMAIN new[Len(st)] = {"kind", "steps", "i", "owner", "n"}
         /\ new[Len(st)].i = i
         /\ new[Len(st)].kind = st[Len(st)].kind /\ new[Len(st)].steps = st[Len(st)].steps
         /\ new[Len(st)].owner = st[Len(st)].owner /\ new[Len(st)].n = st[Len(st)].n
  <1> DEFINE n == Len(st)
             g == [st[n] EXCEPT !.i = i]
  <1>1. n \in Nat \ {0} /\ DOMAIN st = 1..n
    BY DEF IsStack
  <1>2. /\ DOMAIN g = {"kind", "steps", "i", "owner", "n"} /\ g.i = i
        /\ g.kind = st[n].kind /\ g.steps = st[n].steps
        /\ g.owner = st[n].owner /\ g.n = st[n].n
    OBVIOUS
  <1>3. new = [st EXCEPT ![n] = g]
    BY DEF Stepped
  <1> HIDE DEF g, n
  <1>4. DOMAIN new = 1..n /\ new[n] = g /\ \A k \in 1..(n - 1) : new[k] = st[k]
    BY <1>1, <1>3
  <1>5. new = [k \in 1..n |-> new[k]]
    BY <1>1, <1>3
  <1>6. IsStack(new) /\ Len(new) = n
    BY <1>1, <1>4, <1>5, AnyStack
  <1> QED
    BY <1>2, <1>4, <1>6 DEF n
-----------------------------------------------------------------------------
(* The calls on a stack stay well formed when a step makes a call ...       *)
LEMMA PushStackOK ==
  ASSUME NEW st, StackOK(st), NEW g, FrameOK(g), Calls(st[Len(st)], g)
  PROVE  StackOK(Append(st, g))
  <1> DEFINE new == Append(st, g)
  <1>1. /\ IsStack(new) /\ Len(new) = Len(st) + 1 /\ new[Len(st) + 1] = g
        /\ \A k \in 1..Len(st) : new[k] = st[k]
    BY StackPush DEF StackOK
  <1>2. Len(st) \in Nat \ {0}
    BY DEF StackOK, IsStack
  <1> HIDE DEF new
  <1>3. \A k \in 1..Len(new) : FrameOK(new[k])
    BY <1>1, <1>2 DEF StackOK
  <1>4. ASSUME NEW k \in 2..Len(new) PROVE Calls(new[k - 1], new[k])
    <2>1. CASE k = Len(st) + 1
      BY <1>1, <1>2, <2>1
    <2>2. CASE k \in 2..Len(st)
      <3>1. new[k - 1] = st[k - 1] /\ new[k] = st[k]
        BY <1>1, <1>2, <2>2
      <3> QED
        BY <2>2, <3>1 DEF StackOK
    <2> QED
      BY <1>1, <1>2, <2>1, <2>2
  <1> QED
    BY <1>1, <1>2, <1>3, <1>4 DEF StackOK, new

(* ... when a call returns ...                                              *)
LEMMA PopStackOK ==
  ASSUME NEW st, StackOK(st), Len(st) > 1
  PROVE  StackOK(SubSeq(st, 1, Len(st) - 1))
  <1> DEFINE new == SubSeq(st, 1, Len(st) - 1)
  <1>1. IsStack(new) /\ Len(new) = Len(st) - 1 /\ \A k \in 1..(Len(st) - 1) : new[k] = st[k]
    BY StackPop DEF StackOK
  <1>2. Len(st) \in Nat
    BY DEF StackOK, IsStack
  <1> HIDE DEF new
  <1>3. \A k \in 1..Len(new) : FrameOK(new[k])
    BY <1>1, <1>2 DEF StackOK
  <1>4. \A k \in 2..Len(new) : Calls(new[k - 1], new[k])
    <2> SUFFICES ASSUME NEW k \in 2..Len(new) PROVE Calls(new[k - 1], new[k])
      OBVIOUS
    <2>1. new[k - 1] = st[k - 1] /\ new[k] = st[k] /\ k \in 2..Len(st)
      BY <1>1, <1>2
    <2> QED
      BY <2>1 DEF StackOK
  <1> QED
    BY <1>1, <1>2, <1>3, <1>4 DEF StackOK, new

(* ... and when a call goes on to its next step.                            *)
LEMMA StepStackOK ==
  ASSUME NEW st, StackOK(st)
  PROVE  StackOK(Stepped(st, st[Len(st)].i + 1))
  <1> DEFINE n == Len(st)
             i == st[n].i + 1
             new == Stepped(st, i)
  <1>1. n \in Nat \ {0} /\ FrameOK(st[n])
    BY DEF StackOK, IsStack
  <1>2. i \in Nat \ {0}
    BY <1>1 DEF FrameOK
  <1>3. /\ IsStack(new) /\ Len(new) = n /\ \A k \in 1..(n - 1) : new[k] = st[k]
        /\ DOMAIN new[n] = {"kind", "steps", "i", "owner", "n"} /\ new[n].i = i
        /\ new[n].kind = st[n].kind /\ new[n].steps = st[n].steps
        /\ new[n].owner = st[n].owner /\ new[n].n = st[n].n
    <2>1. IsStack(st) /\ Len(st) > 0 /\ DOMAIN st[Len(st)] = {"kind", "steps", "i", "owner", "n"}
      BY <1>1 DEF StackOK, FrameOK
    <2>2. new = Stepped(st, i)
      OBVIOUS
    <2> HIDE DEF i, new
    <2> QED
      BY <2>1, <2>2, StackStep
  <1> HIDE DEF new, i, n
  <1>4. \A k \in 1..n : FrameOK(new[k])
    <2>1. FrameOK(new[n])
      BY <1>1, <1>2, <1>3 DEF FrameOK
    <2> QED
      BY <1>1, <1>3, <2>1 DEF StackOK, n
  <1>5. \A k \in 2..n : Calls(new[k - 1], new[k])
    <2> SUFFICES ASSUME NEW k \in 2..n PROVE Calls(new[k - 1], new[k])
      OBVIOUS
    <2>1. Calls(st[k - 1], st[k])
      BY DEF StackOK, n
    <2>2. new[k - 1] = st[k - 1]
      BY <1>1, <1>3
    <2>3. new[k].kind = st[k].kind /\ new[k].steps = st[k].steps /\ new[k].owner = st[k].owner
      <3>1. CASE k = n
        BY <1>3, <3>1
      <3>2. CASE k \in 1..(n - 1)
        BY <1>3, <3>2
      <3> QED
        BY <1>1, <3>1, <3>2
    <2> QED
      BY <2>1, <2>2, <2>3 DEF Calls
  <1>6. new[1].kind = "top" /\ new[1].steps = Top
    BY <1>1, <1>3 DEF StackOK, n
  <1> QED
    BY <1>1, <1>3, <1>4, <1>5, <1>6 DEF StackOK, new, i, n

(* The steps that have a call open lie inside each other, and no step lies  *)
(* inside itself: they differ, and so do their ids.                         *)
LEMMA StepsDiffer ==
  ASSUME NEW st, StackOK(st), NEW j \in 1..Len(st), NEW k \in 1..Len(st), j < k,
         st[k].i \in 1..Len(st[k].steps)
  PROVE  StepAt(st[j]) # StepAt(st[k]) /\ IdIn(st[j]) # IdIn(st[k])
  <1> DEFINE S == {StepAt(st[m]) : m \in j..k}
  <1>0. Len(st) \in Nat
    BY DEF StackOK, IsStack
  <1>1. \A m \in j..k : FrameOK(st[m]) /\ st[m].i \in 1..Len(st[m].steps)
    <2> SUFFICES ASSUME NEW m \in j..k
                 PROVE  FrameOK(st[m]) /\ st[m].i \in 1..Len(st[m].steps)
      OBVIOUS
    <2>1. CASE m = k
      BY <2>1 DEF StackOK
    <2>2. CASE m # k
      <3>1. m + 1 \in 2..Len(st) /\ (m + 1) - 1 = m /\ m \in 1..Len(st)
        BY <1>0, <2>2
      <3> QED
        BY <3>1 DEF StackOK, Calls
    <2> QED
      BY <2>1, <2>2
  <1>2. \A m \in j..k : StepAt(st[m]) \in Step
    BY <1>1 DEF FrameOK, StepAt
  <1>3. \A m \in j..(k - 1) : StepAt(st[m + 1]) \in Inside(StepAt(st[m]))
    <2> SUFFICES ASSUME NEW m \in j..(k - 1)
                 PROVE  StepAt(st[m + 1]) \in Inside(StepAt(st[m]))
      OBVIOUS
    <2>1. m + 1 \in 2..Len(st) /\ (m + 1) - 1 = m /\ m + 1 \in j..k /\ m \in j..k
      BY <1>0
    <2> DEFINE s == StepAt(st[m])
               g == st[m + 1]
    <2>2. s \in Step /\ g.steps \in {Body[s], Else[s]} /\ g.i \in 1..Len(g.steps) /\ g.steps \in Seq(Step)
      BY <1>1, <1>2, <2>1 DEF StackOK, Calls, FrameOK
    <2>3. g.i \in DOMAIN g.steps
      BY <2>2
    <2> HIDE DEF s, g
    <2>4. g.steps[g.i] \in Inside(s)
      BY <2>2, <2>3 DEF Inside
    <2> QED
      BY <2>4 DEF s, g, StepAt
  <1>4. StepAt(st[j]) # StepAt(st[k])
    <2> SUFFICES ASSUME StepAt(st[j]) = StepAt(st[k]) PROVE FALSE
      OBVIOUS
    <2>1. S \in SUBSET Step /\ S # {}
      BY <1>0, <1>2
    <2>2. PICK s \in S : Inside(s) \cap S = {}
      BY <2>1, StepsNest
    <2>3. PICK m \in j..k : s = StepAt(st[m])
      BY <2>2
    <2>4. CASE m # k
      <3>1. m \in j..(k - 1) /\ m + 1 \in j..k
        BY <1>0, <2>4
      <3> QED
        BY <1>3, <2>2, <2>3, <3>1
    <2>5. CASE m = k
      <3>1. j \in j..(k - 1) /\ j + 1 \in j..k
        BY <1>0
      <3> QED
        BY <1>3, <2>2, <2>3, <2>5, <3>1
    <2> QED
      BY <2>4, <2>5
  <1> QED
    BY <1>4 DEF IdIn, StepAt

-----------------------------------------------------------------------------
(* A plain id is not a generated one, and an id tells its step.             *)
LEMMA PlainIds ==
  /\ \A o, s, n, r : <<o, s, n>> # <<r>>
  /\ \A f : IsIdOf(IdIn(f), StepAt(f))
  /\ \A f, s : IsIdOf(IdIn(f), s) => s = StepAt(f)
  <1>1. \A o, s, n, r : <<o, s, n>> # <<r>>
    <2> SUFFICES ASSUME NEW o, NEW s, NEW n, NEW r, <<o, s, n>> = <<r>> PROVE FALSE
      OBVIOUS
    <2>1. Len(<<o, s, n>>) = 3 /\ Len(<<r>>) = 1
      OBVIOUS
    <2> QED
      BY <2>1
  <1>2. ASSUME NEW f PROVE IsIdOf(IdIn(f), StepAt(f))
    BY DEF IsIdOf, IdIn, StepAt
  <1>3. ASSUME NEW f, NEW s, IsIdOf(IdIn(f), s) PROVE s = StepAt(f)
    <2>1. CASE f.kind \in {"iter", "item"}
      <3>1. IdIn(f) = <<f.owner, StepAt(f), f.n>>
        BY <2>1 DEF IdIn, StepAt
      <3> QED
        BY <1>1, <1>3, <3>1 DEF IsIdOf
    <2>2. CASE f.kind \notin {"iter", "item"}
      <3>1. IdIn(f) = <<StepAt(f)>>
        BY <2>2 DEF IdIn, StepAt
      <3> QED
        BY <1>1, <1>3, <3>1 DEF IsIdOf
    <2> QED
      BY <2>1, <2>2
  <1> QED
    BY <1>1, <1>2, <1>3

(* Only the entry of id may differ between two sets of results.             *)
Writes(res, new, id) ==
  \A i : i # id => Get(new, i) = Get(res, i) /\ (i \in DOMAIN new <=> i \in DOMAIN res)

(* Put writes one entry.                                                    *)
LEMMA PutWrites ==
  ASSUME NEW res, NEW id, NEW r
  PROVE  /\ Writes(res, Put(res, id, r), id)
         /\ Get(Put(res, id, r), id) = r
         /\ DOMAIN Put(res, id, r) = DOMAIN res \cup {id}
         /\ ResultsOK(res) /\ DOMAIN r = {"status", "out", "list"}
              => ResultsOK(Put(res, id, r))
  BY DEF Writes, Put, Get, ResultsOK

(* The ids the current step writes: its own, and its plain id.              *)
OwnId(st, id) == id \in {IdIn(st[Len(st)]), <<StepAt(st[Len(st)])>>}

(* What the current step writes is not what its callers rely on ...         *)
LEMMA CallersKept ==
  ASSUME NEW st, StackOK(st), st[Len(st)].i <= Len(st[Len(st)].steps),
         NEW res, NEW new, NEW id, Writes(res, new, id), OwnId(st, id), CallersOK(st, res)
  PROVE  CallersOK(st, new)
  <1> DEFINE n == Len(st)
  <1>1. n \in Nat \ {0} /\ FrameOK(st[n]) /\ st[n].i \in 1..Len(st[n].steps)
    BY DEF StackOK, IsStack, FrameOK
  <1>2. \A k \in 1..(n - 1) : IdIn(st[k]) # id /\ IdIn(st[k]) # IdIn(st[n])
    <2> SUFFICES ASSUME NEW k \in 1..(n - 1)
                 PROVE  IdIn(st[k]) # id /\ IdIn(st[k]) # IdIn(st[n])
      OBVIOUS
    <2>1. k \in 1..Len(st) /\ k < n /\ n \in 1..Len(st)
      BY <1>1
    <2>2. StepAt(st[k]) # StepAt(st[n]) /\ IdIn(st[k]) # IdIn(st[n])
      BY <1>1, <2>1, StepsDiffer
    <2> QED
      BY <2>2, PlainIds DEF OwnId, IsIdOf
  <1>3. \A k \in 1..(n - 1) : IdIn(st[k]) \in DOMAIN new
    BY <1>2 DEF CallersOK, Writes
  <1>4. ASSUME NEW k \in 2..n, st[k].kind = "item"
        PROVE  /\ st[k].n \in 1..Items
               /\ Collected(new, st[k].owner, StepAt(st[k - 1]), st[k].n - 1)
    <2> DEFINE o == st[k].owner
               t == Body[StepAt(st[k - 1])][1]
    <2>1. k - 1 \in 1..(n - 1) /\ o = IdIn(st[k - 1]) /\ st[k].n \in Nat
      BY <1>1 DEF StackOK, Calls, FrameOK
    <2>2. Get(new, o) = Get(res, o)
      BY <1>2, <2>1 DEF Writes
    <2>3. ASSUME NEW m \in 1..(st[k].n - 1) PROVE Get(new, <<o, t, m>>) = Get(res, <<o, t, m>>)
      <3>1. <<o, t, m>> # id
        <4> SUFFICES ASSUME <<o, t, m>> = IdIn(st[n]) PROVE FALSE
          BY PlainIds DEF OwnId
        <4>1. st[n].owner = o /\ st[n].n = m /\ st[n].kind \in {"iter", "item"}
          BY DEF IdIn
        <4>2. n - 1 \in 1..(n - 1) /\ st[n].owner = IdIn(st[n - 1])
          <5>1. n # 1
            BY <4>1 DEF StackOK
          <5> QED
            BY <1>1, <5>1 DEF StackOK, Calls
        <4>3. CASE k = n
          BY <2>1, <4>1, <4>3
        <4>4. CASE k # n
          <5>1. k - 1 \in 1..n /\ n - 1 \in 1..n /\ k - 1 < n - 1 /\ n \in 2..n
            BY <1>1, <4>4
          <5>2. st[n - 1].i \in 1..Len(st[n - 1].steps)
            BY <5>1 DEF StackOK, Calls
          <5> QED
            BY <2>1, <4>1, <4>2, <5>1, <5>2, StepsDiffer
        <4> QED
          BY <4>3, <4>4
      <3> QED
        BY <3>1 DEF Writes
    <2>4. st[k].n \in 1..Items /\ Collected(res, o, StepAt(st[k - 1]), st[k].n - 1)
      BY <1>4 DEF CallersOK
    <2> QED
      BY <2>2, <2>3, <2>4 DEF Collected
  <1> QED
    BY <1>3, <1>4 DEF CallersOK

(* ... nor what the other steps show as their latest results.               *)
LEMMA FreshKept ==
  ASSUME NEW st, StackOK(st), st[Len(st)].i <= Len(st[Len(st)].steps),
         NEW res, NEW new, NEW id, Writes(res, new, id), OwnId(st, id),
         NEW fresh, FreshOK(fresh, st, res),
         \A c \in fresh : c[1] # StepAt(st[Len(st)])
  PROVE  FreshOK(fresh, st, new)
  <1> DEFINE n == Len(st)
  <1>1. n \in Nat \ {0} /\ FrameOK(st[n])
    BY DEF StackOK, IsStack
  <1> SUFFICES ASSUME NEW c \in fresh
               PROVE  /\ Get(new, <<c[1]>>) = c[2]
                      /\ Kind[c[1]] = "fan-out" =>
                           c[2].list = [m \in 1..Items |-> Get(new, <<c[3], Body[c[1]][1], m>>).out]
    BY DEF FreshOK
  <1>2. <<c[1]>> # id
    BY PlainIds DEF OwnId, IsIdOf
  <1>3. ASSUME NEW m PROVE <<c[3], Body[c[1]][1], m>> # id
    <2> SUFFICES ASSUME <<c[3], Body[c[1]][1], m>> = IdIn(st[n]) PROVE FALSE
      BY PlainIds DEF OwnId
    <2>1. st[n].owner = c[3] /\ st[n].kind \in {"iter", "item"}
      BY DEF IdIn
    <2>2. n \in 2..n /\ n - 1 \in 1..(n - 1)
      <3>1. n # 1
        BY <2>1 DEF StackOK
      <3> HIDE DEF n
      <3> QED
        BY <1>1, <3>1
    <2>3. c[3] = IdIn(st[n - 1])
      BY <2>1, <2>2 DEF StackOK, Calls
    <2>4. c[1] = StepAt(st[n - 1])
      <3>1. IsIdOf(c[3], c[1])
        BY DEF FreshOK
      <3> QED
        BY <2>3, <3>1, PlainIds
    <2> QED
      BY <2>2, <2>4 DEF FreshOK
  <1>4. Get(new, <<c[1]>>) = c[2]
    BY <1>2 DEF Writes, FreshOK
  <1>5. \A m : Get(new, <<c[3], Body[c[1]][1], m>>) = Get(res, <<c[3], Body[c[1]][1], m>>)
    BY <1>3 DEF Writes
  <1> QED
    BY <1>4, <1>5 DEF FreshOK

-----------------------------------------------------------------------------
(* The current step has recorded its result and has no call open.           *)
Through(P, dn) ==
  /\ DOMAIN P = Fields
  /\ P.index \in Nat \ {0}
  /\ ResultsOK(P.results)
  /\ StackOK(P.stack)
  /\ Cur(P).i <= Len(Cur(P).steps)
  /\ PositionOK(P, dn)
  /\ CallersOK(P.stack, P.results)
  /\ FreshOK(P.fresh, P.stack, P.results)
  /\ Id(P) \in DOMAIN P.results
  /\ \A c \in P.fresh : c[1] # CurStep(P)

(* A step records its result ...                                            *)
LEMMA RecordThrough ==
  ASSUME NEW P, NEW dn, ProcOK(P, dn), P.pc = "run",
         NEW r, DOMAIN r = {"status", "out", "list"}
  PROVE  /\ Through(Record(P, r), dn)
         /\ Record(P, r).pc = P.pc /\ Record(P, r).status = P.status
         /\ Record(P, r).aborted = P.aborted /\ Record(P, r).stack = P.stack
         /\ Get(Record(P, r).results, Id(P)) = r
  <1> DEFINE Q == Record(P, r)
             res == Put(P.results, Id(P), r)
             fr == {c \in P.fresh : c[1] # CurStep(P)}
  <1>1. /\ DOMAIN P = Fields /\ StackOK(P.stack) /\ Cur(P).i <= Len(Cur(P).steps)
        /\ ResultsOK(P.results) /\ PositionOK(P, dn) /\ CallersOK(P.stack, P.results)
        /\ FreshOK(P.fresh, P.stack, P.results) /\ P.index \in Nat \ {0}
    BY DEF ProcOK
  <1>2. /\ DOMAIN Q = Fields /\ Q.results = res /\ Q.fresh = fr
        /\ Q.stack = P.stack /\ Q.index = P.index
        /\ Q.pc = P.pc /\ Q.status = P.status /\ Q.aborted = P.aborted
    BY <1>1 DEF Record, Fields
  <1>3. /\ Writes(P.results, res, Id(P)) /\ ResultsOK(res)
        /\ Get(res, Id(P)) = r /\ Id(P) \in DOMAIN res
    <2>1. DOMAIN res = DOMAIN P.results \cup {Id(P)}
      BY PutWrites
    <2>2. Writes(P.results, res, Id(P))
      BY PutWrites
    <2>3. Get(res, Id(P)) = r
      BY DEF Get, Put
    <2>4. ResultsOK(res)
      BY <1>1, PutWrites
    <2> HIDE DEF res
    <2> QED
      BY <2>1, <2>2, <2>3, <2>4
  <1> HIDE DEF Q, res
  <1>4. OwnId(P.stack, Id(P))
    BY DEF OwnId, Id, Cur
  <1>5. CallersOK(P.stack, res)
    BY <1>1, <1>3, <1>4, CallersKept DEF Cur
  <1>6. FreshOK(fr, P.stack, res)
    <2>1. FreshOK(fr, P.stack, P.results) /\ \A c \in fr : c[1] # StepAt(P.stack[Len(P.stack)])
      BY <1>1 DEF FreshOK, CurStep, Cur, StepAt
    <2> HIDE DEF fr
    <2> QED
      BY <1>1, <1>3, <1>4, <2>1, FreshKept DEF Cur
  <1>7. Cur(Q) = Cur(P) /\ Id(Q) = Id(P) /\ CurStep(Q) = CurStep(P) /\ PositionOK(Q, dn)
    BY <1>1, <1>2 DEF Cur, Id, CurStep, PositionOK
  <1>8. Through(Q, dn)
    BY <1>1, <1>2, <1>3, <1>5, <1>6, <1>7 DEF Through
  <1> QED
    BY <1>2, <1>3, <1>8 DEF Q

(* ... and its callers find it so when the calls below them return.         *)
LEMMA PopThrough ==
  ASSUME NEW P, NEW dn, ProcOK(P, dn), P.pc # "idle", Len(P.stack) > 1
  PROVE  /\ Through(Pop(P), dn)
         /\ Pop(P).pc = P.pc /\ Pop(P).status = P.status
         /\ Pop(P).aborted = P.aborted /\ Pop(P).results = P.results
         /\ Calls(Cur(Pop(P)), Cur(P)) /\ FrameOK(Cur(P))
         /\ Cur(P).kind = "item" =>
              /\ Cur(P).n \in 1..Items
              /\ Collected(P.results, Id(Pop(P)), CurStep(Pop(P)), Cur(P).n - 1)
  <1> DEFINE Q == Pop(P)
             st == P.stack
             n == Len(st)
             new == SubSeq(st, 1, n - 1)
  <1>1. /\ DOMAIN P = Fields /\ StackOK(st) /\ ResultsOK(P.results) /\ PositionOK(P, dn)
        /\ CallersOK(st, P.results) /\ FreshOK(P.fresh, st, P.results) /\ P.index \in Nat \ {0}
    BY DEF ProcOK
  <1>2. /\ DOMAIN Q = Fields /\ Q.stack = new /\ Q.results = P.results /\ Q.fresh = P.fresh
        /\ Q.index = P.index /\ Q.pc = P.pc /\ Q.status = P.status /\ Q.aborted = P.aborted
    BY <1>1 DEF Pop, Fields
  <1>3. StackOK(new) /\ Len(new) = n - 1 /\ \A k \in 1..(n - 1) : new[k] = st[k]
    BY <1>1, PopStackOK, StackPop DEF StackOK
  <1>4. n \in Nat /\ n > 1 /\ n - 1 \in 1..(n - 1) /\ n \in 2..n
    BY <1>1 DEF StackOK, IsStack
  <1> HIDE DEF new, Q, n
  <1>5. Cur(Q) = st[n - 1] /\ Cur(P) = st[n]
    BY <1>2, <1>3, <1>4 DEF Cur, n
  <1>6. Calls(st[n - 1], st[n]) /\ FrameOK(st[n])
    BY <1>1, <1>4 DEF StackOK, n
  <1>7. CallersOK(new, P.results)
    <2>1. \A k \in 1..(Len(new) - 1) : IdIn(new[k]) \in DOMAIN P.results
      BY <1>1, <1>3, <1>4 DEF CallersOK, n
    <2>2. ASSUME NEW k \in 2..Len(new), new[k].kind = "item"
          PROVE  /\ new[k].n \in 1..Items
                 /\ Collected(P.results, new[k].owner, StepAt(new[k - 1]), new[k].n - 1)
      <3>1. new[k] = st[k] /\ new[k - 1] = st[k - 1] /\ k \in 2..n
        BY <1>3, <1>4
      <3> QED
        BY <1>1, <2>2, <3>1 DEF CallersOK, n
    <2> QED
      BY <2>1, <2>2 DEF CallersOK
  <1>8. FreshOK(P.fresh, new, P.results)
    <2>1. \A k \in 1..(Len(new) - 1) : k \in 1..(n - 1) /\ new[k] = st[k]
      BY <1>3, <1>4
    <2>2. \A c \in P.fresh : \A k \in 1..(Len(new) - 1) : c[1] # StepAt(new[k])
      BY <1>1, <2>1 DEF FreshOK, n
    <2> QED
      BY <1>1, <2>2 DEF FreshOK
  <1>9. Id(Q) \in DOMAIN P.results /\ \A c \in P.fresh : c[1] # CurStep(Q)
    BY <1>1, <1>4, <1>5 DEF Id, CurStep, CallersOK, FreshOK, n, StepAt
  <1>10. PositionOK(Q, dn)
    BY <1>1, <1>2, <1>3, <1>4 DEF PositionOK
  <1>11. Cur(Q).i <= Len(Cur(Q).steps)
    <2>1. Cur(Q).i \in 1..Len(Cur(Q).steps) /\ FrameOK(Cur(Q))
      BY <1>1, <1>4, <1>5, <1>6 DEF Calls, StackOK, n
    <2> QED
      BY <2>1 DEF FrameOK
  <1>12. Through(Q, dn)
    BY <1>1, <1>2, <1>3, <1>7, <1>8, <1>9, <1>10, <1>11 DEF Through
  <1>13. st[n].kind = "item" => /\ st[n].n \in 1..Items
                                /\ Collected(P.results, Id(Q), CurStep(Q), st[n].n - 1)
    <2>1. st[n].owner = Id(Q) /\ StepAt(st[n - 1]) = CurStep(Q)
      BY <1>5, <1>6 DEF Calls, Id, CurStep, StepAt
    <2> QED
      BY <1>1, <1>4, <2>1 DEF CallersOK, n
  <1> QED
    BY <1>2, <1>5, <1>6, <1>12, <1>13 DEF Q

(* The step is through, and the call goes on to the next one.               *)
LEMMA AdvanceOK ==
  ASSUME NEW P, NEW dn, Through(P, dn), P.status = "running", ~ P.aborted,
         Kind[CurStep(P)] = "fan-out" => Collected(P.results, Id(P), CurStep(P), Items)
  PROVE  /\ ProcOK(Advance(P), dn \cup Finished(P))
         /\ Finished(P) \subseteq DOMAIN Top
         /\ Advance(P).pc = "next" /\ Advance(P).status = "running"
  <1> DEFINE st == P.stack
             n == Len(st)
             f == st[n]
             s == StepAt(f)
             id == IdIn(f)
             alias == f.kind = "iter" /\ id \in DOMAIN P.results
             res == IF alias THEN Put(P.results, <<s>>, P.results[id]) ELSE P.results
             old == {c \in P.fresh : c[1] # s}
             fr == IF f.kind = "item" THEN P.fresh ELSE old \cup {<<s, Get(P.results, id), id>>}
             new == Stepped(st, f.i + 1)
             Q == Advance(P)
  <1>1. /\ DOMAIN P = Fields /\ StackOK(st) /\ ResultsOK(P.results) /\ PositionOK(P, dn)
        /\ CallersOK(st, P.results) /\ FreshOK(P.fresh, st, P.results) /\ P.index \in Nat \ {0}
        /\ id \in DOMAIN P.results /\ f.i <= Len(f.steps) /\ \A c \in P.fresh : c[1] # s
    BY DEF Through, Cur, Id, CurStep, StepAt
  <1>2. /\ DOMAIN Q = Fields /\ Q.results = res /\ Q.fresh = fr /\ Q.stack = new
        /\ Q.index = P.index /\ Q.pc = "next" /\ Q.status = "running" /\ ~ Q.aborted
    BY <1>1 DEF Advance, Fields, Cur, Stepped, StepAt
  <1>3. /\ n \in Nat \ {0} /\ FrameOK(f)
        /\ Kind[s] = "fan-out" => Collected(P.results, id, s, Items)
    BY <1>1 DEF StackOK, IsStack, CurStep, Cur, Id, StepAt
  <1>4. /\ Len(new) = n /\ \A k \in 1..(n - 1) : new[k] = st[k]
        /\ new[n].i = f.i + 1 /\ new[n].kind = f.kind /\ new[n].owner = f.owner
        /\ new[n].n = f.n /\ StackOK(new)
    <2>1. IsStack(st) /\ n > 0 /\ DOMAIN f = {"kind", "steps", "i", "owner", "n"}
      BY <1>1, <1>3 DEF StackOK, FrameOK
    <2>2. StackOK(new)
      BY <1>1, StepStackOK
    <2> DEFINE j == f.i + 1
    <2>3. new = Stepped(st, j)
      OBVIOUS
    <2> HIDE DEF j, new
    <2>4. /\ Len(new) = n /\ \A k \in 1..(n - 1) : new[k] = st[k]
          /\ new[n].i = j /\ new[n].kind = f.kind /\ new[n].owner = f.owner /\ new[n].n = f.n
      BY <2>1, <2>3, StackStep
    <2> QED
      BY <2>2, <2>4 DEF j
  <1>5. /\ Writes(P.results, res, <<s>>) /\ ResultsOK(res)
        /\ ~ alias => res = P.results
        /\ alias => Get(res, <<s>>) = Get(P.results, id)
    <2>1. CASE alias
      <3> DEFINE r == P.results[id]
      <3>1. DOMAIN r = {"status", "out", "list"} /\ Get(P.results, id) = r
        BY <1>1 DEF ResultsOK, Get
      <3>2. res = Put(P.results, <<s>>, r)
        BY <2>1
      <3> HIDE DEF r, res, s
      <3>3. Writes(P.results, res, <<s>>)
        BY <3>2, PutWrites
      <3>4. Get(res, <<s>>) = r
        BY <3>2 DEF Get, Put
      <3>5. ResultsOK(res)
        BY <1>1, <3>1, <3>2, PutWrites
      <3> QED
        BY <2>1, <3>1, <3>3, <3>4, <3>5
    <2>2. CASE ~ alias
      BY <1>1, <2>2 DEF Writes
    <2> QED
      BY <2>1, <2>2
  <1>6. OwnId(st, <<s>>)
    BY DEF OwnId
  <1> HIDE DEF Q, new, res
  <1>7. CallersOK(st, res) /\ FreshOK(P.fresh, st, res)
    BY <1>1, <1>5, <1>6, CallersKept, FreshKept
  <1>8. CallersOK(new, res)
    <2>1. \A k \in 1..(Len(new) - 1) : IdIn(new[k]) \in DOMAIN res
      BY <1>3, <1>4, <1>7 DEF CallersOK
    <2>2. ASSUME NEW k \in 2..Len(new), new[k].kind = "item"
          PROVE  /\ new[k].n \in 1..Items
                 /\ Collected(res, new[k].owner, StepAt(new[k - 1]), new[k].n - 1)
      <3>1. /\ new[k].kind = st[k].kind /\ new[k].owner = st[k].owner /\ new[k].n = st[k].n
            /\ new[k - 1] = st[k - 1] /\ k \in 2..n
        <4>1. CASE k = n
          BY <1>3, <1>4, <4>1
        <4>2. CASE k # n
          BY <1>3, <1>4, <4>2
        <4> QED
          BY <4>1, <4>2
      <3> QED
        BY <1>7, <2>2, <3>1 DEF CallersOK
    <2> QED
      BY <2>1, <2>2 DEF CallersOK
  <1>9. FreshOK(fr, new, res)
    <2> DEFINE c0 == <<s, Get(P.results, id), id>>
    <2>1. FreshOK(P.fresh, new, res)
      <3>1. \A c \in P.fresh : \A k \in 1..(Len(new) - 1) : c[1] # StepAt(new[k])
        <4>1. \A k \in 1..(Len(new) - 1) : k \in 1..(n - 1) /\ new[k] = st[k]
          BY <1>3, <1>4
        <4> QED
          BY <1>7, <4>1 DEF FreshOK
      <3> QED
        BY <1>7, <3>1 DEF FreshOK
    <2>2. f.kind # "item" => /\ IsIdOf(id, s) /\ Get(res, <<s>>) = Get(P.results, id)
      <3>1. f.kind = "iter" => alias
        BY <1>1
      <3>2. f.kind \notin {"iter", "item"} => id = <<s>> /\ res = P.results
        BY <1>5 DEF IdIn, StepAt
      <3> QED
        BY <1>3, <1>5, <3>1, <3>2, PlainIds DEF FrameOK
    <2>3. \A k \in 1..(Len(new) - 1) : s # StepAt(new[k])
      <3> SUFFICES ASSUME NEW k \in 1..(n - 1) PROVE s # StepAt(st[k])
        BY <1>3, <1>4
      <3>1. k \in 1..n /\ n \in 1..n /\ k < n /\ f.i \in 1..Len(f.steps)
        BY <1>1, <1>3 DEF FrameOK
      <3> QED
        BY <1>1, <3>1, StepsDiffer
    <2>4. Kind[s] = "fan-out" =>
            Get(P.results, id).list = [m \in 1..Items |-> Get(res, <<id, Body[s][1], m>>).out]
      <3>1. \A m : Get(res, <<id, Body[s][1], m>>) = Get(P.results, <<id, Body[s][1], m>>)
        <4>1. \A m : <<id, Body[s][1], m>> # <<s>>
          BY PlainIds
        <4> QED
          BY <1>5, <4>1 DEF Writes
      <3> QED
        BY <1>3, <3>1 DEF Collected
    <2>5. f.kind # "item" => FreshOK({c0}, new, res)
      <3>1. c0[1] = s /\ c0[2] = Get(P.results, id) /\ c0[3] = id
        OBVIOUS
      <3> HIDE DEF c0, s, id
      <3> QED
        BY <2>2, <2>3, <2>4, <3>1 DEF FreshOK
    <2>6. fr \subseteq P.fresh \/ (f.kind # "item" /\ fr \subseteq P.fresh \cup {c0})
      OBVIOUS
    <2> HIDE DEF fr, c0
    <2> QED
      BY <2>1, <2>5, <2>6 DEF FreshOK
  <1>10. Finished(P) = IF n = 1 THEN {f.i} ELSE {}
    <2>1. n # 1 => f.kind # "top"
      <3>1. n # 1 => n \in 2..n
        <4> HIDE DEF n
        <4> QED
          BY <1>3
      <3> QED
        BY <1>1, <3>1 DEF StackOK, Calls
    <2>2. n = 1 => f.kind = "top"
      BY <1>1 DEF StackOK
    <2> QED
      BY <2>1, <2>2 DEF Finished, Cur
  <1>11. PositionOK(Q, dn \cup Finished(P))
    <2>1. CASE n = 1
      BY <1>1, <1>2, <1>3, <1>4, <1>10, <2>1 DEF PositionOK, FrameOK
    <2>2. CASE n # 1
      <3>1. new[1] = st[1]
        <4>1. 1 \in 1..(n - 1)
          <5> HIDE DEF n
          <5> QED
            BY <1>3, <2>2
        <4> QED
          BY <1>4, <4>1
      <3> QED
        BY <1>1, <1>2, <3>1 DEF PositionOK
    <2> QED
      BY <2>1, <2>2
  <1>12. Finished(P) \subseteq DOMAIN Top
    <2>1. n = 1 => f.steps = Top /\ f.i \in 1..Len(Top) /\ Top \in Seq(Step)
      BY <1>1, <1>3 DEF StackOK, FrameOK
    <2> QED
      BY <1>10, <2>1
  <1>13. ProcOK(Q, dn \cup Finished(P))
    BY <1>1, <1>2, <1>4, <1>5, <1>8, <1>9, <1>11 DEF ProcOK, StatusOK
  <1> QED
    BY <1>2, <1>12, <1>13 DEF Q

(* Q differs from P at most in its status and its point of control.         *)
Agrees(P, Q) ==
  /\ DOMAIN Q = Fields /\ Q.index = P.index /\ Q.results = P.results
  /\ Q.stack = P.stack /\ Q.fresh = P.fresh

(* The step stops the run ...                                               *)
LEMMA ReturnOK ==
  ASSUME NEW P, NEW dn, Through(P, dn), NEW Q, Agrees(P, Q),
         Q.pc = "return", Q.status \in Halted
  PROVE  ProcOK(Q, dn)
  BY DEF Agrees, Through, ProcOK, StatusOK, PositionOK

(* ... or calls _execute_steps for its nested steps.                        *)
LEMMA PushOK ==
  ASSUME NEW P, NEW dn, Through(P, dn), P.status = "running", ~ P.aborted,
         NEW g, FrameOK(g), Calls(Cur(P), g),
         g.kind = "item" => g.n \in 1..Items /\ Collected(P.results, Id(P), CurStep(P), g.n - 1)
  PROVE  ProcOK(Push(P, g), dn)
  <1> DEFINE st == P.stack
             n == Len(st)
             new == Append(st, g)
             Q == Push(P, g)
  <1>1. /\ DOMAIN P = Fields /\ StackOK(st) /\ ResultsOK(P.results) /\ PositionOK(P, dn)
        /\ CallersOK(st, P.results) /\ FreshOK(P.fresh, st, P.results) /\ P.index \in Nat \ {0}
        /\ IdIn(st[n]) \in DOMAIN P.results /\ \A c \in P.fresh : c[1] # StepAt(st[n])
    BY DEF Through, Cur, Id, CurStep, StepAt
  <1>2. /\ DOMAIN Q = Fields /\ Q.stack = new /\ Q.results = P.results /\ Q.fresh = P.fresh
        /\ Q.index = P.index /\ Q.pc = "next" /\ Q.status = "running" /\ ~ Q.aborted
    BY <1>1 DEF Push, Fields
  <1>3. StackOK(new)
    BY <1>1, PushStackOK DEF Cur
  <1>4. /\ Len(new) = n + 1 /\ new[n + 1] = g /\ n \in Nat \ {0}
        /\ \A k \in 1..n : new[k] = st[k]
    BY <1>1, StackPush DEF StackOK, IsStack
  <1> HIDE DEF Q, new, n
  <1>5. CallersOK(new, P.results)
    <2>1. ASSUME NEW k \in 1..(Len(new) - 1) PROVE IdIn(new[k]) \in DOMAIN P.results
      <3>1. k \in 1..n /\ new[k] = st[k] /\ (k = n \/ k \in 1..(n - 1))
        BY <1>4
      <3> QED
        BY <1>1, <3>1 DEF CallersOK, n
    <2>2. ASSUME NEW k \in 2..Len(new), new[k].kind = "item"
          PROVE  /\ new[k].n \in 1..Items
                 /\ Collected(P.results, new[k].owner, StepAt(new[k - 1]), new[k].n - 1)
      <3>1. CASE k = n + 1
        <4>1. new[k] = g /\ new[k - 1] = st[n]
          BY <1>4, <3>1
        <4>2. g.owner = Id(P) /\ StepAt(st[n]) = CurStep(P)
          BY DEF Calls, Id, Cur, CurStep, StepAt, n
        <4> QED
          BY <2>2, <4>1, <4>2
      <3>2. CASE k \in 2..n
        <4>1. new[k] = st[k] /\ new[k - 1] = st[k - 1]
          BY <1>4, <3>2
        <4> QED
          BY <1>1, <2>2, <3>2, <4>1 DEF CallersOK, n
      <3> QED
        BY <1>4, <3>1, <3>2
    <2> QED
      BY <2>1, <2>2 DEF CallersOK
  <1>6. FreshOK(P.fresh, new, P.results)
    <2>1. ASSUME NEW c \in P.fresh, NEW k \in 1..(Len(new) - 1) PROVE c[1] # StepAt(new[k])
      <3>1. new[k] = st[k] /\ (k = n \/ k \in 1..(n - 1))
        BY <1>4
      <3> QED
        BY <1>1, <3>1 DEF FreshOK, n
    <2> QED
      BY <1>1, <2>1 DEF FreshOK
  <1>7. PositionOK(Q, dn)
    <2>1. new[1] = st[1]
      BY <1>4
    <2> QED
      BY <1>1, <1>2, <2>1 DEF PositionOK
  <1>8. ProcOK(Q, dn)
    BY <1>1, <1>2, <1>3, <1>5, <1>6, <1>7 DEF ProcOK, StatusOK
  <1> QED
    BY <1>8 DEF Q

(* Only the outermost call is at the top level.                             *)
LEMMA TopIsFirst ==
  ASSUME NEW P, StackOK(P.stack)
  PROVE  /\ Len(P.stack) \in Nat \ {0} /\ 1 \in 1..Len(P.stack)
         /\ FrameOK(Cur(P))
         /\ Cur(P).kind = "top" <=> Len(P.stack) = 1
         /\ Cur(P).kind = "top" => Cur(P) = P.stack[1] /\ Cur(P).steps = Top
  <1> DEFINE n == Len(P.stack)
  <1>1. n \in Nat \ {0}
    BY DEF StackOK, IsStack
  <1>2. n # 1 => n \in 2..n
    <2> HIDE DEF n
    <2> QED
      BY <1>1
  <1>3. n # 1 => P.stack[n].kind # "top"
    BY <1>2 DEF StackOK, Calls
  <1> QED
    BY <1>1, <1>3 DEF StackOK, Cur

(* A process starts with one call, at a position all of whose predecessors  *)
(* are through.                                                             *)
LEMMA StartOK ==
  ASSUME NEW P, NEW dn, DOMAIN P = Fields, P.pc \in {"loaded", "next"}, P.status = "running",
         ~ P.aborted, P.index \in Nat \ {0}, ResultsOK(P.results), P.fresh = {},
         P.stack = <<TopFrame(P.index)>>, 1..(P.index - 1) \subseteq dn
  PROVE  ProcOK(P, dn)
  <1> DEFINE st == P.stack
             f == TopFrame(P.index)
  <1>0. st = <<f>>
    OBVIOUS
  <1>1. st[1] = f /\ Len(st) = 1
    <2> HIDE DEF f, st
    <2> QED
      BY <1>0
  <1>2. IsStack(st)
    <2> DEFINE S == {st[k] : k \in 1..Len(st)}
    <2>1. f \in S
      BY <1>1
    <2> HIDE DEF f, S, st
    <2>2. st \in Seq(S)
      BY <1>0, <2>1
    <2> QED
      BY <1>1, <2>2 DEF IsStack, S
  <1>3. FrameOK(f) /\ f.kind = "top" /\ f.steps = Top /\ f.i = P.index
    BY WorkflowIsValid DEF FrameOK, TopFrame, Frame, ValidateWorkflow
  <1> HIDE DEF f
  <1>4. StackOK(st)
    BY <1>1, <1>2, <1>3 DEF StackOK
  <1>5. CallersOK(st, P.results) /\ FreshOK(P.fresh, st, P.results)
    BY <1>1 DEF CallersOK, FreshOK
  <1> QED
    BY <1>1, <1>3, <1>4, <1>5 DEF ProcOK, StatusOK, PositionOK

(* More finished steps do no harm.                                          *)
LEMMA MoreDone ==
  ASSUME NEW P, NEW dn, ProcOK(P, dn), NEW more, dn \subseteq more
  PROVE  ProcOK(P, more)
  BY DEF ProcOK, PositionOK

(* Nor do they to what is saved.                                            *)
LEMMA MoreDoneOnDisk ==
  ASSUME NEW d, NEW dn, DiskOK(d, dn), NEW more, dn \subseteq more, more \subseteq DOMAIN Top
  PROVE  DiskOK(d, more)
  BY DEF DiskOK

(* What a process saves is good to resume from.                             *)
LEMMA SaveOK ==
  ASSUME NEW P, NEW dn, P.index \in Nat \ {0}, ResultsOK(P.results),
         1..(P.index - 1) \subseteq dn, P.status # "completed"
  PROVE  DiskOK(Saved(P), dn)
  BY DEF DiskOK, Saved

(* A process may save at any point.                                         *)
LEMMA SaveProcOK ==
  ASSUME NEW P, NEW dn, ProcOK(P, dn), P.pc # "idle"
  PROVE  DiskOK(Saved(P), dn)
  <1>1. P.status # "completed"
    BY DEF ProcOK, StatusOK, Halted
  <1> QED
    BY <1>1, SaveOK DEF ProcOK, PositionOK
-----------------------------------------------------------------------------
Moves(p, Q) == proc' = [proc EXCEPT ![p] = Q]

(* A step of one process: it finishes some top-level steps, and saves or    *)
(* not.                                                                     *)
LEMMA OneMoves ==
  ASSUME IInv, NEW p \in Proc, NEW Q, Moves(p, Q),
         done \subseteq done', done' \subseteq DOMAIN Top, ProcOK(Q, done'),
         disk' = disk \/ DiskOK(disk', done')
  PROVE  IInv'
  <1>1. DOMAIN proc' = Proc /\ proc'[p] = Q /\ \A q \in Proc \ {p} : proc'[q] = proc[q]
    BY DEF IInv, Moves
  <1>2. \A q \in Proc : ProcOK(proc'[q], done')
    <2>1. \A q \in Proc : ProcOK(proc[q], done')
      BY MoreDone DEF IInv
    <2> QED
      BY <1>1, <2>1
  <1>3. DiskOK(disk', done')
    BY MoreDoneOnDisk DEF IInv
  <1> QED
    BY <1>1, <1>2, <1>3 DEF IInv

(* A process that does not run satisfies the invariant.                     *)
LEMMA IdleOK == \A dn : ProcOK(Idle, dn)
  BY DEF ProcOK, Idle, StatusOK, ResultsOK, Fields

(* A process ends without going on: whatever it saved is good.              *)
LEMMA OneEnds ==
  ASSUME IInv, NEW p \in Proc, Moves(p, Idle), UNCHANGED done,
         disk' = disk \/ DiskOK(disk', done)
  PROVE  IInv'
  <1>1. done \subseteq done' /\ done' \subseteq DOMAIN Top
    BY DEF IInv
  <1>2. ProcOK(Idle, done')
    BY IdleOK
  <1>3. disk' = disk \/ DiskOK(disk', done')
    OBVIOUS
  <1> QED
    BY <1>1, <1>2, <1>3, OneMoves

(* A step that hands over nothing.                                          *)
LEMMA SettleOK ==
  ASSUME NEW P, NEW dn, ProcOK(P, dn), P.pc = "run", Kind[CurStep(P)] # "fan-out",
         NEW r, DOMAIN r = {"status", "out", "list"}, NEW a \in BOOLEAN,
         r.status \in {"completed", "failed", "paused"}
  PROVE  LET Q == Settle(P, r, a)
         IN  \/ Q.pc = "next" /\ Finished(P) \subseteq DOMAIN Top /\ ProcOK(Q, dn \cup Finished(P))
             \/ Q.pc = "return" /\ ProcOK(Q, dn)
  <1> DEFINE R == Record(P, r)
             Q == Settle(P, r, a)
  <1>1. /\ Through(R, dn) /\ R.pc = "run" /\ R.status = "running" /\ ~ R.aborted
        /\ R.stack = P.stack /\ DOMAIN R = Fields
    <2>1. P.status = "running" /\ ~ P.aborted
      BY DEF ProcOK, StatusOK
    <2>2. Through(R, dn) /\ R.pc = P.pc /\ R.status = P.status /\ R.aborted = P.aborted /\ R.stack = P.stack
      BY RecordThrough
    <2> HIDE DEF R
    <2> QED
      BY <2>1, <2>2 DEF Through
  <1>2. CurStep(R) = CurStep(P) /\ Finished(R) = Finished(P)
    <2> HIDE DEF R
    <2> QED
      BY <1>1 DEF CurStep, Cur, Finished
  <1>3. CASE Q = Advance(R)
    <2>1. ProcOK(Advance(R), dn \cup Finished(R)) /\ Finished(R) \subseteq DOMAIN Top
          /\ Advance(R).pc = "next"
      BY <1>1, <1>2, AdvanceOK
    <2> HIDE DEF Q, R
    <2> QED
      BY <1>2, <1>3, <2>1 DEF Q
  <1>4. CASE \E s \in Halted : Q = Halt(R, s) \/ Q = [Halt(R, s) EXCEPT !.aborted = TRUE]
    <2>1. PICK s \in Halted : Q = Halt(R, s) \/ Q = [Halt(R, s) EXCEPT !.aborted = TRUE]
      BY <1>4
    <2> HIDE DEF Q, R
    <2>2. Agrees(R, Q) /\ Q.pc = "return" /\ Q.status = s
      BY <1>1, <2>1 DEF Halt, Agrees, Fields
    <2> QED
      BY <1>1, <2>2, ReturnOK DEF Q
  <1>5. \/ Q = Halt(R, "paused") \/ Q = [Halt(R, "aborted") EXCEPT !.aborted = TRUE]
        \/ Q = Halt(R, "failed") \/ Q = Advance(R)
    BY DEF Settle
  <1> QED
    BY <1>3, <1>4, <1>5 DEF Halted

-----------------------------------------------------------------------------
(* A new run starts from nothing.                                           *)
LEMMA ExecuteIInv ==
  ASSUME IInv, NEW p \in Proc, NEW given, NEW tty, Execute(p, given, tty)
  PROVE  IInv'
  <1> DEFINE Q == [Idle EXCEPT !.pc = "next", !.status = "running", !.tty = tty,
                               !.input = Resolve(given, "stop"), !.stack = <<TopFrame(1)>>]
  <1>1. /\ proc' = [proc EXCEPT ![p] = Q] /\ disk' = Saved(Q) /\ done' = {}
        /\ \A q \in Proc : proc[q].pc = "idle"
    BY DEF Execute
  <1>2. /\ DOMAIN Q = Fields /\ Q.pc = "next" /\ Q.status = "running" /\ ~ Q.aborted
        /\ Q.index = 1 /\ Q.results = <<>> /\ Q.fresh = {} /\ Q.stack = <<TopFrame(1)>>
    BY DEF Idle, Fields
  <1> HIDE DEF Q
  <1>3. ProcOK(Q, {})
    BY <1>2, StartOK DEF ResultsOK
  <1>4. DOMAIN proc' = Proc /\ \A q \in Proc : ProcOK(proc'[q], {})
    <2>1. \A q \in Proc : ProcOK(proc[q], {})
      BY <1>1 DEF IInv, ProcOK
    <2> QED
      BY <1>1, <1>3, <2>1 DEF IInv
  <1>5. DiskOK(disk', {})
    BY <1>1, <1>2, <1>3, SaveProcOK
  <1> QED
    BY <1>1, <1>4, <1>5 DEF IInv

(* A resumed run starts from what was saved.                                *)
LEMMA ResumeIInv ==
  ASSUME IInv, NEW p \in Proc, NEW given, NEW tty, Resume(p, given, tty)
  PROVE  IInv'
  <1> DEFINE Q == [Idle EXCEPT !.pc = "loaded", !.status = "running", !.tty = tty,
                               !.input = Resolve(given, disk.input),
                               !.index = disk.index, !.results = disk.results,
                               !.stack = <<TopFrame(disk.index)>>]
  <1>1. Moves(p, Q) /\ UNCHANGED <<disk, done>> /\ disk.status \in {"paused", "failed"}
    BY DEF Resume, Moves
  <1>2. /\ DOMAIN Q = Fields /\ Q.pc = "loaded" /\ Q.status = "running" /\ ~ Q.aborted
        /\ Q.index = disk.index /\ Q.results = disk.results /\ Q.fresh = {}
        /\ Q.stack = <<TopFrame(disk.index)>>
    BY DEF Idle, Fields
  <1> HIDE DEF Q
  <1>3. ProcOK(Q, done)
    BY <1>1, <1>2, StartOK DEF IInv, DiskOK
  <1>4. done \subseteq done' /\ done' \subseteq DOMAIN Top /\ ProcOK(Q, done') /\ disk' = disk
    BY <1>1, <1>3 DEF IInv
  <1> QED
    BY <1>1, <1>4, OneMoves

(* Only the point of control moves, or the index catches up.                *)
LEMMA StepStartIInv ==
  ASSUME IInv, NEW p \in Proc, ResumeSaves(p) \/ StepStart(p)
  PROVE  IInv'
  <1> DEFINE P == proc[p]
  <1>1. ProcOK(P, done) /\ DOMAIN P = Fields
    BY DEF IInv, ProcOK
  <1>2. CASE ResumeSaves(p)
    <2> DEFINE Q == [P EXCEPT !.pc = "next"]
    <2>1. Moves(p, Q) /\ disk' = Saved(P) /\ UNCHANGED done /\ P.pc = "loaded"
      BY <1>2 DEF ResumeSaves, Moves, IInv
    <2>2. /\ DOMAIN Q = Fields /\ Q.pc = "next" /\ Q.status = P.status /\ Q.aborted = P.aborted
          /\ Q.index = P.index /\ Q.results = P.results /\ Q.stack = P.stack /\ Q.fresh = P.fresh
      BY <1>1 DEF Fields
    <2> HIDE DEF P, Q
    <2>3. ProcOK(Q, done)
      BY <1>1, <2>1, <2>2 DEF ProcOK, StatusOK, PositionOK
    <2>4. DiskOK(Saved(P), done)
      BY <1>1, <2>1, SaveProcOK
    <2>5. done \subseteq done' /\ done' \subseteq DOMAIN Top /\ ProcOK(Q, done') /\ DiskOK(disk', done')
      BY <2>1, <2>3, <2>4 DEF IInv
    <2> QED
      BY <2>1, <2>5, OneMoves
  <1>3. CASE StepStart(p)
    <2> DEFINE i == IF Cur(P).kind = "top" THEN Cur(P).i ELSE P.index
               Q == [P EXCEPT !.pc = "run", !.index = i]
    <2>1. /\ Moves(p, Q) /\ disk' = Saved(Q) /\ UNCHANGED done
          /\ P.pc = "next" /\ Cur(P).i <= Len(Cur(P).steps)
      BY <1>1, <1>3 DEF StepStart, Moves, Fields
    <2>2. /\ DOMAIN Q = Fields /\ Q.pc = "run" /\ Q.status = P.status /\ Q.aborted = P.aborted
          /\ Q.index = i /\ Q.results = P.results /\ Q.stack = P.stack /\ Q.fresh = P.fresh
      BY <1>1 DEF Fields
    <2>3. i \in Nat \ {0} /\ 1..(i - 1) \subseteq done
      <3>1. CASE Cur(P).kind = "top"
        BY <1>1, <2>1, <3>1, TopIsFirst DEF ProcOK, PositionOK, StackOK, FrameOK
      <3>2. CASE Cur(P).kind # "top"
        BY <1>1, <2>1, <3>2 DEF ProcOK, PositionOK
      <3> QED
        BY <3>1, <3>2
    <2> HIDE DEF P, Q, i
    <2>4. ProcOK(Q, done)
      BY <1>1, <2>1, <2>2, <2>3 DEF ProcOK, StatusOK, PositionOK, Cur
    <2>5. DiskOK(Saved(Q), done)
      BY <2>2, <2>4, SaveProcOK
    <2>6. done \subseteq done' /\ done' \subseteq DOMAIN Top /\ ProcOK(Q, done') /\ DiskOK(disk', done')
      BY <2>1, <2>4, <2>5 DEF IInv
    <2> QED
      BY <2>1, <2>6, OneMoves
  <1> QED
    BY <1>2, <1>3

(* A step that hands over nothing: Work, Gate and FanIn end like this.      *)
LEMMA SettledIInv ==
  ASSUME IInv, NEW p \in Proc, proc[p].pc = "run", Kind[CurStep(proc[p])] # "fan-out",
         NEW r, DOMAIN r = {"status", "out", "list"}, NEW a \in BOOLEAN,
         r.status \in {"completed", "failed", "paused"}, Settled(p, r, a)
  PROVE  IInv'
  <1> DEFINE P == proc[p]
             Q == Settle(P, r, a)
  <1>1. ProcOK(P, done)
    BY DEF IInv
  <1>2. /\ Moves(p, Q)
        /\ disk' = disk \/ disk' = Saved(Q)
        /\ done' = IF Q.pc = "next" THEN done \cup Finished(P) ELSE done
    BY DEF Settled, Moves
  <1>3. \/ Q.pc = "next" /\ Finished(P) \subseteq DOMAIN Top /\ ProcOK(Q, done \cup Finished(P))
        \/ Q.pc = "return" /\ ProcOK(Q, done)
    BY <1>1, SettleOK
  <1> HIDE DEF P, Q
  <1>4. /\ ProcOK(Q, done') /\ Q.pc # "idle"
        /\ done \subseteq done' /\ done' \subseteq DOMAIN Top
    BY <1>2, <1>3 DEF IInv
  <1>5. disk' = disk \/ DiskOK(disk', done')
    BY <1>2, <1>4, SaveProcOK
  <1> QED
    BY <1>2, <1>4, <1>5, OneMoves

(* A shell, an agent, a gate and a fan-in answer.                           *)
LEMMA StepIInv ==
  ASSUME IInv, NEW p \in Proc,
         \/ \E r \in WorkResults : Work(p, r)
         \/ \E approve \in BOOLEAN : Gate(p, approve)
         \/ FanIn(p)
  PROVE  IInv'
  <1>1. \A st, o : /\ DOMAIN Result(st, o) = {"status", "out", "list"}
                   /\ Result(st, o).status = st
    BY DEF Result
  <1>2. ASSUME NEW r \in WorkResults, Work(p, r) PROVE IInv'
    <2>1. DOMAIN r = {"status", "out", "list"} /\ r.status \in {"completed", "failed", "paused"}
      BY <1>1, <1>2 DEF WorkResults
    <2>2. Settled(p, r, FALSE) /\ proc[p].pc = "run" /\ Kind[CurStep(proc[p])] # "fan-out"
      BY <1>2 DEF Work, Running, Worker
    <2> QED
      BY <2>1, <2>2, SettledIInv
  <1>3. ASSUME NEW approve \in BOOLEAN, Gate(p, approve) PROVE IInv'
    <2>1. proc[p].pc = "run" /\ Kind[CurStep(proc[p])] # "fan-out"
      BY <1>3 DEF Gate, Running
    <2>2. \/ Settled(p, Result("completed", "go"), FALSE)
          \/ Settled(p, Result("paused", "stop"), FALSE)
          \/ Settled(p, Result("failed", "stop"), TRUE)
          \/ Settled(p, Result("completed", "stop"), FALSE)
      BY <1>3 DEF Gate
    <2> QED
      BY <1>1, <2>1, <2>2, SettledIInv
  <1>4. ASSUME FanIn(p) PROVE IInv'
    <2> DEFINE got == Get(proc[p].results, <<WaitFor[CurStep(proc[p])]>>)
               r == [Result("completed", got.out) EXCEPT !.list = got.list]
    <2>1. Settled(p, r, FALSE) /\ proc[p].pc = "run" /\ Kind[CurStep(proc[p])] # "fan-out"
      BY <1>4 DEF FanIn, Running
    <2>2. DOMAIN r = {"status", "out", "list"} /\ r.status = "completed"
      BY DEF Result
    <2> HIDE DEF r
    <2> QED
      BY <2>1, <2>2, SettledIInv
  <1> QED
    BY <1>2, <1>3, <1>4

(* A step of unknown type fails the run.                                    *)
LEMMA UnknownTypeIInv ==
  ASSUME IInv, NEW p \in Proc, UnknownType(p)
  PROVE  IInv'
  <1> DEFINE P == proc[p]
             Q == Halt(P, "failed")
  <1>1. Moves(p, Q) /\ disk' = Saved(Q) /\ UNCHANGED done /\ P.pc = "run" /\ ProcOK(P, done)
    BY DEF UnknownType, Moves, Running, IInv
  <1>2. Agrees(P, Q) /\ Q.pc = "return" /\ Q.status = "failed"
    BY <1>1 DEF Halt, Agrees, ProcOK, Fields
  <1> HIDE DEF P, Q
  <1>3. ProcOK(Q, done)
    BY <1>1, <1>2 DEF Agrees, ProcOK, StatusOK, PositionOK, Halted
  <1>4. DiskOK(disk', done)
    BY <1>1, <1>2, <1>3, SaveProcOK
  <1>5. done \subseteq done' /\ done' \subseteq DOMAIN Top /\ ProcOK(Q, done') /\ DiskOK(disk', done')
    BY <1>1, <1>3, <1>4 DEF IInv
  <1> QED
    BY <1>1, <1>5, OneMoves

(* A step that hands over nested steps, or none.                            *)
LEMMA ControlIInv ==
  ASSUME IInv, NEW p \in Proc, Control(p)
  PROVE  IInv'
  <1> DEFINE P == proc[p]
             s == CurStep(P)
             r == Result("completed", IF Holds(s, P) THEN "go" ELSE "stop")
             Q == Record(P, r)
             nested == CASE Kind[s] \in Branch -> IF Holds(s, P) THEN Body[s] ELSE Else[s]
                         [] Kind[s] = "while" -> IF Holds(s, P) THEN Body[s] ELSE <<>>
                         [] OTHER -> Body[s]
             g == Frame("body", nested, Id(P), 0)
  <1>1. P.pc = "run" /\ Kind[s] # "fan-out" /\ disk' = disk /\ ProcOK(P, done)
    BY DEF Control, Running, Branch, Loop, IInv
  <1>2. /\ nested \in {Body[s], Else[s], <<>>}
        /\ Moves(p, IF nested = <<>> THEN Advance(Q) ELSE Push(Q, g))
        /\ done' = IF nested = <<>> THEN done \cup Finished(P) ELSE done
    BY DEF Control, Moves, Branch
  <1>3. /\ Through(Q, done) /\ Q.status = "running" /\ ~ Q.aborted /\ Q.stack = P.stack
    <2>1. DOMAIN r = {"status", "out", "list"}
      BY DEF Result
    <2>2. P.status = "running" /\ ~ P.aborted
      BY <1>1 DEF ProcOK, StatusOK
    <2> HIDE DEF r
    <2>3. Through(Q, done) /\ Q.status = P.status /\ Q.aborted = P.aborted /\ Q.stack = P.stack
      BY <1>1, <2>1, RecordThrough
    <2> QED
      BY <2>2, <2>3
  <1> HIDE DEF Q, nested
  <1>4. Cur(Q) = Cur(P) /\ CurStep(Q) = s /\ Finished(Q) = Finished(P) /\ Id(Q) = Id(P)
    BY <1>3 DEF Cur, CurStep, Finished, Id
  <1>5. CASE nested = <<>>
    <2>1. ProcOK(Advance(Q), done \cup Finished(Q)) /\ Finished(Q) \subseteq DOMAIN Top
      BY <1>1, <1>3, <1>4, AdvanceOK
    <2>2. Moves(p, Advance(Q)) /\ done' = done \cup Finished(Q)
      BY <1>2, <1>4, <1>5
    <2>3. done \subseteq done' /\ done' \subseteq DOMAIN Top /\ ProcOK(Advance(Q), done')
      BY <2>1, <2>2 DEF IInv
    <2> QED
      BY <1>1, <2>2, <2>3, OneMoves
  <1>6. CASE nested # <<>>
    <2>1. /\ FrameOK(Cur(P)) /\ Cur(P).i \in 1..Len(Cur(P).steps) /\ s \in Step
      BY <1>1, TopIsFirst DEF ProcOK, FrameOK, CurStep
    <2>2. nested \in Seq(Step) /\ nested \in {Body[s], Else[s]}
      BY <1>2, <1>6, <2>1, WorkflowIsValid DEF ValidateWorkflow
    <2>3. FrameOK(g) /\ Calls(Cur(Q), g) /\ g.kind = "body"
      BY <1>1, <1>4, <2>1, <2>2 DEF FrameOK, Calls, Frame, Id, CurStep, StepAt
    <2>4. Moves(p, Push(Q, g)) /\ done' = done
      BY <1>2, <1>6
    <2> HIDE DEF g
    <2>5. ProcOK(Push(Q, g), done)
      BY <1>3, <2>3, PushOK
    <2>6. done \subseteq done' /\ done' \subseteq DOMAIN Top /\ ProcOK(Push(Q, g), done')
      BY <2>4, <2>5 DEF IInv
    <2> QED
      BY <1>1, <2>4, <2>6, OneMoves
  <1> QED
    BY <1>5, <1>6

(* A fan-out starts with its first item, or is through at once.             *)
LEMMA FanOutIInv ==
  ASSUME IInv, NEW p \in Proc, FanOut(p)
  PROVE  IInv'
  <1> DEFINE P == proc[p]
             s == CurStep(P)
             r == Result("completed", "go")
             Q == Record(P, r)
             g == Frame("item", Body[s], Id(P), 1)
  <1>1. /\ P.pc = "run" /\ Kind[s] = "fan-out" /\ disk' = disk /\ ProcOK(P, done)
        /\ Moves(p, IF Items = 0 THEN Advance(Q) ELSE Push(Q, g))
        /\ done' = IF Items = 0 THEN done \cup Finished(P) ELSE done
    BY DEF FanOut, Running, IInv, Moves
  <1>2. /\ Through(Q, done) /\ Q.status = "running" /\ ~ Q.aborted /\ Q.stack = P.stack
        /\ Get(Q.results, Id(P)).list = <<>>
    <2>1. DOMAIN r = {"status", "out", "list"} /\ r.list = <<>>
      BY DEF Result
    <2>2. P.status = "running" /\ ~ P.aborted
      BY <1>1 DEF ProcOK, StatusOK
    <2> HIDE DEF r
    <2>3. /\ Through(Q, done) /\ Q.status = P.status /\ Q.aborted = P.aborted /\ Q.stack = P.stack
          /\ Get(Q.results, Id(P)) = r
      BY <1>1, <2>1, RecordThrough
    <2> QED
      BY <2>1, <2>2, <2>3
  <1> HIDE DEF Q
  <1>3. Cur(Q) = Cur(P) /\ CurStep(Q) = s /\ Finished(Q) = Finished(P) /\ Id(Q) = Id(P)
    BY <1>2 DEF Cur, CurStep, Finished, Id
  <1>4. Collected(Q.results, Id(Q), s, 0)
    BY <1>2, <1>3 DEF Collected
  <1>5. CASE Items = 0
    <2>1. ProcOK(Advance(Q), done \cup Finished(Q)) /\ Finished(Q) \subseteq DOMAIN Top
      BY <1>2, <1>3, <1>4, <1>5, AdvanceOK
    <2>2. Moves(p, Advance(Q)) /\ done' = done \cup Finished(Q)
      BY <1>1, <1>3, <1>5
    <2>3. done \subseteq done' /\ done' \subseteq DOMAIN Top /\ ProcOK(Advance(Q), done')
      BY <2>1, <2>2 DEF IInv
    <2> QED
      BY <1>1, <2>2, <2>3, OneMoves
  <1>6. CASE Items # 0
    <2>1. /\ FrameOK(Cur(P)) /\ Cur(P).i \in 1..Len(Cur(P).steps) /\ s \in Step
      BY <1>1, TopIsFirst DEF ProcOK, FrameOK, CurStep
    <2>2. Body[s] \in Seq(Step) /\ Items \in Nat \ {0}
      BY <1>6, <2>1, WorkflowIsValid DEF ValidateWorkflow
    <2>3. FrameOK(g) /\ Calls(Cur(Q), g) /\ g.kind = "item" /\ g.n = 1
      BY <1>1, <1>3, <2>1, <2>2 DEF FrameOK, Calls, Frame, Id, CurStep, StepAt
    <2>4. Moves(p, Push(Q, g)) /\ done' = done
      BY <1>1, <1>6
    <2> HIDE DEF g
    <2>5. g.n \in 1..Items /\ Collected(Q.results, Id(Q), CurStep(Q), g.n - 1)
      BY <1>3, <1>4, <2>2, <2>3
    <2>6. ProcOK(Push(Q, g), done)
      BY <1>2, <2>3, <2>5, PushOK
    <2>7. done \subseteq done' /\ done' \subseteq DOMAIN Top /\ ProcOK(Push(Q, g), done')
      BY <2>4, <2>6 DEF IInv
    <2> QED
      BY <1>1, <2>4, <2>7, OneMoves
  <1> QED
    BY <1>5, <1>6

(* A nested call is over: the caller stops, repeats it or goes on.          *)
LEMMA BodyReturnsIInv ==
  ASSUME IInv, NEW p \in Proc, BodyReturns(p)
  PROVE  IInv'
  <1> DEFINE P == proc[p]
             f == Cur(P)
             Q == Pop(P)
             s == CurStep(Q)
             again == Kind[s] \in Loop /\ f.n + 1 < MaxIter /\ Holds(s, P)
             g == Frame("iter", f.steps, f.owner, f.n + 1)
             N == IF StopsCaller(P) THEN [Q EXCEPT !.pc = "return"]
                  ELSE IF again THEN Push(Q, g) ELSE Advance(Q)
  <1>1. /\ Returned(P) /\ f.kind \in {"body", "iter"} /\ disk' = disk /\ Moves(p, N)
        /\ done' = IF ~ StopsCaller(P) /\ ~ again THEN done \cup Finished(Q) ELSE done
    BY DEF BodyReturns, Moves
  <1>2. ProcOK(P, done) /\ P.pc \in {"next", "return"} /\ Len(P.stack) > 1
    BY <1>1 DEF IInv, Returned
  <1>3. /\ Through(Q, done) /\ Q.status = P.status /\ Q.aborted = P.aborted
        /\ Calls(Cur(Q), f) /\ FrameOK(f)
    BY <1>2, PopThrough
  <1> HIDE DEF Q
  <1>4. Kind[s] # "fan-out" /\ f.owner = IdIn(Cur(Q))
    BY <1>1, <1>3 DEF Calls, CurStep, StepAt
  <1>5. CASE StopsCaller(P)
    <2>1. Agrees(Q, N) /\ N.pc = "return" /\ N.status \in Halted
      BY <1>3, <1>5 DEF Agrees, StopsCaller, Through, Fields
    <2> HIDE DEF N
    <2>2. ProcOK(N, done) /\ done' = done
      BY <1>1, <1>3, <1>5, <2>1, ReturnOK
    <2>3. done \subseteq done' /\ done' \subseteq DOMAIN Top /\ ProcOK(N, done')
      BY <2>2 DEF IInv
    <2> QED
      BY <1>1, <2>3, OneMoves
  <1>6. CASE ~ StopsCaller(P)
    <2>1. Q.status = "running" /\ ~ Q.aborted
      BY <1>2, <1>3, <1>6 DEF ProcOK, StatusOK, StopsCaller
    <2>2. CASE again
      <3>1. FrameOK(g) /\ Calls(Cur(Q), g) /\ g.kind = "iter"
        BY <1>1, <1>3, <1>4 DEF FrameOK, Calls, Frame, CurStep, StepAt
      <3>2. N = Push(Q, g) /\ done' = done
        BY <1>1, <1>6, <2>2
      <3> HIDE DEF g, N
      <3>3. ProcOK(N, done)
        BY <1>3, <2>1, <3>1, <3>2, PushOK
      <3>4. done \subseteq done' /\ done' \subseteq DOMAIN Top /\ ProcOK(N, done')
        BY <3>2, <3>3 DEF IInv
      <3> QED
        BY <1>1, <3>4, OneMoves
    <2>3. CASE ~ again
      <3>1. N = Advance(Q) /\ done' = done \cup Finished(Q)
        BY <1>1, <1>6, <2>3
      <3> HIDE DEF N
      <3>2. ProcOK(N, done \cup Finished(Q)) /\ Finished(Q) \subseteq DOMAIN Top
        BY <1>3, <1>4, <2>1, <3>1, AdvanceOK
      <3>3. done \subseteq done' /\ done' \subseteq DOMAIN Top /\ ProcOK(N, done')
        BY <3>1, <3>2 DEF IInv
      <3> QED
        BY <1>1, <3>3, OneMoves
    <2> QED
      BY <2>2, <2>3
  <1> QED
    BY <1>5, <1>6

(* What ItemReturns does to the results.                                    *)
Collect(res, id, v) == [res EXCEPT ![id].list = Append(@, v)]
(* Collecting adds the output to the list of one result, and nothing else.  *)
LEMMA CollectWrites ==
  ASSUME NEW res, ResultsOK(res), NEW id \in DOMAIN res, NEW v, NEW new, new = Collect(res, id, v)
  PROVE  /\ Writes(res, new, id) /\ ResultsOK(new) /\ id \in DOMAIN new
         /\ Get(new, id).list = Append(Get(res, id).list, v)
         /\ \A i : Get(new, i).out = Get(res, i).out
  <1> DEFINE r == [res[id] EXCEPT !.list = Append(@, v)]
  <1>1. /\ DOMAIN r = {"status", "out", "list"} /\ r.out = res[id].out
        /\ r.list = Append(res[id].list, v)
    BY DEF ResultsOK
  <1>2. new = [res EXCEPT ![id] = r]
    BY DEF Collect
  <1> HIDE DEF r
  <1>3. DOMAIN new = DOMAIN res /\ new[id] = r /\ \A i \in DOMAIN res \ {id} : new[i] = res[i]
    BY <1>2
  <1>4. ResultsOK(new)
    BY <1>1, <1>3 DEF ResultsOK
  <1>5. \A i : i # id => Get(new, i) = Get(res, i)
    BY <1>3 DEF Get
  <1>6. Get(new, id) = r /\ Get(res, id) = res[id]
    BY <1>3 DEF Get
  <1> QED
    BY <1>1, <1>3, <1>4, <1>5, <1>6 DEF Writes

(* After item n the first n outputs are collected.                          *)
LEMMA OneMoreCollected ==
  ASSUME NEW res, ResultsOK(res), NEW id \in DOMAIN res, NEW s, NEW n \in Nat \ {0},
         Collected(res, id, s, n - 1),
         NEW new, new = Collect(res, id, Get(res, <<id, Body[s][1], n>>).out)
  PROVE  Collected(new, id, s, n)
  <1> DEFINE F == [m \in 1..n |-> Get(res, <<id, Body[s][1], m>>).out]
             l == Get(res, id).list
             v == Get(res, <<id, Body[s][1], n>>).out
             new1 == Append(l, v)
  <1>1. l = [m \in 1..(n - 1) |-> F[m]] /\ v = F[n]
    BY DEF Collected
  <1>2. new = Collect(res, id, v)
    OBVIOUS
  <1>3. [m \in 1..n |-> Get(new, <<id, Body[s][1], m>>).out] = F /\ Get(new, id).list = new1
    <2> HIDE DEF v
    <2> QED
      BY <1>2, CollectWrites
  <1>4. F = [m \in 1..n |-> F[m]] /\ DOMAIN F = 1..n
    OBVIOUS
  <1> HIDE DEF F, l, v
  <1>5. new1 = F
    <2> DEFINE S == {F[m] : m \in 1..n}
    <2>1. l \in [1..(n - 1) -> S] /\ v \in S /\ F \in [1..n -> S]
      BY <1>1, <1>4
    <2> HIDE DEF S
    <2>2. l \in Seq(S) /\ Len(l) = n - 1
      BY <2>1
    <2>3. DOMAIN new1 = 1..n /\ new1[n] = v /\ \A m \in 1..(n - 1) : new1[m] = l[m]
      BY <2>1, <2>2
    <2>4. \A m \in 1..n : new1[m] = F[m]
      <3>1. \A m \in 1..(n - 1) : l[m] = F[m]
        BY <1>1
      <3> HIDE DEF new1
      <3> QED
        BY <1>1, <2>3, <3>1
    <2>5. new1 \in Seq(S)
      BY <2>1, <2>2
    <2> HIDE DEF new1
    <2>6. new1 = [m \in 1..n |-> new1[m]]
      BY <2>3, <2>5
    <2> QED
      BY <1>4, <2>4, <2>6
  <1> QED
    BY <1>3, <1>5 DEF Collected

(* One item returned: its output is collected, and the caller stops, takes  *)
(* the next item or goes on.                                                *)
LEMMA ItemReturnsIInv ==
  ASSUME IInv, NEW p \in Proc, ItemReturns(p)
  PROVE  IInv'
  <1> DEFINE P == proc[p]
             f == Cur(P)
             Q == Pop(P)
             s == CurStep(Q)
             v == Get(P.results, <<f.owner, f.steps[1], f.n>>).out
             new == Collect(Q.results, f.owner, v)
             R == [Q EXCEPT !.results = new]
             more == f.n < Items
             g == Frame("item", f.steps, f.owner, f.n + 1)
             N == IF StopsCaller(P) THEN [R EXCEPT !.pc = "return"]
                  ELSE IF more THEN Push(R, g) ELSE Advance(R)
  <1>1. /\ Returned(P) /\ f.kind = "item" /\ disk' = disk /\ Moves(p, N)
        /\ done' = IF ~ StopsCaller(P) /\ ~ more THEN done \cup Finished(Q) ELSE done
    BY DEF ItemReturns, Moves, Collect
  <1>2. ProcOK(P, done) /\ P.pc \in {"next", "return"} /\ Len(P.stack) > 1
    BY <1>1 DEF IInv, Returned
  <1>3. /\ Through(Q, done) /\ Q.status = P.status /\ Q.aborted = P.aborted
        /\ Calls(Cur(Q), f) /\ FrameOK(f) /\ Q.results = P.results
        /\ f.n \in 1..Items /\ Collected(P.results, Id(Q), s, f.n - 1)
    BY <1>1, <1>2, PopThrough
  <1> HIDE DEF Q
  <1>4. /\ Kind[s] = "fan-out" /\ f.owner = Id(Q) /\ f.steps = Body[s] /\ f.n \in Nat \ {0}
        /\ Id(Q) \in DOMAIN Q.results /\ ResultsOK(Q.results) /\ DOMAIN Q = Fields
    BY <1>1, <1>3 DEF Calls, CurStep, StepAt, Id, Through, FrameOK
  <1>5. /\ Writes(Q.results, new, Id(Q)) /\ ResultsOK(new) /\ Id(Q) \in DOMAIN new
    <2> HIDE DEF v
    <2> QED
      BY <1>4, CollectWrites
  <1>6. Collected(new, Id(Q), s, f.n)
    <2>1. v = Get(Q.results, <<Id(Q), Body[s][1], f.n>>).out /\ new = Collect(Q.results, Id(Q), v)
      BY <1>3, <1>4
    <2> HIDE DEF v, new, f, s
    <2> QED
      BY <1>3, <1>4, <2>1, OneMoreCollected
  <1> HIDE DEF new
  <1>7. /\ DOMAIN R = Fields /\ R.results = new /\ R.stack = Q.stack /\ R.index = Q.index
        /\ R.status = Q.status /\ R.aborted = Q.aborted /\ R.fresh = Q.fresh
    BY <1>4 DEF Fields
  <1> HIDE DEF R
  <1>8. Cur(R) = Cur(Q) /\ CurStep(R) = s /\ Id(R) = Id(Q) /\ Finished(R) = Finished(Q)
    BY <1>7 DEF Cur, CurStep, Id, Finished
  <1>9. Through(R, done)
    <2>1. OwnId(Q.stack, Id(Q))
      BY DEF OwnId, Id, Cur
    <2>2. CallersOK(Q.stack, new)
      BY <1>3, <1>5, <2>1, CallersKept DEF Through, Cur
    <2>3. FreshOK(Q.fresh, Q.stack, new)
      <3>1. \A c \in Q.fresh : c[1] # StepAt(Q.stack[Len(Q.stack)])
        BY <1>3 DEF Through, CurStep, Cur, StepAt
      <3> QED
        BY <1>3, <1>5, <2>1, <3>1, FreshKept DEF Through, Cur
    <2> QED
      BY <1>3, <1>5, <1>7, <1>8, <2>2, <2>3 DEF Through, PositionOK
  <1>10. CASE StopsCaller(P)
    <2>1. Agrees(R, N) /\ N.pc = "return" /\ N.status \in Halted
      BY <1>3, <1>7, <1>10 DEF Agrees, StopsCaller, Fields
    <2> HIDE DEF N
    <2>2. ProcOK(N, done) /\ done' = done
      BY <1>1, <1>9, <1>10, <2>1, ReturnOK
    <2>3. done \subseteq done' /\ done' \subseteq DOMAIN Top /\ ProcOK(N, done')
      BY <2>2 DEF IInv
    <2> QED
      BY <1>1, <2>3, OneMoves
  <1>11. CASE ~ StopsCaller(P)
    <2>1. R.status = "running" /\ ~ R.aborted
      BY <1>2, <1>3, <1>7, <1>11 DEF ProcOK, StatusOK, StopsCaller
    <2>2. CASE more
      <3>1. /\ FrameOK(g) /\ Calls(Cur(R), g) /\ g.kind = "item"
            /\ g.n = f.n + 1
        <4>1. /\ DOMAIN g = {"kind", "steps", "i", "owner", "n"} /\ g.kind = "item" /\ g.i = 1
              /\ g.steps = f.steps /\ g.owner = f.owner /\ g.n = f.n + 1
          BY DEF Frame
        <4> HIDE DEF g, f
        <4>2. FrameOK(g)
          BY <1>3, <1>4, <4>1 DEF FrameOK
        <4>3. Calls(Cur(R), g)
          BY <1>1, <1>3, <1>8, <4>1 DEF Calls
        <4> QED
          BY <4>1, <4>2, <4>3
      <3>2. N = Push(R, g) /\ done' = done
        BY <1>1, <1>11, <2>2
      <3>3. f.n + 1 \in 1..Items /\ (f.n + 1) - 1 = f.n
        BY <1>4, <2>2, WorkflowIsValid DEF ValidateWorkflow
      <3> HIDE DEF g, N
      <3>4. ProcOK(N, done)
        BY <1>6, <1>7, <1>8, <1>9, <2>1, <3>1, <3>2, <3>3, PushOK
      <3>5. done \subseteq done' /\ done' \subseteq DOMAIN Top /\ ProcOK(N, done')
        BY <3>2, <3>4 DEF IInv
      <3> QED
        BY <1>1, <3>5, OneMoves
    <2>3. CASE ~ more
      <3>1. N = Advance(R) /\ done' = done \cup Finished(R)
        BY <1>1, <1>8, <1>11, <2>3
      <3>2. f.n = Items
        BY <1>3, <1>4, <2>3, WorkflowIsValid DEF ValidateWorkflow
      <3> HIDE DEF N
      <3>3. ProcOK(N, done \cup Finished(R)) /\ Finished(R) \subseteq DOMAIN Top
        BY <1>6, <1>7, <1>8, <1>9, <2>1, <3>1, <3>2, AdvanceOK
      <3>4. done \subseteq done' /\ done' \subseteq DOMAIN Top /\ ProcOK(N, done')
        BY <3>1, <3>3 DEF IInv
      <3> QED
        BY <1>1, <3>4, OneMoves
    <2> QED
      BY <2>2, <2>3
  <1> QED
    BY <1>10, <1>11

(* The outermost call is over, or the process is interrupted, fails or      *)
(* dies.                                                                    *)
LEMMA EndIInv ==
  ASSUME IInv, NEW p \in Proc,
         Finish(p) \/ Interrupt(p) \/ Raise(p) \/ \E inSave \in BOOLEAN : Kill(p, inSave)
  PROVE  IInv'
  <1> DEFINE P == proc[p]
  <1>1. ProcOK(P, done) /\ DOMAIN P = Fields
    BY DEF IInv, ProcOK
  <1>2. CASE Finish(p)
    <2> DEFINE Q == IF P.status = "running" THEN [P EXCEPT !.status = "completed"] ELSE P
    <2>1. /\ Moves(p, Idle) /\ disk' = Saved(Q) /\ UNCHANGED done /\ Len(P.stack) = 1
          /\ P.pc = "return" \/ (P.pc = "next" /\ Cur(P).i > Len(Top))
      BY <1>2 DEF Finish, Moves
    <2>2. CASE P.pc = "return"
      <3>1. Q = P
        BY <1>1, <2>2 DEF ProcOK, StatusOK, Halted
      <3> QED
        BY <1>1, <2>1, <2>2, <3>1, SaveProcOK, OneEnds
    <2>3. CASE P.pc = "next"
      <3>1. /\ Q.index = P.index /\ Q.results = P.results /\ Q.status = "completed"
        BY <1>1, <2>3 DEF ProcOK, StatusOK, Fields
      <3>2. Top \in Seq(Step) /\ DOMAIN Top = 1..Len(Top) /\ Len(Top) \in Nat
        BY WorkflowIsValid DEF ValidateWorkflow
      <3>3. Cur(P) = P.stack[1] /\ Cur(P).i \in Nat
        BY <1>1, <2>1, <2>3, TopIsFirst DEF ProcOK, FrameOK
      <3>4. 1..Len(Top) \subseteq done
        BY <1>1, <2>1, <2>3, <3>2, <3>3 DEF ProcOK, PositionOK
      <3>5. done = DOMAIN Top
        BY <3>2, <3>4 DEF IInv
      <3>6. DiskOK(Saved(Q), done)
        <4> HIDE DEF Q
        <4> QED
          BY <1>1, <3>1, <3>5 DEF DiskOK, Saved, ProcOK
      <3> QED
        BY <2>1, <3>6, OneEnds
    <2> QED
      BY <2>1, <2>2, <2>3
  <1>3. CASE Interrupt(p) \/ Raise(p)
    <2>1. PICK st \in {"paused", "failed"} :
             disk' = Saved([P EXCEPT !.status = st])
      BY <1>3 DEF Interrupt, Raise
    <2>2. Moves(p, Idle) /\ UNCHANGED done /\ P.pc # "idle"
      BY <1>3 DEF Interrupt, Raise, Moves, Running
    <2> DEFINE Q == [P EXCEPT !.status = st]
    <2>3. Q.index = P.index /\ Q.results = P.results /\ Q.status = st
      BY <1>1 DEF Fields
    <2>4. disk' = Saved(Q)
      BY <2>1
    <2> HIDE DEF Q
    <2>5. DiskOK(Saved(Q), done)
      BY <1>1, <2>2, <2>3, SaveOK DEF ProcOK, PositionOK
    <2> QED
      BY <2>2, <2>4, <2>5, OneEnds
  <1>4. ASSUME NEW inSave \in BOOLEAN, Kill(p, inSave) PROVE IInv'
    <2>1. Moves(p, Idle) /\ UNCHANGED done /\ (disk' = Torn \/ disk' = disk)
      BY <1>4 DEF Kill, Moves
    <2>2. DiskOK(Torn, done)
      BY DEF DiskOK, Torn, NoRun, ResultsOK
    <2> QED
      BY <2>1, <2>2, OneEnds
  <1> QED
    BY <1>2, <1>3, <1>4

(* The invariant holds at first.                                            *)
LEMMA InitIInv == Init => IInv
  <1> SUFFICES ASSUME Init PROVE IInv
    OBVIOUS
  <1>1. DOMAIN proc = Proc /\ \A p \in Proc : ProcOK(proc[p], done)
    BY IdleOK DEF Init
  <1>2. DiskOK(disk, done) /\ done \subseteq DOMAIN Top
    BY DEF Init, DiskOK, NoRun, ResultsOK
  <1> QED
    BY <1>1, <1>2 DEF IInv

(* Every step preserves it, faults included.                                *)
LEMMA NextIInv == IInv /\ [Next]_vars => IInv'
  <1> SUFFICES ASSUME IInv, [Next]_vars PROVE IInv'
    OBVIOUS
  <1>1. CASE UNCHANGED vars
    BY <1>1 DEF vars, IInv
  <1>2. ASSUME NEW p \in Proc, NEW given \in Given, NEW tty \in BOOLEAN,
               Execute(p, given, tty) \/ Resume(p, given, tty)
        PROVE  IInv'
    BY <1>2, ExecuteIInv, ResumeIInv
  <1>3. ASSUME NEW p \in Proc, Go(p) PROVE IInv'
    BY <1>3, StepStartIInv, StepIInv, UnknownTypeIInv, ControlIInv, FanOutIInv,
       BodyReturnsIInv, ItemReturnsIInv, EndIInv DEF Go
  <1>4. ASSUME NEW p \in Proc,
               Interrupt(p) \/ Raise(p) \/ \E inSave \in BOOLEAN : Kill(p, inSave)
        PROVE  IInv'
    BY <1>4, EndIInv
  <1> QED
    BY <1>1, <1>2, <1>3, <1>4 DEF Next

(* The invariant of the engine, for every workflow and any processes.       *)
THEOREM Invariance == Spec => []IInv
  BY InitIInv, NextIInv, PTL DEF Spec
-----------------------------------------------------------------------------
(* The position a run can be resumed from never lies beyond a top-level     *)
(* step that has not finished, whatever the processes on the run do, and    *)
(* wherever they are interrupted or killed (resume, engine.py).             *)
THEOREM NothingSkipped == Spec => []NoStepSkipped
  <1>1. IInv => NoStepSkipped
    BY DEF IInv, DiskOK, NoStepSkipped
  <1> QED
    BY <1>1, Invariance, PTL

(* A run reported as completed has finished every top-level step.           *)
THEOREM WholeWhenCompleted == Spec => []CompletedIsWhole
  <1>1. IInv => CompletedIsWhole
    BY DEF IInv, DiskOK, CompletedIsWhole
  <1> QED
    BY <1>1, Invariance, PTL

(* After an aborting rejection the process only returns.                    *)
THEOREM AbortReturns == Spec => []AbortHalts
  <1>1. IInv => AbortHalts
    BY DEF IInv, ProcOK, StatusOK, AbortHalts
  <1> QED
    BY <1>1, Invariance, PTL

(* What a condition reads under a step's plain id is the latest result of   *)
(* that step, for every nesting of loops.                                   *)
THEOREM LatestIsVisible == Spec => []LatestVisible
  <1>1. IInv => LatestVisible
    BY DEF IInv, ProcOK, FreshOK, LatestVisible
  <1> QED
    BY <1>1, Invariance, PTL

(* A fan-out that the run went past has one output per item, in order, for  *)
(* every number of items and every nesting.                                 *)
THEOREM FanOutsWhole == Spec => []FanOutWhole
  <1>1. IInv => FanOutWhole
    BY DEF IInv, ProcOK, FreshOK, FanOutWhole
  <1> QED
    BY <1>1, Invariance, PTL
=============================================================================
