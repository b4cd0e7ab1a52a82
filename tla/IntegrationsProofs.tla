------------------------- MODULE IntegrationsProofs -------------------------
(***************************************************************************)
(* Proofs about the integration commands, for every set of integrations     *)
(* with files of their own, any options, releases and number of commands.   *)
(*                                                                         *)
(* A command is known by the steps it still has to run.  The invariant      *)
(* says what the rest of the plan will make of integration.json (Target),   *)
(* and relates the manifests, the files and init-options.json to that.      *)
(***************************************************************************)
EXTENDS Integrations, SequenceTheorems, WellFoundedInduction, TLAPS

(* Integrations write different files.  tests/integrations/test_registry.py *)
(* demands it of every two that are safe to install together.               *)
OwnFiles == \A k, i \in Integration : k # i => Owned(k) \cap Owned(i) = {}

-----------------------------------------------------------------------------
(* What the steps t still have to do. *)
IsPlan(t) == t \in Seq({t[i] : i \in DOMAIN t})
Pending(t, do) == \E i \in DOMAIN t : t[i].do = do
LastAt(t, do) == CHOOSE i \in DOMAIN t : t[i].do = do /\ \A j \in DOMAIN t : j > i => t[j].do # do
LastOf(t, do) == t[LastAt(t, do)]

\* What integration.json will be.
Target(t, c) == IF Pending(t, "json") THEN LastOf(t, "json").conf ELSE c
\* What init-options.json will name.
FinalOpt(t, o) ==
  IF Pending(t, "opts") THEN LastOf(t, "opts").key
  ELSE IF Pending(t, "clear") /\ LastOf(t, "clear").key = o THEN None ELSE o

Keys(c) == ToSet(c.installed)
Dialect(c) == Sep[c.default][c.opt[c.default]]

-----------------------------------------------------------------------------
(* Types. *)
Piece == Text \cup {"start", "body", "end"}
CommandText == Version \X {"command"}
ManifestOK(m, k) ==
  m # NoManifest => DOMAIN m \subseteq Owned(k) /\ m \in [DOMAIN m -> CommandText]
SharedOK(sm) ==
  /\ DOMAIN sm.files \subseteq SharedFile
  /\ \A f \in DOMAIN sm.files \ sm.recovered : sm.files[f] \notin {NoFile, User}
ConfOK(c) ==
  /\ DOMAIN c.opt = Integration /\ \A k \in Integration : c.opt[k] \in OptionOf(k)
  /\ c # NoConf => /\ c.installed \in Seq(Integration) /\ IsInjective(c.installed)
                   /\ c.default \in Keys(c)

\* A step of command c.
StepOK(c, s) ==
  /\ s.do \in {"shared", "saveshared", "setup", "manifest", "teardown", "opts", "clear",
               "json", "stale"}
  /\ s.do \in {"setup", "manifest", "stale"} => s.key = c.key
  /\ s.do \in {"teardown", "opts", "clear"} => s.key \in Integration
  /\ s.do = "setup" => s.opt \in OptionOf(s.key)
  /\ s.do = "teardown" => s.force = c.force /\ c.op \in {"uninstall", "switch"}
  /\ s.do = "shared" => /\ s.key \in Integration /\ s.opt \in OptionOf(s.key)
                        /\ s.force \in BOOLEAN /\ (s.force => c.sforce) /\ s.refresh \in BOOLEAN
  /\ s.do = "json" => ConfOK(s.conf)
  /\ s.do = "stale" => c.op = "upgrade"

\* The integrations that stay when command c is rolled back.
Kept(c) == IF c.op = "switch" THEN Keys(c.from) \ {c.from.default} ELSE Keys(c.from)

\* Step a of command c comes before step b.
Precedes(c, a, b) ==
  /\ b.do # "teardown" /\ a.do # "stale"
  /\ a.do = "teardown" /\ b.do = "json" => a.key \notin Keys(b.conf)
  /\ a.do \in {"setup", "manifest"} => b.do # "setup"
  /\ a.do = "setup" => b.do # "clear"
  /\ a.do = "manifest" => b.do # "manifest"
  /\ a.do \in {"shared", "saveshared"} /\ b.do = "shared" => b.refresh
  /\ a.do = "setup" /\ c.op = "install" => b.do \notin {"shared", "saveshared"}
  /\ a.do = "json" /\ b.do = "setup" => c.key \notin Keys(a.conf)
  /\ a.do = "json" /\ c.op = "install" => b.do # "json"
  /\ a.do = "opts" => /\ b.do = "clear" => a.key # b.key /\ c.op # "switch"
                      /\ c.op # "install" /\ ~(c.op = "switch" /\ Kept(c) = {})
  /\ a.do = "clear" => b.do # "clear"

PlanOK(c) ==
  /\ IsPlan(c.todo) /\ c.todo # <<>>
  /\ \A i \in DOMAIN c.todo : StepOK(c, c.todo[i])
  /\ \A i, j \in DOMAIN c.todo : i < j => Precedes(c, c.todo[i], c.todo[j])
  /\ \A i \in 2..Len(c.todo) : c.todo[i].do = "saveshared" <=> c.todo[i - 1].do = "shared"
  /\ c.todo[Len(c.todo)].do # "shared"
  /\ c.todo[1].do = "saveshared" => SharedOK(c.todo[1].sm)

Ops == {"install", "uninstall", "use", "switch", "upgrade", "init", "rollback"}
Command(op, key, force, sforce, todo, mem, old, from) ==
  [op |-> op, key |-> key, force |-> force, sforce |-> sforce, todo |-> todo,
   mem |-> mem, old |-> old, from |-> from]
CommandOK(c) ==
  /\ c = Command(c.op, c.key, c.force, c.sforce, c.todo, c.mem, c.old, c.from)
  /\ c.op \in Ops /\ c.key \in Integration /\ c.force \in BOOLEAN /\ c.sforce \in BOOLEAN
  /\ ManifestOK(c.mem, c.key) /\ ManifestOK(c.old, c.key) /\ ConfOK(c.from)
  /\ PlanOK(c)

TypeOK ==
  /\ DOMAIN files = File /\ files = [f \in File |-> files[f]]
  /\ DOMAIN manifest = Integration /\ manifest = [k \in Integration |-> manifest[k]]
  /\ \A k \in Integration : ManifestOK(manifest[k], k)
  /\ SharedOK(shared) /\ ConfOK(conf) /\ version \in Version
  /\ ctx \in [Integration -> Seq(Piece)]
  /\ ops \in Nat /\ edits \in Nat /\ stopped \in BOOLEAN
  /\ cli # Idle => CommandOK(cli)

-----------------------------------------------------------------------------
(* What a command has done so far, also when an earlier one was killed. *)
Todo(do) == cli # Idle /\ Pending(cli.todo, do)
RunOK ==
  cli # Idle =>
    /\ cli.mem # NoManifest =>
         /\ \A f \in DOMAIN cli.mem : files[f] = cli.mem[f]
         /\ cli.op = "install" => ~Todo("shared") /\ ~Todo("saveshared")
    /\ Todo("teardown") \/ Todo("setup") => cli.mem = NoManifest
    /\ Todo("setup") =>
         /\ Todo("manifest")
         /\ cli.op \in {"install", "switch", "upgrade", "init"}
         /\ cli.op \in {"install", "switch"} => cli.key \notin InstalledKeys
         /\ cli.op = "upgrade" => manifest[cli.key] = cli.old
    /\ Todo("teardown") => /\ Step.key \in InstalledKeys /\ Has(Step.key)
                           /\ Todo("manifest") => Todo("setup")
    /\ cli.op = "init" => cli.force
    /\ (Todo("manifest") \/ Todo("stale")) /\ ~Todo("setup") => cli.mem # NoManifest
    /\ cli.op = "upgrade" =>
         /\ cli.old # NoManifest
         /\ ~cli.force => \A f \in DOMAIN cli.old : files[f] # User
    /\ cli.op = "rollback" => cli.mem = NoManifest

(* What holds as long as no command was killed. *)
Goal == IF cli = Idle THEN conf ELSE Target(cli.todo, conf)
\* init forgot k, or is about to.
Gone(k) == Dropped(k) \/ (Todo("json") /\ cli.op = "init" /\ k \in InstalledKeys)

ManifestsOK ==
  /\ \A k \in Keys(Goal) : Has(k) \/ Untold(k) \/ (Todo("manifest") /\ k = cli.key)
  /\ \A k \in Integration : Has(k) /\ ~Gone(k) =>
       k \in Keys(Goal) \/ (Todo("teardown") /\ k = Step.key)
  /\ Todo("teardown") => Todo("json")
  /\ Todo("manifest") =>
       /\ cli.key \in Keys(Goal)
       /\ cli.op # "upgrade" /\ Has(cli.key) => Gone(cli.key)
  /\ cli # Idle /\ cli.mem # NoManifest /\ ~Todo("manifest") => manifest[cli.key] = cli.mem
  /\ cli # Idle /\ cli.op \in {"install", "switch"} =>
       cli.key \notin Kept(cli) /\ Keys(Goal) = Kept(cli) \cup {cli.key}

\* f is of no manifest any more.
Freed(k, f) == Gone(k) \/ Left(f)

FilesOK ==
  /\ \A k \in Integration : Has(k) => \A f \in DOMAIN manifest[k] :
       /\ edits = 0 => files[f] # NoFile
       /\ \/ files[f] \in {NoFile, User, manifest[k][f]} \/ Gone(k)
          \/ Todo("manifest") /\ k = cli.key
  /\ \A f \in CommandFile : files[f] \notin {NoFile, User} =>
       \E k \in Integration :
         /\ f \in Owned(k)
         /\ \/ Freed(k, f)
            \/ Has(k) /\ f \in DOMAIN manifest[k]
            \/ cli # Idle /\ k = cli.key /\ cli.mem # NoManifest /\ f \in DOMAIN cli.mem
            \/ Todo("stale") /\ k = cli.key /\ f \in DOMAIN cli.old
  /\ Todo("manifest") /\ cli.op = "upgrade" => manifest[cli.key] = cli.old /\ Todo("stale")

GoalOpt == IF cli = Idle THEN initopt ELSE FinalOpt(cli.todo, initopt)
OptionsOK ==
  /\ Goal.default = GoalOpt
  /\ cli # Idle /\ (cli.op = "install" \/ cli.mem # NoManifest) => ~Todo("clear")
  /\ cli # Idle /\ cli.op = "install" => initopt = cli.from.default
  /\ cli # Idle /\ cli.op = "switch" =>
       IF Todo("clear") THEN initopt = cli.from.default /\ LastOf(cli.todo, "clear").key = initopt
       ELSE Kept(cli) = {} => initopt = None

\* The managed files speak dialect d.
Speak(sm, d) == \A f \in SharedFile : IsManaged(sm, files, f) => files[f][2] = d
SharedLost ==
  \/ SharedStale \/ Goal = NoConf
  \/ Todo("json") /\ (cli.op = "init" \/ (cli.op = "install" /\ conf = NoConf /\ ops > 1))
DialectOK ==
  /\ ops = 0 => shared = NoShared /\ cli = Idle
  /\ cli # Idle /\ cli.op = "install" =>
       /\ Todo("json") => conf = cli.from
       /\ cli.from # NoConf => Goal # NoConf /\ Dialect(Goal) = Dialect(cli.from)
  /\ Todo("shared") =>
       Sep[LastOf(cli.todo, "shared").key][LastOf(cli.todo, "shared").opt] = Dialect(Goal)
  /\ SharedLost
     \/ IF Todo("shared")
        THEN LastOf(cli.todo, "shared").refresh \/ Speak(shared, Dialect(Goal))
        ELSE Speak(IF At("saveshared") THEN Step.sm ELSE shared, Dialect(Goal))

\* What is said of the descriptions.
Described == ManifestsOK /\ OptionsOK /\ DialectOK

-----------------------------------------------------------------------------
(* Lemmas about plans. *)

(* A set of natural numbers that is not empty has a least element.          *)
LEMMA LeastNumber ==
  ASSUME NEW D \in SUBSET Nat, D # {}
  PROVE  \E d \in D : \A e \in D : d <= e
  <1>1. D \subseteq Nat
    OBVIOUS
  <1>2. PICK d \in D : \A e \in D : ~ (<<e, d>> \in OpToRel(<, Nat))
    BY <1>1, WFMin, NatLessThanWellFounded
  <1>3. ASSUME NEW e \in D PROVE d <= e
    <2>1. <<e, d>> \in Nat \X Nat
      BY <1>1
    <2>2. ~ (e < d)
      BY <1>2, <2>1 DEF OpToRel
    <2> QED
      BY <1>1, <2>2
  <1> QED
    BY <1>3

(* A set of positions that is not empty has a last one.                     *)
LEMMA LastPosition ==
  ASSUME NEW n \in Nat, NEW S \in SUBSET (1..n), S # {}
  PROVE  \E i \in S : \A j \in S : j <= i
  <1> DEFINE D == {x \in Nat : \E i \in S : x = n - i}
  <1>1. ASSUME NEW i \in S PROVE i \in 1..n /\ n - i \in Nat /\ n - i \in D
    OBVIOUS
  <1>2. PICK d \in D : \A e \in D : d <= e
    <2>1. D \in SUBSET Nat /\ D # {}
      BY <1>1
    <2> QED
      BY <2>1, LeastNumber
  <1>3. PICK i \in S : d = n - i
    BY <1>2
  <1>4. ASSUME NEW j \in S PROVE j <= i
    <2>1. n - i <= n - j /\ i \in Nat /\ j \in Nat
      BY <1>1, <1>2, <1>3
    <2> QED
      BY <2>1
  <1> QED
    BY <1>4

(* A plan is a function on its positions.                                   *)
LEMMA PlanFacts ==
  ASSUME NEW t, IsPlan(t)
  PROVE  /\ Len(t) \in Nat /\ DOMAIN t = 1..Len(t)
         /\ t = <<>> <=> Len(t) = 0
         /\ t # <<>> => Head(t) = t[1] /\ Len(t) > 0
  BY DEF IsPlan

(* A sequence of any elements is a plan.                                    *)
LEMMA SeqIsPlan ==
  ASSUME NEW T, NEW t \in Seq(T)
  PROVE  IsPlan(t)
  <1>1. t \in [1..Len(t) -> T] /\ DOMAIN t = 1..Len(t) /\ Len(t) \in Nat
    BY LenProperties
  <1> DEFINE R == {t[i] : i \in DOMAIN t}
  <1>2. t \in [1..Len(t) -> R]
    BY <1>1
  <1>3. t \in Seq(R)
    <2> HIDE DEF R
    <2>1. PICK n \in Nat : t \in [1..n -> R]
      BY <1>1, <1>2
    <2> QED
      BY <2>1
  <1> QED
    BY <1>3 DEF IsPlan

(* What is left of a plan after its first step.                             *)
LEMMA RestOfPlan ==
  ASSUME NEW t, IsPlan(t), t # <<>>
  PROVE  /\ IsPlan(Tail(t)) /\ Len(Tail(t)) = Len(t) - 1
         /\ \A i \in 1..(Len(t) - 1) : Tail(t)[i] = t[i + 1]
         /\ DOMAIN Tail(t) = 1..(Len(t) - 1)
  <1> DEFINE T == {t[i] : i \in DOMAIN t}
  <1>1. t \in Seq(T)
    BY DEF IsPlan
  <1>2. /\ Tail(t) \in Seq(T) /\ Len(Tail(t)) = Len(t) - 1
        /\ \A i \in 1 .. Len(Tail(t)) : Tail(t)[i] = t[i + 1]
    BY <1>1, HeadTailProperties
  <1>3. DOMAIN Tail(t) = 1..Len(Tail(t))
    BY <1>2, LenProperties
  <1> QED
    BY <1>2, <1>3, SeqIsPlan

(* One plan after another.                                                  *)
LEMMA PlanAfter ==
  ASSUME NEW s, NEW t, IsPlan(s), IsPlan(t)
  PROVE  /\ IsPlan(s \o t) /\ Len(s \o t) = Len(s) + Len(t)
         /\ DOMAIN (s \o t) = 1..(Len(s) + Len(t))
         /\ \A i \in 1..Len(s) : (s \o t)[i] = s[i]
         /\ \A i \in 1..Len(t) : (s \o t)[Len(s) + i] = t[i]
         /\ \A i \in DOMAIN (s \o t) : i \notin 1..Len(s) => i - Len(s) \in 1..Len(t)
                                                             /\ (s \o t)[i] = t[i - Len(s)]
  <1> DEFINE T == {s[i] : i \in DOMAIN s} \cup {t[i] : i \in DOMAIN t}
  <1>1. s \in Seq(T) /\ t \in Seq(T)
    <2>1. {s[i] : i \in DOMAIN s} \subseteq T /\ {t[i] : i \in DOMAIN t} \subseteq T
      OBVIOUS
    <2> QED
      BY <2>1, SeqMonotonic DEF IsPlan
  <1>2. /\ s \o t \in Seq(T) /\ Len(s \o t) = Len(s) + Len(t)
        /\ \A i \in 1 .. Len(s) + Len(t) : (s \o t)[i] = IF i <= Len(s) THEN s[i] ELSE t[i - Len(s)]
    BY <1>1, ConcatProperties
  <1>3. DOMAIN (s \o t) = 1..Len(s \o t) /\ Len(s) \in Nat /\ Len(t) \in Nat
    BY <1>1, <1>2, LenProperties
  <1>4. IsPlan(s \o t)
    BY <1>2, SeqIsPlan
  <1> HIDE DEF T
  <1> QED
    BY <1>2, <1>3, <1>4

(* The last step of a kind exists when there is one.                        *)
LEMMA LastStep ==
  ASSUME NEW t, IsPlan(t), NEW do, Pending(t, do)
  PROVE  /\ LastAt(t, do) \in DOMAIN t /\ t[LastAt(t, do)].do = do
         /\ \A j \in DOMAIN t : j > LastAt(t, do) => t[j].do # do
  <1> DEFINE S == {i \in DOMAIN t : t[i].do = do}
  <1>1. Len(t) \in Nat /\ DOMAIN t = 1..Len(t)
    BY PlanFacts
  <1>2. S \in SUBSET (1..Len(t)) /\ S # {}
    BY <1>1 DEF Pending
  <1>3. PICK i \in S : \A j \in S : j <= i
    BY <1>1, <1>2, LastPosition
  <1>4. i \in DOMAIN t /\ t[i].do = do /\ \A j \in DOMAIN t : j > i => t[j].do # do
    BY <1>1, <1>2, <1>3
  <1> QED
    BY <1>4 DEF LastAt

(* The last step of a kind is determined by its position.                   *)
LEMMA LastIs ==
  ASSUME NEW t, IsPlan(t), NEW do, NEW i \in DOMAIN t, t[i].do = do,
         \A j \in DOMAIN t : j > i => t[j].do # do
  PROVE  Pending(t, do) /\ LastAt(t, do) = i /\ LastOf(t, do) = t[i]
  <1>1. Pending(t, do)
    BY DEF Pending
  <1>2. /\ LastAt(t, do) \in DOMAIN t /\ t[LastAt(t, do)].do = do
        /\ \A j \in DOMAIN t : j > LastAt(t, do) => t[j].do # do
    BY <1>1, LastStep
  <1>3. DOMAIN t = 1..Len(t) /\ Len(t) \in Nat
    BY PlanFacts
  <1>4. LastAt(t, do) = i
    BY <1>2, <1>3
  <1> QED
    BY <1>1, <1>4 DEF LastOf

(* What is ahead after the first step.                                      *)
LEMMA AheadRest ==
  ASSUME NEW t, IsPlan(t), t # <<>>, NEW do
  PROVE  /\ Pending(t, do) <=> t[1].do = do \/ Pending(Tail(t), do)
         /\ Pending(Tail(t), do) => LastOf(Tail(t), do) = LastOf(t, do)
         /\ t[1].do = do /\ ~Pending(Tail(t), do) => LastOf(t, do) = t[1]
  <1> DEFINE r == Tail(t)
  <1>1. /\ IsPlan(r) /\ Len(r) = Len(t) - 1
        /\ \A i \in 1..(Len(t) - 1) : r[i] = t[i + 1]
        /\ DOMAIN r = 1..(Len(t) - 1)
        /\ Len(t) \in Nat /\ DOMAIN t = 1..Len(t) /\ Len(t) > 0
    BY RestOfPlan, PlanFacts
  <1> HIDE DEF r
  <1>2. \A j \in DOMAIN t : j # 1 => j - 1 \in DOMAIN r /\ r[j - 1] = t[j]
    <2> SUFFICES ASSUME NEW j \in DOMAIN t, j # 1
                 PROVE  j - 1 \in DOMAIN r /\ r[j - 1] = t[j]
      OBVIOUS
    <2>1. j - 1 \in 1..(Len(t) - 1) /\ (j - 1) + 1 = j
      BY <1>1
    <2> QED
      BY <1>1, <2>1
  <1>3. Pending(t, do) <=> t[1].do = do \/ Pending(r, do)
    <2>1. ASSUME NEW i \in DOMAIN t, t[i].do = do PROVE t[1].do = do \/ Pending(r, do)
      BY <1>2, <2>1 DEF Pending
    <2>2. ASSUME NEW i \in DOMAIN r, r[i].do = do PROVE Pending(t, do)
      <3>1. i + 1 \in DOMAIN t /\ t[i + 1].do = do
        BY <1>1, <2>2
      <3> QED
        BY <3>1 DEF Pending
    <2>3. 1 \in DOMAIN t
      BY <1>1
    <2> QED
      BY <2>1, <2>2, <2>3 DEF Pending
  <1>4. ASSUME Pending(r, do) PROVE LastOf(r, do) = LastOf(t, do)
    <2>1. PICK i : /\ i = LastAt(r, do) /\ i \in DOMAIN r /\ r[i].do = do
                   /\ \A j \in DOMAIN r : j > i => r[j].do # do
      BY <1>1, <1>4, LastStep
    <2>2. i + 1 \in DOMAIN t /\ t[i + 1] = r[i]
      BY <1>1, <2>1
    <2>3. ASSUME NEW j \in DOMAIN t, j > i + 1 PROVE t[j].do # do
      <3>1. j - 1 \in DOMAIN r /\ r[j - 1] = t[j] /\ j - 1 > i
        BY <1>1, <1>2, <2>1, <2>3
      <3> QED
        BY <2>1, <3>1
    <2>4. LastOf(t, do) = t[i + 1]
      <3>1. PICK n : n = i + 1
        OBVIOUS
      <3>2. n \in DOMAIN t /\ t[n].do = do /\ \A j \in DOMAIN t : j > n => t[j].do # do
        BY <2>1, <2>2, <2>3, <3>1
      <3> QED
        BY <3>1, <3>2, LastIs
    <2> QED
      BY <2>1, <2>2, <2>4 DEF LastOf
  <1>5. ASSUME t[1].do = do, ~Pending(r, do) PROVE LastOf(t, do) = t[1]
    <2>1. 1 \in DOMAIN t
      BY <1>1
    <2>2. ASSUME NEW j \in DOMAIN t, j > 1 PROVE t[j].do # do
      <3>1. j - 1 \in DOMAIN r /\ r[j - 1] = t[j]
        BY <1>1, <1>2, <2>2
      <3> QED
        BY <1>5, <3>1 DEF Pending
    <2> QED
      BY <1>5, <2>1, <2>2, LastIs
  <1> QED
    BY <1>3, <1>4, <1>5 DEF r

(* What is ahead when a plan follows another one.                           *)
LEMMA AheadAfter ==
  ASSUME NEW s, NEW t, IsPlan(s), IsPlan(t), NEW do
  PROVE  /\ Pending(s \o t, do) <=> Pending(s, do) \/ Pending(t, do)
         /\ Pending(t, do) => LastOf(s \o t, do) = LastOf(t, do)
         /\ Pending(s, do) /\ ~Pending(t, do) => LastOf(s \o t, do) = LastOf(s, do)
  <1> DEFINE u == s \o t
             m == Len(s)
  <1>1. /\ IsPlan(u) /\ DOMAIN u = 1..(m + Len(t)) /\ m \in Nat /\ Len(t) \in Nat
        /\ \A i \in 1..m : u[i] = s[i]
        /\ \A i \in 1..Len(t) : u[m + i] = t[i]
        /\ \A i \in DOMAIN u : i \notin 1..m => i - m \in 1..Len(t) /\ u[i] = t[i - m]
        /\ DOMAIN s = 1..m /\ DOMAIN t = 1..Len(t)
    BY PlanAfter, PlanFacts
  <1> HIDE DEF u, m
  <1>0. IsPlan(u)
    BY <1>1
  <1>2. Pending(u, do) <=> Pending(s, do) \/ Pending(t, do)
    <2>1. ASSUME NEW i \in DOMAIN u, u[i].do = do PROVE Pending(s, do) \/ Pending(t, do)
      BY <1>1, <2>1 DEF Pending
    <2>2. ASSUME NEW i \in DOMAIN s, s[i].do = do PROVE Pending(u, do)
      <3>1. i \in DOMAIN u /\ u[i].do = do
        BY <1>1, <2>2
      <3> QED
        BY <3>1 DEF Pending
    <2>3. ASSUME NEW i \in DOMAIN t, t[i].do = do PROVE Pending(u, do)
      <3>1. m + i \in DOMAIN u /\ u[m + i].do = do
        BY <1>1, <2>3
      <3> QED
        BY <3>1 DEF Pending
    <2> QED
      BY <2>1, <2>2, <2>3 DEF Pending
  <1>3. ASSUME Pending(t, do) PROVE LastOf(u, do) = LastOf(t, do)
    <2>1. PICK i : /\ i = LastAt(t, do) /\ i \in DOMAIN t /\ t[i].do = do
                   /\ \A j \in DOMAIN t : j > i => t[j].do # do
      BY <1>3, LastStep
    <2>2. m + i \in DOMAIN u /\ u[m + i] = t[i]
      BY <1>1, <2>1
    <2>3. ASSUME NEW j \in DOMAIN u, j > m + i PROVE u[j].do # do
      <3>1. j - m \in DOMAIN t /\ u[j] = t[j - m] /\ j - m > i
        BY <1>1, <2>1, <2>3
      <3> QED
        BY <2>1, <3>1
    <2>4. LastOf(u, do) = u[m + i]
      <3>1. PICK n : n = m + i
        OBVIOUS
      <3>2. n \in DOMAIN u /\ u[n].do = do /\ \A j \in DOMAIN u : j > n => u[j].do # do
        BY <2>1, <2>2, <2>3, <3>1
      <3> QED
        BY <1>0, <3>1, <3>2, LastIs
    <2> QED
      BY <2>1, <2>2, <2>4 DEF LastOf
  <1>4. ASSUME Pending(s, do), ~Pending(t, do) PROVE LastOf(u, do) = LastOf(s, do)
    <2>1. PICK i : /\ i = LastAt(s, do) /\ i \in DOMAIN s /\ s[i].do = do
                   /\ \A j \in DOMAIN s : j > i => s[j].do # do
      BY <1>4, LastStep
    <2>2. i \in DOMAIN u /\ u[i] = s[i]
      BY <1>1, <2>1
    <2>3. ASSUME NEW j \in DOMAIN u, j > i PROVE u[j].do # do
      BY <1>1, <1>4, <2>1, <2>3 DEF Pending
    <2>4. LastOf(u, do) = u[i]
      <3>1. i \in DOMAIN u /\ u[i].do = do /\ \A j \in DOMAIN u : j > i => u[j].do # do
        BY <2>1, <2>2, <2>3
      <3> QED
        BY <1>0, <3>1, LastIs
    <2> QED
      BY <2>1, <2>2, <2>4 DEF LastOf
  <1> QED
    BY <1>2, <1>3, <1>4 DEF u

-----------------------------------------------------------------------------
(* Lemmas about the command that runs. *)

\* Command c with the steps r left and the manifest m in memory.
Continue(c, r, m) ==
  IF r = <<>> THEN Idle ELSE Command(c.op, c.key, c.force, c.sforce, r, m, c.old, c.from)

(* A command is not idle, and none of its fields is lost in an update.      *)
LEMMA CommandFacts ==
  ASSUME NEW c, CommandOK(c)
  PROVE  /\ c # Idle /\ IsPlan(c.todo) /\ c.todo # <<>> /\ Len(c.todo) \in Nat /\ Len(c.todo) > 0
         /\ DOMAIN c.todo = 1..Len(c.todo) /\ Head(c.todo) = c.todo[1]
  <1>1. c.op # "idle"
    BY DEF CommandOK, Ops
  <1>2. IsPlan(c.todo) /\ c.todo # <<>>
    BY DEF CommandOK, PlanOK
  <1> QED
    BY <1>1, <1>2, PlanFacts DEF Idle

(* Changing the second step of a plan changes the first step of its rest.   *)
LEMMA RestChanged ==
  ASSUME NEW t, IsPlan(t), Len(t) > 1, NEW x
  PROVE  /\ IsPlan([t EXCEPT ![2] = x]) /\ [t EXCEPT ![2] = x] # <<>>
         /\ Tail([t EXCEPT ![2] = x]) = [Tail(t) EXCEPT ![1] = x]
         /\ IsPlan([Tail(t) EXCEPT ![1] = x]) /\ [Tail(t) EXCEPT ![1] = x] # <<>>
         /\ Len([Tail(t) EXCEPT ![1] = x]) = Len(t) - 1
         /\ [Tail(t) EXCEPT ![1] = x][1] = x
         /\ \A i \in 2..(Len(t) - 1) : [Tail(t) EXCEPT ![1] = x][i] = t[i + 1]
  <1> DEFINE T == {t[i] : i \in DOMAIN t} \cup {x}
             u == [t EXCEPT ![2] = x]
             r == Tail(t)
             v == [r EXCEPT ![1] = x]
             w == Tail(u)
  <1>1. Len(t) \in Nat /\ DOMAIN t = 1..Len(t) /\ t # <<>> /\ t \in Seq(T)
    <2>1. {t[i] : i \in DOMAIN t} \subseteq T
      OBVIOUS
    <2>2. t \in Seq(T)
      BY <2>1, SeqMonotonic DEF IsPlan
    <2> QED
      BY <2>2, PlanFacts
  <1>2. /\ IsPlan(r) /\ Len(r) = Len(t) - 1 /\ DOMAIN r = 1..(Len(t) - 1)
        /\ \A i \in 1..(Len(t) - 1) : r[i] = t[i + 1]
    BY <1>1, RestOfPlan
  <1>3. r \in Seq(T) /\ x \in T /\ 1 \in 1..Len(r) /\ 2 \in 1..Len(t)
    BY <1>1, <1>2, HeadTailProperties
  <1>4. /\ u \in Seq(T) /\ Len(u) = Len(t) /\ \A i \in 1..Len(t) : u[i] = IF i = 2 THEN x ELSE t[i]
        /\ v \in Seq(T) /\ Len(v) = Len(t) - 1
        /\ \A i \in 1..Len(r) : v[i] = IF i = 1 THEN x ELSE r[i]
    <2>1. /\ u \in Seq(T) /\ Len(u) = Len(t)
          /\ \A i \in 1..Len(t) : u[i] = IF i = 2 THEN x ELSE t[i]
      <3> HIDE DEF T
      <3> QED
        BY <1>1, <1>3, ExceptSeq
    <2>2. /\ v \in Seq(T) /\ Len(v) = Len(r)
          /\ \A i \in 1..Len(r) : v[i] = IF i = 1 THEN x ELSE r[i]
      <3> HIDE DEF T, r
      <3> QED
        BY <1>3, ExceptSeq
    <2> QED
      BY <1>2, <2>1, <2>2
  <1> HIDE DEF T, u, r, v
  <1>5. /\ w \in Seq(T) /\ Len(w) = Len(t) - 1
        /\ \A i \in 1..Len(w) : w[i] = u[i + 1]
    <2>1. u # <<>>
      BY <1>1, <1>4
    <2> QED
      BY <1>4, <2>1, HeadTailProperties
  <1>6. ASSUME NEW i \in 1..(Len(t) - 1) PROVE w[i] = v[i]
    <2>1. i + 1 \in 1..Len(t) /\ (i + 1 = 2 <=> i = 1) /\ i \in 1..Len(w) /\ i \in 1..Len(r)
      BY <1>1, <1>2, <1>5
    <2> QED
      BY <1>2, <1>4, <1>5, <2>1
  <1>7. w = v
    <2> HIDE DEF w
    <2> QED
      BY <1>4, <1>5, <1>6, SeqEqual
  <1>8. IsPlan(v) /\ v # <<>> /\ IsPlan(u) /\ u # <<>>
    BY <1>1, <1>4, SeqIsPlan
  <1>9. v[1] = x /\ \A i \in 2..(Len(t) - 1) : v[i] = t[i + 1]
    BY <1>1, <1>2, <1>3, <1>4
  <1> QED
    BY <1>4, <1>7, <1>8, <1>9 DEF u, v, r, w

(* A position that is not the first is a later one.                         *)
LEMMA LaterPosition ==
  ASSUME NEW n \in Nat
  PROVE  \A i \in 1..(n - 1) : i # 1 => i \in 2..(n - 1)
  OBVIOUS

(* Nothing is left after the only step.                                     *)
LEMMA OnlyStep ==
  ASSUME NEW t, IsPlan(t), t # <<>>, NEW n, n = Len(t)
  PROVE  n = 1 <=> Tail(t) = <<>>
  <1>1. IsPlan(Tail(t)) /\ Len(Tail(t)) = n - 1 /\ n \in Nat
    BY RestOfPlan, PlanFacts
  <1>2. PICK m : m = Len(Tail(t))
    OBVIOUS
  <1>3. Tail(t) = <<>> <=> m = 0
    BY <1>1, <1>2, PlanFacts
  <1>4. m = n - 1 /\ n \in Nat
    BY <1>1, <1>2
  <1>5. m = 0 <=> n = 1
    <2> HIDE <1>1
    <2> QED
      BY <1>4
  <1> QED
    BY <1>3, <1>5

(* An update changes only the field it names.                               *)
LEMMA CommandUpdate ==
  ASSUME NEW op, NEW key, NEW force, NEW sforce, NEW t, NEW m, NEW old, NEW from,
         NEW c, c = Command(op, key, force, sforce, t, m, old, from)
  PROVE  /\ c.todo = t /\ c.mem = m
         /\ \A u : [c EXCEPT !.todo = u] = Command(op, key, force, sforce, u, m, old, from)
         /\ \A u : [c EXCEPT !.mem = u] = Command(op, key, force, sforce, t, u, old, from)
         /\ \A x : [c EXCEPT !.todo[2] = x]
                   = Command(op, key, force, sforce, [t EXCEPT ![2] = x], m, old, from)
  BY DEF Command

(* What Advance makes of a command with the steps t.                        *)
LEMMA AdvanceCommand ==
  ASSUME NEW op, NEW key, NEW force, NEW sforce, NEW t, NEW m, NEW old, NEW from,
         NEW c, c = Command(op, key, force, sforce, t, m, old, from), IsPlan(t), t # <<>>
  PROVE  Advance(c) = IF Tail(t) = <<>> THEN Idle
                      ELSE Command(op, key, force, sforce, Tail(t), m, old, from)
  <1>1. c.todo = t /\ [c EXCEPT !.todo = Tail(t)] = Command(op, key, force, sforce, Tail(t), m, old, from)
    BY DEF Command
  <1>2. Advance(c) = IF Len(t) = 1 THEN Idle ELSE [c EXCEPT !.todo = Tail(t)]
    BY <1>1 DEF Advance
  <1>3. Len(t) = 1 <=> Tail(t) = <<>>
    BY OnlyStep
  <1> QED
    BY <1>1, <1>2, <1>3

(* Advance drops the first step.                                            *)
LEMMA AdvanceIs ==
  ASSUME NEW c, CommandOK(c)
  PROVE  /\ Advance(c) = Continue(c, Tail(c.todo), c.mem)
         /\ \A m : Advance([c EXCEPT !.mem = m]) = Continue(c, Tail(c.todo), m)
         /\ \A x : Len(c.todo) > 1 =>
              Advance([c EXCEPT !.todo[2] = x]) = Continue(c, [Tail(c.todo) EXCEPT ![1] = x], c.mem)
  <1>1. c = Command(c.op, c.key, c.force, c.sforce, c.todo, c.mem, c.old, c.from)
    BY DEF CommandOK
  <1>2. IsPlan(c.todo) /\ c.todo # <<>>
    BY CommandFacts
  <1>3. Advance(c) = Continue(c, Tail(c.todo), c.mem)
    BY <1>1, <1>2, AdvanceCommand DEF Continue
  <1>4. ASSUME NEW m PROVE Advance([c EXCEPT !.mem = m]) = Continue(c, Tail(c.todo), m)
    <2> DEFINE d == [c EXCEPT !.mem = m]
    <2>1. d = Command(c.op, c.key, c.force, c.sforce, c.todo, m, c.old, c.from)
      BY <1>1, CommandUpdate
    <2> HIDE DEF d
    <2>2. Advance(d) = Continue(c, Tail(c.todo), m)
      BY <1>2, <2>1, AdvanceCommand DEF Continue
    <2> QED
      BY <2>2 DEF d
  <1>5. ASSUME NEW x, Len(c.todo) > 1
        PROVE  Advance([c EXCEPT !.todo[2] = x]) = Continue(c, [Tail(c.todo) EXCEPT ![1] = x], c.mem)
    <2> DEFINE d == [c EXCEPT !.todo[2] = x]
               u == [c.todo EXCEPT ![2] = x]
               v == [Tail(c.todo) EXCEPT ![1] = x]
    <2>1. d = Command(c.op, c.key, c.force, c.sforce, u, c.mem, c.old, c.from)
      BY <1>1, CommandUpdate
    <2>2. IsPlan(u) /\ u # <<>> /\ Tail(u) = v /\ v # <<>>
      BY <1>2, <1>5, RestChanged
    <2> HIDE DEF d, u, v
    <2>3. Advance(d) = IF Tail(u) = <<>> THEN Idle
                       ELSE Command(c.op, c.key, c.force, c.sforce, Tail(u), c.mem, c.old, c.from)
      BY <2>1, <2>2, AdvanceCommand
    <2>4. Advance(d) = Continue(c, v, c.mem)
      BY <2>2, <2>3 DEF Continue
    <2> QED
      BY <2>4 DEF d, v
  <1> QED
    BY <1>3, <1>4, <1>5

\* The steps r are left of command c; the manifest of the shared files that the
\* first of them saves was made by the step before.
Rest(c, r) ==
  /\ IsPlan(r) /\ Len(r) = Len(c.todo) - 1
  /\ \A i \in 1..Len(r) : r[i] = c.todo[i + 1] \/ (i = 1 /\ c.todo[1].do = "shared")
  /\ c.todo[1].do = "shared" => r[1].do = "saveshared" /\ SharedOK(r[1].sm)

(* After any step but the writing of the shared files the rest is left.     *)
LEMMA TailIsRest ==
  ASSUME NEW c, CommandOK(c), c.todo[1].do # "shared"
  PROVE  Rest(c, Tail(c.todo))
  BY CommandFacts, RestOfPlan DEF Rest

(* A command that writes the shared files saves their manifest next.        *)
LEMMA SharedIsSaved ==
  ASSUME NEW c, CommandOK(c), c.todo[1].do = "shared"
  PROVE  Len(c.todo) > 1 /\ c.todo[2].do = "saveshared"
  <1>1. Len(c.todo) \in Nat /\ Len(c.todo) > 0
    BY CommandFacts
  <1>2. /\ \A i \in 2..Len(c.todo) : c.todo[i].do = "saveshared" <=> c.todo[i - 1].do = "shared"
        /\ c.todo[Len(c.todo)].do # "shared"
    BY DEF CommandOK, PlanOK
  <1>3. PICK n : n = Len(c.todo)
    OBVIOUS
  <1>4. n \in Nat /\ n > 1 /\ 2 \in 2..n
    <2>1. n \in Nat /\ n > 0
      BY <1>1, <1>3
    <2>2. c.todo[n].do # "shared"
      BY <1>2, <1>3
    <2>3. n # 1
      BY <2>2
    <2> QED
      BY <2>1, <2>3
  <1>5. c.todo[2].do = "saveshared" <=> c.todo[2 - 1].do = "shared"
    BY <1>2, <1>3, <1>4
  <1>6. 2 - 1 = 1
    OBVIOUS
  <1>7. c.todo[2].do = "saveshared"
    BY <1>5, <1>6
  <1> QED
    BY <1>3, <1>4, <1>7

(* After the writing of the shared files the manifest is known.             *)
LEMMA SharedRest ==
  ASSUME NEW c, CommandOK(c), c.todo[1].do = "shared", NEW x, x.do = "saveshared", SharedOK(x.sm)
  PROVE  /\ Rest(c, [Tail(c.todo) EXCEPT ![1] = x])
         /\ [Tail(c.todo) EXCEPT ![1] = x] # <<>> /\ [Tail(c.todo) EXCEPT ![1] = x][1] = x
  <1> DEFINE v == [Tail(c.todo) EXCEPT ![1] = x]
  <1>1. Len(c.todo) > 1 /\ IsPlan(c.todo) /\ Len(c.todo) \in Nat
    BY SharedIsSaved, CommandFacts
  <1>2. /\ IsPlan(v) /\ v # <<>> /\ Len(v) = Len(c.todo) - 1 /\ v[1] = x
        /\ \A i \in 2..(Len(c.todo) - 1) : v[i] = c.todo[i + 1]
    BY <1>1, RestChanged, ZenonT(40)
  <1> HIDE DEF v
  <1>3. \A i \in 1..Len(v) : v[i] = c.todo[i + 1] \/ (i = 1 /\ c.todo[1].do = "shared")
    <2>1. PICK n : n = Len(c.todo)
      OBVIOUS
    <2>2. n \in Nat /\ n > 1 /\ Len(v) = n - 1
      BY <1>1, <1>2, <2>1
    <2>3. n \in Nat
      BY <2>2
    <2>4. \A i \in 1..(n - 1) : i # 1 => i \in 2..(n - 1)
      BY <2>3, LaterPosition
    <2> QED
      BY <1>2, <2>1, <2>2, <2>4
  <1>4. Rest(c, v)
    BY <1>2, <1>3 DEF Rest
  <1> QED
    BY <1>2, <1>4 DEF v

(* What is ahead of a command and of its rest.                              *)
LEMMA RestAhead ==
  ASSUME NEW c, CommandOK(c), NEW r, Rest(c, r), NEW do
  PROVE  /\ Pending(c.todo, do) <=> c.todo[1].do = do \/ Pending(r, do)
         /\ do # "saveshared" /\ Pending(r, do) => LastOf(r, do) = LastOf(c.todo, do)
         /\ c.todo[1].do = do /\ ~Pending(r, do) => LastOf(c.todo, do) = c.todo[1]
  <1> DEFINE t == c.todo
             q == Tail(t)
  <1>1. /\ IsPlan(t) /\ t # <<>> /\ Len(t) \in Nat /\ Len(t) > 0
        /\ IsPlan(r) /\ Len(r) = Len(t) - 1 /\ DOMAIN r = 1..Len(r)
    BY CommandFacts, PlanFacts DEF Rest
  <1>2. /\ IsPlan(q) /\ Len(q) = Len(t) - 1 /\ DOMAIN q = 1..(Len(t) - 1)
        /\ \A i \in 1..(Len(t) - 1) : q[i] = t[i + 1]
    BY <1>1, RestOfPlan
  <1>3. /\ Pending(t, do) <=> t[1].do = do \/ Pending(q, do)
        /\ Pending(q, do) => LastOf(q, do) = LastOf(t, do)
        /\ t[1].do = do /\ ~Pending(q, do) => LastOf(t, do) = t[1]
    BY <1>1, AheadRest
  <1>4. \A i \in DOMAIN r : r[i].do = q[i].do /\ (r[i].do # "saveshared" => r[i] = q[i])
    <2> SUFFICES ASSUME NEW i \in DOMAIN r
                 PROVE  r[i].do = q[i].do /\ (r[i].do # "saveshared" => r[i] = q[i])
      OBVIOUS
    <2>1. CASE r[i] = t[i + 1]
      BY <1>1, <1>2, <2>1
    <2>2. CASE i = 1 /\ t[1].do = "shared"
      <3>1. r[1].do = "saveshared" /\ t[2].do = "saveshared"
        BY <2>2, SharedIsSaved DEF Rest
      <3>2. q[1] = t[1 + 1] /\ 1 + 1 = 2
        BY <1>1, <1>2, <2>2
      <3>3. q[1] = t[2]
        BY <3>2
      <3> HIDE DEF t, q
      <3>4. r[1].do = q[1].do
        BY <3>1, <3>3 DEF t
      <3> QED
        BY <2>2, <3>1, <3>4
    <2> QED
      BY <1>1, <2>1, <2>2 DEF Rest
  <1> HIDE DEF t, q
  <1>5. Pending(r, do) <=> Pending(q, do)
    BY <1>1, <1>2, <1>4 DEF Pending
  <1>6. ASSUME do # "saveshared", Pending(r, do) PROVE LastOf(r, do) = LastOf(q, do)
    <2>1. PICK i : /\ i = LastAt(q, do) /\ i \in DOMAIN q /\ q[i].do = do
                   /\ \A j \in DOMAIN q : j > i => q[j].do # do
      <3>1. IsPlan(q) /\ Pending(q, do)
        BY <1>2, <1>5, <1>6
      <3> QED
        BY <3>1, LastStep
    <2>2. i \in DOMAIN r /\ r[i] = q[i] /\ r[i].do = do /\ \A j \in DOMAIN r : j > i => r[j].do # do
      BY <1>1, <1>2, <1>4, <1>6, <2>1
    <2>3. LastOf(r, do) = r[i]
      BY <1>1, <2>2, LastIs
    <2> QED
      BY <2>1, <2>2, <2>3 DEF LastOf
  <1> QED
    BY <1>3, <1>5, <1>6 DEF t

(* The first step comes before the rest.                                    *)
LEMMA FirstPrecedes ==
  ASSUME NEW c, CommandOK(c), NEW r, Rest(c, r), NEW i \in DOMAIN r
  PROVE  StepOK(c, c.todo[1]) /\ StepOK(c, r[i]) /\ Precedes(c, c.todo[1], r[i])
  <1> DEFINE t == c.todo
  <1>1. /\ IsPlan(t) /\ Len(t) \in Nat /\ Len(t) > 0 /\ DOMAIN t = 1..Len(t)
        /\ Len(r) = Len(t) - 1 /\ DOMAIN r = 1..Len(r)
    BY CommandFacts, PlanFacts DEF Rest
  <1>2. 1 \in DOMAIN t /\ i + 1 \in DOMAIN t /\ 1 < i + 1
    BY <1>1
  <1>3. StepOK(c, t[1]) /\ StepOK(c, t[i + 1]) /\ Precedes(c, t[1], t[i + 1])
    BY <1>2 DEF CommandOK, PlanOK
  <1>4. CASE r[i] = t[i + 1]
    BY <1>3, <1>4
  <1>5. CASE i = 1 /\ t[1].do = "shared"
    <2>1. r[1].do = "saveshared"
      BY <1>5 DEF Rest
    <2> QED
      BY <1>3, <1>5, <2>1 DEF StepOK, Precedes
  <1> QED
    BY <1>1, <1>4, <1>5 DEF Rest

(* A command with the rest of its steps is one again.                       *)
LEMMA RestIsCommand ==
  ASSUME NEW c, CommandOK(c), NEW r, Rest(c, r), r # <<>>, NEW m, ManifestOK(m, c.key)
  PROVE  /\ CommandOK(Continue(c, r, m)) /\ Continue(c, r, m) # Idle
         /\ Continue(c, r, m).op = c.op /\ Continue(c, r, m).key = c.key
         /\ Continue(c, r, m).force = c.force /\ Continue(c, r, m).sforce = c.sforce
         /\ Continue(c, r, m).todo = r /\ Continue(c, r, m).mem = m
         /\ Continue(c, r, m).old = c.old /\ Continue(c, r, m).from = c.from
  <1> DEFINE d == Continue(c, r, m)
             t == c.todo
  <1>1. /\ d = Command(c.op, c.key, c.force, c.sforce, r, m, c.old, c.from)
        /\ d.op = c.op /\ d.key = c.key /\ d.force = c.force /\ d.sforce = c.sforce
        /\ d.todo = r /\ d.mem = m /\ d.old = c.old /\ d.from = c.from
    BY DEF Continue, Command
  <1> HIDE DEF d
  <1>2. /\ IsPlan(t) /\ Len(t) \in Nat /\ Len(t) > 0 /\ DOMAIN t = 1..Len(t)
        /\ IsPlan(r) /\ Len(r) = Len(t) - 1 /\ DOMAIN r = 1..Len(r) /\ Len(r) > 0 /\ Len(r) \in Nat
    BY CommandFacts, PlanFacts DEF Rest
  <1>3. ASSUME NEW i \in DOMAIN r PROVE StepOK(d, r[i])
    <2>1. StepOK(c, r[i])
      BY FirstPrecedes
    <2> QED
      BY <1>1, <2>1 DEF StepOK
  <1>4. ASSUME NEW i \in DOMAIN r
        PROVE  /\ i + 1 \in DOMAIN t /\ r[i].do = t[i + 1].do
               /\ r[i] = t[i + 1] \/ (i = 1 /\ r[i].do = "saveshared")
    <2>1. i + 1 \in DOMAIN t
      BY <1>2
    <2>2. CASE r[i] = t[i + 1]
      BY <2>1, <2>2
    <2>3. CASE i = 1 /\ t[1].do = "shared"
      <3>1. r[1].do = "saveshared" /\ t[2].do = "saveshared"
        BY <2>3, SharedIsSaved DEF Rest
      <3>2. i + 1 = 2
        BY <2>3
      <3> HIDE DEF t
      <3>3. r[i].do = "saveshared" /\ t[i + 1].do = "saveshared"
        BY <2>3, <3>1, <3>2 DEF t
      <3> QED
        BY <2>1, <2>3, <3>3
    <2> QED
      BY <1>2, <2>2, <2>3 DEF Rest
  <1>5. ASSUME NEW i \in DOMAIN r, NEW j \in DOMAIN r, i < j PROVE Precedes(d, r[i], r[j])
    <2>1. i + 1 \in DOMAIN t /\ j + 1 \in DOMAIN t /\ i + 1 < j + 1
      BY <1>2, <1>5
    <2>2. Precedes(c, t[i + 1], t[j + 1])
      BY <2>1 DEF CommandOK, PlanOK
    <2>3. r[j] = t[j + 1]
      <3>1. j # 1
        BY <1>2, <1>5
      <3> QED
        BY <1>4, <3>1
    <2>4. Precedes(c, r[i], r[j])
      <3>1. CASE r[i] = t[i + 1]
        BY <2>2, <2>3, <3>1
      <3>2. CASE r[i].do = "saveshared"
        <4>1. t[i + 1].do = "saveshared"
          BY <1>4, <3>2
        <4> QED
          BY <2>2, <2>3, <3>2, <4>1 DEF Precedes
      <3> QED
        BY <1>4, <3>1, <3>2
    <2>5. Kept(d) = Kept(c)
      BY <1>1 DEF Kept
    <2> QED
      BY <1>1, <2>4, <2>5 DEF Precedes
  <1>6. ASSUME NEW i \in 2..Len(r) PROVE r[i].do = "saveshared" <=> r[i - 1].do = "shared"
    <2>1. i + 1 \in 2..Len(t) /\ (i + 1) - 1 = i /\ (i - 1) + 1 = i /\ i \in DOMAIN r /\ i - 1 \in DOMAIN r
      BY <1>2
    <2>2. t[i + 1].do = "saveshared" <=> t[(i + 1) - 1].do = "shared"
      BY <2>1 DEF CommandOK, PlanOK
    <2>3. r[i].do = t[i + 1].do
      BY <1>4, <2>1
    <2>4. r[i - 1].do = t[(i - 1) + 1].do
      BY <1>4, <2>1
    <2> QED
      BY <2>1, <2>2, <2>3, <2>4
  <1>7. r[Len(r)].do # "shared"
    <2>1. Len(r) \in DOMAIN r /\ Len(r) + 1 = Len(t)
      BY <1>2
    <2>2. r[Len(r)].do = t[Len(r) + 1].do
      BY <1>4, <2>1
    <2>3. t[Len(t)].do # "shared"
      BY DEF CommandOK, PlanOK
    <2> QED
      BY <2>1, <2>2, <2>3
  <1>8. r[1].do = "saveshared" => SharedOK(r[1].sm)
    <2>1. 1 \in DOMAIN r /\ 2 \in 2..Len(t) /\ 1 + 1 = 2 /\ 2 - 1 = 1
      BY <1>2
    <2>2. t[2].do = "saveshared" <=> t[2 - 1].do = "shared"
      BY <2>1 DEF CommandOK, PlanOK
    <2>3. t[2].do = "saveshared" <=> t[1].do = "shared"
      BY <2>1, <2>2
    <2>4. r[1].do = t[1 + 1].do
      BY <1>4, <2>1
    <2>5. r[1].do = t[2].do
      BY <2>1, <2>4
    <2> QED
      BY <2>3, <2>5 DEF Rest
  <1>9. PlanOK(d)
    BY <1>1, <1>2, <1>3, <1>5, <1>6, <1>7, <1>8 DEF PlanOK
  <1>10. CommandOK(d)
    BY <1>1, <1>9 DEF CommandOK
  <1> QED
    BY <1>1, <1>10, CommandFacts DEF d

(* The first step, and what comes after it.                                 *)
LEMMA NextStep ==
  ASSUME CommandOK(cli), NEW r, Rest(cli, r)
  PROVE  /\ Step = cli.todo[1] /\ StepOK(cli, Step)
         /\ \A do : Todo(do) <=> Step.do = do \/ Pending(r, do)
         /\ \A do : Pending(r, do) => \E b : b.do = do /\ StepOK(cli, b) /\ Precedes(cli, Step, b)
         /\ \A do : Pending(r, do) /\ do # "saveshared" =>
              /\ LastOf(r, do) = LastOf(cli.todo, do) /\ LastOf(r, do).do = do
              /\ StepOK(cli, LastOf(r, do)) /\ Precedes(cli, Step, LastOf(r, do))
         /\ \A do : Step.do = do /\ ~Pending(r, do) => LastOf(cli.todo, do) = Step
         /\ r = <<>> => \A do : ~Pending(r, do)
  <1>1. cli # Idle /\ Step = cli.todo[1] /\ IsPlan(r)
    BY CommandFacts DEF Step, Rest
  <1>2. StepOK(cli, Step)
    <2>1. 1 \in DOMAIN cli.todo
      BY CommandFacts
    <2> QED
      BY <1>1, <2>1 DEF CommandOK, PlanOK
  <1>3. ASSUME NEW do
        PROVE  /\ Todo(do) <=> Step.do = do \/ Pending(r, do)
               /\ Pending(r, do) /\ do # "saveshared" => LastOf(r, do) = LastOf(cli.todo, do)
               /\ Step.do = do /\ ~Pending(r, do) => LastOf(cli.todo, do) = Step
    BY <1>1, RestAhead DEF Todo
  <1>4. ASSUME NEW do, Pending(r, do)
        PROVE  /\ \E b : b.do = do /\ StepOK(cli, b) /\ Precedes(cli, Step, b)
               /\ LastOf(r, do).do = do /\ StepOK(cli, LastOf(r, do)) /\ Precedes(cli, Step, LastOf(r, do))
    <2>1. LastAt(r, do) \in DOMAIN r /\ r[LastAt(r, do)].do = do
      BY <1>1, <1>4, LastStep
    <2>2. StepOK(cli, r[LastAt(r, do)]) /\ Precedes(cli, Step, r[LastAt(r, do)])
      BY <1>1, <2>1, FirstPrecedes
    <2> QED
      BY <2>1, <2>2 DEF LastOf
  <1>5. r = <<>> => \A do : ~Pending(r, do)
    BY <1>1, PlanFacts DEF Pending
  <1> QED
    BY <1>1, <1>2, <1>3, <1>4, <1>5

(* The command after a step: Goal and GoalOpt stay what they were.          *)
LEMMA AfterStep ==
  ASSUME CommandOK(cli), NEW r, Rest(cli, r), NEW m, ManifestOK(m, cli.key),
         cli' = Continue(cli, r, m)
  PROVE  /\ cli' # Idle => /\ CommandOK(cli') /\ cli'.op = cli.op /\ cli'.key = cli.key
                           /\ cli'.force = cli.force /\ cli'.sforce = cli.sforce
                           /\ cli'.todo = r /\ cli'.mem = m /\ cli'.old = cli.old
                           /\ cli'.from = cli.from /\ Kept(cli)' = Kept(cli)
         /\ \A do : Todo(do)' <=> Pending(r, do)
         /\ conf' = (IF Step.do = "json" THEN Step.conf ELSE conf) => Goal' = Goal
         /\ initopt' = (IF Step.do = "opts" THEN Step.key
                        ELSE IF Step.do = "clear" /\ initopt = Step.key THEN None ELSE initopt)
              => GoalOpt' = GoalOpt
  <1>1. /\ cli # Idle /\ Step = cli.todo[1] /\ StepOK(cli, Step)
        /\ \A do : Todo(do) <=> Step.do = do \/ Pending(r, do)
        /\ r = <<>> => \A do : ~Pending(r, do)
    BY NextStep, CommandFacts
  <1>2. cli' # Idle => /\ CommandOK(cli') /\ cli'.op = cli.op /\ cli'.key = cli.key
                       /\ cli'.force = cli.force /\ cli'.sforce = cli.sforce
                       /\ cli'.todo = r /\ cli'.mem = m /\ cli'.old = cli.old
                       /\ cli'.from = cli.from /\ r # <<>>
    BY RestIsCommand DEF Continue
  <1>3. r # <<>> => cli' # Idle
    BY RestIsCommand
  <1>4. cli' # Idle => Kept(cli)' = Kept(cli)
    BY <1>2 DEF Kept
  <1>5. ASSUME NEW do PROVE Todo(do)' <=> Pending(r, do)
    BY <1>1, <1>2, <1>3 DEF Todo
  <1>6. ASSUME conf' = (IF Step.do = "json" THEN Step.conf ELSE conf) PROVE Goal' = Goal
    <2>1. Goal' = Target(r, conf')
      <3>1. CASE cli' = Idle
        BY <1>1, <1>3, <3>1 DEF Goal, Target
      <3>2. CASE cli' # Idle
        BY <1>2, <3>2 DEF Goal
      <3> QED
        BY <3>1, <3>2
    <2>2. Goal = Target(cli.todo, conf)
      BY <1>1 DEF Goal
    <2>3. /\ Pending(cli.todo, "json") <=> Step.do = "json" \/ Pending(r, "json")
          /\ Pending(r, "json") => LastOf(r, "json") = LastOf(cli.todo, "json")
          /\ Step.do = "json" /\ ~Pending(r, "json") => LastOf(cli.todo, "json") = Step
      BY <1>1, RestAhead
    <2> QED
      BY <1>6, <2>1, <2>2, <2>3 DEF Target
  <1>7. ASSUME initopt' = (IF Step.do = "opts" THEN Step.key
                           ELSE IF Step.do = "clear" /\ initopt = Step.key THEN None ELSE initopt)
        PROVE  GoalOpt' = GoalOpt
    <2>1. GoalOpt' = FinalOpt(r, initopt')
      <3>1. CASE cli' = Idle
        BY <1>1, <1>3, <3>1 DEF GoalOpt, FinalOpt
      <3>2. CASE cli' # Idle
        BY <1>2, <3>2 DEF GoalOpt
      <3> QED
        BY <3>1, <3>2
    <2>2. GoalOpt = FinalOpt(cli.todo, initopt)
      BY <1>1 DEF GoalOpt
    <2>3. /\ Pending(cli.todo, "opts") <=> Step.do = "opts" \/ Pending(r, "opts")
          /\ Pending(r, "opts") => LastOf(r, "opts") = LastOf(cli.todo, "opts")
          /\ Step.do = "opts" /\ ~Pending(r, "opts") => LastOf(cli.todo, "opts") = Step
          /\ Pending(cli.todo, "clear") <=> Step.do = "clear" \/ Pending(r, "clear")
          /\ Pending(r, "clear") => LastOf(r, "clear") = LastOf(cli.todo, "clear")
          /\ Step.do = "clear" /\ ~Pending(r, "clear") => LastOf(cli.todo, "clear") = Step
      BY <1>1, RestAhead
    <2>4. /\ Pending(r, "clear") => LastOf(r, "clear").do = "clear" /\ Precedes(cli, Step, LastOf(r, "clear"))
      BY NextStep
    <2>5. CASE Step.do = "opts"
      <3>1. Pending(r, "clear") => LastOf(r, "clear").key # Step.key
        BY <2>4, <2>5 DEF Precedes
      <3> QED
        BY <1>7, <2>1, <2>2, <2>3, <2>5, <3>1 DEF FinalOpt
    <2>6. CASE Step.do = "clear"
      <3>1. ~Pending(r, "clear")
        BY <2>4, <2>6 DEF Precedes
      <3> QED
        BY <1>7, <2>1, <2>2, <2>3, <2>6, <3>1 DEF FinalOpt
    <2>7. CASE Step.do \notin {"opts", "clear"}
      BY <1>7, <2>1, <2>2, <2>3, <2>7 DEF FinalOpt
    <2> QED
      BY <2>5, <2>6, <2>7
  <1> QED
    BY <1>2, <1>4, <1>5, <1>6, <1>7

-----------------------------------------------------------------------------
(* Lemmas about the data. *)

(* The files and contents of an integration.                                *)
LEMMA OwnedFiles ==
  ASSUME NEW k \in Integration
  PROVE  /\ Owned(k) \subseteq CommandFile /\ Owned(k) \cap SharedFile = {}
         /\ \A v \in Version : \A o \in OptionOf(k) : Provides[v][k][o] \subseteq Owned(k)
         /\ NoFile \notin CommandText /\ User \notin CommandText
         /\ \A v \in Version : \A o \in OptionOf(k) :
              <<v, Sep[k][o]>> # NoFile /\ <<v, Sep[k][o]>> # User
  <1>1. \A v \in Version : \A o \in OptionOf(k) : Provides[v][k][o] \subseteq CommandFile
    BY IntegrationsAssumption
  <1>2. Owned(k) \subseteq CommandFile
    BY <1>1 DEF Owned
  <1>3. Owned(k) \cap SharedFile = {}
    BY <1>2, IntegrationsAssumption
  <1>4. \A v \in Version : \A o \in OptionOf(k) : Provides[v][k][o] \subseteq Owned(k)
    BY DEF Owned
  <1>5. \A v \in Version : \A o \in OptionOf(k) :
          {<<v, "command">>, <<v, Sep[k][o]>>} \cap {NoFile, User} = {}
    BY IntegrationsAssumption
  <1>6. Unset \in OptionOf(k)
    BY DEF OptionOf
  <1>7. ASSUME NEW v \in Version PROVE <<v, "command">> # NoFile /\ <<v, "command">> # User
    BY <1>5, <1>6
  <1>8. \A v \in Version : \A o \in OptionOf(k) : <<v, Sep[k][o]>> # NoFile /\ <<v, Sep[k][o]>> # User
    BY <1>5
  <1>9. NoFile \notin CommandText /\ User \notin CommandText
    BY <1>7 DEF CommandText
  <1> QED
    BY <1>2, <1>3, <1>4, <1>8, <1>9

(* A manifest records contents that are neither the user's nor none.        *)
LEMMA Recorded ==
  ASSUME NEW k \in Integration, NEW m, ManifestOK(m, k), m # NoManifest, NEW f \in DOMAIN m
  PROVE  /\ m[f] \in CommandText /\ m[f] # NoFile /\ m[f] # User
         /\ f \in Owned(k) /\ f \in CommandFile /\ f \notin SharedFile /\ f \in File
  <1>1. m[f] \in CommandText /\ f \in Owned(k)
    BY DEF ManifestOK
  <1> QED
    BY <1>1, OwnedFiles DEF File

(* What setup records is a manifest.                                        *)
LEMMA RecordOK ==
  ASSUME NEW k \in Integration, NEW o \in OptionOf(k), version \in Version,
         NEW w \in SUBSET Files(k, o)
  PROVE  /\ Record(w) # NoManifest /\ DOMAIN Record(w) = w /\ ManifestOK(Record(w), k)
         /\ \A f \in w : Record(w)[f] = CommandContent
         /\ w \subseteq Owned(k) /\ CommandContent \in CommandText
  <1>1. Files(k, o) \subseteq Owned(k) /\ Owned(k) \subseteq CommandFile
    BY OwnedFiles DEF Files
  <1>2. CommandContent \in CommandText
    BY DEF CommandContent, CommandText
  <1>3. Record(w) # NoManifest
    <2>1. w \in SUBSET CommandFile
      BY <1>1
    <2>2. [f \in w |-> <<version, "command">>] # NoManifest
      BY <2>1, IntegrationsAssumption
    <2> QED
      BY <2>2 DEF Record, CommandContent
  <1>4. DOMAIN Record(w) = w /\ \A f \in w : Record(w)[f] = CommandContent
    BY DEF Record
  <1>5. Record(w) \in [w -> CommandText]
    BY <1>2 DEF Record
  <1> QED
    BY <1>1, <1>2, <1>3, <1>4, <1>5 DEF ManifestOK

(* What install_shared_infra writes and records.                            *)
LEMMA RecordSharedOK ==
  ASSUME NEW sm, SharedOK(sm), NEW disk, DOMAIN disk = File, NEW force, NEW refresh,
         NEW content, content # NoFile, content # User
  PROVE  /\ SharedOK(RecordShared(sm, disk, force, refresh, content))
         /\ \A f \in CommandFile : WriteShared(sm, disk, force, refresh, content)[f] = disk[f]
         /\ DOMAIN WriteShared(sm, disk, force, refresh, content) = File
  <1> DEFINE written == Planned(sm, disk, force, refresh)
             found == SharedFile \ (written \cup DOMAIN sm.files)
             new == RecordShared(sm, disk, force, refresh, content)
  <1>1. written \subseteq SharedFile
    BY DEF Planned
  <1>2. /\ new.files = [f \in SharedFile |->
                         IF f \in written THEN content
                         ELSE IF f \in found THEN disk[f] ELSE sm.files[f]]
        /\ new.recovered = (sm.recovered \ written) \cup found
    BY DEF RecordShared
  <1> HIDE DEF written, new
  <1>3. ASSUME NEW f \in DOMAIN new.files \ new.recovered
        PROVE  new.files[f] \notin {NoFile, User}
    <2>1. CASE f \in written
      BY <1>2, <2>1
    <2>2. CASE f \notin written
      <3>1. f \in SharedFile /\ f \notin found /\ f \in DOMAIN sm.files \ sm.recovered
        BY <1>2, <2>2
      <3>2. new.files[f] = sm.files[f]
        BY <1>2, <2>2, <3>1
      <3> QED
        BY <3>1, <3>2 DEF SharedOK
    <2> QED
      BY <2>1, <2>2
  <1>4. DOMAIN new.files \subseteq SharedFile
    BY <1>2
  <1>5. SharedOK(new)
    BY <1>3, <1>4 DEF SharedOK
  <1>6. \A f \in CommandFile : f \notin SharedFile /\ f \in File
    BY IntegrationsAssumption DEF File
  <1> QED
    BY <1>1, <1>5, <1>6 DEF new, written, WriteShared

(* uninstall deletes recorded files, and without force only unchanged ones. *)
LEMMA UninstallIs ==
  ASSUME NEW m, NEW disk, NEW force, NEW f \in File
  PROVE  /\ f \notin DOMAIN m => Uninstall(m, disk, force)[f] = disk[f]
         /\ f \in DOMAIN m /\ force => Uninstall(m, disk, force)[f] = NoFile
         /\ ~force /\ m[f] # disk[f] => Uninstall(m, disk, force)[f] = disk[f]
         /\ Uninstall(m, disk, force)[f] \in {NoFile, disk[f]}
         /\ f \in DOMAIN m /\ m[f] = disk[f] => Uninstall(m, disk, force)[f] = NoFile
  BY DEF Uninstall

-----------------------------------------------------------------------------
(* Lemmas about context files. *)
(* Where a marker is found.                                                 *)
LEMMA FindIs ==
  ASSUME NEW c \in Seq(Piece), NEW piece, NEW from \in Nat, from >= 1
  PROVE  LET p == Find(c, piece, from) IN
         /\ p \in 0..Len(c)
         /\ p # 0 => p >= from /\ c[p] = piece /\ \A i \in from..Len(c) : c[i] = piece => p <= i
         /\ p = 0 => \A i \in from..Len(c) : c[i] # piece
  <1> DEFINE at == {i \in from..Len(c) : c[i] = piece}
             p == Find(c, piece, from)
  <1>1. Len(c) \in Nat
    BY LenProperties
  <1>2. CASE at = {}
    BY <1>1, <1>2 DEF Find
  <1>3. CASE at # {}
    <2>1. at \in SUBSET Nat
      BY <1>1
    <2>2. \E i \in at : \A j \in at : i <= j
      BY <1>3, <2>1, LeastNumber
    <2>3. p = CHOOSE i \in at : \A j \in at : i <= j
      BY <1>3 DEF Find
    <2>4. p \in at /\ \A j \in at : p <= j
      BY <2>2, <2>3
    <2> QED
      BY <1>1, <2>4
  <1> QED
    BY <1>2, <1>3

(* Writing or removing the section, or an edit, leaves a sequence of pieces. *)
LEMMA ContextType ==
  ASSUME NEW c \in Seq(Piece)
  PROVE  /\ WriteSection(c) \in Seq(Piece) /\ CutSection(c) \in Seq(Piece)
         /\ \A t \in Text : Append(c, t) \in Seq(Piece)
         /\ \A i \in DOMAIN c : RemoveAt(c, i) \in Seq(Piece)
  <1>1. Section \in Seq(Piece)
    BY DEF Section, Piece
  <1>2. Start(c) \in 0..Len(c) /\ Len(c) \in Nat
    BY FindIs, LenProperties DEF Start
  <1>3. End(c) \in 0..Len(c)
    <2>1. CASE Start(c) = 0
      BY <2>1, FindIs DEF End
    <2>2. CASE Start(c) # 0
      <3>1. Start(c) \in Nat /\ Start(c) >= 1
        BY <1>2, <2>2
      <3> QED
        BY <2>2, <3>1, FindIs DEF End
    <2> QED
      BY <2>1, <2>2
  <1>4. ASSUME NEW i \in 1..(Len(c) + 1), NEW j \in 0..Len(c) PROVE SubSeq(c, i, j) \in Seq(Piece)
    BY <1>2, <1>4, SubSeqProperties
  <1>5. Start(c) # 0 => Before(c) \in Seq(Piece)
    <2>1. Start(c) # 0 => Start(c) - 1 \in 0..Len(c) /\ 1 \in 1..(Len(c) + 1)
      BY <1>2
    <2> QED
      BY <1>4, <2>1 DEF Before
  <1>6. After(c) \in Seq(Piece)
    <2>1. End(c) + 1 \in 1..(Len(c) + 1) /\ Len(c) \in 0..Len(c)
      BY <1>2, <1>3
    <2> QED
      BY <1>4, <2>1 DEF After
  <1>7. \A s, t \in Seq(Piece) : s \o t \in Seq(Piece)
    BY ConcatProperties
  <1>8. WriteSection(c) \in Seq(Piece)
    BY <1>1, <1>5, <1>6, <1>7 DEF WriteSection
  <1>9. CutSection(c) \in Seq(Piece)
    BY <1>5, <1>6, <1>7 DEF CutSection
  <1>10. \A t \in Text : Append(c, t) \in Seq(Piece)
    BY AppendProperties DEF Piece
  <1>11. ASSUME NEW i \in DOMAIN c PROVE RemoveAt(c, i) \in Seq(Piece)
    <2>1. i - 1 \in 0..Len(c) /\ 1 \in 1..(Len(c) + 1) /\ i + 1 \in 1..(Len(c) + 1) /\ Len(c) \in 0..Len(c)
      BY <1>2, LenProperties
    <2> QED
      BY <1>4, <1>7, <2>1 DEF RemoveAt
  <1> QED
    BY <1>8, <1>9, <1>10, <1>11

\* A piece p of c in the place of the i-th, and one put in before the i-th.
Replaced(c, i, p) == [c EXCEPT ![i] = p]
Inserted(c, i, p) == SubSeq(c, 1, i - 1) \o <<p>> \o SubSeq(c, i, Len(c))

(* The frontmatter is put on top, or a line of it is replaced or put in     *)
(* before the closing fence.                                                *)
LEMMA FrontmatterIs ==
  ASSUME NEW c \in Seq(Piece)
  PROVE  \/ EnsureFrontmatter(c) = <<Fence, Always, Fence>> \o c
         \/ EnsureFrontmatter(c) = c
         \/ \E i \in 1..Len(c) : c[i] = Never /\ EnsureFrontmatter(c) = Replaced(c, i, Always)
         \/ \E i \in 1..Len(c) : c[i] = Fence /\ EnsureFrontmatter(c) = Inserted(c, i, Always)
  <1>1. /\ Len(c) \in Nat
        /\ Closing(c) \in 0..Len(c) /\ (Closing(c) # 0 => c[Closing(c)] = Fence)
        /\ Find(c, Never, 2) \in 0..Len(c) /\ (Find(c, Never, 2) # 0 => c[Find(c, Never, 2)] = Never)
        /\ Find(c, Never, 2) = 0 => \A i \in 2..Len(c) : c[i] # Never
    BY FindIs, LenProperties DEF Closing
  <1>2. CASE HasFrontmatter(c) /\ Always \notin Settings(c) /\ Never \in Settings(c)
    <2> DEFINE i == Find(c, Never, 2)
    <2>1. PICK j \in 2..(Closing(c) - 1) : c[j] = Never
      BY <1>2 DEF Settings
    <2>2. j \in 2..Len(c)
      BY <1>1, <2>1
    <2>3. i # 0
      BY <1>1, <2>1, <2>2
    <2>4. i \in 1..Len(c) /\ c[i] = Never
      BY <1>1, <2>3
    <2>5. EnsureFrontmatter(c) = Replaced(c, i, Always)
      BY <1>2 DEF EnsureFrontmatter, Replaced, ReplaceAt
    <2> HIDE DEF i
    <2> QED
      BY <2>4, <2>5
  <1>3. CASE HasFrontmatter(c) /\ Always \notin Settings(c) /\ Never \notin Settings(c)
    <2>1. Closing(c) \in 1..Len(c) /\ c[Closing(c)] = Fence
      BY <1>1, <1>3 DEF HasFrontmatter
    <2>2. EnsureFrontmatter(c) = Inserted(c, Closing(c), Always)
      BY <1>3 DEF EnsureFrontmatter, Inserted, InsertAt
    <2> QED
      BY <2>1, <2>2
  <1>4. CASE HasFrontmatter(c) /\ Always \in Settings(c)
    BY <1>4 DEF EnsureFrontmatter
  <1>5. CASE ~HasFrontmatter(c)
    BY <1>5 DEF EnsureFrontmatter
  <1> QED
    BY <1>2, <1>3, <1>4, <1>5

(* The frontmatter, too, leaves a sequence of pieces.                       *)
LEMMA FrontmatterType ==
  ASSUME NEW c \in Seq(Piece)
  PROVE  EnsureFrontmatter(c) \in Seq(Piece)
  <1>1. /\ Fence \in Piece /\ Always \in Piece
        /\ <<Fence, Always, Fence>> \in Seq(Piece) /\ <<Always>> \in Seq(Piece)
    BY ContextSectionAssumption DEF Piece
  <1>2. <<Fence, Always, Fence>> \o c \in Seq(Piece)
    BY <1>1, ConcatProperties
  <1>3. ASSUME NEW i \in 1..Len(c)
        PROVE  Replaced(c, i, Always) \in Seq(Piece) /\ Inserted(c, i, Always) \in Seq(Piece)
    <2>1. Replaced(c, i, Always) \in Seq(Piece)
      BY <1>1, <1>3, ExceptSeq DEF Replaced
    <2>2. SubSeq(c, 1, i - 1) \in Seq(Piece) /\ SubSeq(c, i, Len(c)) \in Seq(Piece)
      BY <1>3, LenProperties, SubSeqProperties
    <2>3. Inserted(c, i, Always) \in Seq(Piece)
      BY <1>1, <2>2, ConcatProperties DEF Inserted
    <2> QED
      BY <2>1, <2>3
  <1> QED
    BY <1>2, <1>3, FrontmatterIs

(* So do the two operations on a context file.                              *)
LEMMA ContextOpsType ==
  ASSUME NEW c \in Seq(Piece), NEW k
  PROVE  Upsert(k \in Mdc, c) \in Seq(Piece) /\ RemoveSection(k \in Mdc, c) \in Seq(Piece)
  <1>1. WriteSection(c) \in Seq(Piece) /\ CutSection(c) \in Seq(Piece) /\ <<>> \in Seq(Piece)
    BY ContextType, EmptySeq
  <1>2. EnsureFrontmatter(WriteSection(c)) \in Seq(Piece)
    BY <1>1, FrontmatterType
  <1> QED
    BY <1>1, <1>2 DEF Upsert, RemoveSection

-----------------------------------------------------------------------------
(* The steps of a command keep TypeOK and RunOK. *)

(* What the order of the steps says of those that are left.                 *)
LEMMA Order ==
  ASSUME CommandOK(cli), NEW r, Rest(cli, r), NEW m, ManifestOK(m, cli.key),
         cli' = Continue(cli, r, m)
  PROVE  /\ cli # Idle /\ StepOK(cli, Step) /\ \A do : Todo(do) <=> Step.do = do \/ Todo(do)'
         /\ ~Todo("teardown")'
         /\ Step.do \in {"setup", "manifest"} => ~Todo("setup")'
         /\ Step.do = "manifest" => ~Todo("manifest")'
         /\ Step.do = "stale" => cli' = Idle /\ \A do : ~Todo(do)'
         /\ Step.do = "setup" /\ cli.op = "install" => ~Todo("shared")' /\ ~Todo("saveshared")'
         /\ Step.do = "json" /\ Todo("setup")' => cli.key \notin Keys(Step.conf)
         /\ Step.do = "clear" => ~Todo("clear")'
         /\ Step.do = "setup" => ~Todo("clear")'
         /\ Step.do = "opts" /\ cli.op = "switch" => ~Todo("clear")'
         /\ Step.do = "json" /\ cli.op = "install" => ~Todo("json")'
         /\ Step.do = "shared" => Todo("saveshared")' /\ cli' # Idle /\ At("saveshared")'
         /\ Step.do # "shared" => ~At("saveshared")'
  <1>1. /\ cli # Idle /\ Step = cli.todo[1] /\ StepOK(cli, Step)
        /\ \A do : Todo(do) <=> Step.do = do \/ Pending(r, do)
        /\ \A do : Pending(r, do) => \E b : b.do = do /\ StepOK(cli, b) /\ Precedes(cli, Step, b)
    BY NextStep, CommandFacts
  <1>2. \A do : Todo(do)' <=> Pending(r, do)
    BY AfterStep
  <1>3. ~Pending(r, "teardown")
    BY <1>1 DEF Precedes
  <1>4. Step.do \in {"setup", "manifest"} => ~Pending(r, "setup")
    BY <1>1 DEF Precedes
  <1>5. Step.do = "manifest" => ~Pending(r, "manifest")
    BY <1>1 DEF Precedes
  <1>6. Step.do = "stale" => \A do : ~Pending(r, do)
    BY <1>1 DEF Precedes
  <1>7. Step.do = "setup" /\ cli.op = "install" => ~Pending(r, "shared") /\ ~Pending(r, "saveshared")
    BY <1>1 DEF Precedes
  <1>8. Step.do = "json" /\ Pending(r, "setup") => cli.key \notin Keys(Step.conf)
    BY <1>1 DEF Precedes
  <1>9. /\ Step.do = "clear" => ~Pending(r, "clear")
        /\ Step.do = "setup" => ~Pending(r, "clear")
        /\ Step.do = "opts" /\ cli.op = "switch" => ~Pending(r, "clear")
        /\ Step.do = "json" /\ cli.op = "install" => ~Pending(r, "json")
    BY <1>1 DEF Precedes
  <1>10. /\ IsPlan(r) /\ Len(r) = Len(cli.todo) - 1 /\ Len(cli.todo) \in Nat /\ DOMAIN r = 1..Len(r)
         /\ r # <<>> => Head(r) = r[1] /\ 1 \in DOMAIN r
    <2>1. IsPlan(r) /\ Len(r) = Len(cli.todo) - 1 /\ Len(cli.todo) \in Nat
      BY CommandFacts DEF Rest
    <2>2. /\ Len(r) \in Nat /\ DOMAIN r = 1..Len(r)
          /\ r # <<>> => Head(r) = r[1] /\ Len(r) > 0
      BY <2>1, PlanFacts
    <2> QED
      BY <2>1, <2>2
  <1>11. r # <<>> => cli' # Idle /\ cli'.todo = r
    BY RestIsCommand
  <1>12. r = <<>> => cli' = Idle
    BY DEF Continue
  <1>13. ASSUME Step.do = "shared" PROVE Pending(r, "saveshared") /\ cli' # Idle /\ At("saveshared")'
    <2>1. Len(cli.todo) > 1 /\ r[1].do = "saveshared"
      BY <1>1, <1>13, SharedIsSaved DEF Rest
    <2>2. r # <<>>
      <3>1. PICK n : n = Len(cli.todo)
        OBVIOUS
      <3>2. n \in Nat /\ n > 1 /\ Len(r) = n - 1
        BY <1>10, <2>1, <3>1
      <3>3. n - 1 # 0
        BY <3>2
      <3> QED
        BY <1>10, <3>2, <3>3, PlanFacts
    <2> QED
      BY <1>10, <1>11, <2>1, <2>2 DEF Pending, At
  <1>14. ASSUME Step.do # "shared" PROVE ~At("saveshared")'
    <2> SUFFICES ASSUME r # <<>> PROVE r[1].do # "saveshared"
      BY <1>10, <1>11, <1>12 DEF At
    <2>1. r[1] = cli.todo[1 + 1] /\ 1 + 1 = 2
      <3>1. 1 \in 1..Len(r)
        BY <1>10
      <3>2. r[1] = cli.todo[1 + 1] \/ (1 = 1 /\ cli.todo[1].do = "shared")
        BY <3>1 DEF Rest
      <3> QED
        BY <1>1, <1>14, <3>2
    <2>2. r[1] = cli.todo[2]
      BY <2>1
    <2>3. 2 \in 2..Len(cli.todo) /\ 2 - 1 = 1
      BY <1>10
    <2>4. cli.todo[2].do = "saveshared" <=> cli.todo[2 - 1].do = "shared"
      BY <2>3 DEF CommandOK, PlanOK
    <2> QED
      BY <1>1, <1>14, <2>2, <2>3, <2>4
  <1>15. Step.do = "stale" => cli' = Idle
    BY <1>6, <1>10, <1>12 DEF Pending
  <1> QED
    BY <1>1, <1>2, <1>3, <1>4, <1>5, <1>6, <1>7, <1>8, <1>9, <1>13, <1>14, <1>15

(* A step that is not a setup keeps RunOK when it leaves the files written  *)
(* by setup alone.                                                          *)
LEMMA PlainRun ==
  ASSUME TypeOK, RunOK, cli # Idle, NEW r, Rest(cli, r), cli' = Continue(cli, r, cli.mem),
         Step.do # "setup",
         conf' = IF Step.do = "json" THEN Step.conf ELSE conf,
         cli.mem # NoManifest => \A f \in DOMAIN cli.mem : files'[f] = files[f],
         \A f \in File : files'[f] = User => files[f] = User,
         Todo("setup")' => Step.do = "teardown" \/ manifest'[cli.key] = manifest[cli.key]
  PROVE  RunOK'
  <1>1. CommandOK(cli) /\ ManifestOK(cli.mem, cli.key) /\ ManifestOK(cli.old, cli.key) /\ cli.key \in Integration
    BY DEF TypeOK, CommandOK
  <1>2. SUFFICES ASSUME cli' # Idle PROVE RunOK'
    BY DEF RunOK
  <1>3. /\ cli'.op = cli.op /\ cli'.key = cli.key /\ cli'.force = cli.force
        /\ cli'.mem = cli.mem /\ cli'.old = cli.old
    BY <1>1, <1>2, AfterStep
  <1>4. /\ \A do : Todo(do) <=> Step.do = do \/ Todo(do)'
        /\ ~Todo("teardown")' /\ StepOK(cli, Step)
        /\ Step.do = "manifest" => ~Todo("setup")'
        /\ Step.do = "manifest" => ~Todo("manifest")'
        /\ Step.do = "json" /\ Todo("setup")' => cli.key \notin Keys(Step.conf)
    BY <1>1, Order
  <1>5. /\ cli.mem # NoManifest =>
             /\ \A f \in DOMAIN cli.mem : files'[f] = cli.mem[f]
             /\ cli.op = "install" => ~Todo("shared")' /\ ~Todo("saveshared")'
        /\ Todo("setup")' => cli.mem = NoManifest
    BY <1>4 DEF RunOK
  <1>6. Todo("setup")' =>
          /\ Todo("manifest")' /\ cli.op \in {"install", "switch", "upgrade", "init"}
          /\ cli.op \in {"install", "switch"} => cli.key \notin InstalledKeys'
          /\ cli.op = "upgrade" => manifest'[cli.key] = cli.old
    BY <1>4 DEF RunOK, InstalledKeys, Keys, StepOK
  <1>7. (Todo("manifest")' \/ Todo("stale")') /\ ~Todo("setup")' => cli.mem # NoManifest
    BY <1>4 DEF RunOK
  <1>8. cli.op = "upgrade" =>
          /\ cli.old # NoManifest
          /\ ~cli.force => \A f \in DOMAIN cli.old : files'[f] # User
    <2>1. cli.op = "upgrade" => cli.old # NoManifest
      BY DEF RunOK
    <2>2. cli.old # NoManifest => \A f \in DOMAIN cli.old : f \in File
      BY <1>1, Recorded
    <2> QED
      BY <2>1, <2>2 DEF RunOK
  <1>9. (cli.op = "rollback" => cli.mem = NoManifest) /\ (cli.op = "init" => cli.force)
    BY DEF RunOK
  <1> QED
    BY <1>3, <1>4, <1>5, <1>6, <1>7, <1>8, <1>9 DEF RunOK

(* The steps, with the step they run and the command they leave.            *)
LEMMA StepIs ==
  ASSUME TypeOK, NEW do, At(do), do # "shared"
  PROVE  /\ CommandOK(cli) /\ cli # Idle /\ Step.do = do /\ Rest(cli, Tail(cli.todo))
         /\ Advance(cli) = Continue(cli, Tail(cli.todo), cli.mem)
         /\ ManifestOK(cli.mem, cli.key) /\ cli.key \in Integration /\ StepOK(cli, Step)
  <1>1. CommandOK(cli) /\ cli # Idle /\ Step.do = do
    BY DEF At, Step, TypeOK
  <1>2. Step = cli.todo[1]
    BY <1>1, CommandFacts DEF Step
  <1>3. Rest(cli, Tail(cli.todo))
    BY <1>1, <1>2, TailIsRest
  <1>4. Advance(cli) = Continue(cli, Tail(cli.todo), cli.mem)
    BY <1>1, AdvanceIs
  <1>5. ManifestOK(cli.mem, cli.key) /\ cli.key \in Integration
    BY <1>1 DEF CommandOK
  <1> QED
    BY <1>1, <1>3, <1>4, <1>5, NextStep

(* A step that moves on keeps the type of the command.                      *)
LEMMA CommandType ==
  ASSUME CommandOK(cli), NEW r, Rest(cli, r), NEW m, ManifestOK(m, cli.key),
         cli' = Continue(cli, r, m)
  PROVE  cli' # Idle => CommandOK(cli')
  BY AfterStep

(* install_shared_infra writes the files and leaves the manifest to save.   *)
LEMMA WriteSharedIs ==
  ASSUME TypeOK, WriteSharedFiles
  PROVE  \E r : /\ CommandOK(cli) /\ cli # Idle /\ Rest(cli, r) /\ cli' = Continue(cli, r, cli.mem)
                /\ Step.do = "shared" /\ StepOK(cli, Step) /\ cli.key \in Integration
                /\ ManifestOK(cli.mem, cli.key) /\ cli' # Idle /\ Step'.do = "saveshared"
                /\ Step'.sm = RecordShared(shared, files, Step.force, Step.refresh,
                                           SharedContent(Step.key, Step.opt))
                /\ SharedOK(Step'.sm) /\ DOMAIN files' = File
                /\ \A f \in CommandFile : files'[f] = files[f]
                /\ SharedContent(Step.key, Step.opt) \notin {NoFile, User}
  <1> DEFINE content == SharedContent(Step.key, Step.opt)
             x == [do |-> "saveshared",
                   sm |-> RecordShared(shared, files, Step.force, Step.refresh, content)]
             r == [Tail(cli.todo) EXCEPT ![1] = x]
  <1>1. CommandOK(cli) /\ cli # Idle /\ Step.do = "shared"
    BY DEF WriteSharedFiles, At, Step, TypeOK
  <1>2. Step = cli.todo[1]
    BY <1>1, CommandFacts DEF Step
  <1>3. StepOK(cli, Step) /\ cli.key \in Integration /\ ManifestOK(cli.mem, cli.key)
    <2>1. 1 \in DOMAIN cli.todo
      BY <1>1, CommandFacts
    <2> QED
      BY <1>1, <1>2, <2>1 DEF CommandOK, PlanOK
  <1>4. content # NoFile /\ content # User
    <2>1. Step.key \in Integration /\ Step.opt \in OptionOf(Step.key) /\ version \in Version
      BY <1>1, <1>3 DEF StepOK, TypeOK
    <2> QED
      BY <2>1, OwnedFiles DEF SharedContent
  <1>5. /\ SharedOK(x.sm) /\ x.do = "saveshared" /\ DOMAIN files' = File
        /\ \A f \in CommandFile : files'[f] = files[f]
    <2>1. SharedOK(shared) /\ DOMAIN files = File
      BY DEF TypeOK
    <2>2. files' = WriteShared(shared, files, Step.force, Step.refresh, content)
      BY DEF WriteSharedFiles
    <2>3. x.sm = RecordShared(shared, files, Step.force, Step.refresh, content) /\ x.do = "saveshared"
      OBVIOUS
    <2> HIDE DEF content, x
    <2>4. /\ SharedOK(RecordShared(shared, files, Step.force, Step.refresh, content))
          /\ \A f \in CommandFile :
               WriteShared(shared, files, Step.force, Step.refresh, content)[f] = files[f]
          /\ DOMAIN WriteShared(shared, files, Step.force, Step.refresh, content) = File
      BY <1>4, <2>1, RecordSharedOK
    <2> QED
      BY <2>2, <2>3, <2>4
  <1>6. Len(cli.todo) > 1
    BY <1>1, <1>2, SharedIsSaved
  <1>7. cli' = Advance([cli EXCEPT !.todo[2] = x])
    BY DEF WriteSharedFiles
  <1> HIDE DEF x
  <1>8. cli' = Continue(cli, r, cli.mem)
    BY <1>1, <1>6, <1>7, AdvanceIs
  <1>9. Rest(cli, r) /\ r # <<>> /\ r[1] = x
    BY <1>1, <1>2, <1>5, SharedRest
  <1> HIDE DEF r
  <1>10. cli' # Idle /\ cli'.todo = r
    BY <1>1, <1>3, <1>8, <1>9, RestIsCommand
  <1>11. Step' = x
    <2>1. Head(r) = r[1]
      BY <1>9, PlanFacts DEF Rest
    <2> QED
      BY <1>9, <1>10, <2>1 DEF Step
  <1>12. x.sm = RecordShared(shared, files, Step.force, Step.refresh, content)
    BY DEF x
  <1> QED
    BY <1>1, <1>3, <1>4, <1>5, <1>8, <1>9, <1>10, <1>11, <1>12

(* WriteSharedFiles keeps TypeOK and RunOK.                                 *)
LEMMA WriteSharedType ==
  ASSUME TypeOK, RunOK, WriteSharedFiles
  PROVE  TypeOK' /\ RunOK'
  <1>1. PICK r : /\ CommandOK(cli) /\ cli # Idle /\ Rest(cli, r) /\ cli' = Continue(cli, r, cli.mem)
                 /\ Step.do = "shared" /\ StepOK(cli, Step) /\ cli.key \in Integration
                 /\ ManifestOK(cli.mem, cli.key) /\ DOMAIN files' = File
                 /\ \A f \in CommandFile : files'[f] = files[f]
                 /\ SharedContent(Step.key, Step.opt) \notin {NoFile, User}
    BY WriteSharedIs
  <1>2. UNCHANGED <<manifest, shared, conf, ctx, version, ops, edits, stopped>>
    BY DEF WriteSharedFiles
  <1>3. files' = [f \in File |-> files'[f]] /\ \A f \in File : files'[f] = User => files[f] = User
    BY <1>1 DEF WriteSharedFiles, WriteShared
  <1>4. TypeOK'
    <2>1. cli' # Idle => CommandOK(cli')
      BY <1>1, CommandType
    <2> QED
      BY <1>1, <1>2, <1>3, <2>1 DEF TypeOK
  <1>5. cli.mem # NoManifest => \A f \in DOMAIN cli.mem : files'[f] = files[f]
    BY <1>1, Recorded
  <1>6. RunOK'
    BY <1>1, <1>2, <1>3, <1>5, PlainRun
  <1> QED
    BY <1>4, <1>6

(* The steps that write no file keep TypeOK and RunOK.                      *)
LEMMA QuietType ==
  ASSUME TypeOK, RunOK, SaveShared \/ WriteJson \/ UpdateOpts \/ ClearOpts
  PROVE  TypeOK' /\ RunOK'
  <1> DEFINE r == Tail(cli.todo)
  <1>1. PICK do : At(do) /\ do \in {"saveshared", "json", "opts", "clear"} /\ cli' = Advance(cli)
    BY DEF SaveShared, WriteJson, UpdateOpts, ClearOpts
  <1>2. /\ CommandOK(cli) /\ cli # Idle /\ Step.do = do /\ Rest(cli, r)
        /\ cli' = Continue(cli, r, cli.mem) /\ ManifestOK(cli.mem, cli.key) /\ StepOK(cli, Step)
    <2>1. do # "shared"
      BY <1>1
    <2> QED
      BY <1>1, <2>1, StepIs
  <1>3. UNCHANGED <<files, manifest, ctx, version, ops, edits, stopped>>
    BY DEF SaveShared, WriteJson, UpdateOpts, ClearOpts
  <1>4. conf' = IF Step.do = "json" THEN Step.conf ELSE conf
    BY <1>2 DEF SaveShared, WriteJson, UpdateOpts, ClearOpts, At, Step
  <1>5. ConfOK(conf')
    BY <1>2, <1>4 DEF StepOK, TypeOK
  <1>6. SharedOK(shared')
    <2>1. CASE SaveShared
      <3>1. cli.todo[1].do = "saveshared" /\ Step = cli.todo[1] /\ shared' = Step.sm
        BY <1>2, <2>1, CommandFacts DEF SaveShared, At, Step
      <3> QED
        BY <1>2, <3>1 DEF CommandOK, PlanOK
    <2>2. CASE ~SaveShared
      BY <2>2 DEF WriteJson, UpdateOpts, ClearOpts, TypeOK
    <2> QED
      BY <2>1, <2>2
  <1>7. TypeOK'
    <2>1. cli' # Idle => CommandOK(cli')
      BY <1>2, CommandType
    <2> QED
      BY <1>3, <1>5, <1>6, <2>1 DEF TypeOK
  <1>8. RunOK'
    <2>1. Step.do # "setup"
      BY <1>1, <1>2
    <2> HIDE DEF r
    <2> QED
      BY <1>2, <1>3, <1>4, <2>1, PlainRun
  <1> QED
    BY <1>7, <1>8

(* SaveManifest keeps TypeOK and RunOK.                                     *)
LEMMA SaveManifestType ==
  ASSUME TypeOK, RunOK, SaveManifest
  PROVE  TypeOK' /\ RunOK'
  <1> DEFINE r == Tail(cli.todo)
  <1>1. /\ CommandOK(cli) /\ cli # Idle /\ Step.do = "manifest" /\ Rest(cli, r)
        /\ cli' = Continue(cli, r, cli.mem) /\ ManifestOK(cli.mem, cli.key) /\ StepOK(cli, Step)
        /\ cli.key \in Integration
    BY StepIs DEF SaveManifest
  <1> HIDE DEF r
  <1>2. Step.key = cli.key
    BY <1>1 DEF StepOK
  <1>3. /\ UNCHANGED <<files, shared, conf, ctx, version, ops, edits, stopped>>
        /\ manifest' = [manifest EXCEPT ![cli.key] = cli.mem]
    BY <1>2 DEF SaveManifest
  <1>4. TypeOK'
    <2>1. cli' # Idle => CommandOK(cli')
      BY <1>1, CommandType
    <2>2. \A k \in Integration : ManifestOK(manifest'[k], k)
      BY <1>1, <1>3 DEF TypeOK
    <2>3. DOMAIN manifest' = Integration /\ manifest' = [k \in Integration |-> manifest'[k]]
      BY <1>3 DEF TypeOK
    <2> QED
      BY <1>3, <2>1, <2>2, <2>3 DEF TypeOK
  <1>5. RunOK'
    <2>1. ~Todo("setup")'
      BY <1>1, Order
    <2> QED
      BY <1>1, <1>3, <2>1, PlainRun
  <1> QED
    BY <1>4, <1>5

(* TearDown keeps TypeOK and RunOK.                                         *)
LEMMA TearDownType ==
  ASSUME TypeOK, RunOK, TearDown
  PROVE  TypeOK' /\ RunOK'
  <1> DEFINE r == Tail(cli.todo)
  <1>1. /\ CommandOK(cli) /\ cli # Idle /\ Step.do = "teardown" /\ Rest(cli, r)
        /\ cli' = Continue(cli, r, cli.mem) /\ ManifestOK(cli.mem, cli.key) /\ StepOK(cli, Step)
    BY StepIs DEF TearDown
  <1> HIDE DEF r
  <1>2. Step.key \in Integration
    BY <1>1 DEF StepOK
  <1>3. /\ UNCHANGED <<shared, conf, version, ops, edits, stopped>>
        /\ files' = Uninstall(manifest[Step.key], files, Step.force)
        /\ manifest' = [manifest EXCEPT ![Step.key] = NoManifest]
        /\ ctx' = [ctx EXCEPT ![Step.key] = RemoveSection(Step.key \in Mdc, @)]
    BY DEF TearDown
  <1>4. DOMAIN files' = File /\ files' = [f \in File |-> files'[f]]
    BY <1>3 DEF Uninstall
  <1>5. \A f \in File : files'[f] = User => files[f] = User
    <2>1. NoFile # User
      BY IntegrationsAssumption
    <2> QED
      BY <1>3, <2>1, UninstallIs
  <1>6. ctx' \in [Integration -> Seq(Piece)]
    BY <1>2, <1>3, ContextOpsType DEF TypeOK
  <1>7. TypeOK'
    <2>1. cli' # Idle => CommandOK(cli')
      BY <1>1, CommandType
    <2>2. \A k \in Integration : ManifestOK(manifest'[k], k)
      BY <1>2, <1>3 DEF TypeOK, ManifestOK
    <2>3. DOMAIN manifest' = Integration /\ manifest' = [k \in Integration |-> manifest'[k]]
      BY <1>3 DEF TypeOK
    <2> QED
      BY <1>3, <1>4, <1>6, <2>1, <2>2, <2>3 DEF TypeOK
  <1>8. RunOK'
    <2>1. cli.mem = NoManifest
      <3>1. Todo("teardown")
        BY <1>1, Order
      <3> QED
        BY <1>1, <3>1 DEF RunOK
    <2> QED
      BY <1>1, <1>3, <1>5, <2>1, PlainRun
  <1> QED
    BY <1>7, <1>8

(* setup writes and records the command files.                              *)
LEMMA SetUpIs ==
  ASSUME TypeOK, SetUp
  PROVE  /\ CommandOK(cli) /\ cli # Idle /\ Step.do = "setup" /\ Rest(cli, Tail(cli.todo))
         /\ StepOK(cli, Step) /\ cli.key \in Integration /\ Step.key = cli.key
         /\ Step.opt \in OptionOf(cli.key) /\ version \in Version
         /\ cli' = Continue(cli, Tail(cli.todo), Record(Files(cli.key, Step.opt)))
         /\ ManifestOK(Record(Files(cli.key, Step.opt)), cli.key)
         /\ Record(Files(cli.key, Step.opt)) # NoManifest
         /\ DOMAIN Record(Files(cli.key, Step.opt)) = Files(cli.key, Step.opt)
         /\ Files(cli.key, Step.opt) \subseteq Owned(cli.key)
         /\ files' = Written(Files(cli.key, Step.opt))
         /\ \A f \in File : f \in Files(cli.key, Step.opt) =>
              files'[f] = Record(Files(cli.key, Step.opt))[f] /\ files'[f] \in CommandText
         /\ \A f \in File : f \notin Files(cli.key, Step.opt) => files'[f] = files[f]
  <1> DEFINE r == Tail(cli.todo)
             w == Files(cli.key, Step.opt)
  <1>1. /\ CommandOK(cli) /\ cli # Idle /\ Step.do = "setup" /\ Rest(cli, r) /\ StepOK(cli, Step)
        /\ cli.key \in Integration
    BY StepIs DEF SetUp
  <1>2. Step.key = cli.key /\ Step.opt \in OptionOf(cli.key) /\ version \in Version
    BY <1>1 DEF StepOK, TypeOK
  <1>3. /\ files' = Written(w) /\ cli' = Advance([cli EXCEPT !.mem = Record(w)])
    BY <1>2 DEF SetUp
  <1>4. /\ Record(w) # NoManifest /\ DOMAIN Record(w) = w /\ ManifestOK(Record(w), cli.key)
        /\ \A f \in w : Record(w)[f] = CommandContent
        /\ w \subseteq Owned(cli.key) /\ CommandContent \in CommandText
    BY <1>1, <1>2, RecordOK
  <1> HIDE DEF w
  <1>5. cli' = Continue(cli, r, Record(w))
    BY <1>1, <1>3, AdvanceIs
  <1>6. \A f \in File : /\ f \in w => files'[f] = Record(w)[f] /\ files'[f] \in CommandText
                        /\ f \notin w => files'[f] = files[f]
    BY <1>3, <1>4 DEF Written
  <1> QED
    BY <1>1, <1>2, <1>3, <1>4, <1>5, <1>6 DEF w

(* SetUp keeps TypeOK and RunOK.                                            *)
LEMMA SetUpType ==
  ASSUME TypeOK, RunOK, SetUp
  PROVE  TypeOK' /\ RunOK'
  <1> DEFINE r == Tail(cli.todo)
             w == Files(cli.key, Step.opt)
             m == Record(w)
  <1>1. /\ CommandOK(cli) /\ cli # Idle /\ Step.do = "setup" /\ Rest(cli, r) /\ StepOK(cli, Step)
        /\ cli.key \in Integration /\ cli' = Continue(cli, r, m) /\ ManifestOK(m, cli.key)
        /\ m # NoManifest /\ DOMAIN m = w /\ w \subseteq Owned(cli.key) /\ files' = Written(w)
        /\ \A f \in File : f \in w => files'[f] = m[f] /\ files'[f] \in CommandText
        /\ \A f \in File : f \notin w => files'[f] = files[f]
        /\ Step.key = cli.key
    BY SetUpIs
  <1> HIDE DEF r, w, m
  <1>2. /\ UNCHANGED <<manifest, shared, conf, version, ops, edits, stopped>>
        /\ ctx' = [ctx EXCEPT ![cli.key] = Upsert(cli.key \in Mdc, @)]
    BY <1>1 DEF SetUp
  <1>3. TypeOK'
    <2>1. cli' # Idle => CommandOK(cli')
      BY <1>1, CommandType
    <2>2. DOMAIN files' = File /\ files' = [f \in File |-> files'[f]]
      BY <1>1 DEF Written
    <2>3. ctx' \in [Integration -> Seq(Piece)]
      BY <1>1, <1>2, ContextOpsType DEF TypeOK
    <2> QED
      BY <1>2, <2>1, <2>2, <2>3 DEF TypeOK
  <1>4. RunOK'
    <2> SUFFICES ASSUME cli' # Idle PROVE RunOK'
      BY DEF RunOK
    <2>1. /\ cli'.op = cli.op /\ cli'.key = cli.key /\ cli'.force = cli.force
          /\ cli'.mem = m /\ cli'.old = cli.old
      BY <1>1, AfterStep
    <2>2. /\ Todo("setup") /\ ~Todo("teardown")' /\ ~Todo("setup")'
          /\ cli.op = "install" => ~Todo("shared")' /\ ~Todo("saveshared")'
      BY <1>1, Order
    <2>3. \A f \in DOMAIN m : files'[f] = m[f]
      BY <1>1, Recorded
    <2>4. cli.op \in {"install", "switch", "upgrade", "init"} /\ (cli.op = "init" => cli.force)
      BY <1>1, <2>2 DEF RunOK
    <2>5. cli.op = "upgrade" =>
            cli.old # NoManifest /\ (~cli.force => \A f \in DOMAIN cli.old : files'[f] # User)
      <3>1. cli.op = "upgrade" =>
              cli.old # NoManifest /\ (~cli.force => \A f \in DOMAIN cli.old : files[f] # User)
        BY <1>1 DEF RunOK
      <3>2. ManifestOK(cli.old, cli.key)
        BY <1>1 DEF CommandOK
      <3>3. cli.old # NoManifest => \A f \in DOMAIN cli.old : f \in File
        BY <1>1, <3>2, Recorded
      <3>4. User \notin CommandText
        BY <1>1, OwnedFiles
      <3> QED
        BY <1>1, <3>1, <3>3, <3>4
    <2> QED
      BY <1>1, <2>1, <2>2, <2>3, <2>4, <2>5 DEF RunOK
  <1> QED
    BY <1>3, <1>4

(* What RemoveStale does.                                                   *)
LEMMA StaleIs ==
  ASSUME TypeOK, RunOK, RemoveStale
  PROVE  /\ CommandOK(cli) /\ cli # Idle /\ Step.do = "stale" /\ cli' = Idle /\ cli.op = "upgrade"
         /\ Rest(cli, Tail(cli.todo)) /\ cli' = Continue(cli, Tail(cli.todo), cli.mem)
         /\ ManifestOK(cli.mem, cli.key)
         /\ cli.key \in Integration /\ cli.old # NoManifest /\ ManifestOK(cli.old, cli.key)
         /\ \A do : Todo(do) <=> do = "stale"
         /\ DOMAIN StaleFiles = DOMAIN cli.old \ DOMAIN cli.mem
         /\ DOMAIN StaleFiles = {} => UNCHANGED <<files, manifest, lost>>
         /\ DOMAIN StaleFiles # {} =>
              /\ files' = [f \in File |-> IF f \in DOMAIN StaleFiles THEN NoFile ELSE files[f]]
              /\ manifest' = [manifest EXCEPT ![cli.key] = NoManifest]
              /\ lost' = lost \cup {<<cli.key, "upgrade">>} \cup {<<f, "left">> : f \in DOMAIN cli.mem}
  <1> DEFINE r == Tail(cli.todo)
  <1>1. /\ CommandOK(cli) /\ cli # Idle /\ Step.do = "stale" /\ Rest(cli, r)
        /\ cli' = Continue(cli, r, cli.mem) /\ ManifestOK(cli.mem, cli.key) /\ StepOK(cli, Step)
        /\ cli.key \in Integration
    BY StepIs DEF RemoveStale
  <1>2. cli' = Idle /\ \A do : Todo(do) <=> do = "stale"
    <2>1. cli' = Idle /\ (\A do : ~Todo(do)') /\ \A do : Todo(do) <=> Step.do = do \/ Todo(do)'
      BY <1>1, Order
    <2> QED
      BY <1>1, <2>1
  <1>3. cli.op = "upgrade" /\ cli.old # NoManifest /\ ManifestOK(cli.old, cli.key)
    BY <1>1 DEF StepOK, RunOK, CommandOK
  <1>4. DOMAIN StaleFiles = DOMAIN cli.old \ DOMAIN cli.mem
    BY DEF StaleFiles
  <1> QED
    BY <1>1, <1>2, <1>3, <1>4 DEF RemoveStale, Uninstall

(* RemoveStale keeps TypeOK and RunOK.                                      *)
LEMMA StaleType ==
  ASSUME TypeOK, RunOK, RemoveStale
  PROVE  TypeOK' /\ RunOK'
  <1>1. UNCHANGED <<shared, conf, ctx, version, ops, edits, stopped>>
    BY DEF RemoveStale
  <1>2. DOMAIN files' = File /\ files' = [f \in File |-> files'[f]]
    BY StaleIs DEF TypeOK
  <1>3. \A k \in Integration : ManifestOK(manifest'[k], k)
    BY StaleIs DEF TypeOK, ManifestOK
  <1>4. DOMAIN manifest' = Integration /\ manifest' = [k \in Integration |-> manifest'[k]]
    BY StaleIs DEF TypeOK
  <1>5. cli' = Idle
    BY StaleIs
  <1> QED
    BY <1>1, <1>2, <1>3, <1>4, <1>5 DEF TypeOK, RunOK

(* A command that is killed, and what the user does, keep TypeOK and RunOK. *)
LEMMA OutsideType ==
  ASSUME TypeOK, RunOK, Stop \/ Users \/ UNCHANGED vars
  PROVE  TypeOK' /\ RunOK'
  <1>1. CASE Stop
    <2>1. cli' = Idle /\ stopped' = TRUE /\ UNCHANGED <<files, manifest, shared, conf, ctx, version, edits>>
      BY <1>1 DEF Stop
    <2>2. ops' = ops + 1
      BY <1>1 DEF Stop
    <2>3. ops' \in Nat
      BY <2>2 DEF TypeOK
    <2> QED
      BY <2>1, <2>3 DEF TypeOK, RunOK
  <1>2. CASE UNCHANGED vars
    <2>1. UNCHANGED <<files, manifest, shared, conf, ctx, version, ops, edits, stopped, cli>>
      BY <1>2 DEF vars
    <2>2. TypeOK'
      BY <2>1 DEF TypeOK
    <2> QED
      BY <2>1, <2>2 DEF RunOK, Todo, InstalledKeys, Step, Has
  <1>3. CASE Users
    <2>1. cli = Idle /\ cli' = Idle /\ edits' = edits + 1
      BY <1>3 DEF Users, EditFile, EditContext, LoseSharedManifest, NewRelease, Edit
    <2>2. CASE \E f \in File, c \in {User, NoFile} : EditFile(f, c)
      <3>1. PICK f \in File, c \in {User, NoFile} : EditFile(f, c)
        BY <2>2
      <3>2. /\ files' = [files EXCEPT ![f] = c]
            /\ UNCHANGED <<manifest, shared, conf, ctx, version, ops, stopped>>
        BY <3>1 DEF EditFile
      <3>3. DOMAIN files' = File /\ files' = [g \in File |-> files'[g]]
        BY <3>2 DEF TypeOK
      <3> QED
        BY <2>1, <3>2, <3>3 DEF TypeOK, RunOK
    <2>3. CASE \E k \in Integration : EditContext(k)
      <3>1. PICK k \in Integration : EditContext(k)
        BY <2>3
      <3>2. UNCHANGED <<files, manifest, shared, conf, version, ops, stopped>>
        BY <3>1 DEF EditContext
      <3>3. ctx' \in [Integration -> Seq(Piece)]
        <4>1. ctx[k] \in Seq(Piece) /\ ctx \in [Integration -> Seq(Piece)]
          BY DEF TypeOK
        <4>2. PICK c : c \in Seq(Piece) /\ ctx' = [ctx EXCEPT ![k] = c]
          <5>1. /\ \A t \in Text : Append(ctx[k], t) \in Seq(Piece)
                /\ \A i \in DOMAIN ctx[k] : RemoveAt(ctx[k], i) \in Seq(Piece)
            BY <4>1, ContextType
          <5> QED
            BY <3>1, <5>1 DEF EditContext
        <4> QED
          BY <4>1, <4>2
      <3> QED
        BY <2>1, <3>2, <3>3 DEF TypeOK, RunOK
    <2>4. CASE LoseSharedManifest
      <3>1. /\ shared' = NoShared
            /\ UNCHANGED <<files, manifest, conf, ctx, version, ops, stopped>>
        BY <2>4 DEF LoseSharedManifest
      <3>2. SharedOK(shared')
        BY <3>1 DEF SharedOK, NoShared
      <3> QED
        BY <2>1, <3>1, <3>2 DEF TypeOK, RunOK
    <2>5. CASE NewRelease
      <3>1. /\ version' = version + 1 /\ version < MaxVersion
            /\ UNCHANGED <<files, manifest, shared, conf, ctx, ops, stopped>>
        BY <2>5 DEF NewRelease
      <3>2. version' \in Version
        BY <3>1, IntegrationsAssumption DEF TypeOK, Version
      <3> QED
        BY <2>1, <3>1, <3>2 DEF TypeOK, RunOK
    <2> QED
      BY <1>3, <2>2, <2>3, <2>4, <2>5 DEF Users
  <1> QED
    BY <1>1, <1>2, <1>3

-----------------------------------------------------------------------------
(* The plans of the commands, put together from parts. *)

\* The steps t may be a part of command c.
Part(c, t) ==
  /\ IsPlan(t)
  /\ \A i \in DOMAIN t : StepOK(c, t[i])
  /\ \A i, j \in DOMAIN t : i < j => Precedes(c, t[i], t[j])
  /\ \A i \in 2..Len(t) : t[i].do = "saveshared" <=> t[i - 1].do = "shared"
  /\ t # <<>> => t[Len(t)].do # "shared" /\ t[1].do # "saveshared"

\* Every step of s may come before every step of t.
MayFollow(c, s, t) == \A a \in ToSet(s), b \in ToSet(t) : Precedes(c, a, b)

(* Two parts make one when the steps of the first may come first.           *)
LEMMA Join ==
  ASSUME NEW c, NEW s, NEW t, Part(c, s), Part(c, t),
         MayFollow(c, s, t)
  PROVE  Part(c, s \o t) /\ ToSet(s \o t) = ToSet(s) \cup ToSet(t)
  <1> DEFINE u == s \o t
             m == Len(s)
             n == Len(t)
  <1>1. /\ IsPlan(s) /\ IsPlan(t) /\ IsPlan(u) /\ DOMAIN u = 1..(m + n) /\ m \in Nat /\ n \in Nat
        /\ \A i \in 1..m : u[i] = s[i]
        /\ \A i \in 1..n : u[m + i] = t[i]
        /\ \A i \in DOMAIN u : i \notin 1..m => i - m \in 1..n /\ u[i] = t[i - m]
        /\ DOMAIN s = 1..m /\ DOMAIN t = 1..n /\ Len(u) = m + n
    <2>1. IsPlan(s) /\ IsPlan(t)
      BY DEF Part
    <2>2. m \in Nat /\ n \in Nat /\ DOMAIN s = 1..m /\ DOMAIN t = 1..n
      BY <2>1, PlanFacts
    <2> QED
      BY <2>1, <2>2, PlanAfter
  <1>2. /\ s = <<>> <=> m = 0
        /\ t = <<>> <=> n = 0
        /\ u = <<>> <=> m + n = 0
    BY <1>1, PlanFacts
  <1> HIDE DEF u, m, n
  <1>3. ToSet(u) = ToSet(s) \cup ToSet(t)
    <2>1. ASSUME NEW i \in DOMAIN u PROVE u[i] \in ToSet(s) \cup ToSet(t)
      BY <1>1 DEF ToSet
    <2>2. ASSUME NEW i \in DOMAIN s PROVE i \in DOMAIN u /\ u[i] = s[i]
      BY <1>1
    <2>3. ASSUME NEW i \in DOMAIN t PROVE m + i \in DOMAIN u /\ u[m + i] = t[i]
      BY <1>1
    <2> QED
      BY <2>1, <2>2, <2>3 DEF ToSet
  <1>4. ASSUME NEW i \in DOMAIN u PROVE StepOK(c, u[i])
    <2>1. CASE i \in 1..m
      BY <1>1, <2>1 DEF Part
    <2>2. CASE i \notin 1..m
      <3>1. i - m \in DOMAIN t /\ u[i] = t[i - m]
        BY <1>1, <2>2
      <3> QED
        BY <3>1 DEF Part
    <2> QED
      BY <2>1, <2>2
  <1>5. ASSUME NEW i \in DOMAIN u, NEW j \in DOMAIN u, i < j PROVE Precedes(c, u[i], u[j])
    <2>1. CASE j \in 1..m
      <3>1. i \in 1..m
        BY <1>1, <1>5, <2>1
      <3> QED
        BY <1>1, <1>5, <2>1, <3>1 DEF Part
    <2>2. CASE i \in 1..m /\ j \notin 1..m
      BY <1>1, <2>2 DEF ToSet, MayFollow
    <2>3. CASE i \notin 1..m /\ j \notin 1..m
      <3>1. /\ i - m \in DOMAIN t /\ u[i] = t[i - m] /\ j - m \in DOMAIN t /\ u[j] = t[j - m]
            /\ i - m < j - m
        BY <1>1, <1>5, <2>3
      <3> QED
        BY <3>1 DEF Part
    <2>4. j \notin 1..m \/ i \in 1..m
      BY <1>1, <1>5
    <2> QED
      BY <2>1, <2>2, <2>3
  <1>6. ASSUME NEW i \in 2..Len(u) PROVE u[i].do = "saveshared" <=> u[i - 1].do = "shared"
    <2>0. i \in DOMAIN u /\ i - 1 \in DOMAIN u /\ i \in Nat
      BY <1>1
    <2>1. CASE i \in 1..m
      <3>1. i \in 2..m /\ i - 1 \in 1..m
        BY <1>1, <2>0, <2>1
      <3>2. s[i].do = "saveshared" <=> s[i - 1].do = "shared"
        BY <3>1 DEF Part, m
      <3> QED
        BY <1>1, <2>1, <3>1, <3>2
    <2>2. CASE i \notin 1..m /\ i - 1 \notin 1..m
      <3>1. /\ i - m \in 1..n /\ (i - 1) - m \in 1..n /\ (i - m) - 1 = (i - 1) - m
            /\ u[i] = t[i - m] /\ u[i - 1] = t[(i - 1) - m]
        BY <1>1, <2>0, <2>2
      <3>2. i - m \in 2..n
        BY <1>1, <2>0, <3>1
      <3>3. t[i - m].do = "saveshared" <=> t[(i - m) - 1].do = "shared"
        BY <3>2 DEF Part, n
      <3> QED
        BY <3>1, <3>3
    <2>3. CASE i \notin 1..m /\ i - 1 \in 1..m
      <3>1. i - 1 = m /\ i - m = 1 /\ m # 0 /\ n # 0
        BY <1>1, <2>0, <2>3
      <3>2. u[i - 1] = s[m] /\ u[i] = t[1]
        BY <1>1, <2>0, <2>3, <3>1
      <3>3. s[m].do # "shared" /\ t[1].do # "saveshared"
        BY <1>2, <3>1 DEF Part, m
      <3> QED
        BY <3>2, <3>3
    <2> QED
      BY <2>1, <2>2, <2>3
  <1>7. ASSUME u # <<>> PROVE u[Len(u)].do # "shared" /\ u[1].do # "saveshared"
    <2>1. u[Len(u)].do # "shared"
      <3>1. CASE n = 0
        <4>1. m + n = m /\ m \in 1..m /\ s # <<>>
          BY <1>1, <1>2, <1>7, <3>1
        <4>2. s[m].do # "shared"
          BY <4>1 DEF Part, m
        <4> QED
          BY <1>1, <4>1, <4>2
      <3>2. CASE n # 0
        <4>1. n \in 1..n /\ t # <<>>
          BY <1>1, <1>2, <3>2
        <4>2. t[n].do # "shared"
          BY <4>1 DEF Part, n
        <4> QED
          BY <1>1, <4>1, <4>2
      <3> QED
        BY <3>1, <3>2
    <2>2. u[1].do # "saveshared"
      <3>1. CASE m = 0
        <4>1. 1 \in 1..n /\ t # <<>> /\ m + 1 = 1
          BY <1>1, <1>2, <1>7, <3>1
        <4>2. u[m + 1] = t[1]
          BY <1>1, <4>1
        <4>3. t[1].do # "saveshared"
          BY <4>1 DEF Part
        <4> QED
          BY <4>1, <4>2, <4>3
      <3>2. CASE m # 0
        <4>1. 1 \in 1..m /\ s # <<>>
          BY <1>1, <1>2, <3>2
        <4>2. s[1].do # "saveshared"
          BY <4>1 DEF Part
        <4> QED
          BY <1>1, <4>1, <4>2
      <3> QED
        BY <3>1, <3>2
    <2> QED
      BY <2>1, <2>2
  <1>8. Part(c, u)
    BY <1>1, <1>4, <1>5, <1>6, <1>7 DEF Part
  <1> QED
    BY <1>3, <1>8 DEF u

(* A command made of a part has a plan.                                     *)
LEMMA PartIsPlan ==
  ASSUME NEW c, Part(c, c.todo), c.todo # <<>>
  PROVE  PlanOK(c)
  BY DEF Part, PlanOK

(* What a part has ahead is among its steps.                                *)
LEMMA PartAhead ==
  ASSUME NEW t, NEW do
  PROVE  Pending(t, do) <=> \E a \in ToSet(t) : a.do = do
  BY DEF Pending, ToSet

(* No step.                                                                 *)
LEMMA NoPart ==
  ASSUME NEW c
  PROVE  Part(c, <<>>) /\ ToSet(<<>>) = {} /\ \A do : ~Pending(<<>>, do)
  BY DEF Part, IsPlan, ToSet, Pending

(* One step.                                                                *)
LEMMA OnePart ==
  ASSUME NEW c, NEW a, StepOK(c, a), a.do # "shared", a.do # "saveshared"
  PROVE  /\ Part(c, <<a>>) /\ ToSet(<<a>>) = {a} /\ <<a>> # <<>>
         /\ \A do : Pending(<<a>>, do) <=> a.do = do
         /\ LastOf(<<a>>, a.do) = a
  <1> DEFINE t == <<a>>
  <1>1. IsPlan(t) /\ DOMAIN t = {1} /\ t[1] = a /\ t # <<>>
    <2>1. t \in Seq({a})
      OBVIOUS
    <2>2. DOMAIN t = {1} /\ t[1] = a /\ t # <<>>
      OBVIOUS
    <2> QED
      BY <2>1, <2>2, SeqIsPlan
  <1>2. PICK n : n = Len(t) /\ n = 1
    OBVIOUS
  <1> HIDE DEF t
  <1>3. ToSet(t) = {a}
    BY <1>1 DEF ToSet
  <1>4. Part(c, t)
    <2>1. n = 1
      BY <1>2
    <2>2. \A i \in 2..n : FALSE
      BY <2>1
    <2>3. \A i, j \in DOMAIN t : ~(i < j)
      BY <1>1
    <2>4. t[n].do # "shared" /\ t[1].do # "saveshared"
      BY <1>1, <2>1
    <2>5. n = Len(t)
      BY <1>2
    <2> QED
      BY <1>1, <2>2, <2>3, <2>4, <2>5 DEF Part
  <1>5. \A do : Pending(t, do) <=> a.do = do
    BY <1>1 DEF Pending
  <1>6. LastOf(t, a.do) = a
    <2>1. 1 \in DOMAIN t /\ t[1].do = a.do /\ \A j \in DOMAIN t : j > 1 => t[j].do # a.do
      BY <1>1
    <2> QED
      BY <1>1, <2>1, LastIs
  <1> QED
    BY <1>1, <1>3, <1>4, <1>5, <1>6 DEF t

\* What install_shared_infra is called with by command c.
SharedArgs(c, k, o, force, refresh) ==
  /\ k \in Integration /\ o \in OptionOf(k) /\ force \in BOOLEAN /\ (force => c.sforce)
  /\ refresh \in BOOLEAN

(* The two steps of install_shared_infra.                                   *)
LEMMA SharedPart ==
  ASSUME NEW c, NEW k, NEW o, NEW force, NEW refresh, SharedArgs(c, k, o, force, refresh),
         NEW t, t = SharedStep(k, o, force, refresh)
  PROVE  /\ Part(c, t) /\ t # <<>>
         /\ \A a \in ToSet(t) : a.do \in {"shared", "saveshared"} /\ a.refresh = refresh
         /\ \A do : Pending(t, do) <=> do \in {"shared", "saveshared"}
         /\ LastOf(t, "shared").do = "shared"
         /\ LastOf(t, "shared").key = k /\ LastOf(t, "shared").opt = o
         /\ LastOf(t, "shared").refresh = refresh
  <1> DEFINE a == [do |-> "shared", key |-> k, opt |-> o, force |-> force, refresh |-> refresh]
             b == [do |-> "saveshared", key |-> k, opt |-> o, force |-> force, refresh |-> refresh]
  <1>1. t = <<a, b>>
    BY DEF SharedStep
  <1>2. /\ a.do = "shared" /\ a.key = k /\ a.opt = o /\ a.force = force /\ a.refresh = refresh
        /\ b.do = "saveshared" /\ b.refresh = refresh
    OBVIOUS
  <1> HIDE DEF a, b
  <1>3. IsPlan(t) /\ Len(t) = 2 /\ DOMAIN t = 1..2 /\ t[1] = a /\ t[2] = b /\ t # <<>>
    BY <1>1 DEF IsPlan
  <1>4. \A i \in DOMAIN t : i = 1 \/ i = 2
    BY <1>3
  <1>5. StepOK(c, a) /\ StepOK(c, b) /\ Precedes(c, a, b)
    BY <1>2 DEF StepOK, Precedes, SharedArgs
  <1>6. Part(c, t)
    <2>1. \A i, j \in DOMAIN t : i < j => i = 1 /\ j = 2
      BY <1>3
    <2>2. \A i \in 2..Len(t) : i = 2 /\ i - 1 = 1
      BY <1>3
    <2>3. \A i \in 2..Len(t) : t[i].do = "saveshared" <=> t[i - 1].do = "shared"
      BY <1>2, <1>3, <2>2
    <2>4. \A i, j \in DOMAIN t : i < j => Precedes(c, t[i], t[j])
      BY <1>3, <1>5, <2>1
    <2>5. \A i \in DOMAIN t : StepOK(c, t[i])
      BY <1>3, <1>4, <1>5
    <2>6. t[Len(t)].do # "shared" /\ t[1].do # "saveshared"
      BY <1>2, <1>3
    <2> QED
      BY <1>3, <2>3, <2>4, <2>5, <2>6 DEF Part
  <1>7. \A x \in ToSet(t) : x = a \/ x = b
    BY <1>3, <1>4 DEF ToSet
  <1>8. ASSUME NEW do PROVE Pending(t, do) <=> do \in {"shared", "saveshared"}
    <2>1. 1 \in DOMAIN t /\ 2 \in DOMAIN t
      BY <1>3
    <2>2. t[1].do = "shared" /\ t[2].do = "saveshared"
      BY <1>2, <1>3
    <2>3. \A i \in DOMAIN t : t[i].do \in {"shared", "saveshared"}
      BY <1>4, <2>2
    <2> QED
      BY <2>1, <2>2, <2>3 DEF Pending
  <1>9. LastOf(t, "shared") = a
    <2>1. 1 \in DOMAIN t
      BY <1>3
    <2>2. t[1].do = "shared" /\ t[2].do # "shared"
      BY <1>2, <1>3
    <2>3. \A j \in DOMAIN t : j > 1 => j = 2
      BY <1>3
    <2>4. \A j \in DOMAIN t : j > 1 => t[j].do # "shared"
      BY <2>2, <2>3
    <2> QED
      BY <1>3, <2>1, <2>2, <2>4, LastIs
  <1> QED
    BY <1>2, <1>3, <1>6, <1>7, <1>8, <1>9

(* The list of installed integrations without one of them.                  *)
LEMMA RemoveFirstIs ==
  ASSUME NEW S, NEW s \in Seq(S), IsInjective(s), NEW k
  PROVE  /\ RemoveFirst(s, k) \in Seq(S) /\ IsInjective(RemoveFirst(s, k))
         /\ ToSet(RemoveFirst(s, k)) = ToSet(s) \ {k}
  <1>1. Len(s) \in Nat /\ DOMAIN s = 1..Len(s)
    BY LenProperties
  <1>2. CASE k \notin ToSet(s)
    <2>1. RemoveFirst(s, k) = s
      BY <1>1, <1>2 DEF RemoveFirst, ToSet
    <2> QED
      BY <1>2, <2>1
  <1>3. CASE k \in ToSet(s)
    <2>1. PICK p \in 1..Len(s) : s[p] = k
      BY <1>1, <1>3 DEF ToSet
    <2>2. {i \in 1..Len(s) : s[i] = k} = {p}
      BY <1>1, <2>1 DEF IsInjective
    <2>3. SelectInSeq(s, LAMBDA v : v = k) = p
      <3>1. Min({p}) = p
        BY DEF Min
      <3> QED
        BY <2>2, <3>1 DEF SelectInSeq
    <2>4. RemoveFirst(s, k) = RemoveAt(s, p)
      BY <2>1, <2>3 DEF RemoveFirst
    <2> DEFINE a == SubSeq(s, 1, p - 1)
               b == SubSeq(s, p + 1, Len(s))
               q == a \o b
    <2>5. a \in Seq(S) /\ Len(a) = p - 1 /\ \A i \in 1..(p - 1) : a[i] = s[i]
      BY <1>1, <2>1, SubSeqProperties
    <2>6. b \in Seq(S) /\ Len(b) = Len(s) - p /\ \A i \in 1..(Len(s) - p) : b[i] = s[p + i]
      <3>1. PICK n : n = Len(s)
        OBVIOUS
      <3>2. n \in Nat /\ p \in 1..n
        BY <1>1, <2>1, <3>1
      <3>3. p + 1 \in 1..(n + 1) /\ n \in p..n
        BY <3>2
      <3>4. /\ b \in Seq(S)
            /\ Len(b) = IF p + 1 <= n THEN n - (p + 1) + 1 ELSE 0
            /\ \A i \in 1 .. n - (p + 1) + 1 : b[i] = s[(p + 1) + i - 1]
        BY <3>1, <3>3, SubSeqProperties
      <3>5. (IF p + 1 <= n THEN n - (p + 1) + 1 ELSE 0) = n - p /\ n - (p + 1) + 1 = n - p
        BY <3>2
      <3>6. \A i \in 1..(n - p) : (p + 1) + i - 1 = p + i
        BY <3>2
      <3> HIDE DEF b
      <3> QED
        BY <3>1, <3>4, <3>5, <3>6
    <2> HIDE DEF a, b
    <2>7. /\ q \in Seq(S) /\ Len(q) = Len(s) - 1 /\ DOMAIN q = 1..(Len(s) - 1)
          /\ \A i \in 1..(Len(s) - 1) : q[i] = IF i < p THEN s[i] ELSE s[i + 1]
      <3>1. /\ q \in Seq(S) /\ Len(q) = Len(a) + Len(b)
            /\ \A i \in 1 .. Len(a) + Len(b) : q[i] = IF i <= Len(a) THEN a[i] ELSE b[i - Len(a)]
        BY <2>5, <2>6, ConcatProperties
      <3>2. Len(q) = Len(s) - 1 /\ DOMAIN q = 1..(Len(s) - 1)
        <4>1. DOMAIN q = 1..Len(q)
          BY <3>1, LenProperties
        <4>2. Len(q) = (p - 1) + (Len(s) - p)
          BY <2>5, <2>6, <3>1
        <4> HIDE DEF q
        <4>3. (p - 1) + (Len(s) - p) = Len(s) - 1
          BY <1>1, <2>1
        <4> QED
          BY <4>1, <4>2, <4>3
      <3>3. ASSUME NEW i \in 1..(Len(s) - 1) PROVE q[i] = IF i < p THEN s[i] ELSE s[i + 1]
        <4>1. CASE i < p
          BY <1>1, <2>1, <2>5, <2>6, <3>1, <4>1
        <4>2. CASE ~(i < p)
          <5>1. i - (p - 1) \in 1..(Len(s) - p) /\ p + (i - (p - 1)) = i + 1
            BY <1>1, <2>1, <4>2
          <5>2. i \in 1..(Len(a) + Len(b)) /\ ~(i <= Len(a))
            BY <1>1, <2>1, <2>5, <2>6, <4>2
          <5>3. q[i] = b[i - (p - 1)]
            BY <2>5, <3>1, <5>2
          <5> QED
            BY <2>6, <4>2, <5>1, <5>3
        <4> QED
          BY <4>1, <4>2
      <3> QED
        BY <3>1, <3>2, <3>3
    <2> HIDE DEF q
    <2>8. IsInjective(q)
      <3> SUFFICES ASSUME NEW i \in DOMAIN q, NEW j \in DOMAIN q, q[i] = q[j] PROVE i = j
        BY DEF IsInjective
      <3>1. PICK x \in DOMAIN s : q[i] = s[x] /\ x = IF i < p THEN i ELSE i + 1
        BY <1>1, <2>1, <2>7
      <3>2. PICK y \in DOMAIN s : q[j] = s[y] /\ y = IF j < p THEN j ELSE j + 1
        BY <1>1, <2>1, <2>7
      <3>3. x = y
        BY <3>1, <3>2 DEF IsInjective
      <3>4. i \in Nat /\ j \in Nat /\ p \in Nat
        BY <1>1, <2>1, <2>7
      <3> QED
        BY <3>1, <3>2, <3>3, <3>4
    <2>9. ToSet(q) = ToSet(s) \ {k}
      <3>1. ASSUME NEW i \in DOMAIN q PROVE q[i] \in ToSet(s) /\ q[i] # k
        <4>1. CASE i < p
          <5>1. i \in DOMAIN s /\ i # p /\ q[i] = s[i]
            BY <1>1, <2>1, <2>7, <4>1
          <5> QED
            BY <1>1, <2>1, <5>1 DEF ToSet, IsInjective
        <4>2. CASE ~(i < p)
          <5>1. i + 1 \in DOMAIN s /\ i + 1 # p /\ q[i] = s[i + 1]
            BY <1>1, <2>1, <2>7, <4>2
          <5> QED
            BY <1>1, <2>1, <5>1 DEF ToSet, IsInjective
        <4> QED
          BY <4>1, <4>2
      <3>2. ASSUME NEW i \in DOMAIN s, s[i] # k PROVE s[i] \in ToSet(q)
        <4>1. CASE i < p
          <5>1. i \in DOMAIN q /\ q[i] = s[i]
            BY <1>1, <2>1, <2>7, <4>1
          <5> QED
            BY <5>1 DEF ToSet
        <4>2. CASE ~(i < p)
          <5>1. i # p
            BY <2>1, <3>2
          <5>2. i - 1 \in 1..(Len(s) - 1) /\ ~(i - 1 < p) /\ (i - 1) + 1 = i
            BY <1>1, <2>1, <4>2, <5>1
          <5>3. i - 1 \in DOMAIN q /\ q[i - 1] = s[i]
            BY <2>7, <5>2
          <5> QED
            BY <5>3 DEF ToSet
        <4> QED
          BY <4>1, <4>2
      <3> QED
        BY <3>1, <3>2 DEF ToSet
    <2> QED
      BY <2>4, <2>7, <2>8, <2>9 DEF RemoveAt, q, a, b
  <1> QED
    BY <1>2, <1>3

(* The list of installed integrations with one more.                        *)
LEMMA AppendIs ==
  ASSUME NEW S, NEW s \in Seq(S), IsInjective(s), NEW k \in S, k \notin ToSet(s)
  PROVE  /\ Append(s, k) \in Seq(S) /\ IsInjective(Append(s, k))
         /\ ToSet(Append(s, k)) = ToSet(s) \cup {k} /\ Append(s, k) # <<>>
  <1> DEFINE q == Append(s, k)
  <1>1. Len(s) \in Nat /\ DOMAIN s = 1..Len(s)
    BY LenProperties
  <1>2. /\ q \in Seq(S) /\ q # <<>> /\ DOMAIN q = 1..(Len(s) + 1)
        /\ \A i \in 1..Len(s) : q[i] = s[i]
        /\ q[Len(s) + 1] = k
    <2>1. /\ q \in Seq(S) /\ q # <<>> /\ Len(q) = Len(s) + 1
          /\ \A i \in 1..Len(s) : q[i] = s[i]
          /\ q[Len(s) + 1] = k
      BY <1>1, AppendProperties
    <2> QED
      BY <2>1, LenProperties
  <1> HIDE DEF q
  <1>3. \A i \in DOMAIN q : i \in 1..Len(s) \/ i = Len(s) + 1
    BY <1>1, <1>2
  <1>4. ToSet(q) = ToSet(s) \cup {k}
    <2>1. Len(s) + 1 \in DOMAIN q /\ \A i \in 1..Len(s) : i \in DOMAIN q
      BY <1>1, <1>2
    <2> QED
      BY <1>1, <1>2, <1>3, <2>1 DEF ToSet
  <1>5. IsInjective(q)
    <2>1. \A i \in 1..Len(s) : q[i] # k
      BY <1>1, <1>2 DEF ToSet
    <2> QED
      BY <1>1, <1>2, <1>3, <2>1 DEF IsInjective
  <1> QED
    BY <1>2, <1>4, <1>5 DEF q

\* What write_integration_json writes.
JsonConf(k, installed, opt) ==
  [default |-> k, installed |-> installed,
   opt |-> [i \in Integration |-> IF i \in ToSet(installed) THEN opt[i] ELSE Unset]]
\* The options of every integration.
OptsOK(opt) == \A i \in Integration : opt[i] \in OptionOf(i)

(* No integration.json.                                                     *)
LEMMA NoConfOK ==
  /\ ConfOK(NoConf) /\ Keys(NoConf) = {} /\ NoConf.default = None /\ NoConf.installed = <<>>
  /\ OptsOK(NoConf.opt) /\ DOMAIN NoConf.opt = Integration
  BY DEF ConfOK, NoConf, Keys, ToSet, OptionOf, OptsOK

(* What write_integration_json writes is an integration.json.               *)
LEMMA JsonConfOK ==
  ASSUME NEW installed \in Seq(Integration), IsInjective(installed), NEW k \in ToSet(installed),
         NEW opt, OptsOK(opt)
  PROVE  LET c == JsonConf(k, installed, opt)
         IN  /\ ConfOK(c) /\ c # NoConf /\ c.default = k /\ Keys(c) = ToSet(installed)
             /\ c.opt[k] = opt[k] /\ k \in Integration /\ k # None /\ k \in Keys(c)
             /\ c.installed = installed /\ Dialect(c) = Sep[k][opt[k]] /\ opt[k] \in OptionOf(k)
  <1> DEFINE c == JsonConf(k, installed, opt)
  <1>1. /\ c.default = k /\ c.installed = installed
        /\ c.opt = [i \in Integration |-> IF i \in ToSet(installed) THEN opt[i] ELSE Unset]
    BY DEF JsonConf
  <1>2. k \in Integration /\ k # None
    BY IntegrationsAssumption DEF ToSet
  <1> HIDE DEF c
  <1>3. c # NoConf
    BY <1>1, <1>2, NoConfOK
  <1>4. Keys(c) = ToSet(installed)
    BY <1>1 DEF Keys
  <1>5. ConfOK(c)
    BY <1>1, <1>4 DEF ConfOK, OptsOK, OptionOf
  <1> QED
    BY <1>1, <1>2, <1>3, <1>4, <1>5 DEF Dialect, c, OptsOK

(* An integration.json, read.                                               *)
LEMMA ConfFacts ==
  ASSUME NEW c, ConfOK(c)
  PROVE  /\ OptsOK(c.opt) /\ DOMAIN c.opt = Integration
         /\ c # NoConf => /\ c.installed \in Seq(Integration) /\ IsInjective(c.installed)
                          /\ c.default \in Keys(c) /\ c.default \in Integration /\ c.default # None
         /\ Keys(c) \subseteq Integration
         /\ c = NoConf <=> Keys(c) = {}
  <1>1. CASE c = NoConf
    BY <1>1, NoConfOK
  <1>2. CASE c # NoConf
    <2>1. c.installed \in Seq(Integration) /\ IsInjective(c.installed) /\ c.default \in Keys(c)
      BY <1>2 DEF ConfOK
    <2>2. Keys(c) \subseteq Integration
      <3>1. \A i \in DOMAIN c.installed : c.installed[i] \in Integration
        BY <2>1
      <3> QED
        BY <3>1 DEF Keys, ToSet
    <2>3. None \notin Integration
      BY IntegrationsAssumption
    <2> QED
      BY <1>2, <2>1, <2>2, <2>3 DEF ConfOK, OptsOK
  <1> QED
    BY <1>1, <1>2

(* write_integration_json as a step.                                        *)
LEMMA JsonPart ==
  ASSUME NEW c, NEW k, NEW installed, NEW opt, NEW new,
         new = IF k = None THEN NoConf ELSE JsonConf(k, installed, opt), ConfOK(new)
  PROVE  LET t == Json(k, installed, opt)
         IN  /\ Part(c, t) /\ t # <<>>
             /\ \A a \in ToSet(t) : a.do = "json" /\ a.conf = new
             /\ \A do : Pending(t, do) <=> do = "json"
             /\ LastOf(t, "json").conf = new
  <1> DEFINE a == [do |-> "json", conf |-> new]
             t == Json(k, installed, opt)
  <1>1. t = <<a>>
    BY DEF Json, JsonConf
  <1>2. a.do = "json" /\ a.conf = new
    OBVIOUS
  <1> HIDE DEF a, t
  <1>3. StepOK(c, a)
    BY <1>2 DEF StepOK
  <1>4. /\ Part(c, <<a>>) /\ ToSet(<<a>>) = {a} /\ <<a>> # <<>>
        /\ \A do : Pending(<<a>>, do) <=> a.do = do
        /\ LastOf(<<a>>, a.do) = a
    BY <1>2, <1>3, OnePart
  <1> QED
    BY <1>1, <1>2, <1>4 DEF t

(* _update_init_options_for_integration as a step.                          *)
LEMMA OptsPart ==
  ASSUME NEW c, NEW k \in Integration
  PROVE  /\ Part(c, Opts(k)) /\ Opts(k) # <<>>
         /\ \A a \in ToSet(Opts(k)) : a.do = "opts" /\ a.key = k
         /\ \A do : Pending(Opts(k), do) <=> do = "opts"
         /\ LastOf(Opts(k), "opts").key = k
  <1> DEFINE a == [do |-> "opts", key |-> k]
  <1>1. Opts(k) = <<a>> /\ a.do = "opts" /\ a.key = k
    BY DEF Opts
  <1> HIDE DEF a
  <1>2. StepOK(c, a)
    BY <1>1 DEF StepOK
  <1>3. /\ Part(c, <<a>>) /\ ToSet(<<a>>) = {a} /\ <<a>> # <<>>
        /\ \A do : Pending(<<a>>, do) <=> a.do = do
        /\ LastOf(<<a>>, a.do) = a
    BY <1>1, <1>2, OnePart
  <1> QED
    BY <1>1, <1>3

(* _clear_init_options_for_integration as a step.                           *)
LEMMA ClearPart ==
  ASSUME NEW c, NEW k \in Integration
  PROVE  /\ Part(c, Clear(k)) /\ Clear(k) # <<>>
         /\ \A a \in ToSet(Clear(k)) : a.do = "clear" /\ a.key = k
         /\ \A do : Pending(Clear(k), do) <=> do = "clear"
         /\ LastOf(Clear(k), "clear").key = k
  <1> DEFINE a == [do |-> "clear", key |-> k]
  <1>1. Clear(k) = <<a>> /\ a.do = "clear" /\ a.key = k
    BY DEF Clear
  <1> HIDE DEF a
  <1>2. StepOK(c, a)
    BY <1>1 DEF StepOK
  <1>3. /\ Part(c, <<a>>) /\ ToSet(<<a>>) = {a} /\ <<a>> # <<>>
        /\ \A do : Pending(<<a>>, do) <=> a.do = do
        /\ LastOf(<<a>>, a.do) = a
    BY <1>1, <1>2, OnePart
  <1> QED
    BY <1>1, <1>3

(* teardown as a step.                                                      *)
LEMMA TeardownPart ==
  ASSUME NEW c, NEW k \in Integration, c.op \in {"uninstall", "switch"}
  PROVE  /\ Part(c, Teardown(k, c.force)) /\ Teardown(k, c.force) # <<>>
         /\ \A a \in ToSet(Teardown(k, c.force)) : a.do = "teardown" /\ a.key = k
         /\ \A do : Pending(Teardown(k, c.force), do) <=> do = "teardown"
         /\ Teardown(k, c.force)[1].key = k
  <1> DEFINE a == [do |-> "teardown", key |-> k, force |-> c.force]
  <1>1. Teardown(k, c.force) = <<a>> /\ a.do = "teardown" /\ a.key = k /\ a.force = c.force
    BY DEF Teardown
  <1> HIDE DEF a
  <1>2. StepOK(c, a)
    BY <1>1 DEF StepOK
  <1>3. /\ Part(c, <<a>>) /\ ToSet(<<a>>) = {a} /\ <<a>> # <<>>
        /\ \A do : Pending(<<a>>, do) <=> a.do = do
    BY <1>1, <1>2, OnePart
  <1> QED
    BY <1>1, <1>3

(* setup and the saving of its manifest as steps.                           *)
LEMMA SetupPart ==
  ASSUME NEW c, NEW k, c.key = k, NEW o \in OptionOf(k)
  PROVE  /\ Part(c, Setup(k, o)) /\ Part(c, Save(k)) /\ Setup(k, o) # <<>> /\ Save(k) # <<>>
         /\ \A a \in ToSet(Setup(k, o)) : a.do = "setup"
         /\ \A a \in ToSet(Save(k)) : a.do = "manifest"
         /\ \A do : Pending(Setup(k, o), do) <=> do = "setup"
         /\ \A do : Pending(Save(k), do) <=> do = "manifest"
  <1> DEFINE a == [do |-> "setup", key |-> k, opt |-> o]
             b == [do |-> "manifest", key |-> k]
  <1>1. Setup(k, o) = <<a>> /\ a.do = "setup" /\ a.key = k /\ a.opt = o
    BY DEF Setup
  <1>2. Save(k) = <<b>> /\ b.do = "manifest" /\ b.key = k
    BY DEF Save
  <1> HIDE DEF a, b
  <1>3. StepOK(c, a) /\ StepOK(c, b)
    BY <1>1, <1>2 DEF StepOK
  <1>4. /\ Part(c, <<a>>) /\ ToSet(<<a>>) = {a} /\ <<a>> # <<>>
        /\ \A do : Pending(<<a>>, do) <=> a.do = do
    BY <1>1, <1>3, OnePart
  <1>5. /\ Part(c, <<b>>) /\ ToSet(<<b>>) = {b} /\ <<b>> # <<>>
        /\ \A do : Pending(<<b>>, do) <=> b.do = do
    BY <1>2, <1>3, OnePart
  <1> QED
    BY <1>1, <1>2, <1>4, <1>5

(* The removal of stale files as a step.                                    *)
LEMMA StalePart ==
  ASSUME NEW c, NEW k, c.key = k, c.op = "upgrade"
  PROVE  LET t == <<[do |-> "stale", key |-> k]>>
         IN  /\ Part(c, t) /\ t # <<>>
             /\ \A a \in ToSet(t) : a.do = "stale"
             /\ \A do : Pending(t, do) <=> do = "stale"
  <1> DEFINE a == [do |-> "stale", key |-> k]
  <1>1. a.do = "stale" /\ a.key = k
    OBVIOUS
  <1> HIDE DEF a
  <1>2. StepOK(c, a)
    BY <1>1 DEF StepOK
  <1>3. /\ Part(c, <<a>>) /\ ToSet(<<a>>) = {a} /\ <<a>> # <<>>
        /\ \A do : Pending(<<a>>, do) <=> a.do = do
    BY <1>1, <1>2, OnePart
  <1> QED
    BY <1>1, <1>3 DEF a

\* u is the part s followed by the part t.
Joined(c, s, t, u) ==
  /\ Part(c, u) /\ ToSet(u) = ToSet(s) \cup ToSet(t)
  /\ s # <<>> \/ t # <<>> => u # <<>>
  /\ s # <<>> => u[1] = s[1]
  /\ \A do : Pending(u, do) <=> Pending(s, do) \/ Pending(t, do)
  /\ \A do : Pending(t, do) => LastOf(u, do) = LastOf(t, do)
  /\ \A do : Pending(s, do) /\ ~Pending(t, do) => LastOf(u, do) = LastOf(s, do)

(* Two parts, one after the other: their steps and what is ahead.           *)
LEMMA Together ==
  ASSUME NEW c, NEW s, NEW t, Part(c, s), Part(c, t),
         MayFollow(c, s, t), NEW u, u = s \o t
  PROVE  Joined(c, s, t, u)
  <1>1. Part(c, u) /\ ToSet(u) = ToSet(s) \cup ToSet(t)
    BY Join
  <1>2. IsPlan(s) /\ IsPlan(t)
    BY DEF Part
  <1>3. /\ \A do : Pending(u, do) <=> Pending(s, do) \/ Pending(t, do)
        /\ \A do : Pending(t, do) => LastOf(u, do) = LastOf(t, do)
        /\ \A do : Pending(s, do) /\ ~Pending(t, do) => LastOf(u, do) = LastOf(s, do)
    BY <1>2, AheadAfter
  <1>4. /\ Len(u) = Len(s) + Len(t) /\ Len(s) \in Nat /\ Len(t) \in Nat /\ IsPlan(u)
        /\ \A i \in 1..Len(s) : u[i] = s[i]
        /\ s # <<>> => Len(s) > 0
        /\ t # <<>> => Len(t) > 0
    BY <1>2, PlanAfter, PlanFacts
  <1>5. s # <<>> \/ t # <<>> => u # <<>>
    <2>2. s # <<>> \/ t # <<>> => Len(u) # 0
      BY <1>4
    <2> QED
      BY <1>4, <2>2, PlanFacts
  <1>6. s # <<>> => u[1] = s[1]
    <2>1. s # <<>> => 1 \in 1..Len(s)
      BY <1>4
    <2> QED
      BY <1>4, <2>1
  <1> QED
    BY <1>1, <1>3, <1>5, <1>6 DEF Joined

\* The steps t make k the default, with integration.json new.
IsSetDefault(c, t, k, opt, new) ==
  /\ Part(c, t) /\ t # <<>>
  /\ \A a \in ToSet(t) : /\ a.do \in {"shared", "saveshared", "json", "opts"}
                         /\ a.do \in {"shared", "saveshared"} => a.refresh
                         /\ a.do = "json" => a.conf = new
                         /\ a.do = "opts" => a.key = k
  /\ \A do : Pending(t, do) <=> do \in {"shared", "saveshared", "json", "opts"}
  /\ LastOf(t, "json").conf = new /\ LastOf(t, "opts").key = k
  /\ LastOf(t, "shared").key = k /\ LastOf(t, "shared").opt = opt[k]
  /\ LastOf(t, "shared").refresh

(* _set_default_integration.                                                *)
LEMMA SetDefaultPart ==
  ASSUME NEW c, NEW installed \in Seq(Integration), IsInjective(installed),
         NEW k \in ToSet(installed), NEW opt, OptsOK(opt), NEW force \in BOOLEAN, force => c.sforce,
         NEW t, t = SetDefault(k, installed, opt, force)
  PROVE  IsSetDefault(c, t, k, opt, JsonConf(k, installed, opt))
  <1> DEFINE new == JsonConf(k, installed, opt)
             q == Json(k, installed, opt)
             o == Opts(k)
  <1>1. ConfOK(new) /\ k \in Integration /\ k # None /\ opt[k] \in OptionOf(k)
    BY JsonConfOK
  <1>2. PICK p, yes : p = SharedStep(k, opt[k], force, yes) /\ yes = TRUE
    OBVIOUS
  <1>3. SharedArgs(c, k, opt[k], force, yes)
    BY <1>1, <1>2 DEF SharedArgs
  <1>4. /\ Part(c, p) /\ p # <<>>
        /\ \A a \in ToSet(p) : a.do \in {"shared", "saveshared"} /\ a.refresh = yes
        /\ \A do : Pending(p, do) <=> do \in {"shared", "saveshared"}
        /\ LastOf(p, "shared").key = k /\ LastOf(p, "shared").opt = opt[k]
        /\ LastOf(p, "shared").refresh = yes
    <2>1. p = SharedStep(k, opt[k], force, yes)
      BY <1>2
    <2> QED
      BY <1>3, <2>1, SharedPart
  <1>5. yes = TRUE
    BY <1>2
  <1>6. /\ Part(c, q) /\ q # <<>> /\ \A a \in ToSet(q) : a.do = "json" /\ a.conf = new
        /\ \A do : Pending(q, do) <=> do = "json"
        /\ LastOf(q, "json").conf = new
    BY <1>1, JsonPart
  <1>7. /\ Part(c, o) /\ o # <<>> /\ \A a \in ToSet(o) : a.do = "opts" /\ a.key = k
        /\ \A do : Pending(o, do) <=> do = "opts"
        /\ LastOf(o, "opts").key = k
    BY <1>1, OptsPart
  <1>8. t = (p \o q) \o o
    BY <1>2 DEF SetDefault
  <1> HIDE DEF new, q, o
  <1>9. PICK u : u = p \o q
    OBVIOUS
  <1>10. MayFollow(c, p, q)
    BY <1>4, <1>6 DEF Precedes, MayFollow
  <1>11. Joined(c, p, q, u)
    BY <1>4, <1>6, <1>9, <1>10, Together
  <1>12. MayFollow(c, u, o)
    BY <1>4, <1>6, <1>7, <1>11 DEF Precedes, MayFollow, Joined
  <1>13. Joined(c, u, o, t)
    <2>1. Part(c, u) /\ Part(c, o)
      BY <1>7, <1>11 DEF Joined
    <2>2. t = u \o o
      BY <1>8, <1>9
    <2> QED
      BY <1>12, <2>1, <2>2, Together
  <1> QED
    BY <1>4, <1>5, <1>6, <1>7, <1>11, <1>13 DEF IsSetDefault, Joined, new

(* A list that is not empty has a head.                                     *)
LEMMA HeadIs ==
  ASSUME NEW S, NEW s \in Seq(S), s # <<>>
  PROVE  Head(s) \in ToSet(s) /\ ToSet(s) \subseteq S
  <1>1. Len(s) \in Nat /\ Len(s) > 0 /\ DOMAIN s = 1..Len(s) /\ Head(s) = s[1]
    BY LenProperties
  <1>2. 1 \in DOMAIN s
    BY <1>1
  <1>3. \A i \in DOMAIN s : s[i] \in S
    BY <1>1
  <1> QED
    BY <1>1, <1>2, <1>3 DEF ToSet

\* integration.json c when k has gone.
ConfWithout(c, k) ==
  LET rest == RemoveFirst(c.installed, k)
  IN  IF rest = <<>> THEN NoConf
      ELSE JsonConf(IF c.default = k THEN Head(rest) ELSE c.default, rest, c.opt)

(* integration.json when an integration has gone.                           *)
LEMMA ConfWithoutOK ==
  ASSUME NEW c, ConfOK(c), NEW k \in Keys(c)
  PROVE  LET new == ConfWithout(c, k)
             rest == RemoveFirst(c.installed, k)
         IN  /\ ConfOK(new) /\ Keys(new) = Keys(c) \ {k} /\ new.default # k
             /\ new = NoConf <=> rest = <<>>
             /\ new # NoConf =>
                  /\ rest \in Seq(Integration) /\ IsInjective(rest) /\ new.default \in ToSet(rest)
                  /\ new = JsonConf(new.default, rest, c.opt) /\ new.default \in Integration
                  /\ c.default = k => new.default = Head(rest)
                  /\ c.default # k => new.default = c.default /\ Dialect(new) = Dialect(c)
                  /\ Dialect(new) = Sep[new.default][c.opt[new.default]]
                  /\ new.default # None
  <1> DEFINE new == ConfWithout(c, k)
             rest == RemoveFirst(c.installed, k)
             d == IF c.default = k THEN Head(rest) ELSE c.default
  <1>1. /\ OptsOK(c.opt) /\ c # NoConf /\ c.installed \in Seq(Integration) /\ IsInjective(c.installed)
        /\ c.default \in Keys(c) /\ k \in Integration
    BY ConfFacts, NoConfOK
  <1>2. rest \in Seq(Integration) /\ IsInjective(rest) /\ ToSet(rest) = Keys(c) \ {k}
    BY <1>1, RemoveFirstIs DEF Keys
  <1>3. CASE rest = <<>>
    <2>1. new = NoConf
      BY <1>3 DEF ConfWithout
    <2>2. ToSet(rest) = {}
      BY <1>3 DEF ToSet
    <2>3. None # k
      BY <1>1, IntegrationsAssumption
    <2> HIDE DEF new, rest
    <2> QED
      BY <1>2, <1>3, <2>1, <2>2, <2>3, NoConfOK DEF new, rest
  <1>4. CASE rest # <<>>
    <2>1. new = JsonConf(d, rest, c.opt)
      BY <1>4 DEF ConfWithout
    <2> HIDE DEF new, rest
    <2>2. d \in ToSet(rest) /\ d # k
      BY <1>1, <1>2, <1>4, HeadIs
    <2> HIDE DEF d
    <2>3. /\ ConfOK(new) /\ new # NoConf /\ new.default = d /\ Keys(new) = ToSet(rest)
          /\ d \in Integration /\ d # None /\ Dialect(new) = Sep[d][c.opt[d]]
      BY <1>1, <1>2, <2>1, <2>2, JsonConfOK
    <2>4. /\ c.default = k => d = Head(rest)
          /\ c.default # k => d = c.default
      BY DEF d
    <2>5. c.default # k => Dialect(new) = Dialect(c)
      BY <2>3, <2>4 DEF Dialect
    <2> QED
      BY <1>2, <1>4, <2>1, <2>2, <2>3, <2>4, <2>5 DEF new, rest
  <1> QED
    BY <1>3, <1>4

\* The steps t leave integration.json new, and set its default anew or leave it.
IsRestore(c, t, new, anew) ==
  /\ Part(c, t) /\ t # <<>> /\ ConfOK(new)
  /\ \A a \in ToSet(t) : /\ a.do \in {"shared", "saveshared", "json", "opts"}
                         /\ a.do \in {"shared", "saveshared"} => a.refresh
                         /\ a.do = "json" => a.conf = new
                         /\ a.do = "opts" => a.key = new.default
  /\ \A do : Pending(t, do) <=> do = "json" \/ (anew /\ do \in {"shared", "saveshared", "opts"})
  /\ LastOf(t, "json").conf = new
  /\ anew => /\ LastOf(t, "opts").key = new.default /\ LastOf(t, "shared").refresh
             /\ Sep[LastOf(t, "shared").key][LastOf(t, "shared").opt] = Dialect(new)

(* Setting a default restores integration.json.                             *)
LEMMA RestoreDefault ==
  ASSUME NEW c, NEW installed \in Seq(Integration), IsInjective(installed),
         NEW k \in ToSet(installed), NEW opt, OptsOK(opt), NEW force \in BOOLEAN, force => c.sforce,
         NEW t, t = SetDefault(k, installed, opt, force), NEW anew, anew
  PROVE  IsRestore(c, t, JsonConf(k, installed, opt), anew)
  <1>1. PICK new : new = JsonConf(k, installed, opt)
    OBVIOUS
  <1>2. ConfOK(new) /\ new.default = k /\ Dialect(new) = Sep[k][opt[k]]
    BY <1>1, JsonConfOK
  <1>3. IsSetDefault(c, t, k, opt, new)
    BY <1>1, SetDefaultPart
  <1>4. IsRestore(c, t, new, anew)
    BY <1>2, <1>3 DEF IsSetDefault, IsRestore
  <1> QED
    BY <1>1, <1>4

(* Writing integration.json restores it.                                    *)
LEMMA RestoreJson ==
  ASSUME NEW c, NEW k, NEW installed, NEW opt, NEW new,
         new = IF k = None THEN NoConf ELSE JsonConf(k, installed, opt), ConfOK(new),
         NEW t, t = Json(k, installed, opt), NEW anew, ~anew
  PROVE  IsRestore(c, t, new, anew)
  <1>1. /\ Part(c, t) /\ t # <<>>
        /\ \A a \in ToSet(t) : a.do = "json" /\ a.conf = new
        /\ \A do : Pending(t, do) <=> do = "json"
        /\ LastOf(t, "json").conf = new
    BY JsonPart
  <1> QED
    BY <1>1 DEF IsRestore

\* The steps that take k out of integration.json c.
RestoreSteps(c, k) ==
  LET rest == RemoveFirst(c.installed, k)
  IN  CASE rest = <<>> -> Json(None, <<>>, c.opt)
        [] rest # <<>> /\ c.default = k -> SetDefault(Head(rest), rest, c.opt, FALSE)
        [] OTHER -> Json(c.default, rest, c.opt)

(* Taking an integration out of integration.json.                           *)
LEMMA RestorePart ==
  ASSUME NEW c, NEW from, ConfOK(from), NEW k \in Keys(from),
         NEW t, t = RestoreSteps(from, k),
         NEW anew, anew <=> ConfWithout(from, k) # NoConf /\ from.default = k
  PROVE  IsRestore(c, t, ConfWithout(from, k), anew)
  <1>1. PICK new, rest : new = ConfWithout(from, k) /\ rest = RemoveFirst(from.installed, k)
    OBVIOUS
  <1>2. /\ ConfOK(new)
        /\ new = NoConf <=> rest = <<>>
        /\ new # NoConf =>
             /\ rest \in Seq(Integration) /\ IsInjective(rest) /\ new.default \in ToSet(rest)
             /\ new = JsonConf(new.default, rest, from.opt)
             /\ from.default = k => new.default = Head(rest)
             /\ from.default # k => new.default = from.default
             /\ new.default # None
    BY <1>1, ConfWithoutOK
  <1>3. OptsOK(from.opt)
    BY ConfFacts
  <1>4. CASE new = NoConf
    <2>1. t = Json(None, <<>>, from.opt)
      BY <1>1, <1>2, <1>4 DEF RestoreSteps
    <2>2. ~anew /\ ConfOK(new)
      BY <1>1, <1>2, <1>4
    <2>3. new = IF None = None THEN NoConf ELSE JsonConf(None, <<>>, from.opt)
      BY <1>4
    <2>4. IsRestore(c, t, new, anew)
      BY <2>1, <2>2, <2>3, RestoreJson
    <2> QED
      BY <1>1, <2>4
  <1>5. CASE new # NoConf /\ from.default = k
    <2>1. PICK no : no = FALSE
      OBVIOUS
    <2>2. t = SetDefault(new.default, rest, from.opt, no)
      BY <1>1, <1>2, <1>5, <2>1 DEF RestoreSteps
    <2>3. anew /\ no \in BOOLEAN /\ (no => c.sforce)
      BY <1>1, <1>5, <2>1
    <2>4. IsRestore(c, t, JsonConf(new.default, rest, from.opt), anew)
      BY <1>2, <1>3, <1>5, <2>2, <2>3, RestoreDefault
    <2> QED
      BY <1>1, <1>2, <1>5, <2>4
  <1>6. CASE new # NoConf /\ from.default # k
    <2>1. t = Json(new.default, rest, from.opt)
      BY <1>1, <1>2, <1>6 DEF RestoreSteps
    <2>2. ~anew /\ ConfOK(new)
      BY <1>1, <1>2, <1>6
    <2>3. new = IF new.default = None THEN NoConf ELSE JsonConf(new.default, rest, from.opt)
      BY <1>2, <1>6
    <2>4. IsRestore(c, t, new, anew)
      BY <2>1, <2>2, <2>3, RestoreJson
    <2> QED
      BY <1>1, <2>4
  <1> QED
    BY <1>4, <1>5, <1>6

\* The plan t of command c has steps of the kinds D and leaves integration.json new.
Outline(c, t, D, new) ==
  /\ Part(c, t) /\ t # <<>> /\ ConfOK(new)
  /\ \A do : Pending(t, do) <=> do \in D
  /\ "json" \in D /\ LastOf(t, "json").conf = new
  /\ "opts" \in D => LastOf(t, "opts").key = new.default
  /\ "clear" \in D => LastOf(t, "clear").key = c.from.default
  /\ "shared" \in D => Sep[LastOf(t, "shared").key][LastOf(t, "shared").opt] = Dialect(new)

\* The steps t are a step of one kind for k if b, and none otherwise.
Optional(c, t, do, k, b) ==
  /\ Part(c, t) /\ \A a \in ToSet(t) : a.do = do /\ a.key = k
  /\ \A d : Pending(t, d) <=> b /\ d = do
  /\ b => t # <<>> /\ t[1].key = k /\ LastOf(t, do).key = k

(* A step that is taken or not.                                             *)
LEMMA OptionalStep ==
  ASSUME NEW c, NEW do, NEW k, NEW b \in BOOLEAN, NEW a, a.do = do, a.key = k,
         StepOK(c, a), do # "shared", do # "saveshared",
         NEW t, t = IF b THEN <<a>> ELSE <<>>
  PROVE  Optional(c, t, do, k, b)
  <1>1. CASE b
    <2>1. t = <<a>> /\ t[1] = a
      BY <1>1
    <2>2. /\ Part(c, <<a>>) /\ ToSet(<<a>>) = {a} /\ <<a>> # <<>>
          /\ \A d : Pending(<<a>>, d) <=> a.do = d
          /\ LastOf(<<a>>, a.do) = a
      BY OnePart
    <2> QED
      BY <1>1, <2>1, <2>2 DEF Optional
  <1>2. CASE ~b
    <2>1. t = <<>>
      BY <1>2
    <2> QED
      BY <1>2, <2>1, NoPart DEF Optional
  <1> QED
    BY <1>1, <1>2

\* Commands that tear an integration down.
TearsDown(c) == c.op = "uninstall" \/ c.op = "switch"

(* A teardown, or none.                                                     *)
LEMMA MayTeardown ==
  ASSUME NEW c, NEW k \in Integration, TearsDown(c), NEW b \in BOOLEAN,
         NEW t, t = IF b THEN Teardown(k, c.force) ELSE <<>>
  PROVE  Optional(c, t, "teardown", k, b)
  <1> DEFINE a == [do |-> "teardown", key |-> k, force |-> c.force]
  <1>1. a.do = "teardown" /\ a.key = k /\ StepOK(c, a)
    BY DEF StepOK, TearsDown
  <1>2. t = IF b THEN <<a>> ELSE <<>>
    BY DEF Teardown
  <1> HIDE DEF a
  <1> QED
    BY <1>1, <1>2, OptionalStep

(* init-options.json is cleared, or not.                                    *)
LEMMA MayClear ==
  ASSUME NEW c, NEW k \in Integration, NEW b \in BOOLEAN,
         NEW t, t = IF b THEN Clear(k) ELSE <<>>
  PROVE  Optional(c, t, "clear", k, b)
  <1> DEFINE a == [do |-> "clear", key |-> k]
  <1>1. a.do = "clear" /\ a.key = k /\ StepOK(c, a)
    BY DEF StepOK
  <1>2. t = IF b THEN <<a>> ELSE <<>>
    BY DEF Clear
  <1> HIDE DEF a
  <1> QED
    BY <1>1, <1>2, OptionalStep

(* init-options.json is updated, or not.                                    *)
LEMMA MayOpts ==
  ASSUME NEW c, NEW k \in Integration, NEW b \in BOOLEAN,
         NEW t, t = IF b THEN Opts(k) ELSE <<>>
  PROVE  Optional(c, t, "opts", k, b)
  <1> DEFINE a == [do |-> "opts", key |-> k]
  <1>1. a.do = "opts" /\ a.key = k /\ StepOK(c, a)
    BY DEF StepOK
  <1>2. t = IF b THEN <<a>> ELSE <<>>
    BY DEF Opts
  <1> HIDE DEF a
  <1> QED
    BY <1>1, <1>2, OptionalStep

\* Command c uninstalls k, which has a manifest or not, with the steps t.
IsUninstall(c, from, k, has, t) ==
  /\ ConfOK(from) /\ k \in Keys(from) /\ c.op = "uninstall" /\ c.from = from /\ has \in BOOLEAN
  /\ t = ((IF has THEN Teardown(k, c.force) ELSE <<>>) \o RestoreSteps(from, k))
         \o (IF from.default = k THEN Clear(k) ELSE <<>>)

(* The plan of integration_uninstall.                                       *)
LEMMA UninstallPlan ==
  ASSUME NEW c, NEW from, NEW k, NEW has, NEW t, IsUninstall(c, from, k, has, t)
  PROVE  \E D : /\ Outline(c, t, D, ConfWithout(from, k))
                /\ D \subseteq {"teardown", "json", "opts", "shared", "saveshared", "clear"}
                /\ "teardown" \in D <=> has
                /\ has => t[1].key = k
                /\ "opts" \in D <=> from.default = k /\ ConfWithout(from, k) # NoConf
                /\ "shared" \in D <=> "opts" \in D
                /\ "shared" \in D => LastOf(t, "shared").refresh
                /\ "clear" \in D <=> from.default = k
  <1> USE DEF IsUninstall
  <1>1. PICK new, first, anew : new = ConfWithout(from, k) /\ first = (from.default = k)
                                /\ anew = (new # NoConf /\ first)
    OBVIOUS
  <1>2. PICK p, q, r : /\ p = IF has THEN Teardown(k, c.force) ELSE <<>>
                       /\ q = RestoreSteps(from, k)
                       /\ r = IF first THEN Clear(k) ELSE <<>>
    OBVIOUS
  <1>3. k \in Integration /\ first \in BOOLEAN /\ new.default # k
    <2>1. k \in Integration /\ new.default # k
      BY <1>1, ConfFacts, ConfWithoutOK
    <2> QED
      BY <1>1, <2>1
  <1>4. IsRestore(c, q, new, anew)
    <2>1. anew <=> ConfWithout(from, k) # NoConf /\ from.default = k
      BY <1>1
    <2>2. q = RestoreSteps(from, k)
      BY <1>2
    <2> QED
      BY <1>1, <2>1, <2>2, RestorePart
  <1>5. Optional(c, p, "teardown", k, has)
    <2>1. TearsDown(c) /\ p = IF has THEN Teardown(k, c.force) ELSE <<>>
      BY <1>2 DEF TearsDown
    <2> QED
      BY <1>3, <2>1, MayTeardown
  <1>6. Optional(c, r, "clear", k, first)
    BY <1>2, <1>3, MayClear
  <1>7. k \notin Keys(new)
    BY <1>1, ConfWithoutOK
  <1>8. PICK u : u = p \o q
    OBVIOUS
  <1>9. MayFollow(c, p, q)
    BY <1>4, <1>5, <1>7 DEF Precedes, MayFollow, IsRestore, Optional
  <1>10. Joined(c, p, q, u)
    BY <1>4, <1>5, <1>8, <1>9, Together DEF IsRestore, Optional
  <1>11. MayFollow(c, u, r)
    BY <1>3, <1>4, <1>5, <1>6, <1>10 DEF Precedes, MayFollow, IsRestore, Joined, Optional
  <1>12. t = u \o r
    BY <1>1, <1>2, <1>8
  <1>13. Joined(c, u, r, t)
    <2>1. Part(c, u) /\ Part(c, r)
      BY <1>6, <1>10 DEF Joined, Optional
    <2> QED
      BY <1>11, <1>12, <2>1, Together
  <1> DEFINE D == {"json"} \cup (IF has THEN {"teardown"} ELSE {})
                  \cup (IF anew THEN {"opts", "shared", "saveshared"} ELSE {})
                  \cup (IF first THEN {"clear"} ELSE {})
  <1>14. \A do : /\ Pending(t, do) <=> do \in D
                 /\ Pending(q, do) <=> do = "json" \/ (anew /\ do \in {"shared", "saveshared", "opts"})
                 /\ Pending(q, do) /\ ~Pending(r, do) => LastOf(t, do) = LastOf(q, do)
                 /\ Pending(r, do) => LastOf(t, do) = LastOf(r, do)
    <2>1. \A do : /\ Pending(t, do) <=> Pending(u, do) \/ Pending(r, do)
                  /\ Pending(u, do) <=> Pending(p, do) \/ Pending(q, do)
                  /\ Pending(q, do) => LastOf(u, do) = LastOf(q, do)
                  /\ Pending(u, do) /\ ~Pending(r, do) => LastOf(t, do) = LastOf(u, do)
                  /\ Pending(r, do) => LastOf(t, do) = LastOf(r, do)
      BY <1>10, <1>13 DEF Joined
    <2>2. \A do : Pending(q, do) <=> do = "json" \/ (anew /\ do \in {"shared", "saveshared", "opts"})
      BY <1>4 DEF IsRestore
    <2> QED
      BY <1>5, <1>6, <2>1, <2>2 DEF Optional
  <1>15. Part(c, t) /\ t # <<>> /\ (has => t[1].key = k)
    BY <1>4, <1>5, <1>10, <1>13 DEF Joined, IsRestore, Optional
  <1>16. /\ LastOf(t, "json").conf = new
         /\ anew => /\ LastOf(t, "opts").key = new.default /\ LastOf(t, "shared").refresh
                    /\ Sep[LastOf(t, "shared").key][LastOf(t, "shared").opt] = Dialect(new)
         /\ first => LastOf(t, "clear").key = from.default
         /\ ConfOK(new)
    BY <1>1, <1>4, <1>6, <1>14 DEF IsRestore, Optional
  <1>17. Outline(c, t, D, new)
    BY <1>14, <1>15, <1>16 DEF Outline
  <1>18. /\ "teardown" \in D <=> has
         /\ "opts" \in D <=> anew
         /\ "shared" \in D <=> anew
         /\ "clear" \in D <=> first
         /\ D \subseteq {"teardown", "json", "opts", "shared", "saveshared", "clear"}
    OBVIOUS
  <1> HIDE DEF D
  <1> QED
    BY <1>1, <1>15, <1>16, <1>17, <1>18

\* The steps t are one step of kind do.
Single(c, t, do) ==
  /\ Part(c, t) /\ t # <<>> /\ \A a \in ToSet(t) : a.do = do
  /\ \A d : Pending(t, d) <=> d = do

(* setup and the saving of its manifest are single steps.                   *)
LEMMA SetupSingle ==
  ASSUME NEW c, NEW k, c.key = k, NEW o \in OptionOf(k)
  PROVE  Single(c, Setup(k, o), "setup") /\ Single(c, Save(k), "manifest")
  BY SetupPart DEF Single

\* The steps t are those of install_shared_infra.
IsShared(c, t, k, o, refresh) ==
  /\ Part(c, t) /\ t # <<>>
  /\ \A a \in ToSet(t) : a.do \in {"shared", "saveshared"} /\ a.refresh = refresh
  /\ \A do : Pending(t, do) <=> do \in {"shared", "saveshared"}
  /\ LastOf(t, "shared").key = k /\ LastOf(t, "shared").opt = o
  /\ LastOf(t, "shared").refresh = refresh

(* install_shared_infra.                                                    *)
LEMMA SharedIs ==
  ASSUME NEW c, NEW k, NEW o, NEW force, NEW refresh, SharedArgs(c, k, o, force, refresh),
         NEW t, t = SharedStep(k, o, force, refresh)
  PROVE  IsShared(c, t, k, o, refresh)
  BY SharedPart DEF IsShared

\* The step t writes integration.json new.
IsJson(c, t, new) ==
  /\ Part(c, t) /\ t # <<>>
  /\ \A a \in ToSet(t) : a.do = "json" /\ a.conf = new
  /\ \A do : Pending(t, do) <=> do = "json"
  /\ LastOf(t, "json").conf = new

(* write_integration_json.                                                  *)
LEMMA JsonIs ==
  ASSUME NEW c, NEW k, k # None, NEW installed, NEW opt, NEW new,
         new = JsonConf(k, installed, opt), ConfOK(new), NEW t, t = Json(k, installed, opt)
  PROVE  IsJson(c, t, new)
  <1>1. new = IF k = None THEN NoConf ELSE JsonConf(k, installed, opt)
    OBVIOUS
  <1> QED
    BY <1>1, JsonPart DEF IsJson

\* Command c installs k with the steps t, and writes integration.json new.
IsInstall(c, k, default, opt, installed, new, t) ==
  /\ k \in Integration /\ c.op = "install" /\ c.key = k
  /\ default \in Integration /\ OptsOK(opt) /\ ConfOK(new) /\ default # None
  /\ new = JsonConf(default, installed, opt) /\ new.default = default
  /\ Dialect(new) = Sep[default][opt[default]]
  /\ \E no : no = FALSE /\
       t = (((SharedStep(default, opt[default], no, no) \o Setup(k, opt[k])) \o Save(k))
             \o Json(default, installed, opt)) \o (IF default = k THEN Opts(k) ELSE <<>>)

(* The plan of integration_install.                                         *)
LEMMA InstallPlan ==
  ASSUME NEW c, NEW k, NEW default, NEW opt, NEW installed, NEW new, NEW t,
         IsInstall(c, k, default, opt, installed, new, t)
  PROVE  \E D : /\ Outline(c, t, D, new)
                /\ D \subseteq {"shared", "saveshared", "setup", "manifest", "json", "opts"}
                /\ {"shared", "setup", "manifest"} \subseteq D
                /\ "opts" \in D <=> default = k
                /\ ~LastOf(t, "shared").refresh
  <1> USE DEF IsInstall
  <1>0. PICK no : no = FALSE /\
          t = (((SharedStep(default, opt[default], no, no) \o Setup(k, opt[k])) \o Save(k))
                \o Json(default, installed, opt)) \o (IF default = k THEN Opts(k) ELSE <<>>)
    OBVIOUS
  <1>1. PICK first : first = (default = k)
    OBVIOUS
  <1>2. PICK p, q, r, s, o : /\ p = SharedStep(default, opt[default], no, no) /\ q = Setup(k, opt[k])
                             /\ r = Save(k) /\ s = Json(default, installed, opt)
                             /\ o = IF first THEN Opts(k) ELSE <<>>
    OBVIOUS
  <1>3. opt[k] \in OptionOf(k) /\ opt[default] \in OptionOf(default) /\ first \in BOOLEAN
    BY <1>1 DEF OptsOK
  <1>4. IsShared(c, p, default, opt[default], no)
    <2>1. SharedArgs(c, default, opt[default], no, no)
      BY <1>0, <1>3 DEF SharedArgs
    <2>2. p = SharedStep(default, opt[default], no, no)
      BY <1>2
    <2> QED
      BY <2>1, <2>2, SharedIs
  <1>5. Single(c, q, "setup") /\ Single(c, r, "manifest")
    BY <1>2, <1>3, SetupSingle
  <1>6. IsJson(c, s, new)
    BY <1>2, JsonIs
  <1>7. Optional(c, o, "opts", k, first)
    BY <1>2, <1>3, MayOpts
  <1>8. PICK u, v, w : u = p \o q /\ v = u \o r /\ w = v \o s
    OBVIOUS
  <1>9. MayFollow(c, p, q)
    BY <1>4, <1>5 DEF Precedes, MayFollow, IsShared, Single
  <1>10. Joined(c, p, q, u)
    <2>1. Part(c, p) /\ Part(c, q) /\ u = p \o q
      BY <1>4, <1>5, <1>8 DEF IsShared, Single
    <2> QED
      BY <1>9, <2>1, Together
  <1>11. MayFollow(c, u, r)
    BY <1>4, <1>5, <1>10 DEF Precedes, MayFollow, IsShared, Single, Joined
  <1>12. Joined(c, u, r, v)
    <2>1. Part(c, u) /\ Part(c, r) /\ v = u \o r
      BY <1>5, <1>8, <1>10 DEF Joined, Single
    <2> QED
      BY <1>11, <2>1, Together
  <1>13. MayFollow(c, v, s)
    <2>1. \A a \in ToSet(v) : a.do \in {"shared", "saveshared", "setup", "manifest"}
      BY <1>4, <1>5, <1>10, <1>12 DEF IsShared, Single, Joined
    <2> QED
      BY <1>6, <2>1 DEF Precedes, MayFollow, IsJson
  <1>14. Joined(c, v, s, w)
    <2>1. Part(c, v) /\ Part(c, s) /\ w = v \o s
      BY <1>6, <1>8, <1>12 DEF Joined, IsJson
    <2> QED
      BY <1>13, <2>1, Together
  <1>15. MayFollow(c, w, o)
    <2>1. \A a \in ToSet(w) : a.do \in {"shared", "saveshared", "setup", "manifest", "json"}
      BY <1>4, <1>5, <1>6, <1>10, <1>12, <1>14 DEF IsShared, Single, Joined, IsJson
    <2> QED
      BY <1>7, <2>1 DEF Precedes, MayFollow, Optional
  <1>16. Joined(c, w, o, t)
    <2>1. Part(c, w) /\ Part(c, o) /\ t = w \o o
      BY <1>0, <1>1, <1>2, <1>7, <1>8, <1>14 DEF Joined, Optional
    <2> QED
      BY <1>15, <2>1, Together
  <1> DEFINE D == {"shared", "saveshared", "setup", "manifest", "json"}
                  \cup (IF first THEN {"opts"} ELSE {})
  <1>17. \A do : Pending(t, do) <=> do \in D
    <2>1. \A do : /\ Pending(t, do) <=> Pending(w, do) \/ Pending(o, do)
                  /\ Pending(w, do) <=> Pending(v, do) \/ Pending(s, do)
                  /\ Pending(v, do) <=> Pending(u, do) \/ Pending(r, do)
                  /\ Pending(u, do) <=> Pending(p, do) \/ Pending(q, do)
      BY <1>10, <1>12, <1>14, <1>16 DEF Joined
    <2> QED
      BY <1>4, <1>5, <1>6, <1>7, <2>1 DEF IsShared, Single, IsJson, Optional
  <1>18. LastOf(t, "shared") = LastOf(p, "shared") /\ LastOf(t, "json") = LastOf(s, "json")
    <2>1. LastOf(t, "json") = LastOf(w, "json") /\ LastOf(w, "json") = LastOf(s, "json")
      BY <1>6, <1>7, <1>14, <1>16 DEF Joined, IsJson, Optional
    <2>2. LastOf(t, "shared") = LastOf(w, "shared") /\ LastOf(w, "shared") = LastOf(v, "shared")
      BY <1>4, <1>6, <1>7, <1>10, <1>12, <1>14, <1>16 DEF Joined, IsJson, Optional, IsShared
    <2>3. LastOf(v, "shared") = LastOf(u, "shared") /\ LastOf(u, "shared") = LastOf(p, "shared")
      BY <1>4, <1>5, <1>10, <1>12 DEF Joined, IsShared, Single
    <2> QED
      BY <2>1, <2>2, <2>3
  <1>19. first => LastOf(t, "opts").key = new.default
    BY <1>1, <1>7, <1>16 DEF Joined, Optional
  <1>20. /\ "opts" \in D <=> first
         /\ D \subseteq {"shared", "saveshared", "setup", "manifest", "json", "opts"}
         /\ {"shared", "setup", "manifest"} \subseteq D /\ "json" \in D /\ "clear" \notin D
    OBVIOUS
  <1> HIDE DEF D
  <1>21. /\ LastOf(t, "json").conf = new /\ ~LastOf(t, "shared").refresh
         /\ Sep[LastOf(t, "shared").key][LastOf(t, "shared").opt] = Dialect(new)
    BY <1>0, <1>4, <1>6, <1>18 DEF IsJson, IsShared
  <1>22. Part(c, t) /\ t # <<>>
    BY <1>6, <1>14, <1>16 DEF Joined, IsJson
  <1>23. Outline(c, t, D, new)
    BY <1>17, <1>19, <1>20, <1>21, <1>22 DEF Outline
  <1> QED
    BY <1>1, <1>20, <1>21, <1>23

\* The steps t refresh the shared files for k if b, and are none otherwise.
MayShare(c, t, k, o, b) ==
  /\ Part(c, t)
  /\ \A a \in ToSet(t) : a.do \in {"shared", "saveshared"} /\ a.refresh
  /\ \A do : Pending(t, do) <=> b /\ do \in {"shared", "saveshared"}
  /\ b => /\ LastOf(t, "shared").key = k /\ LastOf(t, "shared").opt = o
          /\ LastOf(t, "shared").refresh

(* The shared files are refreshed, or not.                                  *)
LEMMA MayShareIs ==
  ASSUME NEW c, NEW k, NEW o, NEW force, NEW yes, yes = TRUE, SharedArgs(c, k, o, force, yes),
         NEW b \in BOOLEAN, NEW t, t = IF b THEN SharedStep(k, o, force, yes) ELSE <<>>
  PROVE  MayShare(c, t, k, o, b)
  <1>1. CASE b
    <2>1. t = SharedStep(k, o, force, yes) /\ SharedArgs(c, k, o, force, yes)
      BY <1>1
    <2>2. IsShared(c, t, k, o, yes)
      BY <2>1, SharedIs
    <2> QED
      BY <1>1, <2>2 DEF IsShared, MayShare
  <1>2. CASE ~b
    <2>1. t = <<>>
      BY <1>2
    <2> QED
      BY <1>2, <2>1, NoPart DEF MayShare
  <1> QED
    BY <1>1, <1>2

(* The removal of stale files is a single step.                             *)
LEMMA StaleSingle ==
  ASSUME NEW c, NEW k, c.key = k, c.op = "upgrade"
  PROVE  Single(c, <<[do |-> "stale", key |-> k]>>, "stale")
  BY StalePart DEF Single

\* Command c upgrades k with the steps t, and writes integration.json new.
IsUpgrade(c, k, default, opt, installed, force, new, t) ==
  /\ k \in Integration /\ c.op = "upgrade" /\ c.key = k /\ force \in BOOLEAN /\ (force => c.sforce)
  /\ default \in Integration /\ OptsOK(opt) /\ ConfOK(new) /\ default # None
  /\ new = JsonConf(default, installed, opt) /\ new.default = default
  /\ Dialect(new) = Sep[default][opt[default]]
  /\ \E yes, no : yes = TRUE /\ no = FALSE /\
       t = (((((SharedStep(default, opt[default], force, no) \o Setup(k, opt[k]))
                \o (IF default = k THEN SharedStep(k, opt[k], force, yes) ELSE <<>>))
               \o Save(k)) \o Json(default, installed, opt))
             \o (IF default = k THEN Opts(k) ELSE <<>>))
            \o <<[do |-> "stale", key |-> k]>>

(* The plan of integration_upgrade.                                         *)
LEMMA UpgradePlan ==
  ASSUME NEW c, NEW k, NEW default, NEW opt, NEW installed, NEW force, NEW new, NEW t,
         IsUpgrade(c, k, default, opt, installed, force, new, t)
  PROVE  \E D : /\ Outline(c, t, D, new)
                /\ D \subseteq {"shared", "saveshared", "setup", "manifest", "json", "opts", "stale"}
                /\ {"shared", "setup", "manifest", "stale"} \subseteq D
                /\ "opts" \in D <=> default = k
                /\ LastOf(t, "shared").refresh <=> default = k
  <1> USE DEF IsUpgrade
  <1>0. PICK yes, no : yes = TRUE /\ no = FALSE /\
          t = (((((SharedStep(default, opt[default], force, no) \o Setup(k, opt[k]))
                   \o (IF default = k THEN SharedStep(k, opt[k], force, yes) ELSE <<>>))
                  \o Save(k)) \o Json(default, installed, opt))
                \o (IF default = k THEN Opts(k) ELSE <<>>))
               \o <<[do |-> "stale", key |-> k]>>
    OBVIOUS
  <1>1. PICK first : first = (default = k)
    OBVIOUS
  <1>2. PICK p, q, x, r, s, o, z :
          /\ p = SharedStep(default, opt[default], force, no) /\ q = Setup(k, opt[k])
          /\ x = IF first THEN SharedStep(k, opt[k], force, yes) ELSE <<>>
          /\ r = Save(k) /\ s = Json(default, installed, opt)
          /\ o = IF first THEN Opts(k) ELSE <<>>
          /\ z = <<[do |-> "stale", key |-> k]>>
          /\ t = (((((p \o q) \o x) \o r) \o s) \o o) \o z
    <2>1. t = (((((SharedStep(default, opt[default], force, no) \o Setup(k, opt[k]))
                  \o (IF first THEN SharedStep(k, opt[k], force, yes) ELSE <<>>))
                 \o Save(k)) \o Json(default, installed, opt))
               \o (IF first THEN Opts(k) ELSE <<>>))
              \o <<[do |-> "stale", key |-> k]>>
      BY <1>0, <1>1
    <2> HIDE DEF IsUpgrade
    <2> QED
      BY <2>1
  <1>3. /\ opt[k] \in OptionOf(k) /\ opt[default] \in OptionOf(default) /\ first \in BOOLEAN
        /\ SharedArgs(c, default, opt[default], force, no) /\ SharedArgs(c, k, opt[k], force, yes)
    <2>1. opt[k] \in OptionOf(k) /\ opt[default] \in OptionOf(default)
      BY DEF OptsOK
    <2>2. SharedArgs(c, default, opt[default], force, no) /\ SharedArgs(c, k, opt[k], force, yes)
      BY <1>0, <2>1 DEF SharedArgs
    <2> QED
      BY <1>1, <2>1, <2>2
  <1>4. IsShared(c, p, default, opt[default], no)
    <2>1. SharedArgs(c, default, opt[default], force, no)
      BY <1>3
    <2>2. p = SharedStep(default, opt[default], force, no)
      BY <1>2
    <2> QED
      BY <2>1, <2>2, SharedIs
  <1>5. Single(c, q, "setup")
    BY <1>2, <1>3, SetupSingle
  <1>6. MayShare(c, x, k, opt[k], first)
    <2>1. SharedArgs(c, k, opt[k], force, yes) /\ first \in BOOLEAN
      BY <1>3
    <2>2. x = IF first THEN SharedStep(k, opt[k], force, yes) ELSE <<>>
      BY <1>2
    <2>3. yes = TRUE
      BY <1>0
    <2> QED
      BY <2>1, <2>2, <2>3, MayShareIs
  <1>7. Single(c, r, "manifest")
    BY <1>2, <1>3, SetupSingle
  <1>8. IsJson(c, s, new)
    BY <1>2, JsonIs
  <1>9. Optional(c, o, "opts", k, first)
    BY <1>2, <1>3, MayOpts
  <1>10. Single(c, z, "stale")
    BY <1>2, StaleSingle
  <1>11. PICK u1, u2, u3, u4, u5 : u1 = p \o q /\ u2 = u1 \o x /\ u3 = u2 \o r /\ u4 = u3 \o s /\ u5 = u4 \o o
    OBVIOUS
  <1>12. \A a \in ToSet(p) : a.do \in {"shared", "saveshared"}
    BY <1>4 DEF IsShared
  <1>13. MayFollow(c, p, q)
    BY <1>5, <1>12 DEF Precedes, MayFollow, Single
  <1>14. Joined(c, p, q, u1)
    <2>1. Part(c, p) /\ Part(c, q) /\ u1 = p \o q
      BY <1>4, <1>5, <1>11 DEF IsShared, Single
    <2> QED
      BY <1>13, <2>1, Together
  <1>15. \A a \in ToSet(u1) : a.do \in {"shared", "saveshared", "setup"}
    BY <1>5, <1>12, <1>14 DEF Joined, Single
  <1>16. MayFollow(c, u1, x)
    BY <1>6, <1>15 DEF Precedes, MayFollow, MayShare
  <1>17. Joined(c, u1, x, u2)
    <2>1. Part(c, u1) /\ Part(c, x) /\ u2 = u1 \o x
      BY <1>14, <1>6, <1>11 DEF Joined, MayShare
    <2> QED
      BY <1>16, <2>1, Together
  <1>18. \A a \in ToSet(u2) : a.do \in {"shared", "saveshared", "setup"}
    BY <1>6, <1>15, <1>17 DEF Joined, MayShare
  <1>19. MayFollow(c, u2, r)
    BY <1>7, <1>18 DEF Precedes, MayFollow, Single
  <1>20. Joined(c, u2, r, u3)
    <2>1. Part(c, u2) /\ Part(c, r) /\ u3 = u2 \o r
      BY <1>17, <1>7, <1>11 DEF Joined, Single
    <2> QED
      BY <1>19, <2>1, Together
  <1>21. \A a \in ToSet(u3) : a.do \in {"shared", "saveshared", "setup", "manifest"}
    BY <1>7, <1>18, <1>20 DEF Joined, Single
  <1>22. MayFollow(c, u3, s)
    BY <1>8, <1>21 DEF Precedes, MayFollow, IsJson
  <1>23. Joined(c, u3, s, u4)
    <2>1. Part(c, u3) /\ Part(c, s) /\ u4 = u3 \o s
      BY <1>20, <1>8, <1>11 DEF Joined, IsJson
    <2> QED
      BY <1>22, <2>1, Together
  <1>24. \A a \in ToSet(u4) : a.do \in {"shared", "saveshared", "setup", "manifest", "json"}
    BY <1>8, <1>21, <1>23 DEF Joined, IsJson
  <1>25. MayFollow(c, u4, o)
    BY <1>9, <1>24 DEF Precedes, MayFollow, Optional
  <1>26. Joined(c, u4, o, u5)
    <2>1. Part(c, u4) /\ Part(c, o) /\ u5 = u4 \o o
      BY <1>23, <1>9, <1>11 DEF Joined, Optional
    <2> QED
      BY <1>25, <2>1, Together
  <1>27. \A a \in ToSet(u5) : a.do \in {"shared", "saveshared", "setup", "manifest", "json", "opts"}
    BY <1>9, <1>24, <1>26 DEF Joined, Optional
  <1>28. MayFollow(c, u5, z)
    BY <1>10, <1>27 DEF Precedes, MayFollow, Single
  <1>29. Joined(c, u5, z, t)
    <2>1. Part(c, u5) /\ Part(c, z) /\ t = u5 \o z
      BY <1>26, <1>10, <1>11, <1>2 DEF Joined, Single
    <2> QED
      BY <1>28, <2>1, Together
  <1>30. \A do : /\ Pending(u1, do) <=> Pending(p, do) \/ Pending(q, do)
                 /\ Pending(u2, do) <=> Pending(u1, do) \/ Pending(x, do)
                 /\ Pending(u3, do) <=> Pending(u2, do) \/ Pending(r, do)
                 /\ Pending(u4, do) <=> Pending(u3, do) \/ Pending(s, do)
                 /\ Pending(u5, do) <=> Pending(u4, do) \/ Pending(o, do)
                 /\ Pending(t, do) <=> Pending(u5, do) \/ Pending(z, do)
    BY <1>14, <1>17, <1>20, <1>23, <1>26, <1>29 DEF Joined
  <1>31. \A do : /\ Pending(q, do) => LastOf(u1, do) = LastOf(q, do)
                 /\ Pending(p, do) /\ ~Pending(q, do) => LastOf(u1, do) = LastOf(p, do)
                 /\ Pending(x, do) => LastOf(u2, do) = LastOf(x, do)
                 /\ Pending(u1, do) /\ ~Pending(x, do) => LastOf(u2, do) = LastOf(u1, do)
                 /\ Pending(r, do) => LastOf(u3, do) = LastOf(r, do)
                 /\ Pending(u2, do) /\ ~Pending(r, do) => LastOf(u3, do) = LastOf(u2, do)
                 /\ Pending(s, do) => LastOf(u4, do) = LastOf(s, do)
                 /\ Pending(u3, do) /\ ~Pending(s, do) => LastOf(u4, do) = LastOf(u3, do)
                 /\ Pending(o, do) => LastOf(u5, do) = LastOf(o, do)
                 /\ Pending(u4, do) /\ ~Pending(o, do) => LastOf(u5, do) = LastOf(u4, do)
                 /\ Pending(z, do) => LastOf(t, do) = LastOf(z, do)
                 /\ Pending(u5, do) /\ ~Pending(z, do) => LastOf(t, do) = LastOf(u5, do)
    BY <1>14, <1>17, <1>20, <1>23, <1>26, <1>29 DEF Joined
  <1> DEFINE D == {"shared", "saveshared", "setup", "manifest", "json", "stale"}
                  \cup (IF first THEN {"opts"} ELSE {})
  <1>32. /\ \A do : Pending(p, do) <=> do \in {"shared", "saveshared"}
         /\ \A do : Pending(q, do) <=> do = "setup"
         /\ \A do : Pending(x, do) <=> first /\ do \in {"shared", "saveshared"}
         /\ \A do : Pending(r, do) <=> do = "manifest"
         /\ \A do : Pending(s, do) <=> do = "json"
         /\ \A do : Pending(o, do) <=> first /\ do = "opts"
         /\ \A do : Pending(z, do) <=> do = "stale"
    BY <1>4, <1>5, <1>6, <1>7, <1>8, <1>9, <1>10 DEF IsShared, Single, IsJson, Optional, MayShare
  <1>33. \A do : Pending(t, do) <=> do \in D
    <2> SUFFICES ASSUME NEW do PROVE Pending(t, do) <=> do \in D
      OBVIOUS
    <2>1. /\ Pending(u1, do) <=> Pending(p, do) \/ Pending(q, do)
          /\ Pending(u2, do) <=> Pending(u1, do) \/ Pending(x, do)
          /\ Pending(u3, do) <=> Pending(u2, do) \/ Pending(r, do)
          /\ Pending(u4, do) <=> Pending(u3, do) \/ Pending(s, do)
          /\ Pending(u5, do) <=> Pending(u4, do) \/ Pending(o, do)
          /\ Pending(t, do) <=> Pending(u5, do) \/ Pending(z, do)
      BY <1>30
    <2>2. /\ Pending(p, do) <=> do \in {"shared", "saveshared"}
          /\ Pending(q, do) <=> do = "setup"
          /\ Pending(x, do) <=> first /\ do \in {"shared", "saveshared"}
          /\ Pending(r, do) <=> do = "manifest"
          /\ Pending(s, do) <=> do = "json"
          /\ Pending(o, do) <=> first /\ do = "opts"
          /\ Pending(z, do) <=> do = "stale"
      BY <1>32
    <2> QED
      BY <2>1, <2>2
  <1>34. LastOf(t, "json") = LastOf(s, "json")
    <2>1. /\ Pending(u1, "json") <=> Pending(p, "json") \/ Pending(q, "json")
          /\ Pending(u2, "json") <=> Pending(u1, "json") \/ Pending(x, "json")
          /\ Pending(u3, "json") <=> Pending(u2, "json") \/ Pending(r, "json")
          /\ Pending(u4, "json") <=> Pending(u3, "json") \/ Pending(s, "json")
          /\ Pending(u5, "json") <=> Pending(u4, "json") \/ Pending(o, "json")
          /\ Pending(t, "json") <=> Pending(u5, "json") \/ Pending(z, "json")
      BY <1>30
    <2>2. /\ Pending(p, "json") <=> "json" \in {"shared", "saveshared"}
          /\ Pending(q, "json") <=> "json" = "setup"
          /\ Pending(x, "json") <=> first /\ "json" \in {"shared", "saveshared"}
          /\ Pending(r, "json") <=> "json" = "manifest"
          /\ Pending(s, "json") <=> "json" = "json"
          /\ Pending(o, "json") <=> first /\ "json" = "opts"
          /\ Pending(z, "json") <=> "json" = "stale"
      BY <1>32
    <2>3. /\ Pending(q, "json") => LastOf(u1, "json") = LastOf(q, "json")
          /\ Pending(p, "json") /\ ~Pending(q, "json") => LastOf(u1, "json") = LastOf(p, "json")
          /\ Pending(x, "json") => LastOf(u2, "json") = LastOf(x, "json")
          /\ Pending(u1, "json") /\ ~Pending(x, "json") => LastOf(u2, "json") = LastOf(u1, "json")
          /\ Pending(r, "json") => LastOf(u3, "json") = LastOf(r, "json")
          /\ Pending(u2, "json") /\ ~Pending(r, "json") => LastOf(u3, "json") = LastOf(u2, "json")
          /\ Pending(s, "json") => LastOf(u4, "json") = LastOf(s, "json")
          /\ Pending(u3, "json") /\ ~Pending(s, "json") => LastOf(u4, "json") = LastOf(u3, "json")
          /\ Pending(o, "json") => LastOf(u5, "json") = LastOf(o, "json")
          /\ Pending(u4, "json") /\ ~Pending(o, "json") => LastOf(u5, "json") = LastOf(u4, "json")
          /\ Pending(z, "json") => LastOf(t, "json") = LastOf(z, "json")
          /\ Pending(u5, "json") /\ ~Pending(z, "json") => LastOf(t, "json") = LastOf(u5, "json")
      BY <1>31
    <2> QED
      BY <2>1, <2>2, <2>3
  <1>35. first => LastOf(t, "opts") = LastOf(o, "opts")
    <2>1. /\ Pending(u1, "opts") <=> Pending(p, "opts") \/ Pending(q, "opts")
          /\ Pending(u2, "opts") <=> Pending(u1, "opts") \/ Pending(x, "opts")
          /\ Pending(u3, "opts") <=> Pending(u2, "opts") \/ Pending(r, "opts")
          /\ Pending(u4, "opts") <=> Pending(u3, "opts") \/ Pending(s, "opts")
          /\ Pending(u5, "opts") <=> Pending(u4, "opts") \/ Pending(o, "opts")
          /\ Pending(t, "opts") <=> Pending(u5, "opts") \/ Pending(z, "opts")
      BY <1>30
    <2>2. /\ Pending(p, "opts") <=> "opts" \in {"shared", "saveshared"}
          /\ Pending(q, "opts") <=> "opts" = "setup"
          /\ Pending(x, "opts") <=> first /\ "opts" \in {"shared", "saveshared"}
          /\ Pending(r, "opts") <=> "opts" = "manifest"
          /\ Pending(s, "opts") <=> "opts" = "json"
          /\ Pending(o, "opts") <=> first /\ "opts" = "opts"
          /\ Pending(z, "opts") <=> "opts" = "stale"
      BY <1>32
    <2>3. /\ Pending(q, "opts") => LastOf(u1, "opts") = LastOf(q, "opts")
          /\ Pending(p, "opts") /\ ~Pending(q, "opts") => LastOf(u1, "opts") = LastOf(p, "opts")
          /\ Pending(x, "opts") => LastOf(u2, "opts") = LastOf(x, "opts")
          /\ Pending(u1, "opts") /\ ~Pending(x, "opts") => LastOf(u2, "opts") = LastOf(u1, "opts")
          /\ Pending(r, "opts") => LastOf(u3, "opts") = LastOf(r, "opts")
          /\ Pending(u2, "opts") /\ ~Pending(r, "opts") => LastOf(u3, "opts") = LastOf(u2, "opts")
          /\ Pending(s, "opts") => LastOf(u4, "opts") = LastOf(s, "opts")
          /\ Pending(u3, "opts") /\ ~Pending(s, "opts") => LastOf(u4, "opts") = LastOf(u3, "opts")
          /\ Pending(o, "opts") => LastOf(u5, "opts") = LastOf(o, "opts")
          /\ Pending(u4, "opts") /\ ~Pending(o, "opts") => LastOf(u5, "opts") = LastOf(u4, "opts")
          /\ Pending(z, "opts") => LastOf(t, "opts") = LastOf(z, "opts")
          /\ Pending(u5, "opts") /\ ~Pending(z, "opts") => LastOf(t, "opts") = LastOf(u5, "opts")
      BY <1>31
    <2> QED
      BY <2>1, <2>2, <2>3
  <1>36. LastOf(t, "shared") = IF first THEN LastOf(x, "shared") ELSE LastOf(p, "shared")
    <2>1. /\ Pending(u1, "shared") <=> Pending(p, "shared") \/ Pending(q, "shared")
          /\ Pending(u2, "shared") <=> Pending(u1, "shared") \/ Pending(x, "shared")
          /\ Pending(u3, "shared") <=> Pending(u2, "shared") \/ Pending(r, "shared")
          /\ Pending(u4, "shared") <=> Pending(u3, "shared") \/ Pending(s, "shared")
          /\ Pending(u5, "shared") <=> Pending(u4, "shared") \/ Pending(o, "shared")
          /\ Pending(t, "shared") <=> Pending(u5, "shared") \/ Pending(z, "shared")
      BY <1>30
    <2>2. /\ Pending(p, "shared") <=> "shared" \in {"shared", "saveshared"}
          /\ Pending(q, "shared") <=> "shared" = "setup"
          /\ Pending(x, "shared") <=> first /\ "shared" \in {"shared", "saveshared"}
          /\ Pending(r, "shared") <=> "shared" = "manifest"
          /\ Pending(s, "shared") <=> "shared" = "json"
          /\ Pending(o, "shared") <=> first /\ "shared" = "opts"
          /\ Pending(z, "shared") <=> "shared" = "stale"
      BY <1>32
    <2>3. /\ Pending(q, "shared") => LastOf(u1, "shared") = LastOf(q, "shared")
          /\ Pending(p, "shared") /\ ~Pending(q, "shared") => LastOf(u1, "shared") = LastOf(p, "shared")
          /\ Pending(x, "shared") => LastOf(u2, "shared") = LastOf(x, "shared")
          /\ Pending(u1, "shared") /\ ~Pending(x, "shared") => LastOf(u2, "shared") = LastOf(u1, "shared")
          /\ Pending(r, "shared") => LastOf(u3, "shared") = LastOf(r, "shared")
          /\ Pending(u2, "shared") /\ ~Pending(r, "shared") => LastOf(u3, "shared") = LastOf(u2, "shared")
          /\ Pending(s, "shared") => LastOf(u4, "shared") = LastOf(s, "shared")
          /\ Pending(u3, "shared") /\ ~Pending(s, "shared") => LastOf(u4, "shared") = LastOf(u3, "shared")
          /\ Pending(o, "shared") => LastOf(u5, "shared") = LastOf(o, "shared")
          /\ Pending(u4, "shared") /\ ~Pending(o, "shared") => LastOf(u5, "shared") = LastOf(u4, "shared")
          /\ Pending(z, "shared") => LastOf(t, "shared") = LastOf(z, "shared")
          /\ Pending(u5, "shared") /\ ~Pending(z, "shared") => LastOf(t, "shared") = LastOf(u5, "shared")
      BY <1>31
    <2> QED
      BY <2>1, <2>2, <2>3
  <1>37. /\ "opts" \in D <=> first
         /\ D \subseteq {"shared", "saveshared", "setup", "manifest", "json", "opts", "stale"}
         /\ {"shared", "setup", "manifest", "stale"} \subseteq D /\ "json" \in D /\ "clear" \notin D
    OBVIOUS
  <1> HIDE DEF D
  <1>38. /\ LastOf(t, "json").conf = new
         /\ LastOf(t, "shared").refresh <=> first
         /\ Sep[LastOf(t, "shared").key][LastOf(t, "shared").opt] = Dialect(new)
         /\ first => LastOf(t, "opts").key = new.default
    <2>1. LastOf(t, "json").conf = new
      BY <1>8, <1>34 DEF IsJson
    <2>2. first => LastOf(t, "opts").key = new.default
      BY <1>1, <1>9, <1>35 DEF Optional
    <2>3. CASE first
      <3>1. /\ LastOf(x, "shared").key = k /\ LastOf(x, "shared").opt = opt[k]
            /\ LastOf(x, "shared").refresh
        BY <1>6, <2>3 DEF MayShare
      <3>2. default = k
        BY <1>1, <2>3
      <3>3. LastOf(t, "shared") = LastOf(x, "shared")
        BY <1>36, <2>3
      <3>4. Sep[LastOf(t, "shared").key][LastOf(t, "shared").opt] = Dialect(new)
        BY <3>1, <3>2, <3>3
      <3> QED
        BY <2>1, <2>2, <2>3, <3>1, <3>3, <3>4
    <2>4. CASE ~first
      <3>1. /\ LastOf(p, "shared").key = default /\ LastOf(p, "shared").opt = opt[default]
            /\ ~LastOf(p, "shared").refresh
        BY <1>0, <1>4 DEF IsShared
      <3> QED
        BY <1>1, <1>36, <2>1, <2>2, <2>4, <3>1
    <2> QED
      BY <2>3, <2>4
  <1>39. Part(c, t) /\ t # <<>>
    BY <1>10, <1>29 DEF Joined, Single
  <1>40. Outline(c, t, D, new)
    BY <1>33, <1>37, <1>38, <1>39 DEF Outline
  <1> QED
    BY <1>1, <1>37, <1>38, <1>40

\* Command c initialises the project with k by the steps t.
IsInit(c, k, opt, installed, force, new, t) ==
  /\ k \in Integration /\ c.op = "init" /\ c.key = k /\ force \in BOOLEAN /\ (force => c.sforce)
  /\ OptsOK(opt) /\ ConfOK(new) /\ k # None
  /\ new = JsonConf(k, installed, opt) /\ new.default = k /\ Dialect(new) = Sep[k][opt[k]]
  /\ \E no : no = FALSE /\
       t = (((Setup(k, opt[k]) \o Save(k)) \o Json(k, installed, opt))
             \o SharedStep(k, opt[k], force, no)) \o Opts(k)

(* The plan of specify init.                                                *)
LEMMA InitPlan ==
  ASSUME NEW c, NEW k, NEW opt, NEW installed, NEW force, NEW new, NEW t,
         IsInit(c, k, opt, installed, force, new, t)
  PROVE  Outline(c, t, {"setup", "manifest", "json", "shared", "saveshared", "opts"}, new)
  <1> USE DEF IsInit
  <1>0. PICK no : no = FALSE /\
          t = (((Setup(k, opt[k]) \o Save(k)) \o Json(k, installed, opt))
                \o SharedStep(k, opt[k], force, no)) \o Opts(k)
    OBVIOUS
  <1>1. PICK p, q, r, s, o, yes :
          /\ p = SharedStep(k, opt[k], force, no) /\ q = Setup(k, opt[k])
          /\ r = Save(k) /\ s = Json(k, installed, opt)
          /\ o = (IF yes THEN Opts(k) ELSE <<>>) /\ yes = TRUE
          /\ t = (((q \o r) \o s) \o p) \o o
    BY <1>0
  <1>2. opt[k] \in OptionOf(k) /\ SharedArgs(c, k, opt[k], force, no)
    BY <1>0 DEF OptsOK, SharedArgs
  <1>3. Single(c, q, "setup")
    BY <1>1, <1>2, SetupSingle
  <1>4. Single(c, r, "manifest")
    BY <1>1, <1>2, SetupSingle
  <1>5. IsJson(c, s, new)
    BY <1>1, JsonIs
  <1>6. IsShared(c, p, k, opt[k], no)
    <2>1. SharedArgs(c, k, opt[k], force, no)
      BY <1>2
    <2>2. p = SharedStep(k, opt[k], force, no)
      BY <1>1
    <2> QED
      BY <2>1, <2>2, SharedIs
  <1>7. Optional(c, o, "opts", k, yes)
    <2>1. yes \in BOOLEAN
      BY <1>1
    <2>2. o = IF yes THEN Opts(k) ELSE <<>>
      BY <1>1
    <2> QED
      BY <2>1, <2>2, MayOpts
  <1>8. PICK u1, u2, u3 : u1 = q \o r /\ u2 = u1 \o s /\ u3 = u2 \o p
    OBVIOUS
  <1>9. \A a \in ToSet(q) : a.do \in {"setup"}
    BY <1>3 DEF Single
  <1>10. MayFollow(c, q, r)
    BY <1>4, <1>9 DEF Precedes, MayFollow, Single
  <1>11. Joined(c, q, r, u1)
    <2>1. Part(c, q) /\ Part(c, r) /\ u1 = q \o r
      BY <1>3, <1>4, <1>8 DEF Single
    <2> QED
      BY <1>10, <2>1, Together
  <1>12. \A a \in ToSet(u1) : a.do \in {"setup", "manifest"}
    BY <1>4, <1>9, <1>11 DEF Joined, Single
  <1>13. MayFollow(c, u1, s)
    BY <1>5, <1>12 DEF Precedes, MayFollow, IsJson
  <1>14. Joined(c, u1, s, u2)
    <2>1. Part(c, u1) /\ Part(c, s) /\ u2 = u1 \o s
      BY <1>11, <1>5, <1>8 DEF Joined, IsJson
    <2> QED
      BY <1>13, <2>1, Together
  <1>15. \A a \in ToSet(u2) : a.do \in {"setup", "manifest", "json"}
    BY <1>5, <1>12, <1>14 DEF Joined, IsJson
  <1>16. MayFollow(c, u2, p)
    BY <1>6, <1>15 DEF Precedes, MayFollow, IsShared
  <1>17. Joined(c, u2, p, u3)
    <2>1. Part(c, u2) /\ Part(c, p) /\ u3 = u2 \o p
      BY <1>14, <1>6, <1>8 DEF Joined, IsShared
    <2> QED
      BY <1>16, <2>1, Together
  <1>18. \A a \in ToSet(u3) : a.do \in {"setup", "manifest", "json", "shared", "saveshared"}
    BY <1>6, <1>15, <1>17 DEF Joined, IsShared
  <1>19. MayFollow(c, u3, o)
    BY <1>7, <1>18 DEF Precedes, MayFollow, Optional
  <1>20. Joined(c, u3, o, t)
    <2>1. Part(c, u3) /\ Part(c, o) /\ t = u3 \o o
      BY <1>17, <1>7, <1>8, <1>1 DEF Joined, Optional
    <2> QED
      BY <1>19, <2>1, Together
  <1>21. \A do : /\ Pending(u1, do) <=> Pending(q, do) \/ Pending(r, do)
                 /\ Pending(u2, do) <=> Pending(u1, do) \/ Pending(s, do)
                 /\ Pending(u3, do) <=> Pending(u2, do) \/ Pending(p, do)
                 /\ Pending(t, do) <=> Pending(u3, do) \/ Pending(o, do)
    BY <1>11, <1>14, <1>17, <1>20 DEF Joined
  <1>22. \A do : /\ Pending(r, do) => LastOf(u1, do) = LastOf(r, do)
                 /\ Pending(q, do) /\ ~Pending(r, do) => LastOf(u1, do) = LastOf(q, do)
                 /\ Pending(s, do) => LastOf(u2, do) = LastOf(s, do)
                 /\ Pending(u1, do) /\ ~Pending(s, do) => LastOf(u2, do) = LastOf(u1, do)
                 /\ Pending(p, do) => LastOf(u3, do) = LastOf(p, do)
                 /\ Pending(u2, do) /\ ~Pending(p, do) => LastOf(u3, do) = LastOf(u2, do)
                 /\ Pending(o, do) => LastOf(t, do) = LastOf(o, do)
                 /\ Pending(u3, do) /\ ~Pending(o, do) => LastOf(t, do) = LastOf(u3, do)
    BY <1>11, <1>14, <1>17, <1>20 DEF Joined
  <1> DEFINE D == {"setup", "manifest", "json", "shared", "saveshared", "opts"}
  <1>23. /\ \A do : Pending(p, do) <=> do \in {"shared", "saveshared"}
         /\ \A do : Pending(q, do) <=> do = "setup"
         /\ \A do : Pending(r, do) <=> do = "manifest"
         /\ \A do : Pending(s, do) <=> do = "json"
         /\ \A do : Pending(o, do) <=> yes /\ do = "opts"
    BY <1>3, <1>4, <1>5, <1>6, <1>7 DEF IsShared, Single, IsJson, Optional
  <1>24. yes
    BY <1>1
  <1>25. \A do : Pending(t, do) <=> do \in D
    <2> SUFFICES ASSUME NEW do PROVE Pending(t, do) <=> do \in D
      OBVIOUS
    <2>1. /\ Pending(u1, do) <=> Pending(q, do) \/ Pending(r, do)
          /\ Pending(u2, do) <=> Pending(u1, do) \/ Pending(s, do)
          /\ Pending(u3, do) <=> Pending(u2, do) \/ Pending(p, do)
          /\ Pending(t, do) <=> Pending(u3, do) \/ Pending(o, do)
      BY <1>21
    <2>2. /\ Pending(q, do) <=> do = "setup"
          /\ Pending(r, do) <=> do = "manifest"
          /\ Pending(s, do) <=> do = "json"
          /\ Pending(p, do) <=> do \in {"shared", "saveshared"}
          /\ Pending(o, do) <=> yes /\ do = "opts"
      BY <1>23
    <2> QED
      BY <1>24, <2>1, <2>2
  <1>26. LastOf(t, "json") = LastOf(s, "json")
    <2>1. /\ Pending(u1, "json") <=> Pending(q, "json") \/ Pending(r, "json")
          /\ Pending(u2, "json") <=> Pending(u1, "json") \/ Pending(s, "json")
          /\ Pending(u3, "json") <=> Pending(u2, "json") \/ Pending(p, "json")
          /\ Pending(t, "json") <=> Pending(u3, "json") \/ Pending(o, "json")
      BY <1>21
    <2>2. /\ Pending(q, "json") <=> "json" = "setup"
          /\ Pending(r, "json") <=> "json" = "manifest"
          /\ Pending(s, "json") <=> "json" = "json"
          /\ Pending(p, "json") <=> "json" \in {"shared", "saveshared"}
          /\ Pending(o, "json") <=> yes /\ "json" = "opts"
      BY <1>23
    <2>3. /\ Pending(r, "json") => LastOf(u1, "json") = LastOf(r, "json")
          /\ Pending(q, "json") /\ ~Pending(r, "json") => LastOf(u1, "json") = LastOf(q, "json")
          /\ Pending(s, "json") => LastOf(u2, "json") = LastOf(s, "json")
          /\ Pending(u1, "json") /\ ~Pending(s, "json") => LastOf(u2, "json") = LastOf(u1, "json")
          /\ Pending(p, "json") => LastOf(u3, "json") = LastOf(p, "json")
          /\ Pending(u2, "json") /\ ~Pending(p, "json") => LastOf(u3, "json") = LastOf(u2, "json")
          /\ Pending(o, "json") => LastOf(t, "json") = LastOf(o, "json")
          /\ Pending(u3, "json") /\ ~Pending(o, "json") => LastOf(t, "json") = LastOf(u3, "json")
      BY <1>22
    <2> QED
      BY <2>1, <2>2, <2>3
  <1>27. LastOf(t, "opts") = LastOf(o, "opts")
    <2>1. /\ Pending(u1, "opts") <=> Pending(q, "opts") \/ Pending(r, "opts")
          /\ Pending(u2, "opts") <=> Pending(u1, "opts") \/ Pending(s, "opts")
          /\ Pending(u3, "opts") <=> Pending(u2, "opts") \/ Pending(p, "opts")
          /\ Pending(t, "opts") <=> Pending(u3, "opts") \/ Pending(o, "opts")
      BY <1>21
    <2>2. /\ Pending(q, "opts") <=> "opts" = "setup"
          /\ Pending(r, "opts") <=> "opts" = "manifest"
          /\ Pending(s, "opts") <=> "opts" = "json"
          /\ Pending(p, "opts") <=> "opts" \in {"shared", "saveshared"}
          /\ Pending(o, "opts") <=> yes /\ "opts" = "opts"
      BY <1>23
    <2>3. /\ Pending(r, "opts") => LastOf(u1, "opts") = LastOf(r, "opts")
          /\ Pending(q, "opts") /\ ~Pending(r, "opts") => LastOf(u1, "opts") = LastOf(q, "opts")
          /\ Pending(s, "opts") => LastOf(u2, "opts") = LastOf(s, "opts")
          /\ Pending(u1, "opts") /\ ~Pending(s, "opts") => LastOf(u2, "opts") = LastOf(u1, "opts")
          /\ Pending(p, "opts") => LastOf(u3, "opts") = LastOf(p, "opts")
          /\ Pending(u2, "opts") /\ ~Pending(p, "opts") => LastOf(u3, "opts") = LastOf(u2, "opts")
          /\ Pending(o, "opts") => LastOf(t, "opts") = LastOf(o, "opts")
          /\ Pending(u3, "opts") /\ ~Pending(o, "opts") => LastOf(t, "opts") = LastOf(u3, "opts")
      BY <1>22
    <2> QED
      BY <1>24, <2>1, <2>2, <2>3
  <1>28. LastOf(t, "shared") = LastOf(p, "shared")
    <2>1. /\ Pending(u1, "shared") <=> Pending(q, "shared") \/ Pending(r, "shared")
          /\ Pending(u2, "shared") <=> Pending(u1, "shared") \/ Pending(s, "shared")
          /\ Pending(u3, "shared") <=> Pending(u2, "shared") \/ Pending(p, "shared")
          /\ Pending(t, "shared") <=> Pending(u3, "shared") \/ Pending(o, "shared")
      BY <1>21
    <2>2. /\ Pending(q, "shared") <=> "shared" = "setup"
          /\ Pending(r, "shared") <=> "shared" = "manifest"
          /\ Pending(s, "shared") <=> "shared" = "json"
          /\ Pending(p, "shared") <=> "shared" \in {"shared", "saveshared"}
          /\ Pending(o, "shared") <=> yes /\ "shared" = "opts"
      BY <1>23
    <2>3. /\ Pending(r, "shared") => LastOf(u1, "shared") = LastOf(r, "shared")
          /\ Pending(q, "shared") /\ ~Pending(r, "shared") => LastOf(u1, "shared") = LastOf(q, "shared")
          /\ Pending(s, "shared") => LastOf(u2, "shared") = LastOf(s, "shared")
          /\ Pending(u1, "shared") /\ ~Pending(s, "shared") => LastOf(u2, "shared") = LastOf(u1, "shared")
          /\ Pending(p, "shared") => LastOf(u3, "shared") = LastOf(p, "shared")
          /\ Pending(u2, "shared") /\ ~Pending(p, "shared") => LastOf(u3, "shared") = LastOf(u2, "shared")
          /\ Pending(o, "shared") => LastOf(t, "shared") = LastOf(o, "shared")
          /\ Pending(u3, "shared") /\ ~Pending(o, "shared") => LastOf(t, "shared") = LastOf(u3, "shared")
      BY <1>22
    <2> QED
      BY <2>1, <2>2, <2>3
  <1>29. "json" \in D /\ "clear" \notin D
    OBVIOUS
  <1> HIDE DEF D
  <1>30. /\ LastOf(t, "json").conf = new
         /\ Sep[LastOf(t, "shared").key][LastOf(t, "shared").opt] = Dialect(new)
         /\ LastOf(t, "opts").key = new.default
    BY <1>5, <1>6, <1>7, <1>24, <1>26, <1>27, <1>28 DEF IsJson, IsShared, Optional
  <1>31. Part(c, t) /\ t # <<>>
    BY <1>6, <1>17, <1>20 DEF Joined, IsShared
  <1>32. Outline(c, t, D, new)
    BY <1>25, <1>29, <1>30, <1>31 DEF Outline
  <1> QED
    BY <1>32 DEF D

\* The steps t of a switch remove the default integration if b, and are none otherwise.
IsRemoval(c, t, b) ==
  /\ Part(c, t)
  /\ \A a \in ToSet(t) :
       /\ a.do \in {"teardown", "clear", "json", "shared", "saveshared", "opts"}
       /\ a.do = "teardown" => a.key = c.from.default
       /\ a.do = "json" => c.key \notin Keys(a.conf)
       /\ a.do = "opts" => Kept(c) # {}
  /\ Pending(t, "teardown") <=> b
  /\ Pending(t, "clear") <=> b
  /\ \A do : Pending(t, do) => do \in {"teardown", "clear", "json", "shared", "saveshared", "opts"}
  /\ b => t # <<>> /\ t[1].key = c.from.default /\ LastOf(t, "clear").key = c.from.default

\* With the steps t a switch c removes the default integration.
Removes(c, from, t) ==
  /\ ConfOK(from) /\ from # NoConf /\ c.op = "switch" /\ c.from = from /\ c.key \notin Keys(from)
  /\ t = (Teardown(from.default, c.force) \o Clear(from.default)) \o RestoreSteps(from, from.default)

(* A switch first removes the default integration.                          *)
LEMMA RemovalPart ==
  ASSUME NEW c, NEW from, NEW t, Removes(c, from, t), NEW yes, yes = TRUE
  PROVE  IsRemoval(c, t, yes)
  <1> USE DEF Removes
  <1>1. PICK p, q, r : /\ p = (IF yes THEN Teardown(from.default, c.force) ELSE <<>>)
                       /\ q = (IF yes THEN Clear(from.default) ELSE <<>>)
                       /\ r = RestoreSteps(from, from.default)
                       /\ t = (p \o q) \o r
    OBVIOUS
  <1>2. from.default \in Integration /\ from.default \in Keys(from) /\ yes \in BOOLEAN /\ TearsDown(c)
    BY ConfFacts DEF TearsDown
  <1>3. PICK new, anew : new = ConfWithout(from, from.default) /\ anew = (new # NoConf)
    OBVIOUS
  <1>4. Optional(c, p, "teardown", from.default, yes)
    <2>1. p = IF yes THEN Teardown(from.default, c.force) ELSE <<>>
      BY <1>1
    <2> QED
      BY <1>2, <2>1, MayTeardown
  <1>5. Optional(c, q, "clear", from.default, yes)
    <2>1. q = IF yes THEN Clear(from.default) ELSE <<>>
      BY <1>1
    <2> QED
      BY <1>2, <2>1, MayClear
  <1>6. IsRestore(c, r, new, anew)
    <2>1. anew <=> ConfWithout(from, from.default) # NoConf /\ from.default = from.default
      BY <1>3
    <2>2. r = RestoreSteps(from, from.default) /\ from.default \in Keys(from)
      BY <1>1, <1>2
    <2> QED
      BY <1>3, <2>1, <2>2, RestorePart
  <1>7. /\ from.default \notin Keys(new) /\ c.key \notin Keys(new)
        /\ anew => Kept(c) # {}
    <2>1. Keys(new) = Keys(from) \ {from.default} /\ ConfOK(new)
      BY <1>2, <1>3, ConfWithoutOK
    <2>2. anew => Keys(new) # {}
      BY <1>3, <2>1, ConfFacts
    <2>3. Kept(c) = Keys(from) \ {from.default}
      BY DEF Kept
    <2> QED
      BY <2>1, <2>2, <2>3
  <1>8. PICK u1 : u1 = p \o q
    OBVIOUS
  <1>9. \A a \in ToSet(p) : a.do \in {"teardown"} /\ (a.do = "teardown" => a.key = from.default)
    BY <1>4, <1>7 DEF Optional
  <1>10. MayFollow(c, p, q)
    BY <1>5, <1>9, <1>7 DEF Precedes, MayFollow, Optional
  <1>11. Joined(c, p, q, u1)
    <2>1. Part(c, p) /\ Part(c, q) /\ u1 = p \o q
      BY <1>4, <1>5, <1>8 DEF Optional
    <2> QED
      BY <1>10, <2>1, Together
  <1>12. \A a \in ToSet(u1) : a.do \in {"teardown", "clear"} /\ (a.do = "teardown" => a.key = from.default)
    BY <1>5, <1>9, <1>11, <1>7 DEF Joined, Optional
  <1>13. MayFollow(c, u1, r)
    BY <1>6, <1>12, <1>7 DEF Precedes, MayFollow, IsRestore
  <1>14. Joined(c, u1, r, t)
    <2>1. Part(c, u1) /\ Part(c, r) /\ t = u1 \o r
      BY <1>11, <1>6, <1>8, <1>1 DEF Joined, IsRestore
    <2> QED
      BY <1>13, <2>1, Together
  <1>15. \A do : /\ Pending(u1, do) <=> Pending(p, do) \/ Pending(q, do)
                 /\ Pending(t, do) <=> Pending(u1, do) \/ Pending(r, do)
    BY <1>11, <1>14 DEF Joined
  <1>16. \A do : /\ Pending(q, do) => LastOf(u1, do) = LastOf(q, do)
                 /\ Pending(p, do) /\ ~Pending(q, do) => LastOf(u1, do) = LastOf(p, do)
                 /\ Pending(r, do) => LastOf(t, do) = LastOf(r, do)
                 /\ Pending(u1, do) /\ ~Pending(r, do) => LastOf(t, do) = LastOf(u1, do)
    BY <1>11, <1>14 DEF Joined
  <1>17. /\ \A do : Pending(p, do) <=> yes /\ do = "teardown"
         /\ \A do : Pending(q, do) <=> yes /\ do = "clear"
         /\ \A do : Pending(r, do) <=> do = "json" \/ (anew /\ do \in {"shared", "saveshared", "opts"})
    BY <1>4, <1>5, <1>6 DEF IsRestore, Optional
  <1>18. yes
    OBVIOUS
  <1>19. Part(c, t) /\ t # <<>> /\ t[1].key = from.default
    BY <1>4, <1>18, <1>11, <1>14 DEF Joined, Optional
  <1>20. LastOf(t, "clear") = LastOf(q, "clear")
    <2>1. /\ Pending(u1, "clear") <=> Pending(p, "clear") \/ Pending(q, "clear")
          /\ Pending(t, "clear") <=> Pending(u1, "clear") \/ Pending(r, "clear")
      BY <1>15
    <2>2. /\ Pending(p, "clear") <=> yes /\ "clear" = "teardown"
          /\ Pending(q, "clear") <=> yes /\ "clear" = "clear"
          /\ Pending(r, "clear") <=> "clear" = "json" \/ (anew /\ "clear" \in {"shared", "saveshared", "opts"})
      BY <1>17
    <2>3. /\ Pending(q, "clear") => LastOf(u1, "clear") = LastOf(q, "clear")
          /\ Pending(p, "clear") /\ ~Pending(q, "clear") => LastOf(u1, "clear") = LastOf(p, "clear")
          /\ Pending(r, "clear") => LastOf(t, "clear") = LastOf(r, "clear")
          /\ Pending(u1, "clear") /\ ~Pending(r, "clear") => LastOf(t, "clear") = LastOf(u1, "clear")
      BY <1>16
    <2> QED
      BY <1>18, <2>1, <2>2, <2>3
  <1>21. LastOf(t, "clear").key = from.default
    BY <1>5, <1>18, <1>20 DEF Optional
  <1>22. ASSUME NEW a \in ToSet(t)
        PROVE  /\ a.do \in {"teardown", "clear", "json", "shared", "saveshared", "opts"}
               /\ a.do = "teardown" => a.key = from.default
               /\ a.do = "json" => c.key \notin Keys(a.conf)
               /\ a.do = "opts" => Kept(c) # {}
    <2>1. a \in ToSet(p) \/ a \in ToSet(q) \/ a \in ToSet(r)
      BY <1>11, <1>14 DEF Joined
    <2>2. CASE a \in ToSet(p) \/ a \in ToSet(q)
      BY <1>4, <1>5, <2>2 DEF Optional
    <2>3. CASE a \in ToSet(r)
      <3>1. /\ a.do \in {"shared", "saveshared", "json", "opts"}
            /\ a.do = "json" => a.conf = new
        BY <1>6, <2>3 DEF IsRestore
      <3>2. a.do = "opts" => Pending(r, "opts")
        BY <2>3, PartAhead
      <3> QED
        BY <1>7, <1>17, <3>1, <3>2
    <2> QED
      BY <2>1, <2>2, <2>3
  <1>23. \A do : Pending(t, do) => do \in {"teardown", "clear", "json", "shared", "saveshared", "opts"}
    BY <1>22, PartAhead
  <1>24. Pending(t, "teardown") /\ Pending(t, "clear")
    BY <1>15, <1>17, <1>18
  <1> QED
    BY <1>18, <1>19, <1>21, <1>22, <1>23, <1>24 DEF IsRemoval

\* Command c switches to k with the steps t, of which p remove the default if b.
IsSwitch(c, k, opt, installed, p, b, t) ==
  /\ k \in Integration /\ c.op = "switch" /\ c.key = k /\ c.sforce \in BOOLEAN
  /\ installed \in Seq(Integration) /\ IsInjective(installed) /\ k \in ToSet(installed)
  /\ OptsOK(opt) /\ c.from.default \notin ToSet(installed)
  /\ b \in BOOLEAN /\ IsRemoval(c, p, b)
  /\ \E yes, no : yes = TRUE /\ no = FALSE /\
       t = (((p \o SharedStep(k, opt[k], c.sforce, yes)) \o Setup(k, opt[k])) \o Save(k))
            \o SetDefault(k, installed, opt, no)

(* The plan of integration_switch to an integration that is not installed.  *)
LEMMA SwitchPlan ==
  ASSUME NEW c, NEW k, NEW opt, NEW installed, NEW p, NEW b, NEW t,
         IsSwitch(c, k, opt, installed, p, b, t)
  PROVE  \E D : /\ Outline(c, t, D, JsonConf(k, installed, opt))
                /\ D \subseteq {"teardown", "clear", "shared", "saveshared", "setup", "manifest",
                                "json", "opts"}
                /\ {"shared", "setup", "manifest", "opts"} \subseteq D
                /\ "teardown" \in D <=> b
                /\ b => t[1].key = c.from.default
                /\ "clear" \in D <=> b
                /\ LastOf(t, "shared").refresh
  <1> USE DEF IsSwitch
  <1>0. PICK yes, no : yes = TRUE /\ no = FALSE /\
          t = (((p \o SharedStep(k, opt[k], c.sforce, yes)) \o Setup(k, opt[k])) \o Save(k))
               \o SetDefault(k, installed, opt, no)
    OBVIOUS
  <1>1. PICK x, q, r, s, u, sforce :
          /\ x = SharedStep(k, opt[k], sforce, yes) /\ q = Setup(k, opt[k])
          /\ r = Save(k) /\ s = SetDefault(k, installed, opt, no) /\ sforce = c.sforce
          /\ t = (((p \o x) \o q) \o r) \o s
    BY <1>0
  <1>2. PICK new : /\ new = JsonConf(k, installed, opt) /\ ConfOK(new) /\ new.default = k
                   /\ Keys(new) = ToSet(installed)
    BY JsonConfOK
  <1>3. IsRemoval(c, p, b)
    OBVIOUS
  <1>4. IsShared(c, x, k, opt[k], yes)
    <2>1. SharedArgs(c, k, opt[k], sforce, yes)
      BY <1>0, <1>1 DEF OptsOK, SharedArgs
    <2>2. x = SharedStep(k, opt[k], sforce, yes)
      BY <1>1
    <2> QED
      BY <2>1, <2>2, SharedIs
  <1>5. Single(c, q, "setup")
    <2>1. opt[k] \in OptionOf(k)
      BY DEF OptsOK
    <2> QED
      BY <1>1, <2>1, SetupSingle
  <1>6. Single(c, r, "manifest")
    <2>1. opt[k] \in OptionOf(k)
      BY DEF OptsOK
    <2> QED
      BY <1>1, <2>1, SetupSingle
  <1>7. IsRestore(c, s, new, yes)
    <2>1. yes /\ no \in BOOLEAN /\ (no => c.sforce)
      BY <1>0
    <2>2. s = SetDefault(k, installed, opt, no)
      BY <1>1
    <2>3. IsRestore(c, s, JsonConf(k, installed, opt), yes)
      BY <2>1, <2>2, RestoreDefault
    <2> QED
      BY <1>2, <2>3
  <1>8. yes /\ c.from.default \notin Keys(new) /\ c.op = "switch"
    BY <1>0, <1>2
  <1>9. PICK u1, u2, u3 : u1 = p \o x /\ u2 = u1 \o q /\ u3 = u2 \o r
    OBVIOUS
  <1>10. \A a \in ToSet(p) : a.do \in {"teardown", "clear", "json", "shared", "saveshared", "opts"} /\ (a.do = "teardown" => a.key = c.from.default)
            /\ (a.do = "json" => c.key \notin Keys(a.conf)) /\ (a.do = "opts" => Kept(c) # {})
    BY <1>3, <1>8 DEF IsRemoval
  <1>11. MayFollow(c, p, x)
    BY <1>4, <1>10, <1>8 DEF Precedes, MayFollow, IsShared
  <1>12. Joined(c, p, x, u1)
    <2>1. Part(c, p) /\ Part(c, x) /\ u1 = p \o x
      BY <1>3, <1>4, <1>9 DEF IsRemoval, IsShared
    <2> QED
      BY <1>11, <2>1, Together
  <1>13. \A a \in ToSet(u1) : a.do \in {"teardown", "clear", "json", "shared", "saveshared", "opts"} /\ (a.do = "teardown" => a.key = c.from.default)
            /\ (a.do = "json" => c.key \notin Keys(a.conf)) /\ (a.do = "opts" => Kept(c) # {})
    BY <1>4, <1>10, <1>12, <1>8 DEF Joined, IsShared
  <1>14. MayFollow(c, u1, q)
    BY <1>5, <1>13, <1>8 DEF Precedes, MayFollow, Single
  <1>15. Joined(c, u1, q, u2)
    <2>1. Part(c, u1) /\ Part(c, q) /\ u2 = u1 \o q
      BY <1>12, <1>5, <1>9 DEF Joined, Single
    <2> QED
      BY <1>14, <2>1, Together
  <1>16. \A a \in ToSet(u2) : a.do \in {"teardown", "clear", "json", "shared", "saveshared", "opts", "setup"} /\ (a.do = "teardown" => a.key = c.from.default)
            /\ (a.do = "json" => c.key \notin Keys(a.conf)) /\ (a.do = "opts" => Kept(c) # {})
    BY <1>5, <1>13, <1>15, <1>8 DEF Joined, Single
  <1>17. MayFollow(c, u2, r)
    BY <1>6, <1>16, <1>8 DEF Precedes, MayFollow, Single
  <1>18. Joined(c, u2, r, u3)
    <2>1. Part(c, u2) /\ Part(c, r) /\ u3 = u2 \o r
      BY <1>15, <1>6, <1>9 DEF Joined, Single
    <2> QED
      BY <1>17, <2>1, Together
  <1>19. \A a \in ToSet(u3) : a.do \in {"teardown", "clear", "json", "shared", "saveshared", "opts", "setup", "manifest"} /\ (a.do = "teardown" => a.key = c.from.default)
            /\ (a.do = "json" => c.key \notin Keys(a.conf)) /\ (a.do = "opts" => Kept(c) # {})
    BY <1>6, <1>16, <1>18, <1>8 DEF Joined, Single
  <1>20. MayFollow(c, u3, s)
    BY <1>7, <1>19, <1>8 DEF Precedes, MayFollow, IsRestore
  <1>21. Joined(c, u3, s, t)
    <2>1. Part(c, u3) /\ Part(c, s) /\ t = u3 \o s
      BY <1>18, <1>7, <1>9, <1>1 DEF Joined, IsRestore
    <2> QED
      BY <1>20, <2>1, Together
  <1>22. \A do : /\ Pending(u1, do) <=> Pending(p, do) \/ Pending(x, do)
                 /\ Pending(u2, do) <=> Pending(u1, do) \/ Pending(q, do)
                 /\ Pending(u3, do) <=> Pending(u2, do) \/ Pending(r, do)
                 /\ Pending(t, do) <=> Pending(u3, do) \/ Pending(s, do)
    BY <1>12, <1>15, <1>18, <1>21 DEF Joined
  <1>23. \A do : /\ Pending(x, do) => LastOf(u1, do) = LastOf(x, do)
                 /\ Pending(p, do) /\ ~Pending(x, do) => LastOf(u1, do) = LastOf(p, do)
                 /\ Pending(q, do) => LastOf(u2, do) = LastOf(q, do)
                 /\ Pending(u1, do) /\ ~Pending(q, do) => LastOf(u2, do) = LastOf(u1, do)
                 /\ Pending(r, do) => LastOf(u3, do) = LastOf(r, do)
                 /\ Pending(u2, do) /\ ~Pending(r, do) => LastOf(u3, do) = LastOf(u2, do)
                 /\ Pending(s, do) => LastOf(t, do) = LastOf(s, do)
                 /\ Pending(u3, do) /\ ~Pending(s, do) => LastOf(t, do) = LastOf(u3, do)
    BY <1>12, <1>15, <1>18, <1>21 DEF Joined
  <1>24. /\ \A do : Pending(x, do) <=> do \in {"shared", "saveshared"}
         /\ \A do : Pending(q, do) <=> do = "setup"
         /\ \A do : Pending(r, do) <=> do = "manifest"
         /\ \A do : Pending(s, do) <=> do = "json" \/ (yes /\ do \in {"shared", "saveshared", "opts"})
    BY <1>4, <1>5, <1>6, <1>7 DEF IsShared, Single, IsRestore
  <1> DEFINE D == {"shared", "saveshared", "setup", "manifest", "json", "opts"}
                  \cup (IF b THEN {"teardown", "clear"} ELSE {})
  <1>25. \A do : Pending(t, do) <=> do \in D
    <2> SUFFICES ASSUME NEW do PROVE Pending(t, do) <=> do \in D
      OBVIOUS
    <2>1. /\ Pending(u1, do) <=> Pending(p, do) \/ Pending(x, do)
          /\ Pending(u2, do) <=> Pending(u1, do) \/ Pending(q, do)
          /\ Pending(u3, do) <=> Pending(u2, do) \/ Pending(r, do)
          /\ Pending(t, do) <=> Pending(u3, do) \/ Pending(s, do)
      BY <1>22
    <2>2. /\ Pending(x, do) <=> do \in {"shared", "saveshared"}
          /\ Pending(q, do) <=> do = "setup"
          /\ Pending(r, do) <=> do = "manifest"
          /\ Pending(s, do) <=> do = "json" \/ (yes /\ do \in {"shared", "saveshared", "opts"})
      BY <1>24
    <2>3. /\ Pending(p, "teardown") <=> b
          /\ Pending(p, "clear") <=> b
          /\ Pending(p, do) => do \in {"teardown", "clear", "json", "shared", "saveshared", "opts"}
      BY <1>3 DEF IsRemoval
    <2> QED
      BY <1>8, <2>1, <2>2, <2>3
  <1>26. \A do \in {"json", "shared", "opts"} : LastOf(t, do) = LastOf(s, do)
    BY <1>8, <1>23, <1>24
  <1>27. b => LastOf(t, "clear") = LastOf(p, "clear")
    <2>1. b => Pending(p, "clear")
      BY <1>3 DEF IsRemoval
    <2>2. ~Pending(x, "clear") /\ ~Pending(q, "clear") /\ ~Pending(r, "clear") /\ ~Pending(s, "clear")
      BY <1>24
    <2>3. /\ Pending(u1, "clear") <=> Pending(p, "clear") \/ Pending(x, "clear")
          /\ Pending(u2, "clear") <=> Pending(u1, "clear") \/ Pending(q, "clear")
          /\ Pending(u3, "clear") <=> Pending(u2, "clear") \/ Pending(r, "clear")
          /\ Pending(t, "clear") <=> Pending(u3, "clear") \/ Pending(s, "clear")
      BY <1>22
    <2>4. /\ Pending(x, "clear") => LastOf(u1, "clear") = LastOf(x, "clear")
          /\ Pending(p, "clear") /\ ~Pending(x, "clear") => LastOf(u1, "clear") = LastOf(p, "clear")
          /\ Pending(q, "clear") => LastOf(u2, "clear") = LastOf(q, "clear")
          /\ Pending(u1, "clear") /\ ~Pending(q, "clear") => LastOf(u2, "clear") = LastOf(u1, "clear")
          /\ Pending(r, "clear") => LastOf(u3, "clear") = LastOf(r, "clear")
          /\ Pending(u2, "clear") /\ ~Pending(r, "clear") => LastOf(u3, "clear") = LastOf(u2, "clear")
          /\ Pending(s, "clear") => LastOf(t, "clear") = LastOf(s, "clear")
          /\ Pending(u3, "clear") /\ ~Pending(s, "clear") => LastOf(t, "clear") = LastOf(u3, "clear")
      BY <1>23
    <2> QED
      BY <2>1, <2>2, <2>3, <2>4
  <1>28. Part(c, t) /\ t # <<>> /\ (b => t[1].key = c.from.default)
    <2>1. Part(c, t) /\ t # <<>>
      BY <1>7, <1>21 DEF Joined, IsRestore
    <2>2. b => p # <<>> /\ p[1].key = c.from.default
      BY <1>3 DEF IsRemoval
    <2>3. p # <<>> => u1 # <<>> /\ u1[1] = p[1]
      BY <1>12 DEF Joined
    <2>4. u1 # <<>> => u2 # <<>> /\ u2[1] = u1[1]
      BY <1>15 DEF Joined
    <2>5. u2 # <<>> => u3 # <<>> /\ u3[1] = u2[1]
      BY <1>18 DEF Joined
    <2>6. u3 # <<>> => t[1] = u3[1]
      BY <1>21 DEF Joined
    <2> QED
      BY <2>1, <2>2, <2>3, <2>4, <2>5, <2>6
  <1>29. /\ D \subseteq {"teardown", "clear", "shared", "saveshared", "setup", "manifest", "json", "opts"}
         /\ {"shared", "setup", "manifest", "opts"} \subseteq D /\ "json" \in D
         /\ "teardown" \in D <=> b
         /\ "clear" \in D <=> b
    OBVIOUS
  <1> HIDE DEF D
  <1>30. /\ LastOf(t, "json").conf = new /\ LastOf(t, "opts").key = new.default
         /\ Sep[LastOf(t, "shared").key][LastOf(t, "shared").opt] = Dialect(new)
         /\ LastOf(t, "shared").refresh
    BY <1>7, <1>8, <1>26 DEF IsRestore
  <1>31. b => LastOf(t, "clear").key = c.from.default
    BY <1>3, <1>27 DEF IsRemoval
  <1>32. Outline(c, t, D, new)
    BY <1>2, <1>25, <1>28, <1>29, <1>30, <1>31 DEF Outline
  <1> QED
    BY <1>2, <1>28, <1>29, <1>30, <1>32

-----------------------------------------------------------------------------
(* The commands start from what the last one left. *)

\* What a command c with steps of the kinds D, which leaves integration.json new,
\* may count on when it starts.
MayRun(c, D) ==
  /\ "setup" \in D => /\ "manifest" \in D /\ c.op \in {"install", "switch", "upgrade", "init"}
                      /\ c.op \in {"install", "switch"} => c.key \notin Keys(c.from)
  /\ "teardown" \in D => c.todo[1].key \in Keys(c.from) /\ Has(c.todo[1].key)
  /\ "manifest" \in D \/ "stale" \in D => "setup" \in D
  /\ c.op = "init" => c.force
  /\ c.op = "upgrade" => /\ c.old # NoManifest /\ "stale" \in D
                         /\ ~c.force => \A f \in DOMAIN c.old : files[f] # User
KeysFit(c, D, new) ==
  /\ \A k \in Keys(new) : k \in Keys(c.from) \/ ("manifest" \in D /\ k = c.key)
  /\ \A k \in Keys(c.from) : \/ k \in Keys(new) \/ ~Has(k) \/ c.op = "init"
                             \/ ("teardown" \in D /\ k = c.todo[1].key)
  /\ "manifest" \in D => c.key \in Keys(new) /\ (c.key \in Keys(c.from) => c.op \in {"upgrade", "init"})
  /\ c.op \in {"install", "switch"} => c.key \notin Kept(c) /\ Keys(new) = Kept(c) \cup {c.key}
OptsFit(c, D, new) ==
  /\ "opts" \notin D => new.default = IF "clear" \in D THEN None ELSE c.from.default
  /\ c.op = "switch" => "clear" \in D \/ c.from = NoConf
  /\ c.op = "install" => "clear" \notin D
DialectFit(c, D, new) ==
  /\ c.op = "install" /\ c.from # NoConf => new # NoConf /\ Dialect(new) = Dialect(c.from)
  /\ \/ new = NoConf \/ c.op = "init" \/ (c.op = "install" /\ c.from = NoConf)
     \/ "shared" \in D /\ LastOf(c.todo, "shared").refresh
     \/ c.from # NoConf /\ Dialect(new) = Dialect(c.from)

\* Command c starts.
Starts(c, D, new) ==
  /\ c = Command(c.op, c.key, c.force, c.sforce, c.todo, c.mem, c.old, c.from) /\ c # Idle
  /\ c.op \in Ops \ {"rollback"} /\ c.key \in Integration
  /\ c.force \in BOOLEAN /\ c.sforce \in BOOLEAN
  /\ c.mem = NoManifest /\ c.old = manifest[c.key] /\ c.from = conf
  /\ Outline(c, c.todo, D, new)
  /\ MayRun(c, D) /\ KeysFit(c, D, new) /\ OptsFit(c, D, new) /\ DialectFit(c, D, new)

(* The fields of a command that begins.                                     *)
LEMMA BeginIs ==
  ASSUME NEW op, NEW k, NEW force, NEW sforce, NEW todo, Begin(op, k, force, sforce, todo),
         op \in Ops
  PROVE  /\ cli'.op = op /\ cli'.key = k /\ cli'.force = force /\ cli'.sforce = sforce
         /\ cli'.todo = todo /\ cli'.mem = NoManifest /\ cli'.old = manifest[k] /\ cli'.from = conf
         /\ cli' = Command(cli'.op, cli'.key, cli'.force, cli'.sforce, cli'.todo, cli'.mem,
                           cli'.old, cli'.from)
         /\ cli' # Idle
  <1>1. cli' = Command(op, k, force, sforce, todo, NoManifest, manifest[k], conf)
    BY DEF Begin, Command
  <1>2. /\ cli'.op = op /\ cli'.key = k /\ cli'.force = force /\ cli'.sforce = sforce
        /\ cli'.todo = todo /\ cli'.mem = NoManifest /\ cli'.old = manifest[k] /\ cli'.from = conf
    BY <1>1 DEF Command
  <1>3. Idle.op = "idle" /\ op # "idle"
    BY DEF Idle, Ops
  <1>4. cli' # Idle
    BY <1>2, <1>3
  <1> QED
    BY <1>1, <1>2, <1>4

(* The list of installed integrations.                                      *)
LEMMA InstalledIs ==
  ASSUME NEW c, ConfOK(c)
  PROVE  c.installed \in Seq(Integration) /\ IsInjective(c.installed)
  <1>1. IsInjective(<<>>) /\ <<>> \in Seq(Integration)
    BY DEF IsInjective
  <1> QED
    BY <1>1, ConfFacts, NoConfOK

(* The options a command resolves.                                          *)
LEMMA ChosenOK ==
  ASSUME ConfOK(conf), NEW k \in Integration, NEW o \in OptionOf(k),
         NEW opt, opt = [conf.opt EXCEPT ![k] = Chosen(k, o)]
  PROVE  OptsOK(opt) /\ \A i \in Integration : i # k => opt[i] = conf.opt[i]
  <1>1. OptsOK(conf.opt) /\ DOMAIN conf.opt = Integration
    BY ConfFacts
  <1>2. Chosen(k, o) \in OptionOf(k)
    BY <1>1 DEF Chosen, OptsOK
  <1>3. opt[k] = Chosen(k, o) /\ \A i \in Integration : i # k => opt[i] = conf.opt[i]
    BY <1>1
  <1> QED
    BY <1>1, <1>2, <1>3 DEF OptsOK

(* use, and switch to an installed integration.                             *)
LEMMA UseStarts ==
  ASSUME TypeOK, NEW k \in Integration, NEW force \in BOOLEAN,
         Use(k, force) \/ SwitchInstalled(k, force)
  PROVE  \E D, new : Starts(cli', D, new)
  <1>1. /\ k \in Keys(conf) /\ ConfOK(conf)
        /\ Begin("use", k, FALSE, force, SetDefault(k, conf.installed, conf.opt, force))
    BY DEF Use, SwitchInstalled, InstalledKeys, Keys, TypeOK
  <1>2. PICK c : c = cli'
    OBVIOUS
  <1>3. /\ c.op = "use" /\ c.key = k /\ c.force = FALSE /\ c.sforce = force
        /\ c.todo = SetDefault(k, conf.installed, conf.opt, force)
        /\ c.mem = NoManifest /\ c.old = manifest[k] /\ c.from = conf
        /\ c = Command(c.op, c.key, c.force, c.sforce, c.todo, c.mem, c.old, c.from)
        /\ c # Idle
    <2>1. "use" \in Ops
      BY DEF Ops
    <2>2. PICK todo, not : todo = SetDefault(k, conf.installed, conf.opt, force) /\ not = FALSE
      OBVIOUS
    <2>3. Begin("use", k, not, force, todo)
      BY <1>1, <2>2
    <2>4. /\ c.op = "use" /\ c.key = k /\ c.force = not /\ c.sforce = force
          /\ c.todo = todo /\ c.mem = NoManifest /\ c.old = manifest[k] /\ c.from = conf
          /\ c = Command(c.op, c.key, c.force, c.sforce, c.todo, c.mem, c.old, c.from)
          /\ c # Idle
      BY <1>2, <2>1, <2>3, BeginIs
    <2> QED
      BY <2>2, <2>4
  <1>4. PICK new, t, yes : new = JsonConf(k, conf.installed, conf.opt) /\ t = c.todo /\ yes = TRUE
    OBVIOUS
  <1>5. /\ conf.installed \in Seq(Integration) /\ IsInjective(conf.installed) /\ OptsOK(conf.opt)
        /\ k \in ToSet(conf.installed)
    BY <1>1, InstalledIs, ConfFacts DEF Keys
  <1>6. ConfOK(new) /\ new.default = k /\ Keys(new) = Keys(conf)
    BY <1>4, <1>5, JsonConfOK DEF Keys
  <1>7. IsRestore(c, t, new, yes) /\ yes
    <2>1. t = SetDefault(k, conf.installed, conf.opt, force) /\ (force => c.sforce)
      BY <1>3, <1>4
    <2>2. yes
      BY <1>4
    <2>3. IsRestore(c, t, JsonConf(k, conf.installed, conf.opt), yes)
      BY <1>5, <2>1, <2>2, RestoreDefault
    <2> QED
      BY <1>4, <2>2, <2>3
  <1>8. PICK D : D = {"json", "shared", "saveshared", "opts"}
    OBVIOUS
  <1>9. Outline(c, t, D, new)
    BY <1>7, <1>8 DEF IsRestore, Outline
  <1>10. MayRun(c, D) /\ KeysFit(c, D, new) /\ OptsFit(c, D, new)
    BY <1>3, <1>6, <1>8 DEF MayRun, KeysFit, OptsFit
  <1>11. DialectFit(c, D, new)
    BY <1>3, <1>4, <1>7, <1>8 DEF DialectFit, IsRestore
  <1>12. Starts(c, D, new)
    BY <1>3, <1>4, <1>9, <1>10, <1>11 DEF Starts, Ops
  <1> QED
    BY <1>2, <1>12

(* uninstall.                                                               *)
LEMMA UninstallStarts ==
  ASSUME TypeOK, NEW k \in Integration, NEW force \in BOOLEAN, Uninstalls(k, force)
  PROVE  \E D, new : Starts(cli', D, new)
  <1>0. PICK has : has = Has(k)
    OBVIOUS
  <1>1. PICK t : /\ k \in Keys(conf) /\ ConfOK(conf) /\ Begin("uninstall", k, force, FALSE, t)
                 /\ t = ((IF has THEN Teardown(k, force) ELSE <<>>) \o RestoreSteps(conf, k))
                        \o (IF conf.default = k THEN Clear(k) ELSE <<>>)
    <2>1. Remaining(k) = RestoreSteps(conf, k)
      BY DEF Remaining, RestoreSteps, Without
    <2> QED
      BY <1>0, <2>1 DEF Uninstalls, InstalledKeys, Keys, TypeOK
  <1>2. PICK c : c = cli'
    OBVIOUS
  <1>3. /\ c.op = "uninstall" /\ c.key = k /\ c.force = force /\ c.sforce = FALSE /\ c.todo = t
        /\ c.mem = NoManifest /\ c.old = manifest[k] /\ c.from = conf
        /\ c = Command(c.op, c.key, c.force, c.sforce, c.todo, c.mem, c.old, c.from)
        /\ c # Idle
    <2>1. Begin("uninstall", k, force, FALSE, t)
      BY <1>1
    <2>2. "uninstall" \in Ops
      BY DEF Ops
    <2> QED
      BY <1>2, <2>1, <2>2, BeginIs
  <1>4. PICK new : new = ConfWithout(conf, k)
    OBVIOUS
  <1>5. /\ Keys(new) = Keys(conf) \ {k} /\ ConfOK(new)
        /\ new # NoConf /\ conf.default # k => new.default = conf.default /\ Dialect(new) = Dialect(conf)
        /\ conf # NoConf /\ conf.default \in Keys(conf)
    <2>1. Keys(conf) # {}
      BY <1>1
    <2> QED
      BY <1>1, <1>4, <2>1, ConfWithoutOK, ConfFacts
  <1>6. conf.default # k => new # NoConf
    BY <1>5, ConfFacts
  <1>7. PICK D : /\ Outline(c, t, D, new)
                 /\ D \subseteq {"teardown", "json", "opts", "shared", "saveshared", "clear"}
                 /\ "teardown" \in D <=> has
                 /\ has => t[1].key = k
                 /\ "opts" \in D <=> conf.default = k /\ new # NoConf
                 /\ "shared" \in D <=> "opts" \in D
                 /\ "shared" \in D => LastOf(t, "shared").refresh
                 /\ "clear" \in D <=> conf.default = k
    <2>1. has \in BOOLEAN
      BY <1>0 DEF Has
    <2>2. IsUninstall(c, conf, k, has, t)
      BY <1>1, <1>3, <2>1 DEF IsUninstall
    <2> QED
      BY <1>4, <2>2, UninstallPlan
  <1>8. /\ "setup" \notin D /\ "manifest" \notin D /\ "stale" \notin D
        /\ "teardown" \in D => c.todo[1].key = k /\ Has(k)
        /\ "teardown" \in D \/ ~Has(k)
    BY <1>0, <1>3, <1>7
  <1>9. MayRun(c, D)
    BY <1>1, <1>3, <1>8 DEF MayRun
  <1>10. KeysFit(c, D, new)
    BY <1>3, <1>5, <1>8 DEF KeysFit
  <1>11. OptsFit(c, D, new)
    <2>1. "opts" \notin D /\ conf.default = k => new = NoConf
      BY <1>7
    <2> QED
      BY <1>3, <1>5, <1>6, <1>7, <2>1, NoConfOK DEF OptsFit
  <1>12. DialectFit(c, D, new)
    BY <1>3, <1>5, <1>7 DEF DialectFit
  <1>13. Starts(c, D, new)
    BY <1>3, <1>7, <1>9, <1>10, <1>11, <1>12 DEF Starts, Ops
  <1> QED
    BY <1>2, <1>13

(* install.                                                                 *)
LEMMA InstallStarts ==
  ASSUME TypeOK, NEW k \in Integration, NEW o \in OptionOf(k), NEW force \in BOOLEAN,
         Install(k, o, force)
  PROVE  \E D, new : Starts(cli', D, new)
  <1>0. PICK opt, default, no, installed :
          /\ opt = [conf.opt EXCEPT ![k] = Chosen(k, o)]
          /\ default = (IF conf = NoConf THEN k ELSE conf.default)
          /\ no = FALSE /\ installed = Append(conf.installed, k)
    OBVIOUS
  <1>1. PICK t : /\ k \notin Keys(conf) /\ ConfOK(conf) /\ Begin("install", k, no, no, t)
                 /\ t = (((SharedStep(default, opt[default], no, no) \o Setup(k, opt[k])) \o Save(k))
                         \o Json(default, installed, opt))
                         \o (IF default = k THEN Opts(k) ELSE <<>>)
    BY <1>0 DEF Install, InstalledKeys, Keys, TypeOK
  <1>2. PICK c : c = cli'
    OBVIOUS
  <1>3. /\ c.op = "install" /\ c.key = k /\ c.force = no /\ c.sforce = no /\ c.todo = t
        /\ c.mem = NoManifest /\ c.old = manifest[k] /\ c.from = conf
        /\ c = Command(c.op, c.key, c.force, c.sforce, c.todo, c.mem, c.old, c.from)
        /\ c # Idle
    <2>1. Begin("install", k, no, no, t)
      BY <1>1
    <2>2. "install" \in Ops
      BY DEF Ops
    <2> QED
      BY <1>2, <2>1, <2>2, BeginIs
  <1>4. OptsOK(opt) /\ \A i \in Integration : i # k => opt[i] = conf.opt[i]
    BY <1>0, <1>1, ChosenOK
  <1>5. /\ installed \in Seq(Integration) /\ IsInjective(installed)
        /\ ToSet(installed) = Keys(conf) \cup {k}
    BY <1>0, <1>1, InstalledIs, AppendIs DEF Keys
  <1>6. /\ default \in ToSet(installed) /\ conf = NoConf => default = k
        /\ conf # NoConf => default = conf.default /\ default \in Keys(conf) /\ default # k
        /\ conf = NoConf => Keys(conf) = {}
    BY <1>0, <1>1, <1>5, ConfFacts, NoConfOK
  <1>7. PICK new : new = JsonConf(default, installed, opt)
    OBVIOUS
  <1>8. /\ ConfOK(new) /\ new # NoConf /\ new.default = default /\ Keys(new) = Keys(conf) \cup {k}
        /\ Dialect(new) = Sep[default][opt[default]] /\ default \in Integration /\ default # None
    <2>1. default \in ToSet(installed)
      BY <1>0, <1>5, <1>6
    <2> QED
      BY <1>4, <1>5, <1>7, <2>1, JsonConfOK
  <1>9. PICK D : /\ Outline(c, t, D, new)
                 /\ D \subseteq {"shared", "saveshared", "setup", "manifest", "json", "opts"}
                 /\ {"shared", "setup", "manifest"} \subseteq D
                 /\ "opts" \in D <=> default = k
    <2>1. no = FALSE
      BY <1>0
    <2>2. IsInstall(c, k, default, opt, installed, new, t)
      BY <1>1, <1>3, <1>4, <1>7, <1>8, <2>1 DEF IsInstall
    <2> QED
      BY <2>2, InstallPlan
  <1>10. /\ "setup" \in D /\ "manifest" \in D /\ "stale" \notin D /\ "teardown" \notin D
         /\ "clear" \notin D
    BY <1>9
  <1>11. Kept(c) = Keys(conf)
    BY <1>3 DEF Kept
  <1>12. MayRun(c, D) /\ KeysFit(c, D, new)
    BY <1>1, <1>3, <1>8, <1>10, <1>11 DEF MayRun, KeysFit
  <1>13. OptsFit(c, D, new)
    <2>1. "opts" \notin D => new.default = conf.default
      BY <1>6, <1>8, <1>9, <1>0
    <2> QED
      BY <1>3, <1>10, <2>1 DEF OptsFit
  <1>14. DialectFit(c, D, new)
    <2>1. conf # NoConf => Dialect(new) = Dialect(conf)
      BY <1>0, <1>4, <1>6, <1>8 DEF Dialect
    <2> QED
      BY <1>3, <1>8, <2>1 DEF DialectFit
  <1>15. no \in BOOLEAN
    BY <1>0
  <1>16. Starts(c, D, new)
    BY <1>3, <1>9, <1>12, <1>13, <1>14, <1>15 DEF Starts, Ops
  <1> QED
    BY <1>2, <1>16

(* upgrade.                                                                 *)
LEMMA UpgradeStarts ==
  ASSUME TypeOK, NEW k \in Integration, NEW o \in OptionOf(k), NEW force \in BOOLEAN,
         Upgrade(k, o, force)
  PROVE  \E D, new : Starts(cli', D, new)
  <1>0. PICK opt, default, yes, no, installed :
          /\ opt = [conf.opt EXCEPT ![k] = Chosen(k, o)]
          /\ default = conf.default /\ yes = TRUE /\ no = FALSE /\ installed = conf.installed
    OBVIOUS
  <1>1. PICK t : /\ k \in Keys(conf) /\ ConfOK(conf) /\ Begin("upgrade", k, force, force, t)
                 /\ Has(k) /\ (force \/ CheckModified(manifest[k], files) = {})
                 /\ t = (((((SharedStep(default, opt[default], force, no) \o Setup(k, opt[k]))
                          \o (IF default = k THEN SharedStep(k, opt[k], force, yes) ELSE <<>>))
                         \o Save(k)) \o Json(default, installed, opt))
                        \o (IF default = k THEN Opts(k) ELSE <<>>))
                       \o <<[do |-> "stale", key |-> k]>>
    <2>1. PICK t : t = UpgradeSteps(k, opt, force)
      OBVIOUS
    <2>2. t = (((((SharedStep(default, opt[default], force, no) \o Setup(k, opt[k]))
                  \o (IF default = k THEN SharedStep(k, opt[k], force, yes) ELSE <<>>))
                 \o Save(k)) \o Json(default, installed, opt))
                \o (IF default = k THEN Opts(k) ELSE <<>>))
               \o <<[do |-> "stale", key |-> k]>>
      <3>1. /\ SharedStep(default, opt[default], force, no)
                 = SharedStep(conf.default, opt[conf.default], force, FALSE)
            /\ SharedStep(k, opt[k], force, yes) = SharedStep(k, opt[k], force, TRUE)
            /\ Json(default, installed, opt) = Json(conf.default, conf.installed, opt)
            /\ default = conf.default
        BY <1>0
      <3> QED
        BY <2>1, <3>1 DEF UpgradeSteps
    <2>3. /\ k \in Keys(conf) /\ ConfOK(conf) /\ Begin("upgrade", k, force, force, t)
          /\ Has(k) /\ (force \/ CheckModified(manifest[k], files) = {})
      BY <1>0, <2>1 DEF Upgrade, InstalledKeys, Keys, TypeOK
    <2> QED
      BY <2>2, <2>3
  <1>2. PICK c : c = cli'
    OBVIOUS
  <1>3. /\ c.op = "upgrade" /\ c.key = k /\ c.force = force /\ c.sforce = force /\ c.todo = t
        /\ c.mem = NoManifest /\ c.old = manifest[k] /\ c.from = conf
        /\ c = Command(c.op, c.key, c.force, c.sforce, c.todo, c.mem, c.old, c.from)
        /\ c # Idle
    <2>1. Begin("upgrade", k, force, force, t)
      BY <1>1
    <2>2. "upgrade" \in Ops
      BY DEF Ops
    <2> QED
      BY <1>2, <2>1, <2>2, BeginIs
  <1>4. OptsOK(opt) /\ \A i \in Integration : i # k => opt[i] = conf.opt[i]
    BY <1>0, <1>1, ChosenOK
  <1>5. /\ installed \in Seq(Integration) /\ IsInjective(installed) /\ ToSet(installed) = Keys(conf)
        /\ conf # NoConf /\ default \in ToSet(installed) /\ default \in Integration /\ default # None
    <2>1. Keys(conf) # {}
      BY <1>1
    <2> QED
      BY <1>0, <1>1, <2>1, InstalledIs, ConfFacts DEF Keys
  <1>6. PICK new : new = JsonConf(default, installed, opt)
    OBVIOUS
  <1>7. /\ ConfOK(new) /\ new # NoConf /\ new.default = default /\ Keys(new) = Keys(conf)
        /\ Dialect(new) = Sep[default][opt[default]]
    BY <1>4, <1>5, <1>6, JsonConfOK
  <1>8. PICK D : /\ Outline(c, t, D, new)
                 /\ D \subseteq {"shared", "saveshared", "setup", "manifest", "json", "opts", "stale"}
                 /\ {"shared", "setup", "manifest", "stale"} \subseteq D
                 /\ "opts" \in D <=> default = k
                 /\ LastOf(t, "shared").refresh <=> default = k
    <2>1. yes = TRUE /\ no = FALSE
      BY <1>0
    <2>2. /\ k \in Integration /\ c.op = "upgrade" /\ c.key = k /\ force \in BOOLEAN
          /\ (force => c.sforce)
      BY <1>3
    <2>3. IsUpgrade(c, k, default, opt, installed, force, new, t)
      BY <1>1, <1>4, <1>5, <1>6, <1>7, <2>1, <2>2 DEF IsUpgrade
    <2> QED
      BY <2>3, UpgradePlan
  <1>9. /\ "setup" \in D /\ "manifest" \in D /\ "teardown" \notin D /\ "clear" \notin D
        /\ "shared" \in D
    BY <1>8
  <1>10. MayRun(c, D)
    <2>1. ASSUME ~force, NEW f \in DOMAIN manifest[k] PROVE files[f] # User
      <3>1. manifest[k] # NoManifest /\ ManifestOK(manifest[k], k)
        BY <1>1 DEF Has, TypeOK
      <3>2. manifest[k][f] # User
        BY <2>1, <3>1, Recorded
      <3>3. files[f] \in {NoFile, manifest[k][f]}
        BY <1>1, <2>1 DEF CheckModified
      <3>4. NoFile # User
        BY IntegrationsAssumption
      <3> QED
        BY <3>2, <3>3, <3>4
    <2> QED
      BY <1>1, <1>3, <1>8, <1>9, <2>1 DEF MayRun, Has
  <1>11. KeysFit(c, D, new) /\ OptsFit(c, D, new)
    BY <1>0, <1>1, <1>3, <1>7, <1>9 DEF KeysFit, OptsFit
  <1>12. DialectFit(c, D, new)
    <2>1. default # k => Dialect(new) = Dialect(conf)
      BY <1>0, <1>4, <1>5, <1>7 DEF Dialect
    <2> QED
      BY <1>3, <1>5, <1>8, <1>9, <2>1 DEF DialectFit
  <1>13. Starts(c, D, new)
    BY <1>3, <1>8, <1>10, <1>11, <1>12 DEF Starts, Ops
  <1> QED
    BY <1>2, <1>13

(* specify init.                                                            *)
LEMMA InitStarts ==
  ASSUME TypeOK, NEW k \in Integration, NEW o \in OptionOf(k), NEW force \in BOOLEAN,
         SpecifyInit(k, o, force)
  PROVE  \E D, new : Starts(cli', D, new)
  <1>0. PICK opt, yes, no, installed :
          /\ opt = [NoConf.opt EXCEPT ![k] = o] /\ yes = TRUE /\ no = FALSE /\ installed = <<k>>
    OBVIOUS
  <1>a. OptsOK(opt) /\ opt[k] = o
    <2>1. OptsOK(NoConf.opt) /\ DOMAIN NoConf.opt = Integration
      BY NoConfOK
    <2>2. opt[k] = o /\ \A i \in Integration : i # k => opt[i] = NoConf.opt[i]
      BY <1>0, <2>1
    <2> QED
      BY <2>1, <2>2 DEF OptsOK
  <1>1. PICK t : /\ Begin("init", k, yes, force, t)
                 /\ t = (((Setup(k, opt[k]) \o Save(k)) \o Json(k, installed, opt))
                         \o SharedStep(k, opt[k], force, no)) \o Opts(k)
    BY <1>0, <1>a DEF SpecifyInit
  <1>2. PICK c : c = cli'
    OBVIOUS
  <1>3. /\ c.op = "init" /\ c.key = k /\ c.force = yes /\ c.sforce = force /\ c.todo = t
        /\ c.mem = NoManifest /\ c.old = manifest[k] /\ c.from = conf
        /\ c = Command(c.op, c.key, c.force, c.sforce, c.todo, c.mem, c.old, c.from)
        /\ c # Idle
    <2>1. Begin("init", k, yes, force, t)
      BY <1>1
    <2>2. "init" \in Ops
      BY DEF Ops
    <2> QED
      BY <1>2, <2>1, <2>2, BeginIs
  <1>5. /\ installed \in Seq(Integration) /\ IsInjective(installed) /\ ToSet(installed) = {k}
    BY <1>0 DEF IsInjective, ToSet
  <1>6. PICK new : new = JsonConf(k, installed, opt)
    OBVIOUS
  <1>7. /\ ConfOK(new) /\ new # NoConf /\ new.default = k /\ Keys(new) = {k}
        /\ Dialect(new) = Sep[k][opt[k]] /\ k # None
    BY <1>a, <1>5, <1>6, JsonConfOK
  <1>8. PICK D : Outline(c, t, D, new) /\ D = {"setup", "manifest", "json", "shared", "saveshared", "opts"}
    <2>1. no = FALSE
      BY <1>0
    <2>2. /\ k \in Integration /\ c.op = "init" /\ c.key = k /\ force \in BOOLEAN
          /\ (force => c.sforce)
      BY <1>3
    <2>3. IsInit(c, k, opt, installed, force, new, t)
      BY <1>1, <1>a, <1>5, <1>6, <1>7, <2>1, <2>2 DEF IsInit
    <2> QED
      BY <2>3, InitPlan
  <1>9. MayRun(c, D)
    <2>1. c.force
      BY <1>0, <1>3
    <2> QED
      BY <1>3, <1>8, <2>1 DEF MayRun
  <1>10. KeysFit(c, D, new) /\ OptsFit(c, D, new) /\ DialectFit(c, D, new)
    BY <1>3, <1>7, <1>8 DEF KeysFit, OptsFit, DialectFit
  <1>11. yes \in BOOLEAN
    BY <1>0
  <1>12. Starts(c, D, new)
    BY <1>3, <1>8, <1>9, <1>10, <1>11 DEF Starts, Ops
  <1> QED
    BY <1>2, <1>12

(* switch to an integration that is not installed.                          *)
LEMMA SwitchStarts ==
  ASSUME TypeOK, NEW k \in Integration, NEW o \in OptionOf(k), NEW force \in BOOLEAN,
         NEW sforce \in BOOLEAN, Switch(k, o, force, sforce)
  PROVE  \E D, new : Starts(cli', D, new)
  <1>0. PICK opt, rest, yes, no, installed, p, old, b :
          /\ opt = [conf.opt EXCEPT ![k] = Chosen(k, o)] /\ yes = TRUE /\ no = FALSE
          /\ rest = RemoveFirst(conf.installed, conf.default) /\ installed = Append(rest, k)
          /\ p = (IF conf = NoConf THEN <<>>
                  ELSE (Teardown(conf.default, force) \o Clear(conf.default))
                       \o RestoreSteps(conf, conf.default))
          /\ old = conf.default /\ b = (conf # NoConf)
    OBVIOUS
  <1>1. PICK t : /\ k \notin Keys(conf) /\ ConfOK(conf) /\ Begin("switch", k, force, sforce, t)
                 /\ t = (((p \o SharedStep(k, opt[k], sforce, yes)) \o Setup(k, opt[k])) \o Save(k))
                        \o SetDefault(k, installed, opt, no)
    <2>1. Remaining(conf.default) = RestoreSteps(conf, conf.default)
      BY DEF Remaining, RestoreSteps, Without
    <2> QED
      BY <1>0, <2>1 DEF Switch, InstalledKeys, Keys, TypeOK, Without
  <1>2. PICK c : c = cli'
    OBVIOUS
  <1>3. /\ c.op = "switch" /\ c.key = k /\ c.force = force /\ c.sforce = sforce /\ c.todo = t
        /\ c.mem = NoManifest /\ c.old = manifest[k] /\ c.from = conf
        /\ c = Command(c.op, c.key, c.force, c.sforce, c.todo, c.mem, c.old, c.from)
        /\ c # Idle
    <2>1. Begin("switch", k, force, sforce, t)
      BY <1>1
    <2>2. "switch" \in Ops
      BY DEF Ops
    <2> QED
      BY <1>2, <2>1, <2>2, BeginIs
  <1>4. OptsOK(opt)
    BY <1>0, <1>1, ChosenOK
  <1>5. rest \in Seq(Integration) /\ IsInjective(rest) /\ ToSet(rest) = Keys(conf) \ {old}
    BY <1>0, <1>1, InstalledIs, RemoveFirstIs DEF Keys
  <1>6. /\ installed \in Seq(Integration) /\ IsInjective(installed)
        /\ ToSet(installed) = (Keys(conf) \ {old}) \cup {k}
    BY <1>0, <1>1, <1>5, AppendIs
  <1>7. /\ conf # NoConf => old \in Keys(conf)
        /\ conf = NoConf => old = None /\ Keys(conf) = {}
        /\ old # k
    BY <1>0, <1>1, ConfFacts, NoConfOK, IntegrationsAssumption
  <1>8. PICK new : new = JsonConf(k, installed, opt)
    OBVIOUS
  <1>9. /\ ConfOK(new) /\ new # NoConf /\ new.default = k
        /\ Keys(new) = (Keys(conf) \ {old}) \cup {k}
    <2>1. k \in ToSet(installed)
      BY <1>6
    <2> QED
      BY <1>4, <1>6, <1>8, <2>1, JsonConfOK
  <1>10. IsRemoval(c, p, b) /\ b \in BOOLEAN
    <2>1. CASE conf = NoConf
      <3>1. p = <<>> /\ b = FALSE
        BY <1>0, <2>1
      <3> QED
        BY <3>1, NoPart DEF IsRemoval
    <2>2. CASE conf # NoConf
      <3>1. p = (Teardown(conf.default, force) \o Clear(conf.default)) \o RestoreSteps(conf, conf.default)
        BY <1>0, <2>2
      <3>2. Removes(c, conf, p)
        BY <1>1, <1>3, <2>2, <3>1 DEF Removes
      <3>3. b = TRUE
        BY <1>0, <2>2
      <3>4. IsRemoval(c, p, b)
        BY <3>2, <3>3, RemovalPart
      <3> QED
        BY <3>3, <3>4
    <2> QED
      BY <2>1, <2>2
  <1>11. PICK D : /\ Outline(c, t, D, new)
                  /\ D \subseteq {"teardown", "clear", "shared", "saveshared", "setup", "manifest",
                                  "json", "opts"}
                  /\ {"shared", "setup", "manifest", "opts"} \subseteq D
                  /\ "teardown" \in D <=> b
                  /\ b => t[1].key = c.from.default
                  /\ "clear" \in D <=> b
                  /\ LastOf(t, "shared").refresh
    <2>1. yes = TRUE /\ no = FALSE
      BY <1>0
    <2>2. k \in Integration /\ c.op = "switch" /\ c.key = k /\ c.sforce \in BOOLEAN
      BY <1>3
    <2>3. c.from.default \notin ToSet(installed) /\ k \in ToSet(installed)
      BY <1>0, <1>3, <1>6, <1>7
    <2>4. t = (((p \o SharedStep(k, opt[k], c.sforce, yes)) \o Setup(k, opt[k])) \o Save(k))
                 \o SetDefault(k, installed, opt, no)
      BY <1>1, <1>3
    <2>5. IsSwitch(c, k, opt, installed, p, b, t)
      BY <1>4, <1>6, <1>10, <2>1, <2>2, <2>3, <2>4 DEF IsSwitch
    <2> QED
      BY <1>8, <2>5, SwitchPlan
  <1>12. /\ "setup" \in D /\ "manifest" \in D /\ "shared" \in D /\ "opts" \in D /\ "stale" \notin D
         /\ "teardown" \in D => conf # NoConf
         /\ conf # NoConf => "teardown" \in D /\ "clear" \in D /\ c.todo[1].key = old
    BY <1>0, <1>3, <1>11
  <1>13. Kept(c) = Keys(conf) \ {old}
    BY <1>0, <1>3 DEF Kept
  <1>14. MayRun(c, D)
    <2>1. conf # NoConf => Has(old)
      BY <1>0 DEF Switch
    <2> QED
      BY <1>1, <1>3, <1>7, <1>12, <2>1 DEF MayRun
  <1>15. KeysFit(c, D, new)
    BY <1>1, <1>3, <1>7, <1>9, <1>12, <1>13 DEF KeysFit
  <1>16. OptsFit(c, D, new) /\ DialectFit(c, D, new)
    BY <1>3, <1>11, <1>12 DEF OptsFit, DialectFit
  <1>17. Starts(c, D, new)
    BY <1>3, <1>11, <1>14, <1>15, <1>16 DEF Starts, Ops
  <1> QED
    BY <1>2, <1>17

\* A command starts and changes nothing else.
Started(D, new) ==
  /\ Starts(cli', D, new) /\ cli = Idle /\ ops' = ops + 1
  /\ UNCHANGED <<files, manifest, shared, conf, initopt, ctx, version, edits, stopped, lost>>

(* Every command starts.                                                    *)
LEMMA CommandsStart ==
  ASSUME TypeOK, Commands
  PROVE  \E D, new : Started(D, new)
  <1>1. PICK k \in Integration, force \in BOOLEAN :
          \/ Uninstalls(k, force) \/ Use(k, force) \/ SwitchInstalled(k, force)
          \/ \E o \in OptionOf(k) :
               \/ Install(k, o, force) \/ Upgrade(k, o, force) \/ SpecifyInit(k, o, force)
               \/ \E sforce \in BOOLEAN : Switch(k, o, force, sforce)
    BY DEF Commands
  <1>2. \E D, new : Starts(cli', D, new)
    BY <1>1, UninstallStarts, UseStarts, InstallStarts, UpgradeStarts, InitStarts, SwitchStarts
  <1>3. \E op, f, s, t : Begin(op, k, f, s, t)
    BY <1>1 DEF Uninstalls, Use, SwitchInstalled, Install, Upgrade, SpecifyInit, Switch
  <1>4. /\ cli = Idle /\ ops' = ops + 1
        /\ UNCHANGED <<files, manifest, shared, conf, initopt, ctx, version, edits, stopped, lost>>
    BY <1>3 DEF Begin
  <1> QED
    BY <1>2, <1>4 DEF Started

(* What a command that starts has ahead.                                    *)
LEMMA StartedIs ==
  ASSUME TypeOK, NEW D, NEW new, Started(D, new)
  PROVE  /\ CommandOK(cli') /\ cli' # Idle /\ Goal' = new
         /\ \A do : Todo(do)' <=> do \in D
         /\ "json" \in D /\ ConfOK(new)
  <1>1. /\ cli' # Idle /\ Outline(cli', cli'.todo, D, new)
        /\ cli' = Command(cli'.op, cli'.key, cli'.force, cli'.sforce, cli'.todo, cli'.mem,
                          cli'.old, cli'.from)
        /\ cli'.op \in Ops /\ cli'.key \in Integration
        /\ cli'.force \in BOOLEAN /\ cli'.sforce \in BOOLEAN
        /\ cli'.mem = NoManifest /\ cli'.old = manifest[cli'.key] /\ cli'.from = conf
    BY DEF Started, Starts
  <1>2. PlanOK(cli')
    BY <1>1, PartIsPlan DEF Outline
  <1>3. ManifestOK(cli'.mem, cli'.key) /\ ManifestOK(cli'.old, cli'.key) /\ ConfOK(cli'.from)
    <2>1. ManifestOK(cli'.mem, cli'.key)
      BY <1>1 DEF ManifestOK
    <2> QED
      BY <1>1, <2>1 DEF TypeOK
  <1>4. CommandOK(cli')
    BY <1>1, <1>2, <1>3 DEF CommandOK
  <1>5. \A do : Pending(cli'.todo, do) <=> do \in D
    BY <1>1 DEF Outline
  <1>6. \A do : Todo(do)' <=> do \in D
    BY <1>1, <1>5 DEF Todo
  <1>7. "json" \in D /\ LastOf(cli'.todo, "json").conf = new /\ ConfOK(new)
    BY <1>1 DEF Outline
  <1>8. Target(cli'.todo, conf') = new
    BY <1>5, <1>7 DEF Target
  <1>9. Goal' = new
    BY <1>1, <1>8 DEF Goal
  <1> QED
    BY <1>1, <1>4, <1>6, <1>7, <1>9

(* A command starts in the types, and has what it counts on.                *)
LEMMA StartType ==
  ASSUME TypeOK, NEW D, NEW new, Started(D, new)
  PROVE  TypeOK' /\ RunOK'
  <1>1. CommandOK(cli') /\ cli' # Idle /\ \A do : Todo(do)' <=> do \in D
    BY StartedIs
  <1>2. /\ UNCHANGED <<files, manifest, shared, conf, initopt, ctx, version, edits, stopped, lost>>
        /\ ops' = ops + 1
    BY DEF Started
  <1>3. TypeOK'
    BY <1>1, <1>2 DEF TypeOK
  <1>4. /\ MayRun(cli', D) /\ cli'.mem = NoManifest /\ cli'.old = manifest[cli'.key]
        /\ cli'.from = conf /\ cli'.op # "rollback"
    BY DEF Started, Starts
  <1>5. /\ Todo("setup")' => /\ Todo("manifest")' /\ cli'.op \in {"install", "switch", "upgrade", "init"}
                             /\ cli'.op \in {"install", "switch"} => cli'.key \notin InstalledKeys'
        /\ Todo("teardown")' => Step'.key \in InstalledKeys' /\ Has(Step.key)'
        /\ cli'.op = "init" => cli'.force
        /\ Todo("manifest")' \/ Todo("stale")' => Todo("setup")'
        /\ cli'.op = "upgrade" => /\ cli'.old # NoManifest
                                  /\ ~cli'.force => \A f \in DOMAIN cli'.old : files'[f] # User
    <2>1. Keys(conf) = InstalledKeys'
      BY <1>2 DEF Keys, InstalledKeys
    <2>2. Step' = cli'.todo[1]
      <3>1. IsPlan(cli'.todo) /\ cli'.todo # <<>>
        BY <1>1 DEF CommandOK, PlanOK
      <3> QED
        BY <3>1, PlanFacts DEF Step
    <2> QED
      BY <1>1, <1>2, <1>4, <2>1, <2>2 DEF MayRun, Has
  <1>6. RunOK'
    BY <1>2, <1>4, <1>5 DEF RunOK
  <1> QED
    BY <1>3, <1>6

-----------------------------------------------------------------------------
(* Rollback. *)

\* The steps t bring back integration.json new after command c failed.
IsRollback(c, r, t, new, anew) ==
  /\ IsRestore(r, t, new, anew) /\ Keys(new) = Kept(c)
  /\ anew => c.op = "switch"
  /\ c.op = "switch" => (anew <=> new # NoConf)
  /\ c.op = "install" => /\ new.default = c.from.default
                         /\ new # NoConf => c.from # NoConf /\ Dialect(new) = Dialect(c.from)

(* The plan of a rollback.                                                  *)
LEMMA RollbackPlan ==
  ASSUME ConfOK(cli.from), cli.op = "install" \/ cli.op = "switch", NEW r,
         NEW t, t = RollbackSteps
  PROVE  \E new, anew : IsRollback(cli, r, t, new, anew)
  <1>1. PICK from, default : from = cli.from /\ default = from.default
    OBVIOUS
  <1>2. ConfOK(from)
    BY <1>1
  <1>3. CASE from = NoConf
    <2>1. PICK new, anew : new = NoConf /\ anew = FALSE
      OBVIOUS
    <2>2. t = Json(None, <<>>, from.opt)
      <3>1. RemoveFirst(cli.from.installed, cli.from.default) = <<>>
        <4>1. /\ cli.from.installed \in Seq(Integration) /\ IsInjective(cli.from.installed)
              /\ ToSet(cli.from.installed) = {}
          BY <1>1, <1>3, InstalledIs, NoConfOK DEF Keys
        <4>2. PICK rest : rest = RemoveFirst(cli.from.installed, cli.from.default)
          OBVIOUS
        <4>3. rest \in Seq(Integration) /\ ToSet(rest) = {}
          BY <4>1, <4>2, RemoveFirstIs
        <4> QED
          BY <4>2, <4>3, HeadIs
      <3>2. cli.from = NoConf /\ from = cli.from
        BY <1>1, <1>3
      <3> QED
        BY <3>1, <3>2 DEF RollbackSteps
    <2>3. /\ ConfOK(new) /\ ~anew
          /\ new = IF None = None THEN NoConf ELSE JsonConf(None, <<>>, from.opt)
      BY <1>2, <1>3, <2>1
    <2>4. IsRestore(r, t, new, anew)
      BY <2>2, <2>3, RestoreJson
    <2>5. Keys(new) = Kept(cli)
      BY <1>1, <1>3, <2>1, NoConfOK DEF Kept
    <2> QED
      BY <1>1, <1>3, <2>1, <2>4, <2>5 DEF IsRollback
  <1>4. CASE from # NoConf /\ cli.op = "switch"
    <2>1. PICK new, anew : new = ConfWithout(from, default) /\ anew = (new # NoConf)
      OBVIOUS
    <2>2. default \in Keys(from)
      BY <1>1, <1>2, <1>4, ConfFacts
    <2>3. t = RestoreSteps(from, default)
      BY <1>1, <1>4 DEF RollbackSteps, RestoreSteps
    <2>4. anew <=> ConfWithout(from, default) # NoConf /\ from.default = default
      BY <1>1, <2>1
    <2>5. IsRestore(r, t, new, anew)
      BY <1>2, <2>1, <2>2, <2>3, <2>4, RestorePart
    <2>6. Keys(new) = Kept(cli)
      BY <1>1, <1>2, <1>4, <2>1, <2>2, ConfWithoutOK DEF Kept
    <2> QED
      BY <1>4, <2>1, <2>5, <2>6 DEF IsRollback
  <1>5. CASE from # NoConf /\ cli.op = "install"
    <2>1. PICK new, anew : new = JsonConf(default, from.installed, from.opt) /\ anew = FALSE
      OBVIOUS
    <2>2. t = Json(default, from.installed, from.opt)
      BY <1>1, <1>5 DEF RollbackSteps
    <2>3. /\ from.installed \in Seq(Integration) /\ IsInjective(from.installed)
          /\ default \in ToSet(from.installed) /\ OptsOK(from.opt)
      BY <1>1, <1>2, <1>5, ConfFacts DEF Keys
    <2>4. /\ ConfOK(new) /\ new # NoConf /\ new.default = default /\ Keys(new) = Keys(from)
          /\ Dialect(new) = Sep[default][from.opt[default]] /\ default # None
      BY <2>1, <2>3, JsonConfOK DEF Keys
    <2>5. /\ ~anew
          /\ new = IF default = None THEN NoConf ELSE JsonConf(default, from.installed, from.opt)
      BY <2>1, <2>4
    <2>6. IsRestore(r, t, new, anew)
      BY <2>2, <2>4, <2>5, RestoreJson
    <2>7. Keys(new) = Kept(cli) /\ Dialect(new) = Dialect(from)
      BY <1>1, <1>5, <2>4 DEF Kept, Dialect
    <2> QED
      BY <1>1, <1>5, <2>4, <2>5, <2>6, <2>7 DEF IsRollback
  <1> QED
    BY <1>3, <1>4, <1>5

\* A command is rolled back, with the files of mem, to integration.json new.
RollsBack(mem, new, anew) ==
  /\ CommandOK(cli) /\ cli # Idle /\ cli.op \in {"install", "switch"} /\ cli.key \in Integration
  /\ CommandOK(cli') /\ cli' # Idle /\ cli'.op = "rollback" /\ cli'.key = cli.key
  /\ cli'.force = cli.force /\ cli'.sforce = cli.sforce /\ cli'.from = cli.from
  /\ cli'.mem = NoManifest
  /\ IsRollback(cli, cli', cli'.todo, new, anew)
  /\ mem # NoManifest /\ ManifestOK(mem, cli.key)
  /\ At("setup") \/ mem = cli.mem
  /\ DOMAIN files' = File /\ files' = [f \in File |-> files'[f]]
  /\ \A f \in File : files'[f] = IF f \in DOMAIN mem THEN NoFile ELSE files[f]
  /\ manifest' = [manifest EXCEPT ![cli.key] = NoManifest]
  /\ ctx' = [ctx EXCEPT ![cli.key] = RemoveSection(cli.key \in Mdc, @)]
  /\ lost' = IF At("saveshared") THEN lost \cup {<<"shared", "rollback">>} ELSE lost
  /\ UNCHANGED <<shared, conf, initopt, version, ops, edits, stopped>>

(* What the except block of install and switch does.                        *)
LEMMA RaiseIs ==
  ASSUME TypeOK, Raise
  PROVE  \E mem, new, anew : RollsBack(mem, new, anew)
  <1>1. CommandOK(cli) /\ cli # Idle /\ cli.op \in {"install", "switch"} /\ cli.key \in Integration
    BY DEF Raise, TypeOK, CommandOK
  <1>2. PICK disk, mem : /\ Rollback(disk, mem) /\ mem # NoManifest /\ ManifestOK(mem, cli.key)
                         /\ At("setup") \/ mem = cli.mem
                         /\ \A f \in File : f \notin DOMAIN mem => disk[f] = files[f]
    <2>1. CASE At("setup") /\ \E w \in SUBSET Files(Step.key, Step.opt) : Rollback(Written(w), Record(w))
      <3>1. PICK w \in SUBSET Files(Step.key, Step.opt) : Rollback(Written(w), Record(w))
        BY <2>1
      <3>2. Step.do = "setup" /\ StepOK(cli, Step)
        BY <2>1, StepIs
      <3>3. Step.key = cli.key /\ Step.opt \in OptionOf(cli.key) /\ version \in Version
        BY <3>2 DEF StepOK, TypeOK
      <3>4. w \in SUBSET Files(cli.key, Step.opt)
        BY <3>3
      <3>5. Record(w) # NoManifest /\ DOMAIN Record(w) = w /\ ManifestOK(Record(w), cli.key)
        BY <1>1, <3>3, <3>4, RecordOK
      <3>6. \A f \in File : f \notin w => Written(w)[f] = files[f]
        BY DEF Written
      <3> QED
        BY <2>1, <3>1, <3>5, <3>6
    <2>2. CASE cli.mem # NoManifest /\ Rollback(files, cli.mem)
      BY <1>1, <2>2 DEF CommandOK
    <2> QED
      BY <2>1, <2>2 DEF Raise
  <1>3. PICK t : t = RollbackSteps
    OBVIOUS
  <1>4. cli' = Command("rollback", cli.key, cli.force, cli.sforce, t, NoManifest, cli.old, cli.from)
    <2>1. cli' = [cli EXCEPT !.op = "rollback", !.todo = t, !.mem = NoManifest]
      BY <1>2, <1>3 DEF Rollback
    <2>2. cli = Command(cli.op, cli.key, cli.force, cli.sforce, cli.todo, cli.mem, cli.old, cli.from)
      BY <1>1 DEF CommandOK
    <2> QED
      BY <2>1, <2>2 DEF Command
  <1>5. /\ cli'.op = "rollback" /\ cli'.key = cli.key /\ cli'.force = cli.force
        /\ cli'.sforce = cli.sforce /\ cli'.todo = t /\ cli'.mem = NoManifest
        /\ cli'.old = cli.old /\ cli'.from = cli.from
    BY <1>4 DEF Command
  <1>6. ConfOK(cli.from) /\ (cli.op = "install" \/ cli.op = "switch")
    BY <1>1 DEF CommandOK
  <1>7. PICK new, anew : IsRollback(cli, cli', t, new, anew)
    BY <1>3, <1>6, RollbackPlan
  <1>8. Part(cli', t) /\ t # <<>>
    BY <1>7 DEF IsRollback, IsRestore
  <1>9. PlanOK(cli')
    BY <1>5, <1>8, PartIsPlan
  <1>10. CommandOK(cli')
    <2>1. ManifestOK(cli'.mem, cli'.key)
      BY <1>5 DEF ManifestOK
    <2>2. /\ cli.force \in BOOLEAN /\ cli.sforce \in BOOLEAN /\ ManifestOK(cli.old, cli.key)
          /\ ConfOK(cli.from)
      BY <1>1 DEF CommandOK
    <2>3. cli'.op \in Ops
      BY <1>5 DEF Ops
    <2> QED
      BY <1>1, <1>4, <1>5, <1>9, <2>1, <2>2, <2>3 DEF CommandOK
  <1>11. cli' # Idle
    <2>1. Idle.op = "idle"
      BY DEF Idle
    <2> QED
      BY <1>5, <2>1
  <1>12. /\ DOMAIN files' = File /\ files' = [f \in File |-> files'[f]]
         /\ \A f \in File : files'[f] = IF f \in DOMAIN mem THEN NoFile ELSE files[f]
    BY <1>2 DEF Rollback, Uninstall
  <1>13. /\ manifest' = [manifest EXCEPT ![cli.key] = NoManifest]
         /\ ctx' = [ctx EXCEPT ![cli.key] = RemoveSection(cli.key \in Mdc, @)]
         /\ lost' = IF At("saveshared") THEN lost \cup {<<"shared", "rollback">>} ELSE lost
         /\ UNCHANGED <<shared, conf, initopt, version, ops, edits, stopped>>
    BY <1>2 DEF Rollback
  <1>14. RollsBack(mem, new, anew)
    BY <1>1, <1>2, <1>5, <1>7, <1>10, <1>11, <1>12, <1>13 DEF RollsBack
  <1> QED
    BY <1>14

(* What a rollback has ahead.                                               *)
LEMMA RollbackAhead ==
  ASSUME NEW mem, NEW new, NEW anew, RollsBack(mem, new, anew)
  PROVE  /\ Goal' = new /\ ConfOK(new)
         /\ \A do : Todo(do)' <=> do = "json" \/ (anew /\ do \in {"shared", "saveshared", "opts"})
         /\ LastOf(cli'.todo, "json").conf = new
         /\ anew => /\ LastOf(cli'.todo, "opts").key = new.default
                    /\ LastOf(cli'.todo, "shared").refresh
                    /\ Sep[LastOf(cli'.todo, "shared").key][LastOf(cli'.todo, "shared").opt] = Dialect(new)
  <1>1. IsRestore(cli', cli'.todo, new, anew) /\ cli' # Idle
    BY DEF RollsBack, IsRollback
  <1>2. /\ \A do : Pending(cli'.todo, do)
             <=> do = "json" \/ (anew /\ do \in {"shared", "saveshared", "opts"})
        /\ ConfOK(new) /\ LastOf(cli'.todo, "json").conf = new
        /\ anew => /\ LastOf(cli'.todo, "opts").key = new.default
                   /\ LastOf(cli'.todo, "shared").refresh
                   /\ Sep[LastOf(cli'.todo, "shared").key][LastOf(cli'.todo, "shared").opt] = Dialect(new)
    BY <1>1 DEF IsRestore
  <1>3. \A do : Todo(do)' <=> Pending(cli'.todo, do)
    BY <1>1 DEF Todo
  <1>4. Target(cli'.todo, conf') = new
    BY <1>2 DEF Target
  <1>5. Goal' = new
    BY <1>1, <1>4 DEF Goal
  <1> QED
    BY <1>2, <1>3, <1>5

(* A rollback keeps the types.                                              *)
LEMMA RaiseType ==
  ASSUME TypeOK, NEW mem, NEW new, NEW anew, RollsBack(mem, new, anew)
  PROVE  TypeOK' /\ RunOK'
  <1>1. \A do : Todo(do)' <=> do = "json" \/ (anew /\ do \in {"shared", "saveshared", "opts"})
    BY RollbackAhead
  <1>2. /\ cli'.op = "rollback" /\ cli'.mem = NoManifest /\ cli.key \in Integration
        /\ CommandOK(cli') /\ DOMAIN files' = File /\ files' = [f \in File |-> files'[f]]
        /\ manifest' = [manifest EXCEPT ![cli.key] = NoManifest]
        /\ ctx' = [ctx EXCEPT ![cli.key] = RemoveSection(cli.key \in Mdc, @)]
        /\ UNCHANGED <<shared, conf, initopt, version, ops, edits, stopped>>
    BY DEF RollsBack
  <1>3. ctx' \in [Integration -> Seq(Piece)]
    <2>1. ctx \in [Integration -> Seq(Piece)] /\ RemoveSection(cli.key \in Mdc, ctx[cli.key]) \in Seq(Piece)
      BY <1>2, ContextOpsType DEF TypeOK
    <2> QED
      BY <1>2, <2>1
  <1>4. /\ DOMAIN manifest' = Integration /\ manifest' = [k \in Integration |-> manifest'[k]]
        /\ \A k \in Integration : ManifestOK(manifest'[k], k)
    BY <1>2 DEF TypeOK, ManifestOK
  <1>5. TypeOK'
    BY <1>2, <1>3, <1>4 DEF TypeOK
  <1>6. RunOK'
    BY <1>1, <1>2 DEF RunOK
  <1> QED
    BY <1>5, <1>6

-----------------------------------------------------------------------------
(* The types, and what a command counts on, hold always. *)

(* The initial state.                                                       *)
LEMMA InitType ==
  ASSUME Init
  PROVE  TypeOK /\ RunOK
  <1>1. SharedOK(shared)
    BY DEF Init, NoShared, SharedOK
  <1>2. ConfOK(conf)
    BY NoConfOK DEF Init
  <1>3. version \in Version
    BY IntegrationsAssumption DEF Init, Version
  <1>4. ctx \in [Integration -> Seq(Piece)]
    <2>1. Context \in [Integration -> Seq(Text)] /\ Text \subseteq Piece
      BY IntegrationsAssumption DEF Piece
    <2>2. Seq(Text) \subseteq Seq(Piece)
      BY <2>1, SeqMonotonic
    <2> QED
      BY <2>1, <2>2 DEF Init
  <1>5. \A k \in Integration : ManifestOK(manifest[k], k)
    BY DEF Init, ManifestOK
  <1> QED
    BY <1>1, <1>2, <1>3, <1>4, <1>5 DEF Init, TypeOK, RunOK

(* Every step.                                                              *)
LEMMA StepType ==
  ASSUME TypeOK, RunOK, [Next]_vars
  PROVE  TypeOK' /\ RunOK'
  <1>1. CASE WriteSharedFiles
    BY <1>1, WriteSharedType
  <1>2. CASE SaveShared \/ WriteJson \/ UpdateOpts \/ ClearOpts
    BY <1>2, QuietType
  <1>3. CASE SetUp
    BY <1>3, SetUpType
  <1>4. CASE SaveManifest
    BY <1>4, SaveManifestType
  <1>5. CASE TearDown
    BY <1>5, TearDownType
  <1>6. CASE RemoveStale
    BY <1>6, StaleType
  <1>7. CASE Raise
    BY <1>7, RaiseIs, RaiseType
  <1>8. CASE Commands
    BY <1>8, CommandsStart, StartType
  <1>9. CASE Stop \/ Users \/ UNCHANGED vars
    BY <1>9, OutsideType
  <1> QED
    BY <1>1, <1>2, <1>3, <1>4, <1>5, <1>6, <1>7, <1>8, <1>9 DEF Next, Steps

(* The types of the state, and what a command has done so far, hold always, *)
(* also after a command was killed: a plan is well ordered, a manifest      *)
(* records only files of its integration with text that Spec Kit wrote, and *)
(* what a command holds in memory is what it wrote.                         *)
THEOREM IntegrationsTyped == Spec => [](TypeOK /\ RunOK)
  <1>1. Init => TypeOK /\ RunOK
    BY InitType
  <1>2. TypeOK /\ RunOK /\ [Next]_vars => TypeOK' /\ RunOK'
    BY StepType
  <1> QED
    BY <1>1, <1>2, PTL DEF Spec

-----------------------------------------------------------------------------
(* What every step of a command keeps, as long as no command was killed. *)

\* A step of a command is taken, after which its manifest in memory is m.
Stepped(m) ==
  /\ CommandOK(cli) /\ cli # Idle /\ cli.key \in Integration /\ StepOK(cli, Step)
  /\ cli' # Idle => /\ cli'.op = cli.op /\ cli'.key = cli.key /\ cli'.mem = m /\ cli'.old = cli.old
                    /\ cli'.from = cli.from /\ Kept(cli)' = Kept(cli)
  /\ \A do : Todo(do) <=> Step.do = do \/ Todo(do)'
  /\ ~Todo("teardown")'
  /\ Step.do = "manifest" => ~Todo("manifest")' /\ ~Todo("setup")
  /\ Step.do \in {"clear", "setup"} => ~Todo("clear")'
  /\ Step.do = "opts" /\ cli.op = "switch" => ~Todo("clear")'
  /\ Step.do = "json" /\ cli.op = "install" => ~Todo("json")'
  /\ Step.do = "shared" <=> At("saveshared")'
  /\ Step.do = "opts" /\ cli' # Idle => cli.op # "install" /\ ~(cli.op = "switch" /\ Kept(cli) = {})
  /\ Step.do \in {"shared", "saveshared"} /\ Todo("shared")' => LastOf(cli.todo, "shared").refresh
  /\ Step.do = "teardown" /\ Todo("json")' => Step.key \notin Keys(Goal)
  /\ Goal' = Goal /\ GoalOpt' = GoalOpt
  /\ \A do : do # "saveshared" /\ Todo(do)' => LastOf(cli'.todo, do) = LastOf(cli.todo, do)
  /\ \A do : Step.do = do /\ ~Todo(do)' => LastOf(cli.todo, do) = Step
  /\ conf' = IF Step.do = "json" THEN Step.conf ELSE conf
  /\ initopt' = IF Step.do = "opts" THEN Step.key
                ELSE IF Step.do = "clear" /\ initopt = Step.key THEN None ELSE initopt
  /\ UNCHANGED <<version, ops, edits, stopped>>
  /\ lost \subseteq lost'
  /\ \A k : Gone(k) => Gone(k)'

(* What a step keeps, whatever it does.                                     *)
LEMMA SteppedIs ==
  ASSUME TypeOK, RunOK, cli # Idle, NEW r, Rest(cli, r), NEW m, ManifestOK(m, cli.key),
         cli' = Continue(cli, r, m),
         conf' = IF Step.do = "json" THEN Step.conf ELSE conf,
         initopt' = IF Step.do = "opts" THEN Step.key
                    ELSE IF Step.do = "clear" /\ initopt = Step.key THEN None ELSE initopt,
         UNCHANGED <<version, ops, edits, stopped>>, lost \subseteq lost',
         Step.do = "json" /\ cli.op = "init" => \A k \in InstalledKeys : <<k, "init">> \in lost'
  PROVE  Stepped(m)
  <1>1. CommandOK(cli) /\ cli.key \in Integration
    BY DEF TypeOK, CommandOK
  <1>2. /\ cli' # Idle => /\ cli'.op = cli.op /\ cli'.key = cli.key /\ cli'.mem = m
                          /\ cli'.old = cli.old /\ cli'.from = cli.from /\ Kept(cli)' = Kept(cli)
                          /\ cli'.todo = r
        /\ \A do : Todo(do)' <=> Pending(r, do)
        /\ Goal' = Goal /\ GoalOpt' = GoalOpt
    BY <1>1, AfterStep
  <1>3. /\ StepOK(cli, Step) /\ \A do : Todo(do) <=> Step.do = do \/ Todo(do)'
        /\ ~Todo("teardown")'
        /\ Step.do = "manifest" => ~Todo("setup")' /\ ~Todo("manifest")'
        /\ Step.do \in {"clear", "setup"} => ~Todo("clear")'
        /\ Step.do = "opts" /\ cli.op = "switch" => ~Todo("clear")'
        /\ Step.do = "json" /\ cli.op = "install" => ~Todo("json")'
        /\ Step.do = "shared" => At("saveshared")'
        /\ Step.do # "shared" => ~At("saveshared")'
    BY <1>1, Order
  <1>4. Step.do = "manifest" => ~Todo("setup")
    BY <1>3
  <1>5. /\ \A do : Pending(r, do) /\ do # "saveshared" =>
             /\ LastOf(r, do) = LastOf(cli.todo, do) /\ LastOf(r, do).do = do
             /\ Precedes(cli, Step, LastOf(r, do))
        /\ \A do : Step.do = do /\ ~Pending(r, do) => LastOf(cli.todo, do) = Step
        /\ Step = cli.todo[1]
        /\ r = <<>> => \A do : ~Pending(r, do)
    BY <1>1, NextStep
  <1>6. \A do : Pending(r, do) => cli' # Idle
    BY <1>2 DEF Todo
  <1>7. \A do : do # "saveshared" /\ Todo(do)' => LastOf(cli'.todo, do) = LastOf(cli.todo, do)
    BY <1>2, <1>5, <1>6
  <1>8. Step.do \in {"shared", "saveshared"} /\ Todo("shared")' => LastOf(cli.todo, "shared").refresh
    BY <1>2, <1>5 DEF Precedes
  <1>9. Step.do = "teardown" /\ Todo("json")' => Step.key \notin Keys(Goal)
    <2>1. SUFFICES ASSUME Step.do = "teardown", Todo("json")' PROVE Step.key \notin Keys(Goal)
      OBVIOUS
    <2>2. Pending(r, "json") /\ Todo("json")
      BY <1>2, <1>3, <2>1
    <2>3. Step.key \notin Keys(LastOf(r, "json").conf)
      BY <1>5, <2>1, <2>2 DEF Precedes
    <2>4. Goal = LastOf(r, "json").conf
      BY <1>5, <2>2 DEF Goal, Target, Todo
    <2> QED
      BY <2>3, <2>4
  <1>10. Step.do = "opts" /\ cli' # Idle => cli.op # "install" /\ ~(cli.op = "switch" /\ Kept(cli) = {})
    <2>1. SUFFICES ASSUME Step.do = "opts", cli' # Idle
                   PROVE  cli.op # "install" /\ ~(cli.op = "switch" /\ Kept(cli) = {})
      OBVIOUS
    <2>2. r # <<>>
      BY <2>1 DEF Continue
    <2>3. 1 \in DOMAIN r
      <3>1. IsPlan(r)
        BY DEF Rest
      <3> QED
        BY <2>2, <3>1, PlanFacts
    <2>4. Precedes(cli, Step, r[1])
      BY <1>1, <1>5, <2>3, FirstPrecedes
    <2> QED
      BY <2>1, <2>4 DEF Precedes
  <1>11. lost \subseteq lost'
    OBVIOUS
  <1>12. \A k : Gone(k) => Gone(k)'
    <2>1. SUFFICES ASSUME NEW k, Gone(k) PROVE Gone(k)'
      OBVIOUS
    <2>2. CASE Dropped(k)
      BY <1>11, <2>2 DEF Gone, Dropped
    <2>3. CASE Todo("json") /\ cli.op = "init" /\ k \in InstalledKeys
      <3>1. CASE Step.do = "json"
        BY <2>3, <3>1 DEF Gone, Dropped
      <3>2. CASE Step.do # "json"
        <4>1. Todo("json")' /\ conf' = conf
          BY <1>3, <2>3, <3>2
        <4>2. cli' # Idle
          BY <4>1 DEF Todo
        <4> QED
          BY <1>2, <2>3, <4>1, <4>2 DEF Gone, InstalledKeys
      <3> QED
        BY <3>1, <3>2
    <2> QED
      BY <2>1, <2>2, <2>3 DEF Gone
  <1> QED
    BY <1>1, <1>2, <1>3, <1>4, <1>5, <1>7, <1>8, <1>9, <1>10, <1>11, <1>12 DEF Stepped

(* Every step but setup leaves the manifest in memory.                      *)
LEMMA PlainStepped ==
  ASSUME TypeOK, RunOK,
         \/ WriteSharedFiles \/ SaveShared \/ WriteJson \/ UpdateOpts \/ ClearOpts
         \/ SaveManifest \/ TearDown \/ RemoveStale
  PROVE  Stepped(cli.mem)
  <1>1. CASE WriteSharedFiles
    <2>1. PICK r : /\ CommandOK(cli) /\ cli # Idle /\ Rest(cli, r) /\ cli' = Continue(cli, r, cli.mem)
                   /\ Step.do = "shared" /\ ManifestOK(cli.mem, cli.key)
      BY <1>1, WriteSharedIs
    <2>2. UNCHANGED <<conf, initopt, version, ops, edits, stopped, lost>>
      BY <1>1 DEF WriteSharedFiles
    <2> QED
      BY <2>1, <2>2, SteppedIs
  <1>2. CASE ~WriteSharedFiles
    <2>1. PICK do : /\ At(do) /\ cli' = Advance(cli)
                    /\ do \in {"saveshared", "json", "opts", "clear", "manifest", "teardown", "stale"}
                    /\ conf' = IF do = "json" THEN Step.conf ELSE conf
                    /\ initopt' = IF do = "opts" THEN Step.key
                                  ELSE IF do = "clear" /\ initopt = Step.key THEN None ELSE initopt
                    /\ do = "json" => lost' = lost \cup Forgotten
                    /\ lost \subseteq lost'
                    /\ UNCHANGED <<version, ops, edits, stopped>>
      <3>1. CASE SaveShared \/ SaveManifest \/ TearDown
        BY <3>1 DEF SaveShared, SaveManifest, TearDown
      <3>2. CASE WriteJson
        BY <3>2 DEF WriteJson
      <3>3. CASE UpdateOpts
        BY <3>3 DEF UpdateOpts
      <3>4. CASE ClearOpts
        BY <3>4 DEF ClearOpts
      <3>5. CASE RemoveStale
        <4>1. lost \subseteq lost'
          BY <3>5 DEF RemoveStale
        <4>2. At("stale") /\ cli' = Advance(cli) /\ UNCHANGED <<conf, initopt, version, ops, edits, stopped>>
          BY <3>5 DEF RemoveStale
        <4> QED
          BY <4>1, <4>2
      <3> QED
        BY <1>2, <3>1, <3>2, <3>3, <3>4, <3>5
    <2>2. do # "shared"
      BY <2>1
    <2>3. PICK r : /\ CommandOK(cli) /\ cli # Idle /\ Step.do = do /\ Rest(cli, r)
                   /\ cli' = Continue(cli, r, cli.mem) /\ ManifestOK(cli.mem, cli.key)
      BY <2>1, <2>2, StepIs
    <2>4. Step.do = "json" /\ cli.op = "init" => \A k \in InstalledKeys : <<k, "init">> \in lost'
      BY <2>1, <2>3 DEF Forgotten
    <2>5. /\ conf' = IF Step.do = "json" THEN Step.conf ELSE conf
          /\ initopt' = IF Step.do = "opts" THEN Step.key
                        ELSE IF Step.do = "clear" /\ initopt = Step.key THEN None ELSE initopt
          /\ lost \subseteq lost' /\ UNCHANGED <<version, ops, edits, stopped>>
      BY <2>1, <2>3
    <2> QED
      BY <2>3, <2>4, <2>5, SteppedIs
  <1> QED
    BY <1>1, <1>2

(* setup is a step.                                                         *)
LEMMA SetUpStepped ==
  ASSUME TypeOK, RunOK, SetUp
  PROVE  Stepped(Record(Files(cli.key, Step.opt)))
  <1>1. PICK r, m : /\ cli # Idle /\ Step.do = "setup" /\ Rest(cli, r)
                    /\ m = Record(Files(cli.key, Step.opt))
                    /\ cli' = Continue(cli, r, m) /\ ManifestOK(m, cli.key)
    BY SetUpIs
  <1>2. UNCHANGED <<conf, initopt, version, ops, edits, stopped, lost>>
    BY DEF SetUp
  <1>3. Stepped(m)
    BY <1>1, <1>2, SteppedIs
  <1> QED
    BY <1>1, <1>3

(* Steps that touch no manifest file keep ManifestsOK.                      *)
LEMMA ManifestsStep ==
  ASSUME RunOK, ManifestsOK, NEW m, Stepped(m), manifest' = manifest,
         Step.do # "teardown", Step.do # "manifest",
         m = cli.mem \/ Todo("manifest")'
  PROVE  ManifestsOK'
  <1>1. /\ Goal' = Goal /\ \A do : Todo(do) <=> Step.do = do \/ Todo(do)'
        /\ ~Todo("teardown")'
        /\ cli' # Idle => /\ cli'.op = cli.op /\ cli'.key = cli.key /\ cli'.mem = m
                          /\ Kept(cli)' = Kept(cli)
        /\ cli # Idle
    BY DEF Stepped
  <1>2. (\A k : Untold(k) => Untold(k)') /\ \A k : Gone(k) => Gone(k)'
    BY DEF Stepped, Untold
  <1>3. /\ Todo("manifest") <=> Todo("manifest")'
        /\ ~Todo("teardown")
    BY <1>1
  <1>4. \A do : Todo(do)' => cli' # Idle
    BY DEF Todo
  <1>5. \A k : Has(k)' <=> Has(k)
    BY DEF Has
  <1>6. \A k \in Keys(Goal') : Has(k)' \/ Untold(k)' \/ (Todo("manifest")' /\ k = cli'.key)
    BY <1>1, <1>2, <1>3, <1>4, <1>5 DEF ManifestsOK
  <1>7. \A k \in Integration : Has(k)' /\ ~Gone(k)' =>
          k \in Keys(Goal') \/ (Todo("teardown")' /\ k = Step'.key)
    BY <1>1, <1>2, <1>3, <1>5 DEF ManifestsOK
  <1>8. Todo("manifest")' =>
          /\ cli'.key \in Keys(Goal')
          /\ cli'.op # "upgrade" /\ Has(cli.key)' => Gone(cli.key)'
    BY <1>1, <1>2, <1>3, <1>4, <1>5 DEF ManifestsOK
  <1>9. cli' # Idle /\ cli'.mem # NoManifest /\ ~Todo("manifest")' => manifest'[cli'.key] = cli'.mem
    BY <1>1, <1>3 DEF ManifestsOK
  <1>10. cli' # Idle /\ cli'.op \in {"install", "switch"} =>
          cli'.key \notin Kept(cli)' /\ Keys(Goal') = Kept(cli)' \cup {cli'.key}
    BY <1>1 DEF ManifestsOK
  <1> QED
    BY <1>1, <1>6, <1>7, <1>8, <1>9, <1>10 DEF ManifestsOK, Keys

(* The integrations of the goal.                                            *)
LEMMA GoalKeys ==
  ASSUME TypeOK
  PROVE  ConfOK(Goal) /\ Keys(Goal) \subseteq Integration
  <1>1. ConfOK(Goal)
    <2>1. CASE cli = Idle \/ ~Pending(cli.todo, "json")
      BY <2>1 DEF Goal, Target, TypeOK
    <2>2. CASE cli # Idle /\ Pending(cli.todo, "json")
      <3>1. CommandOK(cli)
        BY <2>2 DEF TypeOK
      <3>2. IsPlan(cli.todo) /\ \A i \in DOMAIN cli.todo : StepOK(cli, cli.todo[i])
        BY <3>1 DEF CommandOK, PlanOK
      <3>3. PICK i \in DOMAIN cli.todo : LastOf(cli.todo, "json") = cli.todo[i] /\ cli.todo[i].do = "json"
        BY <2>2, <3>2, LastStep DEF LastOf
      <3>4. ConfOK(LastOf(cli.todo, "json").conf)
        BY <3>2, <3>3 DEF StepOK
      <3> QED
        BY <2>2, <3>4 DEF Goal, Target
    <2> QED
      BY <2>1, <2>2
  <1>2. Keys(Goal) \subseteq Integration
    BY <1>1, ConfFacts
  <1> QED
    BY <1>1, <1>2

(* A manifest is saved: its integration has one.                            *)
LEMMA ManifestsSaved ==
  ASSUME TypeOK, RunOK, ManifestsOK, Stepped(cli.mem), SaveManifest
  PROVE  ManifestsOK'
  <1>1. Step.do = "manifest" /\ cli # Idle /\ cli.key \in Integration /\ Step.key = cli.key
    BY DEF Stepped, SaveManifest, At, Step, StepOK
  <1>2. /\ Goal' = Goal /\ \A do : Todo(do) <=> Step.do = do \/ Todo(do)'
        /\ ~Todo("teardown")' /\ ~Todo("manifest")' /\ ~Todo("setup")
        /\ cli' # Idle => /\ cli'.op = cli.op /\ cli'.key = cli.key /\ cli'.mem = cli.mem
                          /\ Kept(cli)' = Kept(cli)
    BY <1>1 DEF Stepped
  <1>3. (\A k : Untold(k) => Untold(k)') /\ \A k : Gone(k) => Gone(k)'
    BY DEF Stepped, Untold
  <1>4. Todo("manifest") /\ ~Todo("teardown")
    BY <1>1, <1>2
  <1>5. cli.mem # NoManifest
    BY <1>1, <1>2, <1>4 DEF RunOK
  <1>6. /\ manifest'[cli.key] = cli.mem
        /\ \A k \in Integration : k # cli.key => manifest'[k] = manifest[k]
    BY <1>1 DEF SaveManifest, TypeOK
  <1>7. /\ \A k \in Integration : k # cli.key => (Has(k)' <=> Has(k))
        /\ \A k : k = cli.key => Has(k)'
    BY <1>5, <1>6 DEF Has
  <1>8. Keys(Goal) \subseteq Integration
    BY GoalKeys
  <1>9. \A k \in Keys(Goal') : Has(k)' \/ Untold(k)' \/ (Todo("manifest")' /\ k = cli'.key)
    BY <1>2, <1>3, <1>7, <1>8 DEF ManifestsOK
  <1>10. \A k \in Integration : Has(k)' /\ ~Gone(k)' =>
          k \in Keys(Goal') \/ (Todo("teardown")' /\ k = Step'.key)
    BY <1>2, <1>3, <1>4, <1>7 DEF ManifestsOK
  <1>11. cli' # Idle /\ cli'.mem # NoManifest /\ ~Todo("manifest")' => manifest'[cli'.key] = cli'.mem
    BY <1>2, <1>6
  <1>12. cli' # Idle /\ cli'.op \in {"install", "switch"} =>
          cli'.key \notin Kept(cli)' /\ Keys(Goal') = Kept(cli)' \cup {cli'.key}
    BY <1>1, <1>2 DEF ManifestsOK
  <1> QED
    BY <1>2, <1>9, <1>10, <1>11, <1>12 DEF ManifestsOK, Keys

(* teardown removes the manifest of an integration that goes.               *)
LEMMA ManifestsTornDown ==
  ASSUME TypeOK, RunOK, ManifestsOK, Stepped(cli.mem), TearDown
  PROVE  ManifestsOK'
  <1>1. Step.do = "teardown" /\ cli # Idle /\ Step.key \in Integration
    BY DEF Stepped, TearDown, At, Step, StepOK
  <1>2. /\ Goal' = Goal /\ \A do : Todo(do) <=> Step.do = do \/ Todo(do)'
        /\ ~Todo("teardown")'
        /\ cli' # Idle => /\ cli'.op = cli.op /\ cli'.key = cli.key /\ cli'.mem = cli.mem
                          /\ Kept(cli)' = Kept(cli)
        /\ Todo("json")' => Step.key \notin Keys(Goal)
    BY <1>1 DEF Stepped
  <1>3. (\A k : Untold(k) => Untold(k)') /\ \A k : Gone(k) => Gone(k)'
    BY DEF Stepped, Untold
  <1>4. Todo("teardown") /\ (Todo("manifest") <=> Todo("manifest")')
    BY <1>1, <1>2
  <1>5. Step.key \notin Keys(Goal)
    <2>1. Todo("json")
      BY <1>4 DEF ManifestsOK
    <2> QED
      BY <1>1, <1>2, <2>1
  <1>6. cli.mem = NoManifest
    BY <1>1, <1>4 DEF RunOK
  <1>7. /\ manifest'[Step.key] = NoManifest
        /\ \A k \in Integration : k # Step.key => manifest'[k] = manifest[k]
    BY <1>1 DEF TearDown, TypeOK
  <1>8. /\ \A k \in Integration : k # Step.key => (Has(k)' <=> Has(k))
        /\ \A k : k = Step.key => ~Has(k)'
    BY <1>7 DEF Has
  <1>9. Keys(Goal) \subseteq Integration
    BY GoalKeys
  <1>10. \A do : Todo(do)' => cli' # Idle
    BY DEF Todo
  <1>11. \A k \in Keys(Goal') : Has(k)' \/ Untold(k)' \/ (Todo("manifest")' /\ k = cli'.key)
    BY <1>2, <1>3, <1>4, <1>5, <1>8, <1>9, <1>10 DEF ManifestsOK
  <1>12. \A k \in Integration : Has(k)' /\ ~Gone(k)' =>
          k \in Keys(Goal') \/ (Todo("teardown")' /\ k = Step'.key)
    BY <1>2, <1>3, <1>8 DEF ManifestsOK
  <1>13. Todo("manifest")' => cli'.key \in Keys(Goal') /\ (cli'.op # "upgrade" /\ Has(cli.key)' => Gone(cli.key)')
    <2>1. SUFFICES ASSUME Todo("manifest")'
                   PROVE  cli'.key \in Keys(Goal') /\ (cli'.op # "upgrade" /\ Has(cli.key)' => Gone(cli.key)')
      OBVIOUS
    <2>2. PICK k : k = cli.key
      OBVIOUS
    <2>3. k \in Keys(Goal) /\ (cli.op # "upgrade" /\ Has(k) => Gone(k))
      BY <1>4, <2>1, <2>2 DEF ManifestsOK
    <2>4. k \in Integration /\ k # Step.key
      BY <1>5, <1>9, <2>3
    <2>5. cli.op # "upgrade" /\ Has(k)' => Gone(k)'
      BY <1>3, <1>8, <2>3, <2>4
    <2>6. cli'.key = k /\ cli'.op = cli.op
      BY <1>2, <1>10, <2>1, <2>2
    <2> QED
      BY <1>2, <2>3, <2>5, <2>6 DEF Has, Gone, Dropped
  <1>14. cli' # Idle /\ cli'.op \in {"install", "switch"} =>
          cli'.key \notin Kept(cli)' /\ Keys(Goal') = Kept(cli)' \cup {cli'.key}
    BY <1>1, <1>2 DEF ManifestsOK
  <1> QED
    BY <1>2, <1>6, <1>11, <1>12, <1>13, <1>14 DEF ManifestsOK, Keys

(* The stale files of an upgrade go, and with them the manifest.            *)
LEMMA ManifestsStale ==
  ASSUME TypeOK, RunOK, ManifestsOK, Stepped(cli.mem), RemoveStale
  PROVE  ManifestsOK'
  <1>1. /\ Step.do = "stale" /\ cli' = Idle /\ cli.key \in Integration
        /\ \A do : Todo(do) <=> do = "stale"
        /\ DOMAIN StaleFiles = {} => UNCHANGED <<files, manifest, lost>>
        /\ DOMAIN StaleFiles # {} => /\ manifest' = [manifest EXCEPT ![cli.key] = NoManifest]
                                     /\ lost' = lost \cup {<<cli.key, "upgrade">>} \cup {<<f, "left">> : f \in DOMAIN cli.mem}
    BY StaleIs
  <1>2. CASE DOMAIN StaleFiles = {}
    <2>1. manifest' = manifest /\ Step.do # "teardown" /\ Step.do # "manifest"
      BY <1>1, <1>2
    <2> QED
      BY <2>1, ManifestsStep
  <1>3. CASE DOMAIN StaleFiles # {}
    <2>1. Goal' = Goal /\ (\A k : Untold(k) => Untold(k)') /\ \A k : Gone(k) => Gone(k)'
      BY DEF Stepped, Untold
    <2>2. \A k : k = cli.key => Untold(k)'
      BY <1>1, <1>3 DEF Untold
    <2>3. \A do : ~Todo(do)'
      BY <1>1 DEF Todo
    <2>4. /\ \A k \in Integration : k # cli.key => (Has(k)' <=> Has(k))
          /\ \A k \in Integration : k = cli.key => ~Has(k)'
      BY <1>1, <1>3 DEF Has, TypeOK
    <2>5. ~Todo("manifest") /\ ~Todo("teardown")
      BY <1>1
    <2>6. \A k \in Keys(Goal') : Has(k)' \/ Untold(k)' \/ (Todo("manifest")' /\ k = cli'.key)
      BY <2>1, <2>2, <2>4, <2>5, GoalKeys DEF ManifestsOK
    <2>7. \A k \in Integration : Has(k)' /\ ~Gone(k)' =>
            k \in Keys(Goal') \/ (Todo("teardown")' /\ k = Step'.key)
      BY <2>1, <2>4, <2>5 DEF ManifestsOK
    <2> QED
      BY <1>1, <2>3, <2>6, <2>7 DEF ManifestsOK, Keys
  <1> QED
    BY <1>2, <1>3

(* There is no teardown ahead when a command fails.                         *)
LEMMA NoTeardownAhead ==
  ASSUME TypeOK, RunOK, cli # Idle, At("setup") \/ cli.mem # NoManifest
  PROVE  ~Todo("teardown")
  <1>1. CASE At("setup")
    <2>1. "setup" # "shared"
      OBVIOUS
    <2>2. CommandOK(cli) /\ Step.do = "setup" /\ Rest(cli, Tail(cli.todo))
      BY <1>1, <2>1, StepIs
    <2>3. PICK r : r = Tail(cli.todo)
      OBVIOUS
    <2>4. /\ \A do : Todo(do) <=> Step.do = do \/ Pending(r, do)
          /\ \A do : Pending(r, do) => \E b : b.do = do /\ StepOK(cli, b) /\ Precedes(cli, Step, b)
      BY <2>2, <2>3, NextStep
    <2>5. ~Pending(r, "teardown")
      BY <2>4 DEF Precedes
    <2> QED
      BY <2>2, <2>4, <2>5
  <1>2. CASE cli.mem # NoManifest
    BY <1>2 DEF RunOK
  <1> QED
    BY <1>1, <1>2

(* A rollback leaves what was there before, without the integration.        *)
LEMMA ManifestsRolledBack ==
  ASSUME TypeOK, RunOK, ManifestsOK, NEW mem, NEW new, NEW anew, RollsBack(mem, new, anew)
  PROVE  ManifestsOK'
  <1>1. /\ cli # Idle /\ cli.op \in {"install", "switch"} /\ cli.key \in Integration
        /\ cli' # Idle /\ cli'.op = "rollback" /\ cli'.key = cli.key /\ cli'.mem = NoManifest
        /\ IsRollback(cli, cli', cli'.todo, new, anew)
        /\ mem # NoManifest /\ (At("setup") \/ mem = cli.mem)
        /\ manifest' = [manifest EXCEPT ![cli.key] = NoManifest]
        /\ lost \subseteq lost' /\ conf' = conf
    BY DEF RollsBack
  <1>2. /\ Goal' = new
        /\ \A do : Todo(do)' <=> do = "json" \/ (anew /\ do \in {"shared", "saveshared", "opts"})
    BY RollbackAhead
  <1>3. Todo("json")' /\ ~Todo("manifest")' /\ ~Todo("teardown")'
    BY <1>2
  <1>4. Keys(new) = Kept(cli)
    BY <1>1 DEF IsRollback
  <1>5. cli.key \notin Kept(cli) /\ Keys(Goal) = Kept(cli) \cup {cli.key}
    BY <1>1 DEF ManifestsOK
  <1>6. ~Todo("teardown")
    BY <1>1, NoTeardownAhead
  <1>7. /\ \A k \in Integration : k # cli.key => (Has(k)' <=> Has(k))
        /\ \A k \in Integration : k = cli.key => ~Has(k)'
    BY <1>1 DEF Has, TypeOK
  <1>8. \A k : Untold(k) => Untold(k)'
    BY <1>1 DEF Untold
  <1>9. \A k : Gone(k) => Gone(k)'
    BY <1>1 DEF Gone, Dropped
  <1>10. Keys(Goal) \subseteq Integration
    BY GoalKeys
  <1>11. \A k \in Keys(Goal') : Has(k)' \/ Untold(k)' \/ (Todo("manifest")' /\ k = cli'.key)
    BY <1>2, <1>4, <1>5, <1>7, <1>8, <1>10 DEF ManifestsOK
  <1>12. \A k \in Integration : Has(k)' /\ ~Gone(k)' =>
          k \in Keys(Goal') \/ (Todo("teardown")' /\ k = Step'.key)
    BY <1>2, <1>4, <1>5, <1>6, <1>7, <1>9 DEF ManifestsOK
  <1> QED
    BY <1>1, <1>3, <1>11, <1>12 DEF ManifestsOK, Keys

(* A command starts.                                                        *)
LEMMA ManifestsStart ==
  ASSUME TypeOK, ManifestsOK, NEW D, NEW new, Started(D, new)
  PROVE  ManifestsOK'
  <1>1. /\ cli' # Idle /\ Goal' = new /\ \A do : Todo(do)' <=> do \in D
        /\ "json" \in D /\ CommandOK(cli')
    BY StartedIs
  <1>2. /\ cli = Idle /\ UNCHANGED <<manifest, conf, lost>> /\ cli'.mem = NoManifest
        /\ KeysFit(cli', D, new) /\ cli'.from = conf /\ cli'.key \in Integration
    BY DEF Started, Starts
  <1>3. Step' = cli'.todo[1]
    <2>1. IsPlan(cli'.todo) /\ cli'.todo # <<>>
      BY <1>1 DEF CommandOK, PlanOK
    <2> QED
      BY <2>1, PlanFacts DEF Step
  <1>4. Goal = conf /\ \A do : ~Todo(do)
    BY <1>2 DEF Goal, Todo
  <1>5. /\ (\A k : Gone(k) <=> Dropped(k)) /\ \A k : Dropped(k)' <=> Dropped(k)
        /\ \A k : Untold(k)' <=> Untold(k)
    BY <1>2, <1>4 DEF Gone, Dropped, Untold
  <1>6. \A k : Has(k)' <=> Has(k)
    BY <1>2 DEF Has
  <1>7. \A k : Gone(k)' <=> Dropped(k) \/ (cli'.op = "init" /\ k \in Keys(conf))
    BY <1>1, <1>2, <1>5 DEF Gone, Keys, InstalledKeys
  <1>8. /\ \A k \in Keys(conf) : Has(k) \/ Untold(k)
        /\ \A k \in Integration : Has(k) /\ ~Dropped(k) => k \in Keys(conf)
    BY <1>4, <1>5 DEF ManifestsOK
  <1>9. /\ \A k \in Keys(new) : k \in Keys(conf) \/ ("manifest" \in D /\ k = cli'.key)
        /\ \A k \in Keys(conf) : \/ k \in Keys(new) \/ ~Has(k)' \/ cli'.op = "init"
                                 \/ ("teardown" \in D /\ k = cli'.todo[1].key)
        /\ "manifest" \in D => cli'.key \in Keys(new) /\ (cli'.key \in Keys(conf) => cli'.op \in {"upgrade", "init"})
        /\ cli'.op \in {"install", "switch"} => cli'.key \notin Kept(cli') /\ Keys(new) = Kept(cli') \cup {cli'.key}
    BY <1>2, <1>6 DEF KeysFit
  <1>10. \A k \in Keys(Goal') : Has(k)' \/ Untold(k)' \/ (Todo("manifest")' /\ k = cli'.key)
    BY <1>1, <1>5, <1>6, <1>8, <1>9
  <1>11. \A k \in Integration : Has(k)' /\ ~Gone(k)' =>
          k \in Keys(Goal') \/ (Todo("teardown")' /\ k = Step'.key)
    BY <1>1, <1>3, <1>6, <1>7, <1>8, <1>9
  <1>12. Todo("manifest")' =>
          /\ cli'.key \in Keys(Goal')
          /\ cli'.op # "upgrade" /\ Has(cli.key)' => Gone(cli.key)'
    <2>1. PICK k : k = cli'.key
      OBVIOUS
    <2>2. Todo("manifest")' => k \in Keys(new) /\ (cli'.op # "upgrade" /\ Has(k)' => Gone(k)')
      BY <1>1, <1>2, <1>6, <1>7, <1>8, <1>9, <2>1
    <2> QED
      BY <1>1, <2>1, <2>2 DEF Has, Gone, Dropped
  <1>13. cli'.op \in {"install", "switch"} =>
          cli'.key \notin Kept(cli)' /\ Keys(Goal') = Kept(cli)' \cup {cli'.key}
    BY <1>1, <1>9 DEF Kept
  <1> QED
    BY <1>1, <1>2, <1>10, <1>11, <1>12, <1>13 DEF ManifestsOK, Keys

-----------------------------------------------------------------------------
(* init-options.json. *)

(* A step of a command keeps OptionsOK.                                     *)
LEMMA OptionsStep ==
  ASSUME OptionsOK, NEW m, Stepped(m), m = cli.mem \/ Step.do = "setup"
  PROVE  OptionsOK'
  <1>1. /\ Goal' = Goal /\ GoalOpt' = GoalOpt /\ \A do : Todo(do) <=> Step.do = do \/ Todo(do)'
        /\ cli # Idle
        /\ cli' # Idle => /\ cli'.op = cli.op /\ cli'.mem = m /\ cli'.from = cli.from
                          /\ Kept(cli)' = Kept(cli)
    BY DEF Stepped
  <1>2. /\ Step.do \in {"clear", "setup"} => ~Todo("clear")'
        /\ Step.do = "opts" /\ cli.op = "switch" => ~Todo("clear")'
        /\ Step.do = "opts" /\ cli' # Idle => cli.op # "install" /\ ~(cli.op = "switch" /\ Kept(cli) = {})
        /\ initopt' = IF Step.do = "opts" THEN Step.key
                      ELSE IF Step.do = "clear" /\ initopt = Step.key THEN None ELSE initopt
    BY DEF Stepped
  <1>3. /\ Todo("clear")' => LastOf(cli'.todo, "clear") = LastOf(cli.todo, "clear")
        /\ Step.do = "clear" /\ ~Todo("clear")' => LastOf(cli.todo, "clear") = Step
    BY DEF Stepped
  <1>4. Todo("clear") <=> Step.do = "clear" \/ Todo("clear")'
    BY <1>1
  <1>5. Goal'.default = GoalOpt'
    BY <1>1 DEF OptionsOK
  <1>6. cli' # Idle /\ (cli'.op = "install" \/ cli'.mem # NoManifest) => ~Todo("clear")'
    BY <1>1, <1>2, <1>4 DEF OptionsOK
  <1>7. cli' # Idle /\ cli'.op = "install" => initopt' = cli'.from.default
    <2>1. SUFFICES ASSUME cli' # Idle, cli'.op = "install" PROVE initopt' = cli'.from.default
      OBVIOUS
    <2>2. cli.op = "install" /\ initopt = cli.from.default /\ ~Todo("clear")
      BY <1>1, <2>1 DEF OptionsOK
    <2>3. Step.do # "opts" /\ Step.do # "clear"
      BY <1>2, <1>4, <2>1, <2>2
    <2> QED
      BY <1>1, <1>2, <2>1, <2>2, <2>3
  <1>8. cli' # Idle /\ cli'.op = "switch" =>
          IF Todo("clear")' THEN initopt' = cli'.from.default /\ LastOf(cli'.todo, "clear").key = initopt'
          ELSE Kept(cli)' = {} => initopt' = None
    <2>1. SUFFICES ASSUME cli' # Idle, cli'.op = "switch"
          PROVE IF Todo("clear")' THEN initopt' = cli'.from.default /\ LastOf(cli'.todo, "clear").key = initopt'
                ELSE Kept(cli)' = {} => initopt' = None
      OBVIOUS
    <2>2. cli.op = "switch" /\ cli'.from = cli.from /\ Kept(cli)' = Kept(cli)
      BY <1>1, <2>1
    <2>3. IF Todo("clear") THEN initopt = cli.from.default /\ LastOf(cli.todo, "clear").key = initopt
          ELSE Kept(cli) = {} => initopt = None
      BY <1>1, <2>2 DEF OptionsOK
    <2>4. CASE Todo("clear")'
      BY <1>2, <1>3, <1>4, <2>2, <2>3, <2>4
    <2>5. CASE ~Todo("clear")'
      BY <1>2, <1>3, <1>4, <2>1, <2>2, <2>3, <2>5
    <2> QED
      BY <2>4, <2>5
  <1> QED
    BY <1>5, <1>6, <1>7, <1>8 DEF OptionsOK

(* There is nothing left to clear when a command fails.                     *)
LEMMA NoClearAhead ==
  ASSUME TypeOK, OptionsOK, cli # Idle, At("setup") \/ cli.mem # NoManifest
  PROVE  ~Todo("clear")
  <1>1. CASE At("setup")
    <2>1. "setup" # "shared"
      OBVIOUS
    <2>2. CommandOK(cli) /\ Step.do = "setup" /\ Rest(cli, Tail(cli.todo))
      BY <1>1, <2>1, StepIs
    <2>3. PICK r : r = Tail(cli.todo)
      OBVIOUS
    <2>4. /\ \A do : Todo(do) <=> Step.do = do \/ Pending(r, do)
          /\ \A do : Pending(r, do) => \E b : b.do = do /\ StepOK(cli, b) /\ Precedes(cli, Step, b)
      BY <2>2, <2>3, NextStep
    <2>5. ~Pending(r, "clear")
      BY <2>2, <2>4 DEF Precedes
    <2> QED
      BY <2>2, <2>4, <2>5
  <1>2. CASE cli.mem # NoManifest
    BY <1>2 DEF OptionsOK
  <1> QED
    BY <1>1, <1>2

(* A rollback names the default it goes back to.                            *)
LEMMA OptionsRolledBack ==
  ASSUME TypeOK, RunOK, OptionsOK, NEW mem, NEW new, NEW anew, RollsBack(mem, new, anew)
  PROVE  OptionsOK'
  <1>1. /\ cli # Idle /\ cli.op \in {"install", "switch"}
        /\ cli' # Idle /\ cli'.op = "rollback" /\ cli'.mem = NoManifest
        /\ IsRollback(cli, cli', cli'.todo, new, anew)
        /\ mem # NoManifest /\ (At("setup") \/ mem = cli.mem)
        /\ initopt' = initopt
    BY DEF RollsBack
  <1>2. /\ Goal' = new /\ ConfOK(new)
        /\ \A do : Todo(do)' <=> do = "json" \/ (anew /\ do \in {"shared", "saveshared", "opts"})
        /\ anew => LastOf(cli'.todo, "opts").key = new.default
    BY RollbackAhead
  <1>3. /\ Keys(new) = Kept(cli) /\ (anew => cli.op = "switch")
        /\ cli.op = "switch" => (anew <=> new # NoConf)
        /\ cli.op = "install" => new.default = cli.from.default
    BY <1>1 DEF IsRollback
  <1>4. \A do : Todo(do)' <=> Pending(cli'.todo, do)
    BY <1>1 DEF Todo
  <1>5. GoalOpt' = new.default
    <2>1. GoalOpt' = FinalOpt(cli'.todo, initopt')
      BY <1>1 DEF GoalOpt
    <2>2. CASE anew
      <3>1. Pending(cli'.todo, "opts")
        BY <1>2, <1>4, <2>2
      <3> QED
        BY <1>2, <2>1, <2>2, <3>1 DEF FinalOpt
    <2>3. CASE ~anew
      <3>1. ~Pending(cli'.todo, "opts") /\ ~Pending(cli'.todo, "clear")
        BY <1>2, <1>4, <2>3
      <3>2. GoalOpt' = initopt
        BY <1>1, <2>1, <3>1 DEF FinalOpt
      <3>3. CASE cli.op = "install"
        BY <1>1, <1>3, <3>2, <3>3 DEF OptionsOK
      <3>4. CASE cli.op = "switch"
        <4>1. new = NoConf /\ new.default = None /\ Kept(cli) = {}
          BY <1>3, <2>3, <3>4, NoConfOK DEF NoConf
        <4>2. ~Todo("clear")
          BY <1>1, NoClearAhead DEF OptionsOK
        <4> QED
          BY <1>1, <3>2, <3>4, <4>1, <4>2 DEF OptionsOK
      <3> QED
        BY <1>1, <3>3, <3>4
    <2> QED
      BY <2>2, <2>3
  <1> QED
    BY <1>1, <1>2, <1>5 DEF OptionsOK

(* A command starts with an init-options.json that names the default.       *)
LEMMA OptionsStart ==
  ASSUME TypeOK, OptionsOK, NEW D, NEW new, Started(D, new)
  PROVE  OptionsOK'
  <1>1. /\ cli' # Idle /\ Goal' = new /\ \A do : Todo(do)' <=> do \in D
    BY StartedIs
  <1>2. /\ cli = Idle /\ UNCHANGED <<conf, initopt>> /\ cli'.mem = NoManifest
        /\ OptsFit(cli', D, new) /\ cli'.from = conf /\ Outline(cli', cli'.todo, D, new)
    BY DEF Started, Starts
  <1>3. conf.default = initopt
    BY <1>2 DEF OptionsOK, Goal, GoalOpt
  <1>4. /\ "opts" \in D => LastOf(cli'.todo, "opts").key = new.default
        /\ "clear" \in D => LastOf(cli'.todo, "clear").key = initopt
        /\ \A do : Pending(cli'.todo, do) <=> do \in D
    BY <1>2, <1>3 DEF Outline
  <1>5. /\ "opts" \notin D => new.default = IF "clear" \in D THEN None ELSE initopt
        /\ cli'.op = "switch" => "clear" \in D \/ conf = NoConf
        /\ cli'.op = "install" => "clear" \notin D
    BY <1>2, <1>3 DEF OptsFit
  <1>6. GoalOpt' = FinalOpt(cli'.todo, initopt)
    BY <1>1, <1>2 DEF GoalOpt
  <1>7. GoalOpt' = new.default
    BY <1>4, <1>5, <1>6 DEF FinalOpt
  <1>8. cli'.op = "switch" /\ "clear" \notin D => initopt = None
    BY <1>3, <1>5 DEF NoConf
  <1> QED
    BY <1>1, <1>2, <1>3, <1>4, <1>5, <1>7, <1>8 DEF OptionsOK

-----------------------------------------------------------------------------
(* The dialect of the shared files. *)

(* A file that install_shared_infra records as its own speaks the dialect   *)
(* it writes, or spoke it before.                                           *)
LEMMA RecordSharedSpeaks ==
  ASSUME NEW sm, NEW disk, NEW force, NEW refresh, NEW content, NEW f \in SharedFile,
         IsManaged(RecordShared(sm, disk, force, refresh, content),
                   WriteShared(sm, disk, force, refresh, content), f)
  PROVE  \/ WriteShared(sm, disk, force, refresh, content)[f] = content
         \/ /\ ~refresh /\ IsManaged(sm, disk, f)
            /\ WriteShared(sm, disk, force, refresh, content)[f] = disk[f]
  <1> DEFINE written == Planned(sm, disk, force, refresh)
             found == SharedFile \ (written \cup DOMAIN sm.files)
             new == RecordShared(sm, disk, force, refresh, content)
             out == WriteShared(sm, disk, force, refresh, content)
  <1>1. /\ new.files = [g \in SharedFile |->
                         IF g \in written THEN content
                         ELSE IF g \in found THEN disk[g] ELSE sm.files[g]]
        /\ new.recovered = (sm.recovered \ written) \cup found
    BY DEF RecordShared
  <1>2. out[f] = IF f \in written THEN content ELSE disk[f]
    BY DEF WriteShared, File
  <1>3. f \in DOMAIN new.files \ new.recovered /\ new.files[f] = out[f]
    BY DEF IsManaged
  <1>4. f \notin written => ~(refresh /\ IsManaged(sm, disk, f))
    BY DEF Planned, DecideOverwrite
  <1> HIDE DEF written, new, out
  <1>5. CASE f \in written
    BY <1>2, <1>5 DEF out
  <1>6. CASE f \notin written
    <2>1. f \in DOMAIN sm.files \ sm.recovered /\ new.files[f] = sm.files[f] /\ out[f] = disk[f]
      BY <1>1, <1>2, <1>3, <1>6
    <2>2. IsManaged(sm, disk, f)
      BY <1>3, <2>1 DEF IsManaged
    <2> QED
      BY <1>4, <1>6, <2>1, <2>2 DEF out
  <1> QED
    BY <1>5, <1>6

(* What is given up stays given up.                                         *)
LEMMA SharedLostStep ==
  ASSUME NEW m, Stepped(m), Step.do # "json", SharedLost
  PROVE  SharedLost'
  <1>1. /\ Goal' = Goal /\ \A do : Todo(do) <=> Step.do = do \/ Todo(do)'
        /\ cli' # Idle => cli'.op = cli.op
        /\ conf' = conf /\ ops' = ops
        /\ SharedStale => SharedStale'
    BY DEF Stepped, SharedStale
  <1>2. Todo("json") <=> Todo("json")'
    BY <1>1
  <1>3. Todo("json")' => cli' # Idle
    BY DEF Todo
  <1> QED
    BY <1>1, <1>2, <1>3 DEF SharedLost

(* What a step keeps of DialectOK, whatever it does.                        *)
LEMMA DialectPlan ==
  ASSUME DialectOK, NEW m, Stepped(m)
  PROVE  /\ ops' # 0
         /\ cli' # Idle /\ cli'.op = "install" =>
              /\ Todo("json")' => conf' = cli'.from
              /\ cli'.from # NoConf => Goal' # NoConf /\ Dialect(Goal') = Dialect(cli'.from)
         /\ Todo("shared")' =>
              Sep[LastOf(cli'.todo, "shared").key][LastOf(cli'.todo, "shared").opt] = Dialect(Goal')
  <1>1. /\ Goal' = Goal /\ \A do : Todo(do) <=> Step.do = do \/ Todo(do)'
        /\ cli' # Idle => cli'.op = cli.op /\ cli'.from = cli.from
        /\ conf' = (IF Step.do = "json" THEN Step.conf ELSE conf) /\ ops' = ops /\ cli # Idle
        /\ Step.do = "json" /\ cli.op = "install" => ~Todo("json")'
    BY DEF Stepped
  <1>2. Todo("shared")' => LastOf(cli'.todo, "shared") = LastOf(cli.todo, "shared")
    BY DEF Stepped
  <1>3. (Todo("json")' => Todo("json")) /\ (Todo("shared")' => Todo("shared"))
    BY <1>1
  <1>4. ops' # 0
    BY <1>1 DEF DialectOK
  <1>5. cli' # Idle /\ cli'.op = "install" =>
          /\ Todo("json")' => conf' = cli'.from
          /\ cli'.from # NoConf => Goal' # NoConf /\ Dialect(Goal') = Dialect(cli'.from)
    BY <1>1, <1>3 DEF DialectOK
  <1>6. Todo("shared")' =>
          Sep[LastOf(cli'.todo, "shared").key][LastOf(cli'.todo, "shared").opt] = Dialect(Goal')
    BY <1>1, <1>2, <1>3 DEF DialectOK
  <1> QED
    BY <1>4, <1>5, <1>6

(* Steps that leave the shared files and their manifest alone.              *)
LEMMA DialectStep ==
  ASSUME TypeOK, DialectOK, NEW m, Stepped(m), Step.do \notin {"shared", "saveshared"},
         shared' = shared, \A f \in SharedFile : files'[f] = files[f],
         Step.do = "json" => lost' = lost \cup Forgotten
  PROVE  DialectOK'
  <1>1. /\ Goal' = Goal /\ \A do : Todo(do) <=> Step.do = do \/ Todo(do)'
        /\ (Step.do = "shared" <=> At("saveshared")') /\ cli # Idle
        /\ SharedStale => SharedStale'
        /\ Todo("shared")' => LastOf(cli'.todo, "shared") = LastOf(cli.todo, "shared")
    BY DEF Stepped, SharedStale
  <1>2. ~At("saveshared") /\ ~At("saveshared")'
    BY <1>1 DEF At, Step
  <1>3. \A d : Speak(shared, d) => \A f \in SharedFile : IsManaged(shared', files', f) => files'[f][2] = d
    BY DEF Speak, IsManaged
  <1>4. Todo("shared") <=> Todo("shared")'
    BY <1>1
  <1>5. CASE ~SharedLost
    <2>1. IF Todo("shared") THEN LastOf(cli.todo, "shared").refresh \/ Speak(shared, Dialect(Goal))
          ELSE Speak(shared, Dialect(Goal))
      BY <1>2, <1>5 DEF DialectOK
    <2>2. IF Todo("shared")'
          THEN LastOf(cli'.todo, "shared").refresh \/ \A f \in SharedFile : IsManaged(shared', files', f) => files'[f][2] = Dialect(Goal')
          ELSE \A f \in SharedFile : IsManaged(shared', files', f) => files'[f][2] = Dialect(Goal')
      BY <1>1, <1>3, <1>4, <2>1
    <2> QED
      BY <1>2, <2>2, DialectPlan DEF DialectOK, Speak, Dialect
  <1>6. CASE SharedLost /\ Step.do # "json"
    <2>1. SharedLost'
      BY <1>6, SharedLostStep
    <2> QED
      BY <2>1, DialectPlan DEF DialectOK, Dialect
  <1>7. CASE SharedLost /\ Step.do = "json"
    <2>1. CASE SharedStale \/ Goal = NoConf
      <3>1. SharedLost'
        BY <1>1, <2>1 DEF SharedLost
      <3> QED
        BY <3>1, DialectPlan DEF DialectOK, Dialect
    <2>2. CASE <<"shared", cli.op>> \in lost' /\ cli.op \in {"init", "install"}
      <3>1. SharedStale'
        BY <2>2 DEF SharedStale
      <3>2. SharedLost'
        BY <3>1 DEF SharedLost
      <3> QED
        BY <3>2, DialectPlan DEF DialectOK, Dialect
    <2>3. CASE \A f \in SharedFile : files[f] = NoFile
      <3>1. \A f \in SharedFile : ~IsManaged(shared', files', f)
        BY <2>3 DEF IsManaged, TypeOK, SharedOK
      <3> QED
        BY <1>2, <3>1, DialectPlan DEF DialectOK, Speak, Dialect
    <2> QED
      BY <1>7, <2>1, <2>2, <2>3 DEF SharedLost, Forgotten
  <1> QED
    BY <1>5, <1>6, <1>7

(* install_shared_infra writes the files.                                   *)
LEMMA DialectWritten ==
  ASSUME TypeOK, RunOK, DialectOK, Stepped(cli.mem), WriteSharedFiles
  PROVE  DialectOK'
  <1>1. /\ Step.do = "shared" /\ Step'.do = "saveshared" /\ cli' # Idle
        /\ Step'.sm = RecordShared(shared, files, Step.force, Step.refresh,
                                   SharedContent(Step.key, Step.opt))
    BY WriteSharedIs
  <1>2. files' = WriteShared(shared, files, Step.force, Step.refresh, SharedContent(Step.key, Step.opt))
    BY DEF WriteSharedFiles
  <1>3. /\ Goal' = Goal /\ \A do : Todo(do) <=> Step.do = do \/ Todo(do)'
        /\ At("saveshared")'
        /\ Todo("shared")' => LastOf(cli.todo, "shared").refresh
                              /\ LastOf(cli'.todo, "shared") = LastOf(cli.todo, "shared")
        /\ ~Todo("shared")' => LastOf(cli.todo, "shared") = Step
    BY <1>1 DEF Stepped
  <1>4. CASE SharedLost
    <2>1. SharedLost'
      BY <1>1, <1>4, SharedLostStep
    <2> QED
      BY <2>1, DialectPlan DEF DialectOK, Dialect
  <1>5. CASE Todo("shared")'
    BY <1>3, <1>5, DialectPlan DEF DialectOK, Dialect
  <1>6. CASE ~SharedLost /\ ~Todo("shared")'
    <2>1. PICK d : d = Dialect(Goal)
      OBVIOUS
    <2>2. Todo("shared") /\ Step = LastOf(cli.todo, "shared")
      BY <1>1, <1>3, <1>6
    <2>3. Sep[Step.key][Step.opt] = d /\ (Step.refresh \/ Speak(shared, d))
      BY <1>6, <2>1, <2>2 DEF DialectOK
    <2>4. SharedContent(Step.key, Step.opt)[2] = d
      BY <2>3 DEF SharedContent
    <2>5. ASSUME NEW f \in SharedFile, IsManaged(Step'.sm, files', f) PROVE files'[f][2] = d
      <3>1. \/ files'[f] = SharedContent(Step.key, Step.opt)
            \/ ~Step.refresh /\ IsManaged(shared, files, f) /\ files'[f] = files[f]
        BY <1>1, <1>2, <2>5, RecordSharedSpeaks
      <3> QED
        BY <2>3, <2>4, <3>1 DEF Speak
    <2>6. \A f \in SharedFile : IsManaged(Step'.sm, files', f) => files'[f][2] = Dialect(Goal')
      BY <1>3, <2>1, <2>5
    <2> QED
      BY <1>3, <1>6, <2>6, DialectPlan DEF DialectOK, Speak, Dialect
  <1> QED
    BY <1>4, <1>5, <1>6

(* install_shared_infra saves the manifest.                                 *)
LEMMA DialectSaved ==
  ASSUME TypeOK, DialectOK, Stepped(cli.mem), SaveShared
  PROVE  DialectOK'
  <1>1. Step.do = "saveshared" /\ At("saveshared") /\ shared' = Step.sm /\ files' = files
    BY DEF SaveShared, At, Step
  <1>2. /\ Goal' = Goal /\ \A do : Todo(do) <=> Step.do = do \/ Todo(do)'
        /\ ~At("saveshared")'
        /\ Todo("shared")' => LastOf(cli.todo, "shared").refresh
                              /\ LastOf(cli'.todo, "shared") = LastOf(cli.todo, "shared")
    BY <1>1 DEF Stepped
  <1>3. CASE SharedLost
    <2>1. SharedLost'
      BY <1>1, <1>3, SharedLostStep
    <2> QED
      BY <2>1, DialectPlan DEF DialectOK, Dialect
  <1>4. CASE Todo("shared")'
    BY <1>2, <1>4, DialectPlan DEF DialectOK, Dialect
  <1>5. CASE ~SharedLost /\ ~Todo("shared")'
    <2>1. ~Todo("shared")
      BY <1>1, <1>2, <1>5
    <2>2. Speak(Step.sm, Dialect(Goal))
      BY <1>1, <1>5, <2>1 DEF DialectOK
    <2>3. \A f \in SharedFile : IsManaged(shared', files', f) => files'[f][2] = Dialect(Goal')
      BY <1>1, <1>2, <2>2 DEF Speak
    <2> QED
      BY <1>2, <1>5, <2>3, DialectPlan DEF DialectOK, Speak, Dialect
  <1> QED
    BY <1>3, <1>4, <1>5

(* An install that fails has no shared files left to write.                 *)
LEMMA NoSharedAhead ==
  ASSUME TypeOK, RunOK, cli # Idle, cli.op = "install", At("setup") \/ cli.mem # NoManifest
  PROVE  ~Todo("shared") /\ ~Todo("saveshared")
  <1>1. CASE At("setup")
    <2>1. "setup" # "shared"
      OBVIOUS
    <2>2. CommandOK(cli) /\ Step.do = "setup" /\ Rest(cli, Tail(cli.todo))
      BY <1>1, <2>1, StepIs
    <2>3. PICK r : r = Tail(cli.todo)
      OBVIOUS
    <2>4. /\ \A do : Todo(do) <=> Step.do = do \/ Pending(r, do)
          /\ \A do : Pending(r, do) => \E b : b.do = do /\ StepOK(cli, b) /\ Precedes(cli, Step, b)
      BY <2>2, <2>3, NextStep
    <2>5. ~Pending(r, "shared") /\ ~Pending(r, "saveshared")
      BY <2>2, <2>4 DEF Precedes
    <2> QED
      BY <2>2, <2>4, <2>5
  <1>2. CASE cli.mem # NoManifest
    BY <1>2 DEF RunOK
  <1> QED
    BY <1>1, <1>2

(* A rollback writes the shared files again, or they speak for the default  *)
(* it goes back to.                                                         *)
LEMMA DialectRolledBack ==
  ASSUME TypeOK, RunOK, DialectOK, NEW mem, NEW new, NEW anew, RollsBack(mem, new, anew)
  PROVE  DialectOK'
  <1>1. /\ cli # Idle /\ cli.op \in {"install", "switch"} /\ cli.key \in Integration
        /\ cli' # Idle /\ cli'.op = "rollback"
        /\ IsRollback(cli, cli', cli'.todo, new, anew)
        /\ mem # NoManifest /\ ManifestOK(mem, cli.key) /\ (At("setup") \/ mem = cli.mem)
        /\ \A f \in File : files'[f] = IF f \in DOMAIN mem THEN NoFile ELSE files[f]
        /\ lost' = (IF At("saveshared") THEN lost \cup {<<"shared", "rollback">>} ELSE lost)
        /\ UNCHANGED <<shared, conf, ops>>
    BY DEF RollsBack
  <1>2. /\ Goal' = new
        /\ \A do : Todo(do)' <=> do = "json" \/ (anew /\ do \in {"shared", "saveshared", "opts"})
        /\ anew => /\ LastOf(cli'.todo, "shared").refresh
                   /\ Sep[LastOf(cli'.todo, "shared").key][LastOf(cli'.todo, "shared").opt] = Dialect(new)
    BY RollbackAhead
  <1>3. /\ cli.op = "switch" => (anew <=> new # NoConf)
        /\ anew => cli.op = "switch"
        /\ cli.op = "install" /\ new # NoConf => cli.from # NoConf /\ Dialect(new) = Dialect(cli.from)
    BY <1>1 DEF IsRollback
  <1>4. ops' # 0
    BY <1>1 DEF DialectOK
  <1>5. Todo("shared")' <=> anew
    BY <1>2
  <1>6. Todo("shared")' =>
          /\ LastOf(cli'.todo, "shared").refresh
          /\ Sep[LastOf(cli'.todo, "shared").key][LastOf(cli'.todo, "shared").opt] = Dialect(Goal')
    BY <1>2, <1>5
  <1>7. CASE new = NoConf
    <2>1. SharedLost'
      BY <1>2, <1>7 DEF SharedLost, NoConf
    <2> QED
      BY <1>1, <1>4, <1>6, <2>1 DEF DialectOK, Dialect
  <1>8. CASE anew
    BY <1>1, <1>4, <1>5, <1>6, <1>8 DEF DialectOK, Dialect
  <1>9. CASE new # NoConf /\ ~anew
    <2>1. cli.op = "install" /\ cli.from # NoConf /\ Dialect(new) = Dialect(cli.from)
      BY <1>1, <1>3, <1>9
    <2>2. /\ Goal # NoConf /\ Dialect(Goal) = Dialect(new)
          /\ Todo("json") => conf = cli.from
      BY <1>1, <2>1 DEF DialectOK
    <2>3. ~Todo("shared") /\ ~Todo("saveshared")
      BY <1>1, <2>1, NoSharedAhead
    <2>4. CASE SharedStale
      <3>1. SharedStale'
        BY <1>1, <2>4 DEF SharedStale
      <3>2. SharedLost'
        BY <3>1 DEF SharedLost
      <3> QED
        BY <1>1, <1>4, <1>6, <3>2 DEF DialectOK, Dialect
    <2>5. CASE At("saveshared")
      <3>1. SharedStale'
        BY <1>1, <2>5 DEF SharedStale
      <3>2. SharedLost'
        BY <3>1 DEF SharedLost
      <3> QED
        BY <1>1, <1>4, <1>6, <3>2 DEF DialectOK, Dialect
    <2>6. CASE ~SharedStale /\ ~At("saveshared")
      <3>1. ~SharedLost
        BY <2>1, <2>2, <2>6 DEF SharedLost
      <3>2. Speak(shared, Dialect(new))
        BY <2>2, <2>3, <2>6, <3>1 DEF DialectOK
      <3>3. \A f \in SharedFile : files'[f] = files[f]
        <4>1. \A f \in DOMAIN mem : f \notin SharedFile
          BY <1>1, Recorded
        <4> QED
          BY <1>1, <4>1 DEF File
      <3>4. \A f \in SharedFile : IsManaged(shared', files', f) => files'[f][2] = Dialect(Goal')
        BY <1>1, <1>2, <3>2, <3>3 DEF Speak, IsManaged
      <3>5. ~At("saveshared")'
        <4>1. CommandOK(cli')
          BY DEF RollsBack
        <4>2. IsRestore(cli', cli'.todo, new, anew)
          BY <1>1 DEF IsRollback
        <4>3. Part(cli', cli'.todo) /\ cli'.todo # <<>>
          BY <4>2 DEF IsRestore
        <4>4. cli'.todo[1].do # "saveshared" /\ IsPlan(cli'.todo)
          BY <4>3 DEF Part
        <4> QED
          BY <4>3, <4>4, PlanFacts DEF At
      <3> QED
        BY <1>1, <1>4, <1>5, <1>9, <3>4, <3>5 DEF DialectOK, Speak, Dialect
    <2> QED
      BY <2>4, <2>5, <2>6
  <1> QED
    BY <1>7, <1>8, <1>9

(* A command starts.                                                        *)
LEMMA DialectStart ==
  ASSUME TypeOK, DialectOK, NEW D, NEW new, Started(D, new)
  PROVE  DialectOK'
  <1>1. /\ cli' # Idle /\ Goal' = new /\ \A do : Todo(do)' <=> do \in D
        /\ "json" \in D
    BY StartedIs
  <1>2. /\ cli = Idle /\ UNCHANGED <<files, shared, conf, lost>> /\ ops' = ops + 1
        /\ DialectFit(cli', D, new) /\ cli'.from = conf /\ Outline(cli', cli'.todo, D, new)
    BY DEF Started, Starts
  <1>3. ops' # 0 /\ ops \in Nat
    BY <1>2 DEF TypeOK
  <1>4. "shared" \in D =>
          Sep[LastOf(cli'.todo, "shared").key][LastOf(cli'.todo, "shared").opt] = Dialect(new)
    BY <1>2 DEF Outline
  <1>5. ~At("saveshared")'
    <2>1. Part(cli', cli'.todo) /\ cli'.todo # <<>>
      BY <1>2 DEF Outline
    <2>2. cli'.todo[1].do # "saveshared" /\ IsPlan(cli'.todo)
      BY <2>1 DEF Part
    <2> QED
      BY <2>1, <2>2, PlanFacts DEF At
  <1>6. /\ cli'.op = "install" /\ conf # NoConf => new # NoConf /\ Dialect(new) = Dialect(conf)
        /\ \/ new = NoConf \/ cli'.op = "init" \/ (cli'.op = "install" /\ conf = NoConf)
           \/ "shared" \in D /\ LastOf(cli'.todo, "shared").refresh
           \/ conf # NoConf /\ Dialect(new) = Dialect(conf)
    BY <1>2 DEF DialectFit
  <1>7. cli'.op = "install" =>
          /\ Todo("json")' => conf' = cli'.from
          /\ cli'.from # NoConf => Goal' # NoConf /\ Dialect(Goal') = Dialect(cli'.from)
    BY <1>1, <1>2, <1>6
  <1>8. Todo("shared")' =>
          Sep[LastOf(cli'.todo, "shared").key][LastOf(cli'.todo, "shared").opt] = Dialect(Goal')
    BY <1>1, <1>4
  <1>9. Goal = conf /\ (\A do : ~Todo(do)) /\ ~At("saveshared")
    BY <1>2 DEF Goal, Todo, At
  <1>10. CASE SharedLost'
    BY <1>3, <1>7, <1>8, <1>10 DEF DialectOK, Dialect
  <1>11. CASE "shared" \in D /\ LastOf(cli'.todo, "shared").refresh
    BY <1>1, <1>3, <1>7, <1>8, <1>11 DEF DialectOK, Dialect
  <1>12. CASE Speak(shared, Dialect(new))
    <2>1. \A f \in SharedFile : IsManaged(shared', files', f) => files'[f][2] = Dialect(Goal')
      BY <1>1, <1>2, <1>12 DEF Speak
    <2> QED
      BY <1>3, <1>5, <1>7, <1>8, <2>1 DEF DialectOK, Dialect, Speak
  <1>13. CASE cli'.op = "install" /\ conf = NoConf
    <2>1. CASE ops = 0
      <3>1. shared = NoShared
        BY <2>1 DEF DialectOK
      <3>2. Speak(shared, Dialect(new))
        BY <3>1 DEF Speak, IsManaged, NoShared
      <3> QED
        BY <1>12, <3>2
    <2>2. CASE ops # 0
      <3>1. ops' > 1
        BY <1>2, <1>3, <2>2
      <3>2. SharedLost'
        BY <1>1, <1>2, <1>13, <3>1 DEF SharedLost, NoConf
      <3> QED
        BY <1>10, <3>2
    <2> QED
      BY <2>1, <2>2
  <1>14. CASE new = NoConf \/ cli'.op = "init"
    <2>1. SharedLost'
      BY <1>1, <1>14 DEF SharedLost, NoConf
    <2> QED
      BY <1>10, <2>1
  <1>15. CASE conf # NoConf /\ Dialect(new) = Dialect(conf)
    <2>1. CASE SharedLost
      <3>1. SharedStale
        BY <1>9, <1>15, <2>1 DEF SharedLost
      <3>2. SharedLost'
        BY <1>2, <3>1 DEF SharedLost, SharedStale
      <3> QED
        BY <1>10, <3>2
    <2>2. CASE ~SharedLost
      <3>1. Speak(shared, Dialect(conf))
        BY <1>9, <2>2 DEF DialectOK
      <3> QED
        BY <1>12, <1>15, <3>1
    <2> QED
      BY <2>1, <2>2
  <1> QED
    BY <1>6, <1>11, <1>13, <1>14, <1>15

-----------------------------------------------------------------------------
(* The command files. *)

(* A file is of one integration.                                            *)
LEMMA OneOwner ==
  ASSUME OwnFiles, NEW k \in Integration, NEW i \in Integration, NEW f, f \in Owned(k), f \in Owned(i)
  PROVE  k = i
  BY DEF OwnFiles

(* A manifest records files of its integration.                             *)
LEMMA ManifestFiles ==
  ASSUME TypeOK, NEW k \in Integration, Has(k), NEW f \in DOMAIN manifest[k]
  PROVE  f \in Owned(k) /\ f \in CommandFile /\ f \in File /\ manifest[k][f] \notin {NoFile, User}
  <1>1. ManifestOK(manifest[k], k) /\ manifest[k] # NoManifest
    BY DEF TypeOK, Has
  <1> QED
    BY <1>1, Recorded

(* What a step keeps of the steps ahead that FilesOK is about.              *)
LEMMA FilesPlan ==
  ASSUME NEW m, Stepped(m)
  PROVE  /\ \A k : Gone(k) => Gone(k)'
         /\ \A k, f : Freed(k, f) => Freed(k, f)'
         /\ \A do : Todo(do)' => Todo(do) /\ cli' # Idle
         /\ \A do : Todo(do) /\ Step.do # do => Todo(do)'
         /\ cli' # Idle => /\ cli'.key = cli.key /\ cli'.op = cli.op /\ cli'.old = cli.old /\ cli'.mem = m
         /\ cli # Idle /\ cli.key \in Integration /\ edits' = edits
         /\ \A do : Step.do = do => Todo(do)
  <1>1. \A do : Todo(do)' => cli' # Idle
    BY DEF Todo
  <1>2. \A k, f : Freed(k, f) => Freed(k, f)'
    BY DEF Stepped, Freed, Left
  <1> QED
    BY <1>1, <1>2 DEF Stepped

\* Command file f is of k, and accounted for.
Accounted(k, f) ==
  /\ f \in Owned(k)
  /\ \/ Freed(k, f)
     \/ Has(k) /\ f \in DOMAIN manifest[k]
     \/ cli # Idle /\ k = cli.key /\ cli.mem # NoManifest /\ f \in DOMAIN cli.mem
     \/ Todo("stale") /\ k = cli.key /\ f \in DOMAIN cli.old

(* Whose a file is that Spec Kit wrote.                                     *)
LEMMA FileAccounted ==
  ASSUME FilesOK, NEW f \in CommandFile, files[f] # NoFile, files[f] # User
  PROVE  \E k \in Integration : Accounted(k, f)
  BY Zenon DEF FilesOK, Accounted

(* Steps that leave the command files and the manifests alone.              *)
LEMMA FilesStep ==
  ASSUME TypeOK, ManifestsOK, FilesOK, Stepped(cli.mem), manifest' = manifest,
         \A f \in CommandFile : files'[f] = files[f],
         Step.do \notin {"setup", "manifest", "teardown", "stale"}
  PROVE  FilesOK'
  <1>1. /\ \A k : Gone(k) => Gone(k)'
        /\ \A k, f : Freed(k, f) => Freed(k, f)'
        /\ \A do : Todo(do)' => Todo(do) /\ cli' # Idle
        /\ \A do : Todo(do) /\ Step.do # do => Todo(do)'
        /\ cli' # Idle => /\ cli'.key = cli.key /\ cli'.op = cli.op /\ cli'.old = cli.old
                          /\ cli'.mem = cli.mem
        /\ cli # Idle /\ cli.key \in Integration /\ edits' = edits
    BY FilesPlan
  <1>2. /\ Todo("manifest") => Todo("manifest")' /\ cli' # Idle
        /\ Todo("stale") => Todo("stale")' /\ cli' # Idle
    BY <1>1
  <1>3. \A k : Has(k)' <=> Has(k)
    BY DEF Has
  <1>4. ASSUME NEW k \in Integration, Has(k), NEW f \in DOMAIN manifest[k]
        PROVE  /\ edits' = 0 => files'[f] # NoFile
               /\ \/ files'[f] \in {NoFile, User, manifest'[k][f]} \/ Gone(k)'
                  \/ Todo("manifest")' /\ k = cli'.key
    <2>1. files'[f] = files[f]
      BY <1>4, ManifestFiles
    <2>2. /\ edits = 0 => files[f] # NoFile
          /\ \/ files[f] \in {NoFile, User, manifest[k][f]} \/ Gone(k)
             \/ Todo("manifest") /\ k = cli.key
      BY <1>4 DEF FilesOK
    <2> QED
      BY <1>1, <1>2, <2>1, <2>2
  <1>5. ASSUME NEW f \in CommandFile, files'[f] \notin {NoFile, User}
        PROVE  \E k \in Integration :
                 /\ f \in Owned(k)
                 /\ \/ Freed(k, f)'
                    \/ Has(k)' /\ f \in DOMAIN manifest'[k]
                    \/ cli' # Idle /\ k = cli'.key /\ cli'.mem # NoManifest /\ f \in DOMAIN cli'.mem
                    \/ Todo("stale")' /\ k = cli'.key /\ f \in DOMAIN cli'.old
    <2>1. PICK k \in Integration :
            /\ f \in Owned(k)
            /\ \/ Freed(k, f) \/ (Has(k) /\ f \in DOMAIN manifest[k])
               \/ cli # Idle /\ k = cli.key /\ cli.mem # NoManifest /\ f \in DOMAIN cli.mem
               \/ Todo("stale") /\ k = cli.key /\ f \in DOMAIN cli.old
      <3>1. files[f] # NoFile /\ files[f] # User
        BY <1>5
      <3> QED
        BY <3>1, FileAccounted DEF Accounted
    <2>2. CASE k = cli.key /\ cli.mem # NoManifest /\ f \in DOMAIN cli.mem
      <3>1. CASE Todo("manifest")
        BY <1>1, <1>2, <2>1, <2>2, <3>1
      <3>2. CASE ~Todo("manifest")
        <4>1. manifest[k] = cli.mem
          BY <1>1, <2>2, <3>2 DEF ManifestsOK
        <4>2. Has(k) /\ f \in DOMAIN manifest[k]
          BY <2>2, <4>1 DEF Has
        <4> QED
          BY <1>3, <2>1, <4>2
      <3> QED
        BY <3>1, <3>2
    <2>3. CASE Todo("stale") /\ k = cli.key /\ f \in DOMAIN cli.old
      BY <1>1, <1>2, <2>1, <2>3
    <2>4. CASE Freed(k, f) \/ (Has(k) /\ f \in DOMAIN manifest[k])
      BY <1>1, <1>3, <2>1, <2>4
    <2> QED
      BY <2>1, <2>2, <2>3, <2>4
  <1>6. Todo("manifest")' /\ cli'.op = "upgrade" => manifest'[cli'.key] = cli'.old /\ Todo("stale")'
    <2>1. Todo("manifest") /\ cli.op = "upgrade" => manifest[cli.key] = cli.old /\ Todo("stale")
      BY DEF FilesOK
    <2> QED
      BY <1>1, <1>2, <2>1
  <1> QED
    BY <1>3, <1>4, <1>5, <1>6 DEF FilesOK, Owned

(* setup writes the files of its integration.                               *)
LEMMA FilesSetUp ==
  ASSUME OwnFiles, TypeOK, RunOK, ManifestsOK, FilesOK, SetUp,
         Stepped(Record(Files(cli.key, Step.opt)))
  PROVE  FilesOK'
  <1>1. PICK m, w : m = Record(Files(cli.key, Step.opt)) /\ w = Files(cli.key, Step.opt)
    OBVIOUS
  <1>2. Stepped(m)
    BY <1>1
  <1>3. /\ \A k : Gone(k) => Gone(k)'
        /\ \A k, f : Freed(k, f) => Freed(k, f)'
        /\ \A do : Todo(do)' => Todo(do) /\ cli' # Idle
        /\ \A do : Todo(do) /\ Step.do # do => Todo(do)'
        /\ cli' # Idle => /\ cli'.key = cli.key /\ cli'.op = cli.op /\ cli'.old = cli.old
                          /\ cli'.mem = m
        /\ cli # Idle /\ cli.key \in Integration /\ edits' = edits
        /\ \A do : Step.do = do => Todo(do)
    BY <1>2, FilesPlan
  <1>4. /\ Step.do = "setup" /\ m # NoManifest /\ DOMAIN m = w /\ w \subseteq Owned(cli.key)
        /\ \A f \in File : f \in w => files'[f] \in CommandText
        /\ \A f \in File : f \notin w => files'[f] = files[f]
    BY <1>1, SetUpIs
  <1>5. manifest' = manifest /\ \A k : Has(k)' <=> Has(k)
    BY DEF SetUp, Has
  <1>6. /\ Todo("setup") /\ Todo("manifest") /\ cli.mem = NoManifest
        /\ Todo("manifest")' /\ cli' # Idle
        /\ Todo("stale") => Todo("stale")'
    <2>1. Todo("setup")
      BY <1>3, <1>4
    <2>2. Todo("manifest") /\ cli.mem = NoManifest
      BY <1>3, <2>1 DEF RunOK
    <2> QED
      BY <1>3, <1>4, <2>1, <2>2
  <1>7. NoFile \notin CommandText
    BY <1>3, OwnedFiles
  <1>8. ASSUME NEW k \in Integration, Has(k), NEW f \in DOMAIN manifest[k]
        PROVE  /\ edits' = 0 => files'[f] # NoFile
               /\ \/ files'[f] \in {NoFile, User, manifest'[k][f]} \/ Gone(k)'
                  \/ Todo("manifest")' /\ k = cli'.key
    <2>1. f \in Owned(k) /\ f \in File
      BY <1>8, ManifestFiles
    <2>2. /\ edits = 0 => files[f] # NoFile
          /\ \/ files[f] \in {NoFile, User, manifest[k][f]} \/ Gone(k)
             \/ Todo("manifest") /\ k = cli.key
      BY <1>8 DEF FilesOK
    <2>3. f \in w => k = cli.key
      BY <1>3, <1>4, <2>1, OneOwner
    <2>4. CASE f \in w
      BY <1>3, <1>4, <1>6, <1>7, <2>1, <2>3, <2>4
    <2>5. CASE f \notin w
      BY <1>3, <1>4, <1>5, <1>6, <2>1, <2>2, <2>5
    <2> QED
      BY <2>4, <2>5
  <1>9. ASSUME NEW f \in CommandFile, files'[f] \notin {NoFile, User}
        PROVE  \E k \in Integration :
                 /\ f \in Owned(k)
                 /\ \/ Freed(k, f)'
                    \/ Has(k)' /\ f \in DOMAIN manifest'[k]
                    \/ cli' # Idle /\ k = cli'.key /\ cli'.mem # NoManifest /\ f \in DOMAIN cli'.mem
                    \/ Todo("stale")' /\ k = cli'.key /\ f \in DOMAIN cli'.old
    <2>1. CASE f \in w
      BY <1>3, <1>4, <1>6, <2>1
    <2>2. CASE f \notin w
      <3>1. files[f] = files'[f]
        BY <1>4, <2>2 DEF File
      <3>2. PICK k \in Integration :
              /\ f \in Owned(k)
              /\ \/ Freed(k, f) \/ (Has(k) /\ f \in DOMAIN manifest[k])
                 \/ cli # Idle /\ k = cli.key /\ cli.mem # NoManifest /\ f \in DOMAIN cli.mem
                 \/ Todo("stale") /\ k = cli.key /\ f \in DOMAIN cli.old
        <4>1. files[f] # NoFile /\ files[f] # User
          BY <1>9, <3>1
        <4> QED
          BY <4>1, FileAccounted DEF Accounted
      <3> QED
        BY <1>3, <1>5, <1>6, <3>2
    <2> QED
      BY <2>1, <2>2
  <1>10. Todo("manifest")' /\ cli'.op = "upgrade" => manifest'[cli'.key] = cli'.old /\ Todo("stale")'
    <2>1. Todo("manifest") /\ cli.op = "upgrade" => manifest[cli.key] = cli.old /\ Todo("stale")
      BY DEF FilesOK
    <2> QED
      BY <1>3, <1>5, <1>6, <2>1
  <1> QED
    BY <1>5, <1>8, <1>9, <1>10 DEF FilesOK, Owned

(* A manifest is saved, and records what setup wrote.                       *)
LEMMA FilesSaved ==
  ASSUME OwnFiles, TypeOK, RunOK, ManifestsOK, FilesOK, SaveManifest, Stepped(cli.mem)
  PROVE  FilesOK'
  <1>1. /\ \A k : Gone(k) => Gone(k)'
        /\ \A k, f : Freed(k, f) => Freed(k, f)'
        /\ \A do : Todo(do)' => Todo(do) /\ cli' # Idle
        /\ \A do : Todo(do) /\ Step.do # do => Todo(do)'
        /\ cli' # Idle => /\ cli'.key = cli.key /\ cli'.op = cli.op /\ cli'.old = cli.old
                          /\ cli'.mem = cli.mem
        /\ cli # Idle /\ cli.key \in Integration /\ edits' = edits
        /\ \A do : Step.do = do => Todo(do)
    BY FilesPlan
  <1>2. Step.do = "manifest" /\ Step.key = cli.key
    BY DEF Stepped, SaveManifest, At, Step, StepOK
  <1>3. /\ Todo("manifest") /\ ~Todo("manifest")' /\ ~Todo("setup")
        /\ Todo("stale") => Todo("stale")' /\ cli' # Idle
    BY <1>1, <1>2 DEF Stepped
  <1>4. /\ cli.mem # NoManifest /\ ManifestOK(cli.mem, cli.key)
        /\ \A f \in DOMAIN cli.mem : files[f] = cli.mem[f]
    BY <1>1, <1>3 DEF RunOK, TypeOK, CommandOK
  <1>5. /\ files' = files /\ manifest'[cli.key] = cli.mem
        /\ \A k \in Integration : k # cli.key => manifest'[k] = manifest[k]
    BY <1>1, <1>2 DEF SaveManifest, TypeOK
  <1>6. /\ \A k \in Integration : k # cli.key => (Has(k)' <=> Has(k))
        /\ \A k : k = cli.key => Has(k)'
    BY <1>4, <1>5 DEF Has
  <1>7. ASSUME NEW k \in Integration, Has(k)', NEW f \in DOMAIN manifest'[k]
        PROVE  /\ edits' = 0 => files'[f] # NoFile
               /\ \/ files'[f] \in {NoFile, User, manifest'[k][f]} \/ Gone(k)'
                  \/ Todo("manifest")' /\ k = cli'.key
    <2>1. CASE k = cli.key
      <3>1. f \in DOMAIN cli.mem
        BY <1>5, <1>7, <2>1
      <3>2. cli.mem[f] # NoFile
        BY <1>1, <1>4, <3>1, Recorded
      <3> QED
        BY <1>4, <1>5, <2>1, <3>1, <3>2
    <2>2. CASE k # cli.key
      <3>1. Has(k) /\ f \in DOMAIN manifest[k] /\ manifest'[k] = manifest[k]
        BY <1>5, <1>6, <1>7, <2>2
      <3>2. /\ edits = 0 => files[f] # NoFile
            /\ files[f] \in {NoFile, User, manifest[k][f]} \/ Gone(k)
        BY <2>2, <3>1 DEF FilesOK
      <3> QED
        BY <1>1, <1>5, <3>1, <3>2
    <2> QED
      BY <2>1, <2>2
  <1>8. ASSUME NEW f \in CommandFile, files'[f] \notin {NoFile, User}
        PROVE  \E k \in Integration :
                 /\ f \in Owned(k)
                 /\ \/ Freed(k, f)'
                    \/ Has(k)' /\ f \in DOMAIN manifest'[k]
                    \/ cli' # Idle /\ k = cli'.key /\ cli'.mem # NoManifest /\ f \in DOMAIN cli'.mem
                    \/ Todo("stale")' /\ k = cli'.key /\ f \in DOMAIN cli'.old
    <2>1. files[f] # NoFile /\ files[f] # User
      BY <1>5, <1>8
    <2>2. PICK k \in Integration :
            /\ f \in Owned(k)
            /\ \/ Freed(k, f) \/ (Has(k) /\ f \in DOMAIN manifest[k])
               \/ cli # Idle /\ k = cli.key /\ cli.mem # NoManifest /\ f \in DOMAIN cli.mem
               \/ Todo("stale") /\ k = cli.key /\ f \in DOMAIN cli.old
      BY <2>1, FileAccounted DEF Accounted
    <2>3. CASE Freed(k, f)
      BY <1>1, <2>2, <2>3
    <2>4. CASE Has(k) /\ f \in DOMAIN manifest[k] /\ k # cli.key
      BY <1>5, <1>6, <2>2, <2>4
    <2>5. CASE Has(k) /\ f \in DOMAIN manifest[k] /\ k = cli.key
      <3>1. CASE cli.op = "upgrade"
        <4>1. manifest[cli.key] = cli.old /\ Todo("stale")
          BY <1>3, <3>1 DEF FilesOK
        <4> QED
          BY <1>1, <1>3, <2>2, <2>5, <4>1
      <3>2. CASE cli.op # "upgrade"
        <4>1. Freed(k, f)
          BY <1>3, <2>5, <3>2 DEF ManifestsOK, Freed
        <4> QED
          BY <1>1, <2>2, <4>1
      <3> QED
        BY <3>1, <3>2
    <2>6. CASE k = cli.key /\ cli.mem # NoManifest /\ f \in DOMAIN cli.mem
      BY <1>5, <1>6, <2>2, <2>6
    <2>7. CASE Todo("stale") /\ k = cli.key /\ f \in DOMAIN cli.old
      BY <1>1, <1>3, <2>2, <2>7
    <2> QED
      BY <2>2, <2>3, <2>4, <2>5, <2>6, <2>7
  <1> QED
    BY <1>3, <1>7, <1>8 DEF FilesOK, Owned

(* teardown removes the files of an integration that goes, but for those    *)
(* that the user edited.                                                    *)
LEMMA FilesTornDown ==
  ASSUME OwnFiles, TypeOK, RunOK, ManifestsOK, FilesOK, TearDown, Stepped(cli.mem)
  PROVE  FilesOK'
  <1>1. /\ \A k : Gone(k) => Gone(k)'
        /\ \A k, f : Freed(k, f) => Freed(k, f)'
        /\ \A do : Todo(do)' => Todo(do) /\ cli' # Idle
        /\ \A do : Todo(do) /\ Step.do # do => Todo(do)'
        /\ cli' # Idle => /\ cli'.key = cli.key /\ cli'.op = cli.op /\ cli'.old = cli.old
                          /\ cli'.mem = cli.mem
        /\ cli # Idle /\ cli.key \in Integration /\ edits' = edits
        /\ \A do : Step.do = do => Todo(do)
    BY FilesPlan
  <1>2. Step.do = "teardown" /\ Step.key \in Integration /\ cli.op \in {"uninstall", "switch"}
    BY DEF Stepped, TearDown, At, Step, StepOK
  <1>3. PICK K : K = Step.key
    OBVIOUS
  <1>4. Todo("teardown") /\ Has(K) /\ cli.mem = NoManifest
    <2>1. Todo("teardown")
      BY <1>1, <1>2
    <2> QED
      BY <1>1, <1>3, <2>1 DEF RunOK
  <1>5. K \notin Keys(Goal)
    <2>1. Todo("json")
      BY <1>4 DEF ManifestsOK
    <2>2. Todo("json")'
      BY <1>1, <1>2, <2>1
    <2> QED
      BY <1>2, <1>3, <2>2 DEF Stepped
  <1>6. /\ \A k \in Integration : k # K => manifest'[k] = manifest[k] /\ (Has(k)' <=> Has(k))
        /\ \A k : k = K => ~Has(k)'
        /\ files' = Uninstall(manifest[K], files, Step.force)
    BY <1>2, <1>3 DEF TearDown, TypeOK, Has
  <1>7. K \in Integration
    BY <1>2, <1>3
  <1>8. \A f \in File : files'[f] \in {NoFile, files[f]} /\ (f \notin Owned(K) => files'[f] = files[f])
    <2>1. \A f \in DOMAIN manifest[K] : f \in Owned(K)
      BY <1>4, <1>7, ManifestFiles
    <2> QED
      BY <1>6, <2>1, UninstallIs
  <1>9. ASSUME NEW k \in Integration, Has(k)', NEW f \in DOMAIN manifest'[k]
        PROVE  /\ edits' = 0 => files'[f] # NoFile
               /\ \/ files'[f] \in {NoFile, User, manifest'[k][f]} \/ Gone(k)'
                  \/ Todo("manifest")' /\ k = cli'.key
    <2>1. k # K /\ Has(k) /\ manifest'[k] = manifest[k] /\ f \in DOMAIN manifest[k]
      BY <1>6, <1>9
    <2>2. f \in Owned(k) /\ f \in File
      BY <2>1, ManifestFiles
    <2>3. f \notin Owned(K)
      BY <1>7, <2>1, <2>2, OneOwner
    <2>4. files'[f] = files[f]
      BY <1>8, <2>2, <2>3
    <2>5. /\ edits = 0 => files[f] # NoFile
          /\ \/ files[f] \in {NoFile, User, manifest[k][f]} \/ Gone(k)
             \/ Todo("manifest") /\ k = cli.key
      BY <2>1 DEF FilesOK
    <2> QED
      BY <1>1, <1>2, <2>1, <2>4, <2>5
  <1>10. ASSUME NEW f \in CommandFile, files'[f] \notin {NoFile, User}
         PROVE  \E k \in Integration :
                 /\ f \in Owned(k)
                 /\ \/ Freed(k, f)'
                    \/ Has(k)' /\ f \in DOMAIN manifest'[k]
                    \/ cli' # Idle /\ k = cli'.key /\ cli'.mem # NoManifest /\ f \in DOMAIN cli'.mem
                    \/ Todo("stale")' /\ k = cli'.key /\ f \in DOMAIN cli'.old
    <2>1. files[f] # NoFile /\ files[f] # User /\ files'[f] = files[f] /\ files'[f] # NoFile /\ f \in File
      BY <1>8, <1>10 DEF File
    <2>2. PICK k \in Integration :
            /\ f \in Owned(k)
            /\ \/ Freed(k, f) \/ (Has(k) /\ f \in DOMAIN manifest[k])
               \/ cli # Idle /\ k = cli.key /\ cli.mem # NoManifest /\ f \in DOMAIN cli.mem
               \/ Todo("stale") /\ k = cli.key /\ f \in DOMAIN cli.old
      BY <2>1, FileAccounted DEF Accounted
    <2>3. CASE Freed(k, f)
      BY <1>1, <2>2, <2>3
    <2>4. CASE Has(k) /\ f \in DOMAIN manifest[k] /\ k # K
      BY <1>6, <2>2, <2>4
    <2>5. CASE Has(k) /\ f \in DOMAIN manifest[k] /\ k = K
      <3>1. files[f] # manifest[k][f]
        BY <1>6, <2>1, <2>5, UninstallIs
      <3>2. Gone(k) \/ (Todo("manifest") /\ k = cli.key)
        BY <2>1, <2>5, <3>1 DEF FilesOK
      <3>3. Todo("manifest") => cli.key \in Keys(Goal)
        BY DEF ManifestsOK
      <3> QED
        BY <1>1, <1>5, <2>2, <2>5, <3>2, <3>3 DEF Freed
    <2>6. CASE Todo("stale") /\ k = cli.key /\ f \in DOMAIN cli.old
      BY <1>1, <1>2, <2>2, <2>6
    <2> QED
      BY <1>4, <2>2, <2>3, <2>4, <2>5, <2>6
  <1>11. ~(Todo("manifest")' /\ cli'.op = "upgrade")
    BY <1>1, <1>2
  <1> QED
    BY <1>9, <1>10, <1>11 DEF FilesOK, Owned

(* The stale files of an upgrade go.                                        *)
LEMMA FilesStale ==
  ASSUME OwnFiles, TypeOK, RunOK, ManifestsOK, FilesOK, RemoveStale, Stepped(cli.mem)
  PROVE  FilesOK'
  <1>1. /\ \A k : Gone(k) => Gone(k)'
        /\ \A k, f : Freed(k, f) => Freed(k, f)'
        /\ cli # Idle /\ cli.key \in Integration /\ edits' = edits
    BY FilesPlan
  <1>2. /\ Step.do = "stale" /\ cli' = Idle /\ cli.old # NoManifest /\ ManifestOK(cli.old, cli.key)
        /\ \A do : Todo(do) <=> do = "stale"
        /\ DOMAIN StaleFiles = DOMAIN cli.old \ DOMAIN cli.mem
        /\ DOMAIN StaleFiles = {} => UNCHANGED <<files, manifest, lost>>
        /\ DOMAIN StaleFiles # {} =>
              /\ files' = [f \in File |-> IF f \in DOMAIN StaleFiles THEN NoFile ELSE files[f]]
              /\ manifest' = [manifest EXCEPT ![cli.key] = NoManifest]
              /\ lost' = lost \cup {<<cli.key, "upgrade">>} \cup {<<f, "left">> : f \in DOMAIN cli.mem}
    BY StaleIs
  <1>3. ~Todo("manifest") /\ ~Todo("setup") /\ Todo("stale") /\ \A do : ~Todo(do)'
    BY <1>2 DEF Todo
  <1>4. cli.mem # NoManifest /\ manifest[cli.key] = cli.mem
    BY <1>1, <1>3 DEF RunOK, ManifestsOK
  <1>5. Has(cli.key)
    BY <1>4 DEF Has
  <1>6. CASE DOMAIN StaleFiles = {}
    <2>1. UNCHANGED <<files, manifest, lost>> /\ DOMAIN cli.old \subseteq DOMAIN cli.mem
      BY <1>2, <1>6
    <2>2. \A k : Has(k)' <=> Has(k)
      BY <2>1 DEF Has
    <2>3. ASSUME NEW f \in CommandFile, files'[f] \notin {NoFile, User}
          PROVE  \E k \in Integration : f \in Owned(k) /\ (Freed(k, f)' \/ (Has(k)' /\ f \in DOMAIN manifest'[k]))
      <3>1. files[f] # NoFile /\ files[f] # User
        BY <2>1, <2>3
      <3>2. PICK k \in Integration :
            /\ f \in Owned(k)
            /\ \/ Freed(k, f) \/ (Has(k) /\ f \in DOMAIN manifest[k])
               \/ cli # Idle /\ k = cli.key /\ cli.mem # NoManifest /\ f \in DOMAIN cli.mem
               \/ Todo("stale") /\ k = cli.key /\ f \in DOMAIN cli.old
        BY <3>1, FileAccounted DEF Accounted
      <3> QED
        BY <1>1, <1>4, <1>5, <2>1, <2>2, <3>2
    <2>4. ASSUME NEW k \in Integration, Has(k)', NEW f \in DOMAIN manifest'[k]
          PROVE  /\ edits' = 0 => files'[f] # NoFile
                 /\ files'[f] \in {NoFile, User, manifest'[k][f]} \/ Gone(k)'
      <3>1. Has(k) /\ f \in DOMAIN manifest[k]
        BY <2>1, <2>2, <2>4
      <3>2. /\ edits = 0 => files[f] # NoFile
            /\ files[f] \in {NoFile, User, manifest[k][f]} \/ Gone(k)
        BY <1>3, <3>1 DEF FilesOK
      <3> QED
        BY <1>1, <2>1, <3>2
    <2> QED
      BY <1>3, <2>3, <2>4 DEF FilesOK, Owned
  <1>7. CASE DOMAIN StaleFiles # {}
    <2>1. /\ \A k \in Integration : k # cli.key => manifest'[k] = manifest[k] /\ (Has(k)' <=> Has(k))
          /\ \A k \in Integration : k = cli.key => ~Has(k)'
      BY <1>1, <1>2, <1>7 DEF TypeOK, Has
    <2>2. \A f \in File : /\ files'[f] \in {NoFile, files[f]}
                          /\ f \notin Owned(cli.key) => files'[f] = files[f]
      <3>1. \A f \in DOMAIN cli.old : f \in Owned(cli.key)
        BY <1>1, <1>2, Recorded
      <3> QED
        BY <1>2, <1>7, <3>1
    <2>3. ASSUME NEW f \in CommandFile, files'[f] \notin {NoFile, User}
          PROVE  \E k \in Integration : f \in Owned(k) /\ (Freed(k, f)' \/ (Has(k)' /\ f \in DOMAIN manifest'[k]))
      <3>1. files[f] # NoFile /\ files[f] # User
        BY <2>2, <2>3 DEF File
      <3>2. PICK k \in Integration :
            /\ f \in Owned(k)
            /\ \/ Freed(k, f) \/ (Has(k) /\ f \in DOMAIN manifest[k])
               \/ cli # Idle /\ k = cli.key /\ cli.mem # NoManifest /\ f \in DOMAIN cli.mem
               \/ Todo("stale") /\ k = cli.key /\ f \in DOMAIN cli.old
        BY <3>1, FileAccounted DEF Accounted
      <3>3. f \in DOMAIN cli.mem => Freed(k, f)'
        BY <1>2, <1>7 DEF Freed, Left
      <3>4. f \in DOMAIN cli.old => f \in DOMAIN cli.mem
        BY <1>2, <1>7, <2>3 DEF File
      <3>5. k = cli.key /\ Has(k) /\ f \in DOMAIN manifest[k] => f \in DOMAIN cli.mem
        BY <1>4
      <3> QED
        BY <1>1, <2>1, <3>2, <3>3, <3>4, <3>5
    <2>4. ASSUME NEW k \in Integration, Has(k)', NEW f \in DOMAIN manifest'[k]
          PROVE  /\ edits' = 0 => files'[f] # NoFile
                 /\ files'[f] \in {NoFile, User, manifest'[k][f]} \/ Gone(k)'
      <3>1. k # cli.key /\ Has(k) /\ f \in DOMAIN manifest[k] /\ manifest'[k] = manifest[k]
        BY <2>1, <2>4
      <3>2. /\ edits = 0 => files[f] # NoFile
            /\ files[f] \in {NoFile, User, manifest[k][f]} \/ Gone(k)
        BY <1>3, <3>1 DEF FilesOK
      <3>3. f \in Owned(k) /\ f \in File
        BY <3>1, ManifestFiles
      <3>4. files'[f] = files[f]
        BY <1>1, <2>2, <3>1, <3>3, OneOwner
      <3> QED
        BY <1>1, <3>1, <3>2, <3>4
    <2> QED
      BY <1>3, <2>3, <2>4 DEF FilesOK, Owned
  <1> QED
    BY <1>6, <1>7

(* Only upgrade removes stale files.                                        *)
LEMMA StaleAhead ==
  ASSUME TypeOK, Todo("stale")
  PROVE  cli.op = "upgrade"
  <1>1. cli # Idle /\ CommandOK(cli) /\ Pending(cli.todo, "stale")
    BY DEF Todo, TypeOK
  <1>2. PICK i \in DOMAIN cli.todo : cli.todo[i].do = "stale"
    BY <1>1 DEF Pending
  <1>3. StepOK(cli, cli.todo[i])
    BY <1>1 DEF CommandOK, PlanOK
  <1> QED
    BY <1>2, <1>3 DEF StepOK

(* A rollback removes what setup wrote.                                     *)
LEMMA FilesRolledBack ==
  ASSUME OwnFiles, TypeOK, RunOK, ManifestsOK, FilesOK, NEW mem, NEW new, NEW anew,
         RollsBack(mem, new, anew)
  PROVE  FilesOK'
  <1>1. /\ cli # Idle /\ cli.op \in {"install", "switch"} /\ cli.key \in Integration
        /\ cli' # Idle /\ cli'.op = "rollback" /\ cli'.key = cli.key /\ cli'.mem = NoManifest
        /\ mem # NoManifest /\ ManifestOK(mem, cli.key) /\ (At("setup") \/ mem = cli.mem)
        /\ \A f \in File : files'[f] = IF f \in DOMAIN mem THEN NoFile ELSE files[f]
        /\ manifest' = [manifest EXCEPT ![cli.key] = NoManifest]
        /\ lost \subseteq lost' /\ UNCHANGED <<conf, edits>>
    BY DEF RollsBack
  <1>2. \A do : Todo(do)' <=> do = "json" \/ (anew /\ do \in {"shared", "saveshared", "opts"})
    BY RollbackAhead
  <1>3. ~Todo("manifest")' /\ ~Todo("stale")'
    BY <1>2
  <1>4. (\A k : Gone(k) => Gone(k)') /\ \A k, f : Freed(k, f) => Freed(k, f)'
    BY <1>1 DEF Gone, Dropped, Freed, Left
  <1>5. /\ \A k \in Integration : k # cli.key => manifest'[k] = manifest[k] /\ (Has(k)' <=> Has(k))
        /\ \A k \in Integration : k = cli.key => ~Has(k)'
    BY <1>1 DEF Has, TypeOK
  <1>6. \A f \in DOMAIN mem : f \in Owned(cli.key)
    BY <1>1, Recorded
  <1>7. ~Todo("stale")
    BY <1>1, StaleAhead
  <1>8. At("setup") => Todo("manifest") /\ cli.mem = NoManifest
    <2>1. SUFFICES ASSUME At("setup") PROVE Todo("manifest") /\ cli.mem = NoManifest
      OBVIOUS
    <2>2. Todo("setup")
      <3>1. "setup" # "shared"
        OBVIOUS
      <3>2. CommandOK(cli) /\ Step.do = "setup" /\ Rest(cli, Tail(cli.todo))
        BY <2>1, <3>1, StepIs
      <3> QED
        BY <3>2, NextStep
    <2> QED
      BY <1>1, <2>2 DEF RunOK
  <1>9. ASSUME NEW k \in Integration, Has(k)', NEW f \in DOMAIN manifest'[k]
        PROVE  /\ edits' = 0 => files'[f] # NoFile
               /\ files'[f] \in {NoFile, User, manifest'[k][f]} \/ Gone(k)'
    <2>1. k # cli.key /\ Has(k) /\ f \in DOMAIN manifest[k] /\ manifest'[k] = manifest[k]
      BY <1>5, <1>9
    <2>2. /\ edits = 0 => files[f] # NoFile
          /\ files[f] \in {NoFile, User, manifest[k][f]} \/ Gone(k)
      BY <2>1 DEF FilesOK
    <2>3. f \in Owned(k) /\ f \in File
      BY <2>1, ManifestFiles
    <2>4. f \notin DOMAIN mem
      BY <1>1, <1>6, <2>1, <2>3, OneOwner
    <2> QED
      BY <1>1, <1>4, <2>1, <2>2, <2>3, <2>4
  <1>10. ASSUME NEW f \in CommandFile, files'[f] \notin {NoFile, User}
         PROVE  \E k \in Integration : f \in Owned(k) /\ (Freed(k, f)' \/ (Has(k)' /\ f \in DOMAIN manifest'[k]))
    <2>1. f \notin DOMAIN mem /\ files[f] # NoFile /\ files[f] # User
      BY <1>1, <1>10 DEF File
    <2>2. PICK k \in Integration :
            /\ f \in Owned(k)
            /\ \/ Freed(k, f) \/ (Has(k) /\ f \in DOMAIN manifest[k])
               \/ cli # Idle /\ k = cli.key /\ cli.mem # NoManifest /\ f \in DOMAIN cli.mem
               \/ Todo("stale") /\ k = cli.key /\ f \in DOMAIN cli.old
      BY <2>1, FileAccounted DEF Accounted
    <2>3. CASE Freed(k, f) \/ (Has(k) /\ f \in DOMAIN manifest[k] /\ k # cli.key)
      BY <1>4, <1>5, <2>2, <2>3
    <2>4. CASE Has(k) /\ f \in DOMAIN manifest[k] /\ k = cli.key
      <3>1. CASE Todo("manifest")
        <4>1. Freed(k, f)
          BY <1>1, <2>4, <3>1 DEF ManifestsOK, Freed
        <4> QED
          BY <1>4, <2>2, <4>1
      <3>2. CASE ~Todo("manifest")
        <4>1. mem = cli.mem
          BY <1>1, <1>8, <3>2
        <4>2. manifest[k] = mem
          BY <1>1, <2>4, <3>2, <4>1 DEF ManifestsOK
        <4> QED
          BY <2>1, <2>4, <4>2
      <3> QED
        BY <3>1, <3>2
    <2>5. CASE k = cli.key /\ cli.mem # NoManifest /\ f \in DOMAIN cli.mem
      BY <1>1, <1>8, <2>1, <2>5
    <2> QED
      BY <1>7, <2>2, <2>3, <2>4, <2>5
  <1> QED
    BY <1>3, <1>9, <1>10 DEF FilesOK, Owned

(* A command starts.                                                        *)
LEMMA FilesStart ==
  ASSUME TypeOK, FilesOK, NEW D, NEW new, Started(D, new)
  PROVE  FilesOK'
  <1>1. /\ cli' # Idle /\ \A do : Todo(do)' <=> do \in D
    BY StartedIs
  <1>2. /\ cli = Idle /\ UNCHANGED <<files, manifest, conf, lost, edits>> /\ MayRun(cli', D)
        /\ cli'.old = manifest[cli'.key]
    BY DEF Started, Starts
  <1>3. \A do : ~Todo(do)
    BY <1>2 DEF Todo
  <1>4. /\ (\A k : Gone(k) => Gone(k)') /\ (\A k : Has(k)' <=> Has(k))
        /\ \A k, f : Freed(k, f) => Freed(k, f)'
    BY <1>2, <1>3 DEF Gone, Dropped, Has, Freed, Left
  <1>5. ASSUME NEW k \in Integration, Has(k), NEW f \in DOMAIN manifest[k]
        PROVE  /\ edits' = 0 => files'[f] # NoFile
               /\ files'[f] \in {NoFile, User, manifest'[k][f]} \/ Gone(k)'
    BY <1>2, <1>3, <1>4, <1>5 DEF FilesOK
  <1>6. ASSUME NEW f \in CommandFile, files'[f] \notin {NoFile, User}
        PROVE  \E k \in Integration : f \in Owned(k) /\ (Freed(k, f)' \/ (Has(k)' /\ f \in DOMAIN manifest'[k]))
    <2>1. files[f] # NoFile /\ files[f] # User
      BY <1>2, <1>6
    <2>2. PICK k \in Integration : Accounted(k, f)
      BY <2>1, FileAccounted
    <2> QED
      BY <1>2, <1>3, <1>4, <2>2 DEF Accounted
  <1>7. Todo("manifest")' /\ cli'.op = "upgrade" => manifest'[cli'.key] = cli'.old /\ Todo("stale")'
    BY <1>1, <1>2 DEF MayRun
  <1> QED
    BY <1>2, <1>4, <1>5, <1>6, <1>7 DEF FilesOK, Owned

-----------------------------------------------------------------------------
(* What the user does, and the beginning. *)

(* The user edits between two commands.                                     *)
LEMMA UsersKeep ==
  ASSUME TypeOK, Users, ManifestsOK, OptionsOK, DialectOK
  PROVE  /\ ManifestsOK' /\ OptionsOK' /\ DialectOK'
         /\ FilesOK => FilesOK'
  <1>1. /\ cli = Idle /\ cli' = Idle /\ UNCHANGED <<manifest, conf, initopt, ops, lost>>
        /\ edits' = edits + 1
        /\ files' = files \/ \E f \in File, c \in {User, NoFile} : files' = [files EXCEPT ![f] = c]
        /\ shared' = shared \/ shared' = NoShared
    BY DEF Users, EditFile, EditContext, LoseSharedManifest, NewRelease, Edit
  <1>2. /\ Goal = conf /\ Goal' = conf /\ GoalOpt = initopt /\ GoalOpt' = initopt
        /\ (\A do : ~Todo(do)) /\ (\A do : ~Todo(do)') /\ ~At("saveshared") /\ ~At("saveshared")'
        /\ (\A k : Has(k)' <=> Has(k)) /\ (\A k : Gone(k)' <=> Gone(k)) /\ (\A k : Untold(k)' <=> Untold(k))
        /\ (\A k, f : Freed(k, f)' <=> Freed(k, f)) /\ (SharedStale' <=> SharedStale)
    BY <1>1 DEF Goal, GoalOpt, Todo, At, Has, Gone, Dropped, Untold, Freed, Left, SharedStale
  <1>3. ManifestsOK'
    BY <1>1, <1>2 DEF ManifestsOK, Keys
  <1>4. OptionsOK'
    BY <1>1, <1>2 DEF OptionsOK
  <1>5. \A f \in File : files'[f] \in {NoFile, User, files[f]}
    BY <1>1 DEF TypeOK
  <1>6. DialectOK'
    <2>1. ops' = 0 => shared' = NoShared /\ cli' = Idle
      BY <1>1 DEF DialectOK
    <2>2. SharedLost' <=> SharedLost
      BY <1>2 DEF SharedLost
    <2>3. ASSUME ~SharedLost PROVE \A f \in SharedFile : IsManaged(shared', files', f) => files'[f][2] = Dialect(Goal')
      <3>1. Speak(shared, Dialect(Goal))
        BY <1>2, <2>3 DEF DialectOK
      <3>2. ASSUME NEW f \in SharedFile, IsManaged(shared', files', f) PROVE files'[f][2] = Dialect(Goal')
        <4>1. shared' = shared
          BY <1>1, <3>2 DEF IsManaged, NoShared
        <4>2. files'[f] # NoFile /\ files'[f] # User
          BY <3>2, <4>1 DEF IsManaged, TypeOK, SharedOK
        <4>3. files'[f] = files[f]
          BY <1>5, <4>2 DEF File
        <4>4. IsManaged(shared, files, f)
          BY <3>2, <4>1, <4>3 DEF IsManaged
        <4> QED
          BY <1>2, <3>1, <4>3, <4>4 DEF Speak
      <3> QED
        BY <3>2
    <2> QED
      BY <1>1, <1>2, <2>1, <2>2, <2>3 DEF DialectOK, Speak, Dialect
  <1>7. ASSUME FilesOK PROVE FilesOK'
    <2>1. edits' # 0
      BY <1>1 DEF TypeOK
    <2>2. ASSUME NEW k \in Integration, Has(k), NEW f \in DOMAIN manifest[k]
          PROVE  files'[f] \in {NoFile, User, manifest'[k][f]} \/ Gone(k)'
      <3>1. f \in File
        BY <2>2, ManifestFiles
      <3>2. files[f] \in {NoFile, User, manifest[k][f]} \/ Gone(k)
        BY <1>2, <1>7, <2>2 DEF FilesOK
      <3> QED
        BY <1>1, <1>2, <1>5, <3>1, <3>2
    <2>3. ASSUME NEW f \in CommandFile, files'[f] \notin {NoFile, User}
          PROVE  \E k \in Integration : f \in Owned(k) /\ (Freed(k, f)' \/ (Has(k)' /\ f \in DOMAIN manifest'[k]))
      <3>1. files[f] # NoFile /\ files[f] # User
        BY <1>5, <2>3 DEF File
      <3>2. PICK k \in Integration : Accounted(k, f)
        BY <1>7, <3>1, FileAccounted
      <3> QED
        BY <1>1, <1>2, <3>2 DEF Accounted
    <2> QED
      BY <1>1, <1>2, <2>1, <2>2, <2>3 DEF FilesOK, Owned
  <1> QED
    BY <1>3, <1>4, <1>6, <1>7

(* The initial state.                                                       *)
LEMMA InitKeeps ==
  ASSUME Init
  PROVE  ManifestsOK /\ OptionsOK /\ DialectOK /\ FilesOK
  <1>1. /\ cli = Idle /\ conf = NoConf /\ initopt = None /\ ops = 0 /\ shared = NoShared
        /\ \A k \in Integration : ~Has(k)
        /\ \A f \in File : files[f] = NoFile
    BY DEF Init, Has
  <1>2. /\ Goal = NoConf /\ GoalOpt = None
        /\ \A do : ~Todo(do)
    BY <1>1 DEF Goal, GoalOpt, Todo
  <1>3. Keys(Goal) = {} /\ Goal.default = None
    BY <1>2, NoConfOK DEF NoConf
  <1>4. ManifestsOK
    BY <1>1, <1>2, <1>3 DEF ManifestsOK
  <1>5. OptionsOK
    BY <1>1, <1>2, <1>3 DEF OptionsOK
  <1>6. DialectOK
    BY <1>1, <1>2 DEF DialectOK, SharedLost
  <1>7. FilesOK
    BY <1>1, <1>2 DEF FilesOK, File
  <1> QED
    BY <1>4, <1>5, <1>6, <1>7

-----------------------------------------------------------------------------
(* Every step keeps the invariant. *)

(* A step of a command that leaves the command files and manifests alone.   *)
LEMMA QuietKeeps ==
  ASSUME TypeOK, RunOK, Described,
         WriteSharedFiles \/ SaveShared \/ WriteJson \/ UpdateOpts \/ ClearOpts
  PROVE  Described' /\ (FilesOK => FilesOK')
  <1>1. Stepped(cli.mem)
    BY PlainStepped
  <1>2. /\ manifest' = manifest /\ Step.do \in {"shared", "saveshared", "json", "opts", "clear"}
    BY DEF WriteSharedFiles, SaveShared, WriteJson, UpdateOpts, ClearOpts, At, Step
  <1>3. ManifestsOK'
    BY <1>1, <1>2, ManifestsStep DEF Described
  <1>4. OptionsOK'
    BY <1>1, OptionsStep DEF Described
  <1>5. DialectOK'
    <2>1. CASE WriteSharedFiles
      BY <1>1, <2>1, DialectWritten DEF Described
    <2>2. CASE SaveShared
      BY <1>1, <2>2, DialectSaved DEF Described
    <2>3. CASE WriteJson \/ UpdateOpts \/ ClearOpts
      <3>1. /\ shared' = shared /\ files' = files /\ Step.do \in {"json", "opts", "clear"}
            /\ Step.do = "json" => lost' = lost \cup Forgotten
        BY <2>3 DEF WriteJson, UpdateOpts, ClearOpts, At, Step
      <3>2. /\ Step.do \notin {"shared", "saveshared"}
            /\ \A f \in SharedFile : files'[f] = files[f]
        BY <3>1
      <3> QED
        BY <1>1, <3>1, <3>2, DialectStep DEF Described
    <2> QED
      BY <2>1, <2>2, <2>3
  <1>6. \A f \in CommandFile : files'[f] = files[f]
    <2>1. CASE WriteSharedFiles
      BY <2>1, WriteSharedIs
    <2>2. CASE ~WriteSharedFiles
      BY <2>2 DEF SaveShared, WriteJson, UpdateOpts, ClearOpts
    <2> QED
      BY <2>1, <2>2
  <1>7. Step.do \notin {"setup", "manifest", "teardown", "stale"}
    BY <1>2
  <1>8. FilesOK => FilesOK'
    BY <1>1, <1>2, <1>6, <1>7, FilesStep DEF Described
  <1> QED
    BY <1>3, <1>4, <1>5, <1>8 DEF Described

(* setup.                                                                   *)
LEMMA SetUpKeeps ==
  ASSUME TypeOK, RunOK, Described, SetUp
  PROVE  Described' /\ (OwnFiles /\ FilesOK => FilesOK')
  <1>1. PICK m : m = Record(Files(cli.key, Step.opt))
    OBVIOUS
  <1>2. Stepped(m)
    BY <1>1, SetUpStepped
  <1>3. /\ Step.do = "setup" /\ manifest' = manifest /\ shared' = shared
    BY DEF SetUp, At, Step
  <1>4. Todo("manifest")'
    <2>1. cli # Idle /\ \A do : Todo(do) <=> Step.do = do \/ Todo(do)'
      BY <1>2 DEF Stepped
    <2>2. Todo("setup")
      BY <1>3, <2>1
    <2>3. Todo("manifest")
      BY <2>1, <2>2 DEF RunOK
    <2> QED
      BY <1>3, <2>1, <2>3
  <1>5. ManifestsOK'
    BY <1>2, <1>3, <1>4, ManifestsStep DEF Described
  <1>6. OptionsOK'
    BY <1>2, <1>3, OptionsStep DEF Described
  <1>7. \A f \in SharedFile : files'[f] = files[f]
    <2>1. Files(cli.key, Step.opt) \subseteq Owned(cli.key) /\ cli.key \in Integration
          /\ \A f \in File : f \notin Files(cli.key, Step.opt) => files'[f] = files[f]
      BY SetUpIs
    <2>2. Owned(cli.key) \cap SharedFile = {}
      BY <2>1, OwnedFiles
    <2> QED
      BY <2>1, <2>2 DEF File
  <1>8. DialectOK'
    <2>1. Step.do \notin {"shared", "saveshared"} /\ Step.do # "json"
      BY <1>3
    <2> QED
      BY <1>2, <1>3, <1>7, <2>1, DialectStep DEF Described
  <1>9. OwnFiles /\ FilesOK => FilesOK'
    BY <1>1, <1>2, FilesSetUp DEF Described
  <1> QED
    BY <1>5, <1>6, <1>8, <1>9 DEF Described

(* The manifest is saved, or a manifest is removed with its files.          *)
LEMMA ManifestKeeps ==
  ASSUME TypeOK, RunOK, Described, SaveManifest \/ TearDown \/ RemoveStale
  PROVE  Described' /\ (OwnFiles /\ FilesOK => FilesOK')
  <1>1. Stepped(cli.mem)
    BY PlainStepped
  <1>2. /\ Step.do \in {"manifest", "teardown", "stale"} /\ shared' = shared
    BY DEF SaveManifest, TearDown, RemoveStale, At, Step
  <1>3. ManifestsOK'
    BY <1>1, ManifestsSaved, ManifestsTornDown, ManifestsStale DEF Described
  <1>4. OptionsOK'
    BY <1>1, OptionsStep DEF Described
  <1>5. \A f \in SharedFile : files'[f] = files[f]
    <2>1. CASE SaveManifest
      BY <2>1 DEF SaveManifest
    <2>2. CASE TearDown
      <3>1. files' = Uninstall(manifest[Step.key], files, Step.force)
        BY <2>2 DEF TearDown
      <3>2. Step.do = "teardown" /\ Step.key \in Integration /\ cli # Idle
        BY <1>1, <2>2 DEF TearDown, Stepped, At, Step, StepOK
      <3>3. Has(Step.key)
        <4>1. Todo("teardown")
          BY <1>1, <3>2 DEF Stepped
        <4> QED
          BY <3>2, <4>1 DEF RunOK
      <3>4. \A f \in DOMAIN manifest[Step.key] : f \in Owned(Step.key)
        BY <3>2, <3>3, ManifestFiles
      <3>5. Owned(Step.key) \cap SharedFile = {}
        BY <3>2, OwnedFiles
      <3>6. ASSUME NEW f \in SharedFile PROVE files'[f] = files[f]
        <4>1. f \in File /\ f \notin DOMAIN manifest[Step.key]
          BY <3>4, <3>5 DEF File
        <4> QED
          BY <3>1, <4>1, UninstallIs
      <3> QED
        BY <3>6
    <2>3. CASE RemoveStale
      <3>1. /\ cli.old # NoManifest /\ ManifestOK(cli.old, cli.key) /\ cli.key \in Integration
            /\ DOMAIN StaleFiles = DOMAIN cli.old \ DOMAIN cli.mem
            /\ DOMAIN StaleFiles = {} => files' = files
            /\ DOMAIN StaleFiles # {} =>
                 files' = [f \in File |-> IF f \in DOMAIN StaleFiles THEN NoFile ELSE files[f]]
        BY <2>3, StaleIs
      <3>2. \A f \in DOMAIN cli.old : f \notin SharedFile
        BY <3>1, Recorded
      <3> QED
        BY <3>1, <3>2 DEF File
    <2> QED
      BY <2>1, <2>2, <2>3
  <1>6. DialectOK'
    <2>1. Step.do \notin {"shared", "saveshared"} /\ Step.do # "json"
      BY <1>2
    <2> QED
      BY <1>1, <1>2, <1>5, <2>1, DialectStep DEF Described
  <1>7. OwnFiles /\ FilesOK => FilesOK'
    BY <1>1, FilesSaved, FilesTornDown, FilesStale DEF Described
  <1> QED
    BY <1>3, <1>4, <1>6, <1>7 DEF Described

(* Nothing happens.                                                         *)
LEMMA StutterKeeps ==
  ASSUME UNCHANGED vars
  PROVE  /\ Described => Described'
         /\ FilesOK => FilesOK'
  <1>1. UNCHANGED <<files, manifest, shared, conf, initopt, ctx, version, cli, ops, edits, stopped, lost>>
    BY DEF vars
  <1>2. ManifestsOK => ManifestsOK'
    BY <1>1 DEF ManifestsOK, Keys, Goal, Todo, Gone, Dropped, Untold, Has, Step, InstalledKeys, Kept
  <1>3. OptionsOK => OptionsOK'
    BY <1>1 DEF OptionsOK, Goal, GoalOpt, Todo, Kept
  <1>4. DialectOK => DialectOK'
    BY <1>1 DEF DialectOK, SharedLost, SharedStale, Goal, Dialect, Speak, Todo, At, Step
  <1>5. FilesOK => FilesOK'
    <2>1. /\ \A k : Has(k)' <=> Has(k)
          /\ \A k : Gone(k)' <=> Gone(k)
          /\ \A k, f : Freed(k, f)' <=> Freed(k, f)
          /\ \A do : Todo(do)' <=> Todo(do)
      BY <1>1 DEF Todo, Gone, Dropped, Freed, Left, Has, InstalledKeys
    <2>2. \A k : Owned(k)' = Owned(k)
      BY DEF Owned
    <2> QED
      BY <1>1, <2>1, <2>2 DEF FilesOK
  <1> QED
    BY <1>2, <1>3, <1>4, <1>5 DEF Described

(* Every step keeps the invariant, as long as no command is killed.         *)
LEMMA StepKeeps ==
  ASSUME TypeOK, RunOK, [Next]_vars, ~stopped => Described
  PROVE  /\ ~stopped' => ~stopped /\ Described'
         /\ OwnFiles /\ (~stopped => FilesOK) => (~stopped' => FilesOK')
  <1>1. CASE Stop
    BY <1>1 DEF Stop
  <1>2. ASSUME ~Stop PROVE stopped' = stopped
    <2>1. CASE Commands
      BY <2>1, CommandsStart DEF Started
    <2>2. CASE Users
      BY <2>2 DEF Users, EditFile, EditContext, LoseSharedManifest, NewRelease
    <2>3. CASE Raise
      BY <2>3 DEF Raise, Rollback
    <2>4. CASE WriteSharedFiles \/ SaveShared \/ SetUp \/ SaveManifest \/ TearDown
      BY <2>4 DEF WriteSharedFiles, SaveShared, SetUp, SaveManifest, TearDown
    <2>5. CASE WriteJson \/ UpdateOpts \/ ClearOpts \/ RemoveStale
      BY <2>5 DEF WriteJson, UpdateOpts, ClearOpts, RemoveStale
    <2>6. CASE UNCHANGED vars
      BY <2>6 DEF vars
    <2> QED
      BY <1>2, <2>1, <2>2, <2>3, <2>4, <2>5, <2>6 DEF Next, Steps
  <1>3. SUFFICES ASSUME ~Stop, ~stopped
                 PROVE  Described' /\ (OwnFiles /\ FilesOK => FilesOK')
    BY <1>1, <1>2
  <1>4. Described
    BY <1>3
  <1>5. CASE WriteSharedFiles \/ SaveShared \/ WriteJson \/ UpdateOpts \/ ClearOpts
    BY <1>4, <1>5, QuietKeeps
  <1>6. CASE SetUp
    BY <1>4, <1>6, SetUpKeeps
  <1>7. CASE SaveManifest \/ TearDown \/ RemoveStale
    BY <1>4, <1>7, ManifestKeeps
  <1>8. CASE Raise
    <2>1. PICK mem, new, anew : RollsBack(mem, new, anew)
      BY <1>8, RaiseIs
    <2> QED
      BY <1>4, <2>1, ManifestsRolledBack, OptionsRolledBack, DialectRolledBack, FilesRolledBack DEF Described
  <1>9. CASE Commands
    <2>1. PICK D, new : Started(D, new)
      BY <1>9, CommandsStart
    <2> QED
      BY <1>4, <2>1, ManifestsStart, OptionsStart, DialectStart, FilesStart DEF Described
  <1>10. CASE Users
    BY <1>4, <1>10, UsersKeep DEF Described
  <1>11. CASE UNCHANGED vars
    BY <1>4, <1>11, StutterKeeps
  <1> QED
    BY <1>3, <1>5, <1>6, <1>7, <1>8, <1>9, <1>10, <1>11 DEF Next, Steps

(* The invariant holds always.                                              *)
THEOREM DescriptionsFollowThePlan == Spec => [](~stopped => Described)
  <1>1. Init => (~stopped => Described)
    BY InitKeeps DEF Described
  <1>2. TypeOK /\ RunOK /\ (~stopped => Described) /\ [Next]_vars => (~stopped => Described)'
    BY StepKeeps
  <1> QED
    BY <1>1, <1>2, IntegrationsTyped, PTL DEF Spec

(* And so does what is said of the command files, for integrations with     *)
(* files of their own.                                                      *)
THEOREM FilesFollowThePlan == OwnFiles /\ Spec => []((~stopped => FilesOK) /\ OwnFiles)
  <1>1. OwnFiles /\ Init => (~stopped => FilesOK) /\ OwnFiles
    BY InitKeeps
  <1>2. OwnFiles => OwnFiles'
    <2>1. \A k : Owned(k)' = Owned(k)
      BY DEF Owned
    <2> QED
      BY <2>1 DEF OwnFiles
  <1>3. /\ TypeOK /\ RunOK /\ (~stopped => Described)
        /\ (~stopped => FilesOK) /\ OwnFiles /\ [Next]_vars
        => ((~stopped => FilesOK) /\ OwnFiles)'
    BY <1>2, StepKeeps
  <1> QED
    BY <1>1, <1>3, IntegrationsTyped, DescriptionsFollowThePlan, PTL DEF Spec

(* The shared files that Spec Kit manages speak the dialect of the default  *)
(* integration after every command that ran to its end or was rolled back,  *)
(* for any integrations, options and releases: SharedFollowsDefault.        *)
THEOREM SharedFilesFollowDefault == Spec => []SharedFollowsDefault
  <1>1. (~stopped => Described) => SharedFollowsDefault
    <2>1. SUFFICES ASSUME ~stopped => Described, Settled, conf # NoConf, ~SharedStale,
                          NEW f \in SharedFile, IsManaged(shared, files, f)
                   PROVE  files[f][2] = Sep[conf.default][conf.opt[conf.default]]
      BY DEF SharedFollowsDefault
    <2>2. DialectOK /\ cli = Idle
      BY <2>1 DEF Described, Settled
    <2>3. Goal = conf /\ (\A do : ~Todo(do)) /\ ~At("saveshared")
      BY <2>2 DEF Goal, Todo, At
    <2>4. ~SharedLost
      BY <2>1, <2>3 DEF SharedLost
    <2>5. Speak(shared, Dialect(conf))
      BY <2>2, <2>3, <2>4 DEF DialectOK
    <2> QED
      BY <2>1, <2>5 DEF Speak, Dialect
  <1> QED
    BY <1>1, DescriptionsFollowThePlan, PTL

(* After commands that ran to their end, or failed and rolled back, the     *)
(* files that describe the project agree and the status report finds no     *)
(* manifest and no file missing: DescriptionsAgree.                         *)
THEOREM DescriptionsAlwaysAgree == OwnFiles /\ Spec => []DescriptionsAgree
  <1>1. TypeOK /\ (~stopped => Described) /\ (~stopped => FilesOK) => DescriptionsAgree
    <2>1. SUFFICES ASSUME TypeOK, ~stopped => Described, ~stopped => FilesOK, Settled
                   PROVE  /\ initopt = conf.default /\ IsInjective(conf.installed)
                          /\ conf = NoConf \/ conf.default \in InstalledKeys
                          /\ \A k \in Integration : Has(k) /\ ~Dropped(k) => k \in InstalledKeys
                          /\ \A e \in StatusErrors : e[1] = "nomanifest" => Untold(e[2])
                          /\ edits = 0 => \A e \in StatusErrors : e[1] # "nofiles"
      BY DEF DescriptionsAgree
    <2>2. ManifestsOK /\ OptionsOK /\ FilesOK /\ cli = Idle /\ ConfOK(conf)
      BY <2>1 DEF Described, Settled, TypeOK
    <2>3. /\ Goal = conf /\ GoalOpt = initopt /\ (\A do : ~Todo(do)) /\ Keys(conf) = InstalledKeys
          /\ \A k : Gone(k) <=> Dropped(k)
      BY <2>2 DEF Goal, GoalOpt, Todo, Keys, InstalledKeys, Gone
    <2>4. initopt = conf.default
      BY <2>2, <2>3 DEF OptionsOK
    <2>5. IsInjective(conf.installed) /\ (conf = NoConf \/ conf.default \in InstalledKeys)
      BY <2>2, <2>3, InstalledIs, ConfFacts
    <2>6. \A k \in Integration : Has(k) /\ ~Dropped(k) => k \in InstalledKeys
      BY <2>2, <2>3 DEF ManifestsOK
    <2>7. ASSUME NEW e \in StatusErrors
          PROVE  \/ \E k \in InstalledKeys : e = <<"nomanifest", k>> /\ ~Has(k)
                 \/ \E k \in InstalledKeys : /\ e = <<"nofiles", k>> /\ Has(k)
                                             /\ \E f \in DOMAIN manifest[k] : files[f] = NoFile
                 \/ e = <<"unsafe", None>> \/ e = <<"nostate", None>>
      BY DEF StatusErrors
    <2>8. ASSUME NEW e \in StatusErrors, e[1] = "nomanifest" PROVE Untold(e[2])
      <3>1. PICK k \in InstalledKeys : e = <<"nomanifest", k>> /\ ~Has(k)
        BY <2>7, <2>8
      <3> QED
        BY <2>2, <2>3, <3>1 DEF ManifestsOK
    <2>9. ASSUME edits = 0, NEW e \in StatusErrors, e[1] = "nofiles" PROVE FALSE
      <3>1. PICK k \in InstalledKeys : /\ e = <<"nofiles", k>> /\ Has(k)
                                       /\ \E f \in DOMAIN manifest[k] : files[f] = NoFile
        BY <2>7, <2>9
      <3>2. k \in Integration
        BY <2>2, <2>3, <3>1, ConfFacts
      <3> QED
        BY <2>2, <2>9, <3>1, <3>2 DEF FilesOK
    <2> QED
      BY <2>4, <2>5, <2>6, <2>8, <2>9
  <1> QED
    BY <1>1, IntegrationsTyped, DescriptionsFollowThePlan, FilesFollowThePlan, PTL

(* No command file outlives its integration or stays behind where an        *)
(* upgrade moved it: NoOrphans.                                             *)
THEOREM FilesHaveOwners == OwnFiles /\ Spec => []NoOrphans
  <1>1. TypeOK /\ (~stopped => Described) /\ (~stopped => FilesOK) => NoOrphans
    <2>1. SUFFICES ASSUME TypeOK, ~stopped => Described, ~stopped => FilesOK, Settled,
                          NEW f \in CommandFile, files[f] \notin {NoFile, User}
                   PROVE  \E k \in Integration :
                            /\ f \in Owned(k)
                            /\ Dropped(k) \/ Left(f) \/ (k \in InstalledKeys /\ Has(k) /\ f \in DOMAIN manifest[k])
      BY DEF NoOrphans
    <2>2. ManifestsOK /\ FilesOK /\ cli = Idle
      BY <2>1 DEF Described, Settled
    <2>3. /\ Goal = conf /\ (\A do : ~Todo(do)) /\ Keys(conf) = InstalledKeys
          /\ \A k : Gone(k) <=> Dropped(k)
      BY <2>2 DEF Goal, Todo, Keys, InstalledKeys, Gone
    <2>4. files[f] # NoFile /\ files[f] # User
      BY <2>1
    <2>5. PICK k \in Integration : Accounted(k, f)
      BY <2>2, <2>4, FileAccounted
    <2>6. Dropped(k) \/ Left(f) \/ (Has(k) /\ f \in DOMAIN manifest[k])
      BY <2>2, <2>3, <2>5 DEF Accounted, Freed
    <2>7. Dropped(k) \/ Left(f) \/ k \in InstalledKeys
      BY <2>2, <2>3, <2>6 DEF ManifestsOK
    <2> QED
      BY <2>5, <2>6, <2>7 DEF Accounted
  <1> QED
    BY <1>1, IntegrationsTyped, DescriptionsFollowThePlan, FilesFollowThePlan, PTL

-----------------------------------------------------------------------------
(* What the user edited. *)

\* f is a file that the user edited and that the command may not touch.
Protected(f) ==
  /\ files[f] = User
  /\ \/ ~cli.sforce /\ f \in SharedFile
     \/ ~cli.force /\ \E k \in InstalledKeys : Has(k) /\ f \in DOMAIN manifest[k]

(* A protected file that is not a shared file is of an installed            *)
(* integration, and the command does not force.                             *)
LEMMA ProtectedIs ==
  ASSUME TypeOK, NEW f, Protected(f)
  PROVE  /\ f \in File /\ files[f] = User
         /\ \/ f \in SharedFile /\ f \notin CommandFile /\ ~cli.sforce
            \/ /\ ~cli.force /\ f \in CommandFile /\ f \notin SharedFile
               /\ \E k \in Integration : k \in InstalledKeys /\ Has(k) /\ f \in DOMAIN manifest[k] /\ f \in Owned(k)
  <1>1. CommandFile \cap SharedFile = {}
    BY IntegrationsAssumption
  <1>2. CASE ~cli.sforce /\ f \in SharedFile
    BY <1>1, <1>2 DEF Protected, File
  <1>3. CASE ~cli.force /\ \E k \in InstalledKeys : Has(k) /\ f \in DOMAIN manifest[k]
    <2>1. PICK k \in InstalledKeys : Has(k) /\ f \in DOMAIN manifest[k]
      BY <1>3
    <2>2. k \in Integration
      <3>1. ConfOK(conf) /\ Keys(conf) = InstalledKeys
        BY DEF TypeOK, Keys, InstalledKeys
      <3> QED
        BY <2>1, <3>1, ConfFacts
    <2>3. f \in Owned(k) /\ f \in CommandFile /\ f \in File
      BY <2>1, <2>2, ManifestFiles
    <2> QED
      BY <1>1, <1>3, <2>1, <2>2, <2>3 DEF Protected
  <1> QED
    BY <1>2, <1>3 DEF Protected

(* install_shared_infra overwrites only what Spec Kit wrote, unless told.   *)
LEMMA SharedEditsKept ==
  ASSUME TypeOK, WriteSharedFiles, NEW f, Protected(f)
  PROVE  files'[f] = User
  <1>1. Step.do = "shared" /\ StepOK(cli, Step) /\ \A g \in CommandFile : files'[g] = files[g]
    BY WriteSharedIs
  <1>2. files' = WriteShared(shared, files, Step.force, Step.refresh, SharedContent(Step.key, Step.opt))
    BY DEF WriteSharedFiles
  <1>3. f \in File /\ files[f] = User /\ (f \in CommandFile \/ (f \in SharedFile /\ ~cli.sforce))
    BY ProtectedIs
  <1>4. CASE f \in SharedFile /\ ~cli.sforce
    <2>1. ~Step.force
      BY <1>1, <1>4 DEF StepOK
    <2>2. User # NoFile
      BY IntegrationsAssumption
    <2>3. ~IsManaged(shared, files, f)
      BY <1>3 DEF IsManaged, TypeOK, SharedOK
    <2>4. f \notin Planned(shared, files, Step.force, Step.refresh)
      BY <1>3, <2>1, <2>2, <2>3 DEF Planned, DecideOverwrite
    <2> QED
      BY <1>2, <1>3, <2>4 DEF WriteShared
  <1> QED
    BY <1>1, <1>3, <1>4

(* setup writes over nothing that is protected.                             *)
LEMMA SetUpEditsKept ==
  ASSUME OwnFiles, TypeOK, RunOK, SetUp, NEW f, Protected(f)
  PROVE  files'[f] = User
  <1>1. PICK w : w = Files(cli.key, Step.opt)
    OBVIOUS
  <1>2. /\ CommandOK(cli) /\ cli # Idle /\ Step.do = "setup" /\ Rest(cli, Tail(cli.todo))
        /\ cli.key \in Integration /\ w \subseteq Owned(cli.key)
        /\ \A g \in File : g \notin w => files'[g] = files[g]
    BY <1>1, SetUpIs
  <1>3. Todo("setup")
    BY <1>2, NextStep
  <1>4. /\ cli.op \in {"install", "switch", "upgrade", "init"}
        /\ cli.op \in {"install", "switch"} => cli.key \notin InstalledKeys
        /\ cli.op = "upgrade" => /\ manifest[cli.key] = cli.old
                                 /\ ~cli.force => \A g \in DOMAIN cli.old : files[g] # User
        /\ cli.op = "init" => cli.force
    BY <1>2, <1>3 DEF RunOK
  <1>5. /\ f \in File /\ files[f] = User
        /\ \/ f \in SharedFile /\ f \notin CommandFile
           \/ /\ ~cli.force
              /\ \E k \in Integration : k \in InstalledKeys /\ Has(k) /\ f \in DOMAIN manifest[k] /\ f \in Owned(k)
    BY ProtectedIs
  <1>6. f \notin w
    <2>1. SUFFICES ASSUME f \in w PROVE FALSE
      OBVIOUS
    <2>2. f \in Owned(cli.key) /\ f \in CommandFile
      BY <1>2, <2>1, OwnedFiles
    <2>3. PICK k \in Integration : k \in InstalledKeys /\ Has(k) /\ f \in DOMAIN manifest[k] /\ f \in Owned(k)
      BY <1>5, <2>2
    <2>4. ~cli.force
      BY <1>5, <2>2
    <2>5. k = cli.key
      BY <1>2, <2>2, <2>3, OneOwner
    <2> QED
      BY <1>4, <1>5, <2>3, <2>4, <2>5
  <1> QED
    BY <1>2, <1>5, <1>6

(* teardown leaves what was edited, unless told.                            *)
LEMMA TearDownEditsKept ==
  ASSUME TypeOK, RunOK, TearDown, NEW f, Protected(f)
  PROVE  files'[f] = User
  <1>1. PICK K : K = Step.key
    OBVIOUS
  <1>2. "teardown" # "shared" /\ At("teardown")
    BY DEF TearDown
  <1>3. /\ CommandOK(cli) /\ cli # Idle /\ Step.do = "teardown" /\ Rest(cli, Tail(cli.todo))
        /\ StepOK(cli, Step)
    BY <1>2, StepIs
  <1>4. Todo("teardown")
    BY <1>3, NextStep
  <1>5. K \in Integration /\ Has(K) /\ Step.force = cli.force
    BY <1>1, <1>3, <1>4 DEF RunOK, StepOK
  <1>6. /\ f \in File /\ files[f] = User
        /\ (f \in SharedFile /\ f \notin CommandFile) \/ ~cli.force
    BY ProtectedIs
  <1>7. files' = Uninstall(manifest[K], files, cli.force)
    BY <1>1, <1>5 DEF TearDown
  <1>8. CASE f \in DOMAIN manifest[K]
    <2>1. f \in CommandFile /\ manifest[K][f] # User
      BY <1>5, <1>8, ManifestFiles
    <2>2. ~cli.force /\ manifest[K][f] # files[f]
      BY <1>6, <2>1
    <2> QED
      BY <1>6, <1>7, <2>2, UninstallIs
  <1>9. CASE f \notin DOMAIN manifest[K]
    BY <1>6, <1>7, <1>9, UninstallIs
  <1> QED
    BY <1>8, <1>9

(* An upgrade removes no stale file that the user edited, unless told.      *)
LEMMA StaleEditsKept ==
  ASSUME OwnFiles, TypeOK, RunOK, RemoveStale, NEW f, Protected(f)
  PROVE  files'[f] = User
  <1>1. /\ cli # Idle /\ cli.op = "upgrade" /\ cli.key \in Integration
        /\ cli.old # NoManifest /\ ManifestOK(cli.old, cli.key)
        /\ DOMAIN StaleFiles = DOMAIN cli.old \ DOMAIN cli.mem
        /\ DOMAIN StaleFiles = {} => files' = files
        /\ DOMAIN StaleFiles # {} =>
             files' = [g \in File |-> IF g \in DOMAIN StaleFiles THEN NoFile ELSE files[g]]
    BY StaleIs
  <1>2. f \in File /\ files[f] = User /\ (f \notin CommandFile \/ ~cli.force)
    BY ProtectedIs
  <1>3. f \notin DOMAIN cli.old
    <2>1. f \in DOMAIN cli.old => f \in CommandFile
      BY <1>1, Recorded
    <2>2. ~cli.force => \A g \in DOMAIN cli.old : files[g] # User
      BY <1>1 DEF RunOK
    <2> QED
      BY <1>2, <2>1, <2>2
  <1> QED
    BY <1>1, <1>2, <1>3

(* A rollback removes only what the command wrote.                          *)
LEMMA RollbackEditsKept ==
  ASSUME OwnFiles, TypeOK, RunOK, NEW mem, NEW new, NEW anew, RollsBack(mem, new, anew),
         NEW f, Protected(f)
  PROVE  files'[f] = User
  <1>1. /\ CommandOK(cli) /\ cli # Idle /\ cli.op \in {"install", "switch"} /\ cli.key \in Integration
        /\ mem # NoManifest /\ ManifestOK(mem, cli.key) /\ (At("setup") \/ mem = cli.mem)
        /\ \A g \in File : files'[g] = IF g \in DOMAIN mem THEN NoFile ELSE files[g]
    BY DEF RollsBack
  <1>2. /\ f \in File /\ files[f] = User
        /\ \/ f \notin CommandFile
           \/ \E k \in Integration : k \in InstalledKeys /\ Has(k) /\ f \in DOMAIN manifest[k] /\ f \in Owned(k)
    BY ProtectedIs
  <1>3. f \notin DOMAIN mem
    <2>1. SUFFICES ASSUME f \in DOMAIN mem PROVE FALSE
      OBVIOUS
    <2>2. f \in CommandFile /\ f \in Owned(cli.key) /\ mem[f] # User
      BY <1>1, <2>1, Recorded
    <2>3. PICK k \in Integration : k \in InstalledKeys /\ Has(k) /\ f \in DOMAIN manifest[k] /\ f \in Owned(k)
      BY <1>2, <2>2
    <2>4. k = cli.key
      BY <1>1, <2>2, <2>3, OneOwner
    <2>5. CASE At("setup")
      <3>1. "setup" # "shared"
        OBVIOUS
      <3>2. Step.do = "setup" /\ Rest(cli, Tail(cli.todo))
        BY <2>5, <3>1, StepIs
      <3>3. Todo("setup")
        BY <1>1, <3>2, NextStep
      <3> QED
        BY <1>1, <2>3, <2>4, <3>3 DEF RunOK
    <2>6. CASE mem = cli.mem
      <3>1. files[f] = mem[f]
        BY <1>1, <2>1, <2>6 DEF RunOK
      <3> QED
        BY <1>2, <2>2, <3>1
    <2> QED
      BY <1>1, <2>5, <2>6
  <1> QED
    BY <1>1, <1>2, <1>3

(* No command overwrites or deletes what the user edited, but by force,     *)
(* also after a command was killed or the shared manifest was lost:         *)
(* EditsKept.                                                               *)
THEOREM CommandsKeepEdits == OwnFiles /\ Spec => EditsKept
  <1>1. OwnFiles /\ TypeOK /\ RunOK /\ [Next]_vars =>
          [cli # Idle =>
            \A f \in DOMAIN files :
              /\ files[f] = User
              /\ \/ ~cli.sforce /\ f \in SharedFile
                 \/ ~cli.force /\ \E k \in InstalledKeys : Has(k) /\ f \in DOMAIN manifest[k]
              => files'[f] = User]_vars
    <2>1. SUFFICES ASSUME OwnFiles, TypeOK, RunOK, Next, cli # Idle, NEW f \in DOMAIN files, Protected(f)
                   PROVE  files'[f] = User
      BY DEF Protected
    <2>2. CASE SaveShared \/ SaveManifest \/ WriteJson \/ UpdateOpts \/ ClearOpts \/ Stop
      <3>1. files' = files
        BY <2>2 DEF SaveShared, SaveManifest, WriteJson, UpdateOpts, ClearOpts, Stop
      <3> QED
        BY <2>1, <3>1 DEF Protected
    <2>3. CASE Raise
      BY <2>1, <2>3, RaiseIs, RollbackEditsKept
    <2>4. CASE Commands
      BY <2>1, <2>4, CommandsStart DEF Started
    <2>5. CASE Users
      BY <2>1, <2>5 DEF Users, EditFile, EditContext, LoseSharedManifest, NewRelease, Edit
    <2> QED
      BY <2>1, <2>2, <2>3, <2>4, <2>5, SharedEditsKept, SetUpEditsKept, TearDownEditsKept, StaleEditsKept
         DEF Next, Steps
  <1> QED
    BY <1>1, IntegrationsTyped, FilesFollowThePlan, PTL DEF Spec, EditsKept

-----------------------------------------------------------------------------
(* The user's text in the context files. *)

\* h[i] are the pieces in S of the first i pieces of c.
ReadsTo(h, c, S, n) ==
  h = [i \in 0..n |-> IF i = 0 THEN <<>>
                      ELSE IF c[i] \in S THEN Append(h[i - 1], c[i]) ELSE h[i - 1]]
Read(c, S) == CHOOSE h : ReadsTo(h, c, S, Len(c))

(* Every file can be read piece by piece.                                   *)
LEMMA ReadExists ==
  ASSUME NEW c, NEW S, NEW n \in Nat
  PROVE  \E h : ReadsTo(h, c, S, n)
  <1> DEFINE D == {m \in Nat : ~ \E h : ReadsTo(h, c, S, m)}
  <1>1. SUFFICES ASSUME D # {} PROVE FALSE
    OBVIOUS
  <1>2. D \in SUBSET Nat
    OBVIOUS
  <1>3. PICK m \in D : \A e \in D : m <= e
    BY <1>1, <1>2, LeastNumber
  <1>4. CASE m = 0
    <2> DEFINE h == [i \in 0..0 |-> <<>>]
    <2>1. ReadsTo(h, c, S, 0)
      BY DEF ReadsTo
    <2> QED
      BY <1>3, <1>4, <2>1
  <1>5. CASE m # 0
    <2>1. m \in Nat /\ m - 1 \in Nat /\ ~ (m <= m - 1)
      BY <1>3, <1>5
    <2>2. PICK g : ReadsTo(g, c, S, m - 1)
      BY <1>3, <2>1
    <2> DEFINE last == IF c[m] \in S THEN Append(g[m - 1], c[m]) ELSE g[m - 1]
               h == [i \in 0..m |-> IF i = m THEN last ELSE g[i]]
    <2>3. ASSUME NEW i \in 0..m
          PROVE  h[i] = IF i = 0 THEN <<>>
                        ELSE IF c[i] \in S THEN Append(h[i - 1], c[i]) ELSE h[i - 1]
      <3>1. CASE i = m
        <4>1. m - 1 \in 0..m /\ m - 1 # m
          BY <2>1
        <4>2. h[m - 1] = g[m - 1]
          BY <4>1
        <4> QED
          BY <1>5, <3>1, <4>2
      <3>2. CASE i # m
        <4>1. i \in 0..(m - 1) /\ h[i] = g[i]
          BY <2>1, <3>2
        <4>2. i # 0 => i - 1 \in 0..m /\ i - 1 # m
          BY <2>1, <3>2
        <4>3. i # 0 => h[i - 1] = g[i - 1]
          BY <4>2
        <4>4. g[i] = IF i = 0 THEN <<>>
                     ELSE IF c[i] \in S THEN Append(g[i - 1], c[i]) ELSE g[i - 1]
          BY <2>2, <4>1 DEF ReadsTo
        <4> HIDE DEF h
        <4> QED
          BY <4>1, <4>3, <4>4
      <3> QED
        BY <3>1, <3>2
    <2>4. h = [i \in 0..m |-> h[i]]
      OBVIOUS
    <2> HIDE DEF h
    <2>5. ReadsTo(h, c, S, m)
      BY <2>3, <2>4 DEF ReadsTo
    <2> QED
      BY <1>3, <2>5
  <1> QED
    BY <1>4, <1>5

(* What PiecesIn reads, one piece at a time.                                *)
LEMMA ReadIs ==
  ASSUME NEW c \in Seq(Piece), NEW S \in SUBSET Text
  PROVE  /\ PiecesIn(c, S) = Read(c, S)[Len(c)] /\ Read(c, S)[0] = <<>>
         /\ \A i \in 1..Len(c) :
              Read(c, S)[i] = IF c[i] \in S THEN Append(Read(c, S)[i - 1], c[i]) ELSE Read(c, S)[i - 1]
  <1>1. Len(c) \in Nat
    BY LenProperties
  <1>2. ReadsTo(Read(c, S), c, S, Len(c))
    BY <1>1, ReadExists DEF Read
  <1>3. PiecesIn(c, S) = Read(c, S)[Len(c)]
    BY DEF PiecesIn, Read, ReadsTo
  <1>4. \A i \in 0..Len(c) : Read(c, S)[i] = IF i = 0 THEN <<>>
             ELSE IF c[i] \in S THEN Append(Read(c, S)[i - 1], c[i]) ELSE Read(c, S)[i - 1]
    BY <1>2 DEF ReadsTo
  <1> QED
    BY <1>1, <1>3, <1>4

(* What is read is a sequence of the user's pieces.                         *)
LEMMA ReadType ==
  ASSUME NEW c \in Seq(Piece), NEW S \in SUBSET Text
  PROVE  \A i \in 0..Len(c) : Read(c, S)[i] \in Seq(S)
  <1> DEFINE D == {i \in 0..Len(c) : Read(c, S)[i] \notin Seq(S)}
  <1>1. SUFFICES ASSUME D # {} PROVE FALSE
    OBVIOUS
  <1>2. Len(c) \in Nat /\ D \in SUBSET Nat
    BY LenProperties
  <1>3. PICK m \in D : \A e \in D : m <= e
    BY <1>1, <1>2, LeastNumber
  <1>4. m # 0
    <2>1. Read(c, S)[0] = <<>> /\ <<>> \in Seq(S)
      BY ReadIs, EmptySeq
    <2> QED
      BY <1>3, <2>1
  <1>5. m \in 1..Len(c) /\ m - 1 \in 0..Len(c) /\ ~ (m <= m - 1)
    BY <1>2, <1>3, <1>4
  <1>6. Read(c, S)[m - 1] \in Seq(S)
    BY <1>3, <1>5
  <1>7. Read(c, S)[m] = IF c[m] \in S THEN Append(Read(c, S)[m - 1], c[m]) ELSE Read(c, S)[m - 1]
    BY <1>5, ReadIs
  <1>8. Read(c, S)[m] \in Seq(S)
    BY <1>6, <1>7, AppendProperties
  <1> QED
    BY <1>3, <1>8

(* Two files put together, piece by piece.                                  *)
LEMMA JoinedIs ==
  ASSUME NEW c \in Seq(Piece), NEW d \in Seq(Piece)
  PROVE  /\ c \o d \in Seq(Piece) /\ Len(c \o d) = Len(c) + Len(d)
         /\ \A i \in 1..(Len(c) + Len(d)) : (c \o d)[i] = IF i <= Len(c) THEN c[i] ELSE d[i - Len(c)]
  BY ConcatProperties

(* The user's text of two parts is that of the one and then of the other.   *)
LEMMA PiecesConcat ==
  ASSUME NEW c \in Seq(Piece), NEW d \in Seq(Piece), NEW S \in SUBSET Text
  PROVE  PiecesIn(c \o d, S) = PiecesIn(c, S) \o PiecesIn(d, S)
  <1>1. /\ c \o d \in Seq(Piece) /\ Len(c \o d) = Len(c) + Len(d)
        /\ Len(c) \in Nat /\ Len(d) \in Nat
        /\ \A i \in 1..(Len(c) + Len(d)) : (c \o d)[i] = IF i <= Len(c) THEN c[i] ELSE d[i - Len(c)]
    BY JoinedIs, LenProperties
  <1>2. /\ Read(c, S)[0] = <<>> /\ Read(d, S)[0] = <<>>
        /\ PiecesIn(c, S) = Read(c, S)[Len(c)] /\ PiecesIn(d, S) = Read(d, S)[Len(d)]
    BY ReadIs
  <1>3. /\ PiecesIn(c \o d, S) = Read(c \o d, S)[Len(c \o d)] /\ Read(c \o d, S)[0] = <<>>
        /\ \A i \in 1..Len(c \o d) :
             Read(c \o d, S)[i] = IF (c \o d)[i] \in S THEN Append(Read(c \o d, S)[i - 1], (c \o d)[i])
                                  ELSE Read(c \o d, S)[i - 1]
    <2>1. PICK e : e = c \o d
      OBVIOUS
    <2>2. e \in Seq(Piece)
      BY <1>1, <2>1
    <2>3. /\ PiecesIn(e, S) = Read(e, S)[Len(e)] /\ Read(e, S)[0] = <<>>
          /\ \A i \in 1..Len(e) :
               Read(e, S)[i] = IF e[i] \in S THEN Append(Read(e, S)[i - 1], e[i]) ELSE Read(e, S)[i - 1]
      BY <2>2, ReadIs
    <2> QED
      BY <2>1, <2>3
  <1>4. \A i \in 0..Len(c) : Read(c \o d, S)[i] = Read(c, S)[i]
    <2> DEFINE D == {i \in 0..Len(c) : Read(c \o d, S)[i] # Read(c, S)[i]}
    <2>1. SUFFICES ASSUME D # {} PROVE FALSE
      OBVIOUS
    <2>2. D \in SUBSET Nat
      BY <1>1
    <2>3. PICK m \in D : \A e \in D : m <= e
      BY <2>1, <2>2, LeastNumber
    <2>4. m # 0
      BY <1>2, <1>3, <2>3
    <2>5. /\ m \in 1..Len(c) /\ m - 1 \in 0..Len(c) /\ ~ (m <= m - 1)
          /\ m \in 1..Len(c \o d) /\ (c \o d)[m] = c[m]
      BY <1>1, <2>3, <2>4
    <2>6. Read(c \o d, S)[m - 1] = Read(c, S)[m - 1]
      BY <2>3, <2>5
    <2>7. Read(c, S)[m] = IF c[m] \in S THEN Append(Read(c, S)[m - 1], c[m]) ELSE Read(c, S)[m - 1]
      BY <2>5, ReadIs
    <2>8. Read(c \o d, S)[m] = IF (c \o d)[m] \in S THEN Append(Read(c \o d, S)[m - 1], (c \o d)[m])
                            ELSE Read(c \o d, S)[m - 1]
      BY <1>3, <2>5
    <2>9. Read(c \o d, S)[m] = Read(c, S)[m]
      BY <2>5, <2>6, <2>7, <2>8
    <2> QED
      BY <2>3, <2>9
  <1>5. \A i \in 0..Len(d) : Read(c \o d, S)[Len(c) + i] = PiecesIn(c, S) \o Read(d, S)[i]
    <2> DEFINE D == {i \in 0..Len(d) : Read(c \o d, S)[Len(c) + i] # PiecesIn(c, S) \o Read(d, S)[i]}
    <2>1. SUFFICES ASSUME D # {} PROVE FALSE
      OBVIOUS
    <2>2. D \in SUBSET Nat
      BY <1>1
    <2>3. PICK m \in D : \A e \in D : m <= e
      BY <2>1, <2>2, LeastNumber
    <2>4. PiecesIn(c, S) \in Seq(S)
      <3>1. Len(c) \in 0..Len(c)
        BY <1>1
      <3> QED
        BY <3>1, ReadIs, ReadType
    <2>5. m # 0
      <3>1. SUFFICES ASSUME m = 0 PROVE FALSE
        OBVIOUS
      <3>2. Len(c) + 0 = Len(c) /\ Len(c) \in 0..Len(c)
        BY <1>1
      <3>3. Read(c \o d, S)[Len(c)] = PiecesIn(c, S)
        BY <1>4, <3>2, ReadIs
      <3>4. PiecesIn(c, S) \o <<>> = PiecesIn(c, S)
        BY <2>4, ConcatEmptySeq
      <3>5. Read(d, S)[0] = <<>>
        BY ReadIs
      <3> QED
        BY <2>3, <3>1, <3>2, <3>3, <3>4, <3>5
    <2>6. /\ m \in 1..Len(d) /\ m - 1 \in 0..Len(d) /\ ~ (m <= m - 1)
          /\ Len(c) + m \in 1..Len(c \o d) /\ (Len(c) + m) - 1 = Len(c) + (m - 1)
      BY <1>1, <2>3, <2>5
    <2>7. (c \o d)[Len(c) + m] = d[m]
      <3>1. (Len(c) + m) - Len(c) = m /\ ~ (Len(c) + m <= Len(c))
        BY <1>1, <2>6
      <3>2. Len(c) + m \in 1..(Len(c) + Len(d))
        BY <1>1, <2>6
      <3> QED
        BY <1>1, <3>1, <3>2
    <2>8. Read(c \o d, S)[Len(c) + (m - 1)] = PiecesIn(c, S) \o Read(d, S)[m - 1]
      BY <2>3, <2>6
    <2>9. Read(d, S)[m] = IF d[m] \in S THEN Append(Read(d, S)[m - 1], d[m]) ELSE Read(d, S)[m - 1]
      BY <2>6, ReadIs
    <2>10. Read(c \o d, S)[Len(c) + m] =
             IF d[m] \in S THEN Append(PiecesIn(c, S) \o Read(d, S)[m - 1], d[m])
             ELSE PiecesIn(c, S) \o Read(d, S)[m - 1]
      <3>1. PICK n : n = Len(c) + m
        OBVIOUS
      <3>2. n \in 1..Len(c \o d) /\ n - 1 = Len(c) + (m - 1)
        BY <2>6, <3>1
      <3>3. Read(c \o d, S)[n] = IF (c \o d)[n] \in S THEN Append(Read(c \o d, S)[n - 1], (c \o d)[n])
                                 ELSE Read(c \o d, S)[n - 1]
        BY <1>3, <3>2
      <3>4. (c \o d)[n] = d[m]
        BY <2>7, <3>1
      <3>5. Read(c \o d, S)[n - 1] = PiecesIn(c, S) \o Read(d, S)[m - 1]
        BY <2>8, <3>2
      <3>6. Read(c \o d, S)[n] = IF d[m] \in S THEN Append(PiecesIn(c, S) \o Read(d, S)[m - 1], d[m])
                                 ELSE PiecesIn(c, S) \o Read(d, S)[m - 1]
        BY <3>3, <3>4, <3>5
      <3> QED
        BY <3>1, <3>6
    <2>11. d[m] \in S => Append(PiecesIn(c, S) \o Read(d, S)[m - 1], d[m]) = PiecesIn(c, S) \o Append(Read(d, S)[m - 1], d[m])
      <3>1. SUFFICES ASSUME d[m] \in S
                     PROVE  Append(PiecesIn(c, S) \o Read(d, S)[m - 1], d[m]) = PiecesIn(c, S) \o Append(Read(d, S)[m - 1], d[m])
        OBVIOUS
      <3>2. \A s, t \in Seq(S), x \in S : Append(s \o t, x) = s \o Append(t, x)
        <4>1. SUFFICES ASSUME NEW s \in Seq(S), NEW t \in Seq(S), NEW x \in S
                       PROVE  Append(s \o t, x) = s \o Append(t, x)
          OBVIOUS
        <4>2. s \o t \in Seq(S) /\ <<x>> \in Seq(S)
          BY ConcatProperties
        <4>3. Append(s \o t, x) = (s \o t) \o <<x>>
          BY <4>2, AppendIsConcat
        <4>4. Append(t, x) = t \o <<x>>
          BY AppendIsConcat
        <4>5. (s \o t) \o <<x>> = s \o (t \o <<x>>)
          BY <4>2, ConcatAssociative
        <4> QED
          BY <4>3, <4>4, <4>5
      <3>3. Read(d, S)[m - 1] \in Seq(S)
        BY <2>6, ReadType
      <3> QED
        BY <2>4, <3>1, <3>2, <3>3
    <2>12. Read(c \o d, S)[Len(c) + m] = PiecesIn(c, S) \o Read(d, S)[m]
      BY <2>9, <2>10, <2>11
    <2> QED
      BY <2>3, <2>12
  <1>6. Len(d) \in 0..Len(d)
    BY <1>1
  <1>7. PiecesIn(c \o d, S) = Read(c \o d, S)[Len(c) + Len(d)] /\ PiecesIn(d, S) = Read(d, S)[Len(d)]
    BY <1>1, <1>2, <1>3
  <1> QED
    BY <1>5, <1>6, <1>7

(* Files that differ only in pieces outside S have the same pieces in S.    *)
LEMMA PiecesSame ==
  ASSUME NEW c \in Seq(Piece), NEW d \in Seq(Piece), NEW S \in SUBSET Text, Len(d) = Len(c),
         \A i \in 1..Len(c) : d[i] = c[i] \/ (c[i] \notin S /\ d[i] \notin S)
  PROVE  PiecesIn(d, S) = PiecesIn(c, S)
  <1> DEFINE D == {i \in 0..Len(c) : Read(d, S)[i] # Read(c, S)[i]}
  <1>1. Len(c) \in Nat /\ D \in SUBSET Nat
    BY LenProperties
  <1>2. D = {}
    <2>1. SUFFICES ASSUME D # {} PROVE FALSE
      OBVIOUS
    <2>2. PICK m \in D : \A e \in D : m <= e
      BY <1>1, <2>1, LeastNumber
    <2>3. m # 0
      BY <2>2, ReadIs
    <2>4. m \in 1..Len(c) /\ m - 1 \in 0..Len(c) /\ ~ (m <= m - 1)
      BY <1>1, <2>2, <2>3
    <2>5. Read(d, S)[m - 1] = Read(c, S)[m - 1]
      BY <2>2, <2>4
    <2>6. /\ Read(c, S)[m] = IF c[m] \in S THEN Append(Read(c, S)[m - 1], c[m]) ELSE Read(c, S)[m - 1]
          /\ Read(d, S)[m] = IF d[m] \in S THEN Append(Read(d, S)[m - 1], d[m]) ELSE Read(d, S)[m - 1]
      BY <2>4, ReadIs
    <2>7. Read(d, S)[m] = Read(c, S)[m]
      BY <2>4, <2>5, <2>6
    <2> QED
      BY <2>2, <2>7
  <1>3. Len(c) \in 0..Len(c)
    BY <1>1
  <1> QED
    BY <1>2, <1>3, ReadIs

(* The pieces are a sequence, and nothing added to it leaves it the same.   *)
LEMMA PiecesType ==
  ASSUME NEW c \in Seq(Piece), NEW S \in SUBSET Text
  PROVE  /\ PiecesIn(c, S) \in Seq(S)
         /\ PiecesIn(c, S) \o <<>> = PiecesIn(c, S) /\ <<>> \o PiecesIn(c, S) = PiecesIn(c, S)
  <1>1. Len(c) \in 0..Len(c)
    BY LenProperties
  <1>2. PiecesIn(c, S) \in Seq(S)
    BY <1>1, ReadIs, ReadType
  <1> QED
    BY <1>2, ConcatEmptySeq

(* A piece after itself.                                                    *)
LEMMA TwicePiece ==
  ASSUME NEW S, NEW p \in S
  PROVE  Append(<<p>>, p) = <<p, p>>
  <1>1. <<p>> \in Seq(S) /\ <<p, p>> \in Seq(S) /\ Len(<<p>>) = 1 /\ Len(<<p, p>>) = 2
    OBVIOUS
  <1>2. Append(<<p>>, p) \in Seq(S) /\ Len(Append(<<p>>, p)) = 2
    BY <1>1, AppendProperties
  <1>3. Append(<<p>>, p)[1] = p
    BY <1>1, AppendProperties
  <1>4. Append(<<p>>, p)[2] = p
    BY <1>1, AppendProperties
  <1>5. \A i \in 1..2 : Append(<<p>>, p)[i] = <<p, p>>[i]
    BY <1>3, <1>4
  <1> QED
    BY <1>1, <1>2, <1>5, SeqEqual

(* A piece outside S adds nothing; the frontmatter that is put on top adds  *)
(* its two fences.                                                          *)
LEMMA PiecesOfNew ==
  ASSUME NEW S \in SUBSET Text, Always \notin S, Fence \in S
  PROVE  /\ <<Always>> \in Seq(Piece) /\ PiecesIn(<<Always>>, S) = <<>>
         /\ <<Fence, Always, Fence>> \in Seq(Piece)
         /\ PiecesIn(<<Fence, Always, Fence>>, S) = <<Fence, Fence>>
  <1> DEFINE a == <<Always>>
             f == <<Fence, Always, Fence>>
  <1>1. Fence \in Piece /\ Always \in Piece
    BY ContextSectionAssumption DEF Piece
  <1>2. a \in Seq(Piece) /\ Len(a) = 1 /\ a[1] = Always
    BY <1>1
  <1>3. f \in Seq(Piece) /\ Len(f) = 3 /\ f[1] = Fence /\ f[2] = Always /\ f[3] = Fence
    BY <1>1
  <1> HIDE DEF a, f
  <1>4. PiecesIn(a, S) = <<>>
    <2>1. PiecesIn(a, S) = Read(a, S)[1] /\ Read(a, S)[0] = <<>>
      BY <1>2, ReadIs
    <2>2. \A i \in 1..1 : Read(a, S)[i] = IF a[i] \in S THEN Append(Read(a, S)[i - 1], a[i])
                                         ELSE Read(a, S)[i - 1]
      BY <1>2, ReadIs
    <2>3. Read(a, S)[1] = Read(a, S)[0]
      BY <1>2, <2>2
    <2> QED
      BY <2>1, <2>3
  <1>5. PiecesIn(f, S) = <<Fence, Fence>>
    <2>1. PiecesIn(f, S) = Read(f, S)[3] /\ Read(f, S)[0] = <<>>
      BY <1>3, ReadIs
    <2>2. \A i \in 1..3 : Read(f, S)[i] = IF f[i] \in S THEN Append(Read(f, S)[i - 1], f[i])
                                         ELSE Read(f, S)[i - 1]
      BY <1>3, ReadIs
    <2>3. /\ Read(f, S)[1] = Append(Read(f, S)[0], Fence)
          /\ Read(f, S)[2] = Read(f, S)[1]
          /\ Read(f, S)[3] = Append(Read(f, S)[2], Fence)
      <3>1. 1 - 1 = 0 /\ 2 - 1 = 1 /\ 3 - 1 = 2 /\ 1 \in 1..3 /\ 2 \in 1..3 /\ 3 \in 1..3
        OBVIOUS
      <3>2. f[1] \in S /\ f[2] \notin S /\ f[3] \in S
        BY <1>3
      <3>3. Read(f, S)[1] = Append(Read(f, S)[1 - 1], f[1])
        BY <2>2, <3>1, <3>2
      <3>4. Read(f, S)[2] = Read(f, S)[2 - 1]
        BY <2>2, <3>1, <3>2
      <3>5. Read(f, S)[3] = Append(Read(f, S)[3 - 1], f[3])
        BY <2>2, <3>1, <3>2
      <3> QED
        BY <1>3, <3>1, <3>3, <3>4, <3>5
    <2>4. Append(Append(<<>>, Fence), Fence) = <<Fence, Fence>>
      <3>1. <<>> \in Seq(S) /\ <<Fence>> \in Seq(S)
        OBVIOUS
      <3>2. Append(<<>>, Fence) = <<>> \o <<Fence>> /\ <<>> \o <<Fence>> = <<Fence>>
        BY <3>1, AppendIsConcat, ConcatEmptySeq
      <3> QED
        BY <3>2, TwicePiece
    <2> QED
      BY <2>1, <2>3, <2>4
  <1> QED
    BY <1>2, <1>3, <1>4, <1>5 DEF a, f

(* The section holds no text of the user's.                                 *)
LEMMA SectionIs ==
  /\ Section \in Seq(Piece) /\ Len(Section) = 3
  /\ Section[1] = "start" /\ Section[2] = "body" /\ Section[3] = "end"
  /\ \A i \in 1..3 : Section[i] \notin Text
  <1>1. /\ Section \in Seq(Piece) /\ Len(Section) = 3
        /\ Section[1] = "start" /\ Section[2] = "body" /\ Section[3] = "end"
    BY DEF Section, Piece
  <1>2. "start" \notin Text /\ "body" \notin Text /\ "end" \notin Text
    BY ContextSectionAssumption
  <1>3. \A i \in 1..3 : Section[i] \notin Text
    BY <1>1, <1>2
  <1> QED
    BY <1>1, <1>3

(* Put in between, it adds no text.                                         *)
LEMMA SectionIsNoText ==
  ASSUME NEW S \in SUBSET Text
  PROVE  PiecesIn(Section, S) = <<>>
  <1>1. /\ PiecesIn(Section, S) = Read(Section, S)[Len(Section)] /\ Read(Section, S)[0] = <<>>
        /\ \A i \in 1..Len(Section) :
             Read(Section, S)[i] = IF Section[i] \in S THEN Append(Read(Section, S)[i - 1], Section[i])
                                   ELSE Read(Section, S)[i - 1]
    <2>1. Section \in Seq(Piece)
      BY SectionIs
    <2> QED
      BY <2>1, ReadIs
  <1>2. \A i \in 1..3 : Read(Section, S)[i] = Read(Section, S)[i - 1]
    BY <1>1, SectionIs
  <1>3. /\ Read(Section, S)[1] = Read(Section, S)[0] /\ Read(Section, S)[2] = Read(Section, S)[1]
        /\ Read(Section, S)[3] = Read(Section, S)[2]
    BY <1>2
  <1> QED
    BY <1>1, <1>3, SectionIs

(* Where the section stands, piece by piece.                                *)
LEMMA SectionPieces ==
  ASSUME NEW c \in Seq(Piece), NEW i \in 1..(Len(c) - 2)
  PROVE  SubSeq(c, i, i + 2) = Section <=> c[i] = "start" /\ c[i + 1] = "body" /\ c[i + 2] = "end"
  <1>1. Len(c) \in Nat
    BY LenProperties
  <1>2. i \in Int /\ i + 2 \in Int /\ \A j \in i..(i + 2) : c[j] \in Piece
    BY <1>1, ElementOfSeq
  <1>3. /\ SubSeq(c, i, i + 2) \in Seq(Piece) /\ Len(SubSeq(c, i, i + 2)) = 3
        /\ \A j \in 1..3 : SubSeq(c, i, i + 2)[j] = c[i + j - 1]
    <2>1. /\ SubSeq(c, i, i + 2) \in Seq(Piece)
          /\ Len(SubSeq(c, i, i + 2)) = IF i <= i + 2 THEN (i + 2) - i + 1 ELSE 0
          /\ \A j \in 1..((i + 2) - i + 1) : SubSeq(c, i, i + 2)[j] = c[i + j - 1]
      BY <1>2, SubSeqProperties
    <2>2. (i + 2) - i + 1 = 3 /\ i <= i + 2
      BY <1>2
    <2> QED
      BY <2>1, <2>2
  <1>4. i + 1 - 1 = i /\ i + 2 - 1 = i + 1 /\ i + 3 - 1 = i + 2
    BY <1>2
  <1>5. /\ SubSeq(c, i, i + 2)[1] = c[i] /\ SubSeq(c, i, i + 2)[2] = c[i + 1]
        /\ SubSeq(c, i, i + 2)[3] = c[i + 2]
    <2>1. /\ SubSeq(c, i, i + 2)[1] = c[i + 1 - 1] /\ SubSeq(c, i, i + 2)[2] = c[i + 2 - 1]
          /\ SubSeq(c, i, i + 2)[3] = c[i + 3 - 1]
      BY <1>3
    <2> QED
      BY <1>4, <2>1
  <1>6. ASSUME c[i] = "start", c[i + 1] = "body", c[i + 2] = "end"
        PROVE  SubSeq(c, i, i + 2) = Section
    <2>1. \A j \in 1..3 : SubSeq(c, i, i + 2)[j] = Section[j]
      BY <1>5, <1>6, SectionIs
    <2> QED
      BY <1>3, <2>1, SectionIs, SeqEqual
  <1> QED
    BY <1>5, <1>6, SectionIs

\* Context file c holds one section, which starts at piece i.
SectionAt(c, i) ==
  /\ i \in 1..(Len(c) - 2) /\ SubSeq(c, i, i + 2) = Section
  /\ \A j \in DOMAIN c \ (i..(i + 2)) : c[j] \in Text

(* The markers of a section that is there are found.                        *)
LEMMA SectionFound ==
  ASSUME NEW c \in Seq(Piece), NEW i, SectionAt(c, i)
  PROVE  Start(c) = i /\ End(c) = i + 2
  <1>1. /\ Len(c) \in Nat /\ DOMAIN c = 1..Len(c) /\ i \in 1..(Len(c) - 2)
        /\ SubSeq(c, i, i + 2) = Section
        /\ \A j \in DOMAIN c \ (i..(i + 2)) : c[j] \in Text
    BY LenProperties DEF SectionAt
  <1>2. c[i] = "start" /\ c[i + 1] = "body" /\ c[i + 2] = "end"
    <2>1. /\ i \in Int /\ i + 2 \in Int /\ \A j \in i..(i + 2) : c[j] \in Piece
          /\ (i + 2) - i + 1 = 3
      BY <1>1, ElementOfSeq
    <2>2. \A j \in 1..((i + 2) - i + 1) : SubSeq(c, i, i + 2)[j] = c[i + j - 1]
      BY <2>1, SubSeqProperties
    <2>3. \A j \in 1..3 : Section[j] = c[i + j - 1]
      BY <1>1, <2>1, <2>2
    <2>4. i + 1 - 1 = i /\ i + 2 - 1 = i + 1 /\ i + 3 - 1 = i + 2
      BY <2>1
    <2>5. Section[1] = c[i + 1 - 1] /\ Section[2] = c[i + 2 - 1] /\ Section[3] = c[i + 3 - 1]
      BY <2>3
    <2> QED
      BY <2>4, <2>5, SectionIs
  <1>3. ASSUME NEW j \in 1..Len(c)
        PROVE  /\ c[j] = "start" => j = i
               /\ c[j] = "end" => j = i + 2
    <2>1. "start" \notin Text /\ "end" \notin Text
      BY ContextSectionAssumption
    <2>2. j \notin i..(i + 2) => c[j] # "start" /\ c[j] # "end"
      BY <1>1, <2>1
    <2>3. j \in i..(i + 2) => j = i \/ j = i + 1 \/ j = i + 2
      BY <1>1
    <2>4. "start" # "body" /\ "start" # "end" /\ "body" # "end"
      OBVIOUS
    <2> QED
      BY <1>2, <2>2, <2>3, <2>4
  <1>4. Start(c) = i
    <2>1. /\ Start(c) \in 0..Len(c)
          /\ Start(c) # 0 => c[Start(c)] = "start"
          /\ Start(c) = 0 => \A j \in 1..Len(c) : c[j] # "start"
      BY FindIs DEF Start
    <2>2. i \in 1..Len(c)
      BY <1>1
    <2>3. Start(c) # 0
      BY <1>2, <2>1, <2>2
    <2>4. Start(c) \in 1..Len(c)
      BY <2>1, <2>3, <1>1
    <2> QED
      BY <1>3, <2>1, <2>3, <2>4
  <1>5. End(c) = i + 2
    <2>1. i \in Nat /\ i >= 1 /\ i # 0 /\ i + 2 \in i..Len(c)
      BY <1>1
    <2>2. End(c) = Find(c, "end", i)
      BY <1>4, <2>1 DEF End
    <2>3. /\ Find(c, "end", i) \in 0..Len(c)
          /\ Find(c, "end", i) # 0 => c[Find(c, "end", i)] = "end"
          /\ Find(c, "end", i) = 0 => \A j \in i..Len(c) : c[j] # "end"
      BY <2>1, FindIs
    <2>4. End(c) # 0
      BY <1>2, <2>1, <2>2, <2>3
    <2>5. End(c) \in 1..Len(c) /\ c[End(c)] = "end"
      BY <1>1, <2>2, <2>3, <2>4
    <2> QED
      BY <1>3, <2>5
  <1> QED
    BY <1>4, <1>5

(* A file with a section is the text before it, the section and the rest.   *)
LEMMA SectionSplits ==
  ASSUME NEW c \in Seq(Piece), NEW i, SectionAt(c, i)
  PROVE  /\ Before(c) \in Seq(Text) /\ After(c) \in Seq(Text)
         /\ c = Before(c) \o Section \o After(c)
  <1>1. /\ Len(c) \in Nat /\ DOMAIN c = 1..Len(c) /\ i \in 1..(Len(c) - 2)
        /\ SubSeq(c, i, i + 2) = Section
        /\ \A j \in DOMAIN c \ (i..(i + 2)) : c[j] \in Text
    BY LenProperties DEF SectionAt
  <1>2. Before(c) = SubSeq(c, 1, i - 1) /\ After(c) = SubSeq(c, (i + 2) + 1, Len(c))
    BY SectionFound DEF Before, After
  <1>3. Before(c) \in Seq(Text)
    <2>1. 1 \in Int /\ i - 1 \in Int /\ \A j \in 1..(i - 1) : c[j] \in Text
      BY <1>1
    <2> QED
      BY <1>2, <2>1, SubSeqProperties
  <1>4. After(c) \in Seq(Text)
    <2>1. (i + 2) + 1 \in Int /\ Len(c) \in Int /\ \A j \in ((i + 2) + 1)..Len(c) : c[j] \in Text
      BY <1>1
    <2> QED
      BY <1>2, <2>1, SubSeqProperties
  <1>5. SubSeq(c, 1, i - 1) \o SubSeq(c, (i - 1) + 1, i + 2) = SubSeq(c, 1, i + 2)
    <2>1. 1 \in 1..(Len(c) + 1) /\ i - 1 \in (1 - 1)..Len(c) /\ i + 2 \in (i - 1)..Len(c)
      BY <1>1
    <2> QED
      BY <2>1, ConcatAdjacentSubSeq
  <1>6. SubSeq(c, 1, i + 2) \o SubSeq(c, (i + 2) + 1, Len(c)) = SubSeq(c, 1, Len(c))
    <2>1. 1 \in 1..(Len(c) + 1) /\ i + 2 \in (1 - 1)..Len(c) /\ Len(c) \in (i + 2)..Len(c)
      BY <1>1
    <2> QED
      BY <2>1, ConcatAdjacentSubSeq
  <1>7. SubSeq(c, 1, Len(c)) = c
    BY SubSeqFull
  <1>8. (i - 1) + 1 = i
    BY <1>1
  <1> QED
    BY <1>1, <1>2, <1>3, <1>4, <1>5, <1>6, <1>7, <1>8

(* A file of the user's text only, or with one whole section, keeps its text *)
(* when the section is written or removed.                                  *)
LEMMA SectionKeepsText ==
  ASSUME NEW c \in Seq(Piece), WellFormed(c), NEW S \in SUBSET Text
  PROVE  /\ PiecesIn(WriteSection(c), S) = PiecesIn(c, S) /\ WellFormed(WriteSection(c))
         /\ PiecesIn(CutSection(c), S) = PiecesIn(c, S) /\ WellFormed(CutSection(c))
  <1>1. Len(c) \in Nat /\ DOMAIN c = 1..Len(c)
    BY LenProperties
  <1>2. CASE \A i \in DOMAIN c : c[i] \in Text
    <2>1. Start(c) = 0 /\ End(c) = 0
      <3>1. \A i \in 1..Len(c) : c[i] # "start" /\ c[i] # "end"
        BY <1>1, <1>2, ContextSectionAssumption
      <3>2. Start(c) \in 0..Len(c) /\ (Start(c) # 0 => c[Start(c)] = "start")
        BY FindIs DEF Start
      <3>3. Start(c) = 0
        BY <1>1, <3>1, <3>2
      <3>4. End(c) = Find(c, "end", 1)
        BY <3>3 DEF End
      <3>5. End(c) \in 0..Len(c) /\ (End(c) # 0 => c[End(c)] = "end")
        BY <3>4, FindIs
      <3> QED
        BY <1>1, <3>1, <3>3, <3>5
    <2>2. WriteSection(c) = c \o Section /\ CutSection(c) = c
      BY <2>1 DEF WriteSection, CutSection
    <2>3. PiecesIn(c \o Section, S) = PiecesIn(c, S)
      <3>1. PiecesIn(c \o Section, S) = PiecesIn(c, S) \o PiecesIn(Section, S)
        BY SectionIs, PiecesConcat
      <3>2. PiecesIn(c, S) \o <<>> = PiecesIn(c, S)
        BY PiecesType
      <3> QED
        BY <3>1, <3>2, SectionIsNoText
    <2>4. WellFormed(c \o Section)
      <3> DEFINE d == c \o Section
                 i == Len(c) + 1
      <3>1. /\ d \in Seq(Piece) /\ Len(d) = Len(c) + 3
            /\ \A j \in 1..(Len(c) + 3) : d[j] = IF j <= Len(c) THEN c[j] ELSE Section[j - Len(c)]
        BY SectionIs, JoinedIs
      <3>2. DOMAIN d = 1..(Len(c) + 3)
        BY <3>1, LenProperties
      <3>3. i \in 1..(Len(d) - 2)
        BY <1>1, <3>1
      <3>4. SubSeq(d, i, i + 2) = Section
        <4>1. /\ i \in 1..(Len(c) + 3) /\ i + 1 \in 1..(Len(c) + 3) /\ i + 2 \in 1..(Len(c) + 3)
              /\ ~ (i <= Len(c)) /\ ~ (i + 1 <= Len(c)) /\ ~ (i + 2 <= Len(c))
              /\ i - Len(c) = 1 /\ (i + 1) - Len(c) = 2 /\ (i + 2) - Len(c) = 3
          BY <1>1
        <4>2. d[i] = Section[1] /\ d[i + 1] = Section[2] /\ d[i + 2] = Section[3]
          BY <3>1, <4>1
        <4> HIDE DEF d, i
        <4> QED
          BY <3>1, <3>3, <4>2, SectionIs, SectionPieces
      <3>5. ASSUME NEW j \in DOMAIN d \ (i..(i + 2)) PROVE d[j] \in Text
        <4>1. j \in 1..Len(c) /\ j <= Len(c) /\ j \in 1..(Len(c) + 3)
          BY <1>1, <3>2, <3>5
        <4> QED
          BY <1>1, <1>2, <3>1, <4>1
      <3> HIDE DEF d, i
      <3>6. WellFormed(d)
        BY <3>3, <3>4, <3>5 DEF WellFormed
      <3> QED
        BY <3>6 DEF d
    <2> QED
      BY <2>2, <2>3, <2>4
  <1>3. CASE ~ \A i \in DOMAIN c : c[i] \in Text
    <2>1. PICK i : SectionAt(c, i)
      BY <1>3 DEF WellFormed, SectionAt
    <2>2. /\ Before(c) \in Seq(Text) /\ After(c) \in Seq(Text)
          /\ c = Before(c) \o Section \o After(c)
      BY <2>1, SectionSplits
    <2>3. Start(c) # 0 /\ End(c) # 0
      <3>1. i \in 1..(Len(c) - 2)
        BY <2>1 DEF SectionAt
      <3> QED
        BY <1>1, <2>1, <3>1, SectionFound
    <2>4. WriteSection(c) = c
      BY <2>2, <2>3 DEF WriteSection
    <2>5. CutSection(c) = Before(c) \o After(c)
      BY <2>3 DEF CutSection
    <2>6. Before(c) \in Seq(Piece) /\ After(c) \in Seq(Piece)
      BY <2>2 DEF Piece
    <2>7. PiecesIn(Before(c) \o After(c), S) = PiecesIn(Before(c), S) \o PiecesIn(After(c), S)
      BY <2>6, PiecesConcat
    <2>8. PiecesIn(c, S) = PiecesIn(Before(c), S) \o PiecesIn(After(c), S)
      <3>1. Before(c) \o Section \in Seq(Piece)
        BY <2>6, SectionIs, JoinedIs
      <3>2. PiecesIn((Before(c) \o Section) \o After(c), S) = PiecesIn(Before(c) \o Section, S) \o PiecesIn(After(c), S)
        BY <2>6, <3>1, PiecesConcat
      <3>3. PiecesIn(Before(c) \o Section, S) = PiecesIn(Before(c), S) \o <<>>
        <4>1. PiecesIn(Before(c) \o Section, S) = PiecesIn(Before(c), S) \o PiecesIn(Section, S)
          BY <2>6, SectionIs, PiecesConcat
        <4> QED
          BY <4>1, SectionIsNoText
      <3>4. PiecesIn(Before(c), S) \o <<>> = PiecesIn(Before(c), S)
        BY <2>6, PiecesType
      <3> QED
        BY <2>2, <3>2, <3>3, <3>4
    <2>9. WellFormed(Before(c) \o After(c))
      <3>1. Before(c) \o After(c) \in Seq(Text)
        BY <2>2, JoinedIs
      <3> QED
        BY <3>1, LenProperties, ElementOfSeq DEF WellFormed
    <2> QED
      BY <2>4, <2>5, <2>7, <2>8, <2>9
  <1> QED
    BY <1>2, <1>3

(* A file with the pieces of c up to a line p of the user's and after it, n  *)
(* places on, and otherwise text, is well formed when c is.                 *)
LEMMA ShiftKeepsSection ==
  ASSUME NEW c \in Seq(Piece), WellFormed(c), NEW d \in Seq(Piece),
         NEW n \in Nat, Len(d) = Len(c) + n, NEW p \in 0..Len(c), p # 0 => c[p] \in Text,
         \A j \in 1..Len(d) :
           d[j] \in Text \/ (j < p /\ d[j] = c[j]) \/ (j > p + n /\ d[j] = c[j - n]),
         \A j \in 1..Len(c) : (j < p => d[j] = c[j]) /\ (j > p => d[j + n] = c[j])
  PROVE  WellFormed(d)
  <1>1. Len(c) \in Nat /\ DOMAIN c = 1..Len(c) /\ Len(d) \in Nat /\ DOMAIN d = 1..Len(d)
    BY LenProperties
  <1>2. CASE \A i \in DOMAIN c : c[i] \in Text
    <2>1. ASSUME NEW j \in 1..Len(d) PROVE d[j] \in Text
      <3>1. CASE j < p /\ d[j] = c[j]
        <4>1. j \in DOMAIN c
          BY <1>1, <3>1
        <4> QED
          BY <1>2, <3>1, <4>1
      <3>2. CASE j > p + n /\ d[j] = c[j - n]
        <4>1. j - n \in DOMAIN c
          BY <1>1, <3>2
        <4> QED
          BY <1>2, <3>2, <4>1
      <3> QED
        BY <3>1, <3>2
    <2> QED
      BY <1>1, <2>1 DEF WellFormed
  <1>3. CASE ~ \A i \in DOMAIN c : c[i] \in Text
    <2>1. PICK i : SectionAt(c, i)
      BY <1>3 DEF WellFormed, SectionAt
    <2>2. /\ i \in 1..(Len(c) - 2) /\ SubSeq(c, i, i + 2) = Section
          /\ \A j \in DOMAIN c \ (i..(i + 2)) : c[j] \in Text
      BY <2>1 DEF SectionAt
    <2>3. c[i] = "start" /\ c[i + 1] = "body" /\ c[i + 2] = "end"
      BY <2>2, SectionPieces
    <2>4. i \in 1..Len(c) /\ i + 1 \in 1..Len(c) /\ i + 2 \in 1..Len(c)
      BY <1>1, <2>2
    <2>5. p < i \/ p > i + 2
      <3>1. p # i /\ p # i + 1 /\ p # i + 2
        <4>1. c[i] \notin Text /\ c[i + 1] \notin Text /\ c[i + 2] \notin Text
          BY <2>3, ContextSectionAssumption
        <4>2. i # 0 /\ i + 1 # 0 /\ i + 2 # 0
          BY <2>2
        <4> QED
          BY <4>1, <4>2
      <3> QED
        BY <1>1, <2>2, <3>1
    <2>6. CASE p < i
      <3> DEFINE q == i + n
      <3>1. /\ i > p /\ i + 1 > p /\ i + 2 > p
            /\ q + 1 = (i + 1) + n /\ q + 2 = (i + 2) + n
        BY <1>1, <2>2, <2>6
      <3>2. d[q] = "start" /\ d[q + 1] = "body" /\ d[q + 2] = "end"
        <4>1. d[i + n] = c[i] /\ d[(i + 1) + n] = c[i + 1] /\ d[(i + 2) + n] = c[i + 2]
          BY <2>4, <3>1
        <4> QED
          BY <2>3, <3>1, <4>1
      <3>3. q \in 1..(Len(d) - 2)
        BY <1>1, <2>2
      <3>4. SubSeq(d, q, q + 2) = Section
        BY <3>2, <3>3, SectionPieces
      <3>5. ASSUME NEW j \in DOMAIN d \ (q..(q + 2)) PROVE d[j] \in Text
        <4>1. j \in 1..Len(d)
          BY <1>1
        <4>2. CASE j < p /\ d[j] = c[j]
          <5>1. j \in DOMAIN c \ (i..(i + 2))
            BY <1>1, <2>2, <2>6, <4>1, <4>2
          <5> QED
            BY <2>2, <4>2, <5>1
        <4>3. CASE j > p + n /\ d[j] = c[j - n]
          <5>1. j - n \in DOMAIN c \ (i..(i + 2))
            BY <1>1, <2>2, <3>5, <4>1, <4>3
          <5> QED
            BY <2>2, <4>3, <5>1
        <4> QED
          BY <4>1, <4>2, <4>3
      <3> HIDE DEF q
      <3> QED
        BY <3>3, <3>4, <3>5 DEF WellFormed
    <2>7. CASE p > i + 2
      <3>1. i < p /\ i + 1 < p /\ i + 2 < p
        BY <1>1, <2>2, <2>7
      <3>2. d[i] = "start" /\ d[i + 1] = "body" /\ d[i + 2] = "end"
        BY <2>3, <2>4, <3>1
      <3>3. i \in 1..(Len(d) - 2)
        BY <1>1, <2>2
      <3>4. SubSeq(d, i, i + 2) = Section
        BY <3>2, <3>3, SectionPieces
      <3>5. ASSUME NEW j \in DOMAIN d \ (i..(i + 2)) PROVE d[j] \in Text
        <4>1. j \in 1..Len(d)
          BY <1>1
        <4>2. CASE j < p /\ d[j] = c[j]
          <5>1. j \in DOMAIN c \ (i..(i + 2))
            BY <1>1, <3>5, <4>1, <4>2
          <5> QED
            BY <2>2, <4>2, <5>1
        <4>3. CASE j > p + n /\ d[j] = c[j - n]
          <5>1. j - n \in DOMAIN c \ (i..(i + 2))
            BY <1>1, <2>2, <2>7, <4>1, <4>3
          <5> QED
            BY <2>2, <4>3, <5>1
        <4> QED
          BY <4>1, <4>2, <4>3
      <3> QED
        BY <3>3, <3>4, <3>5 DEF WellFormed
    <2> QED
      BY <2>5, <2>6, <2>7
  <1> QED
    BY <1>2, <1>3

(* Frontmatter that is put on top, or that gets its alwaysApply line, leaves *)
(* the section whole and the user's other text as it was.                   *)
LEMMA FrontmatterKeepsText ==
  ASSUME NEW c \in Seq(Piece), WellFormed(c), NEW S \in SUBSET Text, S = Text \ {Always, Never}
  PROVE  /\ WellFormed(EnsureFrontmatter(c))
         /\ \/ PiecesIn(EnsureFrontmatter(c), S) = PiecesIn(c, S)
            \/ PiecesIn(EnsureFrontmatter(c), S) = <<Fence, Fence>> \o PiecesIn(c, S)
  <1>1. Len(c) \in Nat
    BY LenProperties
  <1>2. Fence \in Text /\ Always \in Text /\ Never \in Text /\ Always \in Piece
    BY ContextSectionAssumption DEF Piece
  <1>3. Always \notin S /\ Never \notin S /\ Fence \in S
    BY ContextSectionAssumption
  <1>4. CASE EnsureFrontmatter(c) = <<Fence, Always, Fence>> \o c
    <2> DEFINE f == <<Fence, Always, Fence>>
               d == f \o c
    <2>1. f \in Seq(Piece) /\ PiecesIn(f, S) = <<Fence, Fence>>
      BY <1>3, PiecesOfNew
    <2>2. Len(f) = 3 /\ \A j \in 1..3 : f[j] \in Text
      BY <1>2
    <2> HIDE DEF f
    <2>3. PiecesIn(d, S) = <<Fence, Fence>> \o PiecesIn(c, S)
      BY <2>1, PiecesConcat
    <2>4. /\ d \in Seq(Piece) /\ Len(d) = Len(c) + 3
          /\ \A j \in 1..(3 + Len(c)) : d[j] = IF j <= 3 THEN f[j] ELSE c[j - 3]
      <3>1. /\ d \in Seq(Piece) /\ Len(d) = Len(f) + Len(c)
            /\ \A j \in 1..(Len(f) + Len(c)) : d[j] = IF j <= Len(f) THEN f[j] ELSE c[j - Len(f)]
        BY <2>1, JoinedIs
      <3> HIDE DEF d
      <3> QED
        BY <1>1, <2>2, <3>1
    <2> HIDE DEF d
    <2>5. ASSUME NEW j \in 1..Len(d)
          PROVE  d[j] \in Text \/ (j < 0 /\ d[j] = c[j]) \/ (j > 0 + 3 /\ d[j] = c[j - 3])
      <3>1. j \in 1..(3 + Len(c)) /\ (j <= 3 => j \in 1..3) /\ (j <= 3 \/ j > 0 + 3)
        BY <1>1, <2>4
      <3> QED
        BY <2>2, <2>4, <3>1
    <2>6. ASSUME NEW j \in 1..Len(c) PROVE (j < 0 => d[j] = c[j]) /\ (j > 0 => d[j + 3] = c[j])
      <3>1. j + 3 \in 1..(3 + Len(c)) /\ ~ (j + 3 <= 3) /\ (j + 3) - 3 = j /\ ~ (j < 0)
        BY <1>1
      <3> QED
        BY <2>4, <3>1
    <2>7. 0 \in 0..Len(c) /\ 3 \in Nat
      BY <1>1
    <2>8. WellFormed(d)
      BY <2>4, <2>5, <2>6, <2>7, ShiftKeepsSection
    <2> QED
      BY <1>4, <2>3, <2>8 DEF d, f
  <1>5. ASSUME NEW p \in 1..Len(c), c[p] = Never
        PROVE  /\ WellFormed(Replaced(c, p, Always))
               /\ PiecesIn(Replaced(c, p, Always), S) = PiecesIn(c, S)
    <2> DEFINE d == Replaced(c, p, Always)
    <2>1. /\ d \in Seq(Piece) /\ Len(d) = Len(c)
          /\ \A j \in 1..Len(c) : d[j] = IF j = p THEN Always ELSE c[j]
      BY <1>2, ExceptSeq DEF Replaced
    <2> HIDE DEF d
    <2>2. PiecesIn(d, S) = PiecesIn(c, S)
      BY <1>3, <1>5, <2>1, PiecesSame
    <2>3. ASSUME NEW j \in 1..Len(d)
          PROVE  d[j] \in Text \/ (j < p /\ d[j] = c[j]) \/ (j > p + 0 /\ d[j] = c[j - 0])
      <3>1. j - 0 = j /\ p + 0 = p /\ (j = p \/ j < p \/ j > p)
        BY <1>1
      <3> QED
        BY <1>2, <2>1, <3>1
    <2>4. ASSUME NEW j \in 1..Len(c) PROVE (j < p => d[j] = c[j]) /\ (j > p => d[j + 0] = c[j])
      <3>1. j + 0 = j /\ (j < p => j # p) /\ (j > p => j # p)
        BY <1>1
      <3> QED
        BY <2>1, <3>1
    <2>5. p \in 0..Len(c) /\ 0 \in Nat /\ Len(d) = Len(c) + 0
      BY <1>1, <2>1
    <2>6. WellFormed(d)
      BY <1>2, <1>5, <2>1, <2>3, <2>4, <2>5, ShiftKeepsSection
    <2> QED
      BY <2>2, <2>6 DEF d
  <1>6. ASSUME NEW p \in 1..Len(c), c[p] = Fence
        PROVE  /\ WellFormed(Inserted(c, p, Always))
               /\ PiecesIn(Inserted(c, p, Always), S) = PiecesIn(c, S)
    <2> DEFINE a == SubSeq(c, 1, p - 1)
               x == <<Always>>
               b == SubSeq(c, p, Len(c))
               d == (a \o x) \o b
    <2>1. /\ a \in Seq(Piece) /\ Len(a) = p - 1 /\ \A j \in 1..(p - 1) : a[j] = c[j]
          /\ b \in Seq(Piece) /\ Len(b) = Len(c) - p + 1
          /\ \A j \in 1..(Len(c) - p + 1) : b[j] = c[p + j - 1]
      <3>1. /\ 1 \in Int /\ p - 1 \in Int /\ p \in Int /\ Len(c) \in Int
            /\ \A j \in 1..(p - 1) : c[j] \in Piece
            /\ \A j \in p..Len(c) : c[j] \in Piece
            /\ (p - 1) - 1 + 1 = p - 1 /\ (1 <= p - 1 \/ p - 1 = 0) /\ p <= Len(c)
            /\ \A j \in 1..(p - 1) : 1 + j - 1 = j
        BY <1>1, ElementOfSeq
      <3>2. /\ a \in Seq(Piece) /\ Len(a) = IF 1 <= p - 1 THEN (p - 1) - 1 + 1 ELSE 0
            /\ \A j \in 1..((p - 1) - 1 + 1) : a[j] = c[1 + j - 1]
        BY <3>1, SubSeqProperties
      <3>3. /\ b \in Seq(Piece) /\ Len(b) = IF p <= Len(c) THEN Len(c) - p + 1 ELSE 0
            /\ \A j \in 1..(Len(c) - p + 1) : b[j] = c[p + j - 1]
        BY <3>1, SubSeqProperties
      <3> HIDE DEF a, b
      <3> QED
        BY <3>1, <3>2, <3>3
    <2>2. x \in Seq(Piece) /\ PiecesIn(x, S) = <<>>
      BY <1>3, PiecesOfNew
    <2>3. Len(x) = 1 /\ x[1] = Always
      OBVIOUS
    <2>4. c = a \o b
      <3>1. 1 \in 1..(Len(c) + 1) /\ p - 1 \in (1 - 1)..Len(c) /\ Len(c) \in (p - 1)..Len(c) /\ (p - 1) + 1 = p
        BY <1>1
      <3>2. SubSeq(c, 1, p - 1) \o SubSeq(c, (p - 1) + 1, Len(c)) = SubSeq(c, 1, Len(c))
        BY <3>1, ConcatAdjacentSubSeq
      <3> QED
        BY <3>1, <3>2, SubSeqFull
    <2> HIDE DEF a, b, x
    <2>5. PiecesIn(d, S) = PiecesIn(c, S)
      <3>1. PiecesIn(a \o x, S) = PiecesIn(a, S) \o <<>>
        <4>1. PiecesIn(a \o x, S) = PiecesIn(a, S) \o PiecesIn(x, S)
          BY <2>1, <2>2, PiecesConcat
        <4> QED
          BY <2>2, <4>1
      <3>2. PiecesIn(a \o x, S) = PiecesIn(a, S)
        BY <2>1, <3>1, PiecesType
      <3>3. a \o x \in Seq(Piece)
        BY <2>1, <2>2, JoinedIs
      <3>4. PiecesIn(d, S) = PiecesIn(a \o x, S) \o PiecesIn(b, S)
        BY <2>1, <3>3, PiecesConcat
      <3>5. PiecesIn(c, S) = PiecesIn(a, S) \o PiecesIn(b, S)
        BY <2>1, <2>4, PiecesConcat
      <3> QED
        BY <3>2, <3>4, <3>5
    <2>6. /\ d \in Seq(Piece) /\ Len(d) = Len(c) + 1
          /\ \A j \in 1..(Len(c) + 1) :
               /\ j < p => d[j] = c[j]
               /\ j = p => d[j] = Always
               /\ j > p => d[j] = c[j - 1]
      <3>1. /\ a \o x \in Seq(Piece) /\ Len(a \o x) = Len(a) + Len(x)
            /\ \A j \in 1..(Len(a) + Len(x)) : (a \o x)[j] = IF j <= Len(a) THEN a[j] ELSE x[j - Len(a)]
        BY <2>1, <2>2, JoinedIs
      <3>2. /\ d \in Seq(Piece) /\ Len(d) = Len(a \o x) + Len(b)
            /\ \A j \in 1..(Len(a \o x) + Len(b)) :
                 d[j] = IF j <= Len(a \o x) THEN (a \o x)[j] ELSE b[j - Len(a \o x)]
        BY <2>1, <3>1, JoinedIs
      <3> HIDE DEF d
      <3>3. Len(a \o x) = p /\ Len(d) = Len(c) + 1
        BY <1>1, <2>1, <2>3, <3>1, <3>2
      <3>4. ASSUME NEW j \in 1..(Len(c) + 1)
            PROVE  /\ j < p => d[j] = c[j]
                   /\ j = p => d[j] = Always
                   /\ j > p => d[j] = c[j - 1]
        <4>1. j \in 1..(Len(a \o x) + Len(b))
          BY <1>1, <2>1, <3>3
        <4>2. CASE j < p
          <5>1. j <= p /\ j \in 1..(p - 1) /\ j \in 1..(Len(a) + Len(x)) /\ j <= Len(a)
            BY <1>1, <2>1, <2>3, <4>2
          <5>2. d[j] = (a \o x)[j] /\ (a \o x)[j] = a[j] /\ a[j] = c[j]
            BY <2>1, <3>1, <3>2, <3>3, <4>1, <5>1
          <5> QED
            BY <4>2, <5>2
        <4>3. CASE j = p
          <5>1. j <= p /\ j \in 1..(Len(a) + Len(x)) /\ ~ (j <= Len(a)) /\ j - Len(a) = 1
            BY <1>1, <2>1, <2>3, <4>3
          <5>2. d[j] = (a \o x)[j] /\ (a \o x)[j] = x[1]
            BY <3>1, <3>2, <3>3, <4>1, <5>1
          <5> QED
            BY <2>3, <4>3, <5>2
        <4>4. CASE j > p
          <5>1. ~ (j <= p) /\ j - p \in 1..(Len(c) - p + 1) /\ p + (j - p) - 1 = j - 1
            BY <1>1, <4>4
          <5>2. d[j] = b[j - p] /\ b[j - p] = c[p + (j - p) - 1]
            BY <2>1, <3>2, <3>3, <4>1, <5>1
          <5> QED
            BY <4>4, <5>1, <5>2
        <4> QED
          BY <4>2, <4>3, <4>4
      <3> QED
        BY <3>2, <3>3, <3>4
    <2>7. d = Inserted(c, p, Always)
      BY DEF a, b, x, Inserted
    <2> HIDE DEF d
    <2>8. ASSUME NEW j \in 1..Len(d)
          PROVE  d[j] \in Text \/ (j < p /\ d[j] = c[j]) \/ (j > p + 1 /\ d[j] = c[j - 1])
      <3>1. j \in 1..(Len(c) + 1) /\ (j < p \/ j = p \/ j = p + 1 \/ j > p + 1)
        BY <1>1, <2>6
      <3>2. j = p + 1 => j > p /\ j - 1 = p
        BY <1>1
      <3>3. j > p + 1 => j > p
        BY <1>1
      <3> QED
        BY <1>2, <1>6, <2>6, <3>1, <3>2, <3>3
    <2>9. ASSUME NEW j \in 1..Len(c) PROVE (j < p => d[j] = c[j]) /\ (j > p => d[j + 1] = c[j])
      <3>1. j \in 1..(Len(c) + 1) /\ j + 1 \in 1..(Len(c) + 1) /\ (j > p => j + 1 > p) /\ (j + 1) - 1 = j
        BY <1>1
      <3> QED
        BY <2>6, <3>1
    <2>10. p \in 0..Len(c) /\ 1 \in Nat
      BY <1>1
    <2>11. WellFormed(d)
      BY <1>2, <1>6, <2>6, <2>8, <2>9, <2>10, ShiftKeepsSection
    <2> QED
      BY <2>5, <2>7, <2>11
  <1> QED
    BY <1>4, <1>5, <1>6, FrontmatterIs

(* What writing and removing the section does to a context file.            *)
LEMMA ContextOpsKeepText ==
  ASSUME NEW c \in Seq(Piece), WellFormed(c), NEW k
  PROVE  /\ WellFormed(Upsert(k \in Mdc, c)) /\ WellFormed(RemoveSection(k \in Mdc, c))
         /\ \/ PiecesIn(Upsert(k \in Mdc, c), UserPieces(k)) = PiecesIn(c, UserPieces(k))
            \/ /\ k \in Mdc
               /\ PiecesIn(Upsert(k \in Mdc, c), UserPieces(k)) = <<Fence, Fence>> \o PiecesIn(c, UserPieces(k))
         /\ \/ PiecesIn(RemoveSection(k \in Mdc, c), UserPieces(k)) = PiecesIn(c, UserPieces(k))
            \/ k \in Mdc /\ RemoveSection(k \in Mdc, c) = <<>> /\ Framed(CutSection(c))
  <1> DEFINE S == UserPieces(k)
  <1>1. S \in SUBSET Text /\ (k \in Mdc => S = Text \ {Always, Never})
    BY DEF UserPieces
  <1> HIDE DEF S
  <1>2. /\ PiecesIn(WriteSection(c), S) = PiecesIn(c, S) /\ WellFormed(WriteSection(c))
        /\ PiecesIn(CutSection(c), S) = PiecesIn(c, S) /\ WellFormed(CutSection(c))
    BY <1>1, SectionKeepsText
  <1>3. WellFormed(<<>>)
    BY DEF WellFormed
  <1>4. CASE k \notin Mdc
    <2>1. Upsert(k \in Mdc, c) = WriteSection(c) /\ RemoveSection(k \in Mdc, c) = CutSection(c)
      BY <1>4 DEF Upsert, RemoveSection
    <2> QED
      BY <1>2, <2>1 DEF S
  <1>5. CASE k \in Mdc
    <2>1. Upsert(k \in Mdc, c) = EnsureFrontmatter(WriteSection(c))
      BY <1>5 DEF Upsert
    <2>2. WriteSection(c) \in Seq(Piece)
      BY ContextType
    <2>3. /\ WellFormed(EnsureFrontmatter(WriteSection(c)))
          /\ \/ PiecesIn(EnsureFrontmatter(WriteSection(c)), S) = PiecesIn(c, S)
             \/ PiecesIn(EnsureFrontmatter(WriteSection(c)), S) = <<Fence, Fence>> \o PiecesIn(c, S)
      BY <1>1, <1>2, <1>5, <2>2, FrontmatterKeepsText
    <2>4. \/ RemoveSection(k \in Mdc, c) = CutSection(c)
          \/ RemoveSection(k \in Mdc, c) = <<>> /\ Framed(CutSection(c))
      BY <1>5 DEF RemoveSection
    <2> QED
      BY <1>2, <1>3, <1>5, <2>1, <2>3, <2>4 DEF S
  <1> QED
    BY <1>4, <1>5

(* No command touches the user's text in a context file whose markers stand *)
(* as Spec Kit wrote them, but for the frontmatter of an .mdc file and the  *)
(* file that is nothing else: ContextTextKept.                              *)
THEOREM ContextFilesKeepText == Spec => ContextTextKept
  <1> DEFINE KeptBy(k) ==
        LET old == PiecesIn(ctx[k], UserPieces(k))
            new == PiecesIn(ctx'[k], UserPieces(k))
        IN  /\ WellFormed(ctx'[k])
            /\ \/ new = old
               \/ k \in Mdc /\ new = <<Fence, Fence>> \o old
               \/ k \in Mdc /\ ctx'[k] = <<>> /\ Framed(CutSection(ctx[k]))
  <1>1. TypeOK /\ [Next]_vars =>
          [cli # Idle => \A k \in Integration : WellFormed(ctx[k]) => KeptBy(k)]_vars
    <2>1. SUFFICES ASSUME TypeOK, Next, cli # Idle, NEW k \in Integration, WellFormed(ctx[k])
                   PROVE  KeptBy(k)
      OBVIOUS
    <2>2. ctx[k] \in Seq(Piece) /\ DOMAIN ctx = Integration
      BY <2>1 DEF TypeOK
    <2>3. \/ ctx' = ctx
          \/ \E i : \/ ctx' = [ctx EXCEPT ![i] = Upsert(i \in Mdc, @)]
                    \/ ctx' = [ctx EXCEPT ![i] = RemoveSection(i \in Mdc, @)]
      <3>1. CASE SetUp \/ TearDown
        BY <3>1 DEF SetUp, TearDown
      <3>2. CASE Raise
        BY <3>2 DEF Raise, Rollback
      <3>3. CASE WriteSharedFiles \/ SaveShared \/ SaveManifest \/ WriteJson \/ UpdateOpts \/ ClearOpts
                 \/ RemoveStale \/ Stop
        BY <3>3 DEF WriteSharedFiles, SaveShared, SaveManifest, WriteJson, UpdateOpts, ClearOpts,
                    RemoveStale, Stop
      <3>4. CASE Commands
        BY <2>1, <3>4, CommandsStart DEF Started
      <3>5. CASE Users
        BY <2>1, <3>5 DEF Users, EditFile, EditContext, LoseSharedManifest, NewRelease, Edit
      <3> QED
        BY <2>1, <3>1, <3>2, <3>3, <3>4, <3>5 DEF Next, Steps
    <2>4. \/ ctx'[k] = ctx[k]
          \/ ctx'[k] = Upsert(k \in Mdc, ctx[k])
          \/ ctx'[k] = RemoveSection(k \in Mdc, ctx[k])
      BY <2>2, <2>3
    <2> QED
      BY <2>1, <2>2, <2>4, ContextOpsKeepText
  <1> QED
    BY <1>1, IntegrationsTyped, PTL DEF Spec, ContextTextKept
=============================================================================
