-------------------------- MODULE ExtensionsProofs --------------------------
(***************************************************************************)
(* Proofs about the extension commands, for every set of extensions and     *)
(* agents, whatever the extensions provide and however many commands run.   *)
(*                                                                         *)
(* A command is a path through its plan: the step at its head tells which   *)
(* steps are behind it, and the invariant says, step by step, what each of  *)
(* the registry, the directory and its backups, the hooks and the command   *)
(* files must be there.                                                     *)
(***************************************************************************)
EXTENDS Integers, Extensions, TLAPS

On(S) == Head(cli.todo) \in S

-----------------------------------------------------------------------------
(* Plans. *)

Op == {"add", "remove", "update", "rollback", "enable", "disable", "priority", "switch"}

RemovePairs ==
  {<<"unregister", "unskill">>, <<"unskill", "rmdir">>, <<"rmdir", "unhook">>,
   <<"unhook", "unregistry">>}
InstallPairs == {<<"copy", "commands">>, <<"commands", "skills">>, <<"skills", "hooks">>}

\* The pairs of steps that may be next to each other in the plan of a command,
\* and the steps a plan may end with.
Follows(op, fresh) ==
  CASE op = "add" ->
         {<<"clearbackup", "unregister">>, <<"unregistry", "copy">>}
           \cup RemovePairs \cup InstallPairs
           \cup (IF fresh THEN {<<"hooks", "registry">>}
                 ELSE {<<"hooks", "config">>, <<"config", "registry">>})
    [] op = "remove" -> RemovePairs
    [] op = "update" ->
         {<<"backup", "download">>, <<"download", "unregister">>, <<"unregistry", "validate">>,
          <<"validate", "copy">>, <<"hooks", "registry">>, <<"registry", "restoreconf">>,
          <<"restoreconf", "meta">>, <<"meta", "metahooks">>, <<"metahooks", "cleanup">>}
           \cup RemovePairs \cup InstallPairs
    [] op = "rollback" ->
         {<<"rbdir", "rbfiles">>, <<"rbfiles", "rbhooks">>, <<"rbfiles", "rbregistry">>,
          <<"rbhooks", "rbregistry">>, <<"rbregistry", "cleanup">>}
    [] op \in {"enable", "disable"} -> {<<"flag", "flaghooks">>}
    [] op = "priority" -> {}
    [] op = "switch" -> {<<"unagent", "setagent">>, <<"setagent", "regagent">>}

Ends(op) ==
  CASE op = "add" -> {"registry"}
    [] op = "remove" -> {"unregistry"}
    [] op \in {"update", "rollback"} -> {"cleanup"}
    [] op \in {"enable", "disable"} -> {"flaghooks"}
    [] op = "priority" -> {"priority"}
    [] op = "switch" -> {"regagent"}

StepName ==
  {"clearbackup", "unregister", "unskill", "rmdir", "unhook", "unregistry", "copy", "commands",
   "skills", "hooks", "config", "registry", "backup", "download", "validate", "restoreconf",
   "meta", "metahooks", "cleanup", "rbdir", "rbfiles", "rbhooks", "rbregistry", "flag",
   "flaghooks", "priority", "unagent", "setagent", "regagent"}

Path(s, pairs, ends) ==
  /\ s \in Seq(StepName) /\ Len(s) > 0
  /\ \A i \in 1..(Len(s) - 1) : <<s[i], s[i + 1]>> \in pairs
  /\ s[Len(s)] \in ends

PlanOK(c) == Path(c.todo, Follows(c.op, c.before.entry = NoEntry), Ends(c.op))

-----------------------------------------------------------------------------
(* Types. *)

Entry == [ver : Nat, enabled : BOOLEAN, prio : Nat, cmds : SUBSET Key, skills : SUBSET Name]
IsEntry(r) == r \in Entry /\ (r = NoEntry \/ r.ver \in Version)
DirState == [ver : 0..MaxVersion, conf : Nat]
UpdState == [has : BOOLEAN, copy : DirState, conf : Nat]
File == {NoFile} \cup (Ext \X Version)

\* A record with the fields of a command.
Shape(c) ==
  [op |-> c.op, e |-> c.e, v |-> c.v, prio |-> c.prio, keep |-> c.keep, todo |-> c.todo,
   before |-> c.before, entry |-> c.entry, saved |-> c.saved, hooks |-> c.hooks,
   listed |-> c.listed, cmds |-> c.cmds, skills |-> c.skills]

IsCommand(c) ==
  /\ c = Shape(c)
  /\ c.before = [entry |-> c.before.entry, dir |-> c.before.dir,
                 listed |-> c.before.listed, hooks |-> c.before.hooks]
  /\ c.op \in Op /\ c.e \in Ext /\ c.keep \in BOOLEAN
  /\ c.op \in {"add", "update", "rollback"} => c.v \in Version
  /\ c.op \in {"add", "update", "rollback", "priority"} => c.prio \in Nat
  /\ c.op \in {"add", "priority"} => c.prio \in Priority \ {0}
  /\ c.op = "switch" => c.v \in Agent
  /\ IsEntry(c.before.entry) /\ c.before.dir \in DirState
  /\ c.before.listed \subseteq Ext /\ c.listed \subseteq Ext
  /\ IsEntry(c.entry) /\ c.saved \in [Key -> File]
  /\ c.cmds \subseteq Key /\ c.skills \subseteq Name
  /\ PlanOK(c)

TypeOK ==
  /\ registry \in [Ext -> Entry] /\ \A e \in Ext : IsEntry(registry[e])
  /\ dir \in [Ext -> DirState] /\ backup \in [Ext -> Nat] /\ upd \in [Ext -> UpdState]
  /\ files \in [Key -> File]
  /\ active \in Agent /\ dirs \subseteq Agent /\ listed \subseteq Ext
  /\ ops \in Nat /\ latest \in [Ext -> Nat]
  /\ damaged \subseteq Ext /\ failed \subseteq Ext
  /\ cli = Idle \/ IsCommand(cli)

-----------------------------------------------------------------------------
(* What holds at each step. *)

Runs(S) == cli # Idle /\ cli.op \in S
Writing(e) == Runs({"add", "remove", "update", "rollback"}) /\ cli.e = e

\* The registry entry of the extension a command works on.
EntryOK ==
  /\ Runs({"update", "rollback"}) =>
       /\ cli.entry = cli.before.entry /\ cli.before.entry # NoEntry
       /\ cli.before.entry.ver < cli.v
  /\ Runs({"remove", "enable", "disable", "priority"}) =>
       registry[cli.e] = cli.before.entry \/ On({"flaghooks"})
  /\ Runs({"remove", "enable", "disable", "priority"}) =>
       cli.before.entry # NoEntry /\ registry[cli.e] # NoEntry
  /\ Runs({"add", "remove", "update"}) =>
       /\ On({"clearbackup", "backup", "download", "unregister", "unskill", "rmdir",
              "unhook", "unregistry"}) => registry[cli.e] = cli.before.entry
       /\ On({"validate", "copy", "commands", "skills", "hooks", "config", "registry"}) =>
            registry[cli.e] = NoEntry
       /\ On({"restoreconf", "meta", "metahooks", "cleanup"}) =>
            registry[cli.e].ver = cli.v
       /\ On({"restoreconf", "meta"}) => registry[cli.e].enabled
       /\ On({"metahooks", "cleanup"}) =>
            /\ registry[cli.e].enabled = cli.entry.enabled
            /\ registry[cli.e].prio = cli.entry.prio
  /\ Runs({"enable", "disable"}) /\ On({"flaghooks"}) =>
       /\ registry[cli.e].ver = cli.before.entry.ver
       /\ registry[cli.e].enabled = (cli.op = "enable")
  /\ Runs({"rollback"}) /\ On({"cleanup"}) => registry[cli.e] = cli.before.entry

\* Hooks and installed list as an update found them, and as it saved them.
Captured == cli.hooks = cli.before.hooks /\ cli.listed = cli.before.listed
Restored == HooksOf(cli.e) = cli.before.hooks /\ listed = cli.before.listed

YmlOK ==
  Runs({"update", "rollback"}) =>
    /\ \A h \in cli.before.hooks : h[2] = cli.e
    /\ \A f \in Ext \ {cli.e} : f \in listed <=> f \in cli.before.listed
    /\ cli.op = "update" => IF On({"backup"}) THEN Restored ELSE Captured
    /\ cli.op = "rollback" =>
         /\ On({"rbdir"}) => Len(cli.todo) > 2 /\ IF cli.todo[3] = "rbhooks" THEN Captured ELSE Restored
         /\ On({"rbfiles"}) => IF cli.todo[2] = "rbhooks" THEN Captured ELSE Restored
         /\ On({"rbhooks"}) => Captured
         /\ On({"rbregistry", "cleanup"}) => Restored

NoHooks(e) == HooksOf(e) = {} /\ e \notin listed
FullHooks(e, v, b) == HooksOf(e) = HookEvents[e][v] \X {e} \X {b} /\ e \in listed
HooksMatch(e) ==
  IF Installed(e) THEN FullHooks(e, registry[e].ver, registry[e].enabled) ELSE NoHooks(e)

\* The hooks of an undamaged extension.
HooksOK(e) ==
  e \notin damaged =>
    /\ ~(Runs(Op \ {"switch", "priority"}) /\ cli.e = e) => HooksMatch(e)
    /\ Runs({"add", "remove", "update"}) /\ cli.e = e =>
         /\ On({"clearbackup", "backup", "download", "unregister", "unskill", "rmdir",
                "unhook", "cleanup"}) => HooksMatch(e)
         /\ On({"unregistry", "validate", "copy", "commands", "skills", "hooks"}) => NoHooks(e)
         /\ On({"config", "registry", "restoreconf", "meta", "metahooks"}) =>
              FullHooks(e, cli.v, TRUE)
    /\ Runs({"enable", "disable"}) /\ cli.e = e =>
         /\ On({"flag"}) => HooksMatch(e)
         /\ On({"flaghooks"}) => FullHooks(e, registry[e].ver, cli.before.entry.enabled)
    /\ Runs({"update", "rollback"}) /\ cli.e = e =>
         /\ e \in cli.before.listed
         /\ cli.before.hooks =
              HookEvents[e][cli.before.entry.ver] \X {e} \X {cli.before.entry.enabled}

\* The directory of an undamaged extension and the copies of its config.
Current(e, conf) == latest[e] # 0 => conf = latest[e]

DirOK(e) ==
  e \notin damaged =>
    /\ ~Writing(e) =>
         /\ upd[e] = NoUpd
         /\ Installed(e) => dir[e].ver = registry[e].ver /\ Current(e, dir[e].conf)
    /\ Writing(e) /\ cli.before.entry # NoEntry =>
         cli.before.dir.ver = cli.before.entry.ver /\ Current(e, cli.before.dir.conf)
    /\ Writing(e) /\ cli.op \in {"add", "remove", "update"} =>
         /\ On({"clearbackup", "backup", "download", "unregister", "unskill", "rmdir"}) =>
              dir[e] = cli.before.dir
         /\ On({"commands", "skills", "hooks", "config", "registry", "restoreconf", "meta",
                "metahooks", "cleanup"}) => dir[e].ver = cli.v
    /\ Writing(e) /\ cli.op \in {"add", "remove"} => upd[e] = NoUpd
    /\ Writing(e) /\ cli.op = "add" =>
         /\ cli.before.entry = NoEntry => latest[e] = 0
         /\ On({"unhook", "unregistry", "copy", "commands", "skills", "hooks", "config"}) =>
              Current(e, backup[e])
         /\ On({"registry"}) => Current(e, dir[e].conf)
         /\ ~cli.keep
    /\ Writing(e) /\ cli.op = "update" =>
         /\ On({"backup"}) => upd[e] = NoUpd
         /\ ~On({"backup"}) =>
              upd[e].has /\ upd[e].copy = cli.before.dir /\ Current(e, upd[e].conf)
         /\ On({"meta", "metahooks", "cleanup"}) => Current(e, dir[e].conf)
    /\ Writing(e) /\ cli.op = "rollback" =>
         /\ upd[e].has => upd[e].copy = cli.before.dir
         /\ ~upd[e].has \/ ~On({"rbdir"}) => dir[e] = cli.before.dir

\* What the user last wrote is somewhere, and a command that writes the
\* directory of a damaged extension has nothing to lose.
ConfigOK(e) ==
  /\ latest[e] # 0 => latest[e] \in {dir[e].conf, backup[e], upd[e].copy.conf, upd[e].conf}
  /\ Writing(e) /\ e \in damaged => latest[e] = 0

\* Names that installed extensions provide do not meet, and each entry lists
\* names of its version only.
Provided(e, r) == IF r = NoEntry THEN {} ELSE Provides[e][r.ver]
Clear(e, N) == \A f \in Ext \ {e} : N \cap Provided(f, registry[f]) = {}

NamesOK ==
  damaged = {} =>
    /\ \A e \in Ext : Clear(e, Provided(e, registry[e]))
    /\ \A e \in Ext : registry[e].cmds \subseteq Agent \X Provided(e, registry[e])
    /\ Runs({"update", "rollback"}) =>
         /\ Clear(cli.e, Provides[cli.e][cli.before.entry.ver])
         /\ cli.before.entry.cmds \subseteq Agent \X Provides[cli.e][cli.before.entry.ver]
         /\ \A k \in Key : cli.saved[k] # NoFile =>
              /\ k[2] \in Provides[cli.e][cli.before.entry.ver]
              /\ cli.saved[k][1] \in failed \cup {cli.e}
    /\ Runs({"add", "update"})
       /\ (cli.op = "add" \/ On({"copy", "commands", "skills", "hooks", "registry",
                                 "restoreconf", "meta", "metahooks", "cleanup"})) =>
         Clear(cli.e, Provides[cli.e][cli.v])
    /\ Runs({"add", "update"}) /\ On({"skills", "hooks", "config", "registry"}) =>
         cli.cmds \subseteq Agent \X Provides[cli.e][cli.v]

FilesOf(e) == {k \in Key : files[k] # NoFile /\ files[k][1] = e}
FilesAre(e, K, v) == FilesOf(e) = K /\ \A k \in K : files[k] = Content(e, v)

\* The command files of an extension that was not rolled back.
FilesOK(e) ==
  damaged = {} /\ e \notin failed =>
    /\ ~Writing(e) => FilesAre(e, registry[e].cmds, registry[e].ver)
    /\ Writing(e) /\ cli.op # "rollback" =>
         /\ On({"clearbackup", "backup", "download", "unregister", "restoreconf", "meta",
                "metahooks", "cleanup"}) => FilesAre(e, registry[e].cmds, registry[e].ver)
         /\ On({"unskill", "rmdir", "unhook", "unregistry", "validate", "copy", "commands"}) =>
              FilesOf(e) = {}
         /\ On({"skills", "hooks", "config", "registry"}) => FilesAre(e, cli.cmds, cli.v)

\* Once a rollback has put the saved files back, they stay.
SavedOK ==
  Runs({"rollback"}) /\ On({"rbhooks", "rbregistry", "cleanup"}) =>
    \A k \in Key : cli.saved[k] # NoFile => files[k] = cli.saved[k]

IInv ==
  /\ TypeOK /\ EntryOK /\ YmlOK /\ NamesOK /\ SavedOK
  /\ \A e \in Ext : HooksOK(e) /\ DirOK(e) /\ ConfigOK(e) /\ FilesOK(e)

-----------------------------------------------------------------------------
(* Plans: what is left of a plan is a plan, and the step at its head tells  *)
(* the command and the next step.                                           *)

\* The first step of a plan.
LEMMA HeadIs ==
  ASSUME NEW S, NEW s \in Seq(S), Len(s) > 0
  PROVE  Head(s) = s[1]
  OBVIOUS

\* What is left of a plan when its first step is taken.
LEMMA TailIs ==
  ASSUME NEW S, NEW s \in Seq(S), Len(s) > 0, Len(s) # 1
  PROVE  /\ Len(s) \in Nat /\ Len(s) > 1
         /\ Tail(s) \in Seq(S) /\ Len(Tail(s)) = Len(s) - 1
         /\ \A i \in 1..(Len(s) - 1) : Tail(s)[i] = s[i + 1]
  <1>1. Len(s) > 1 /\ Tail(s) \in Seq(S) /\ Len(Tail(s)) = Len(s) - 1
    OBVIOUS
  <1>2. \A i \in 1..(Len(s) - 1) : Tail(s)[i] = s[i + 1]
    OBVIOUS
  <1> QED
    BY <1>1, <1>2

\* What is left of a path is a path, and its first two steps are a pair.
LEMMA PathTail ==
  ASSUME NEW s, NEW pairs, NEW ends, Path(s, pairs, ends), Len(s) # 1
  PROVE  /\ Path(Tail(s), pairs, ends)
         /\ <<Head(s), Head(Tail(s))>> \in pairs
         /\ Head(Tail(s)) = s[2]
         /\ Len(s) > 2 => Tail(s)[2] = s[3]
  <1> s \in Seq(StepName) /\ Len(s) > 0
    BY DEF Path
  <1>1. /\ s \in Seq(StepName) /\ Len(s) \in Nat /\ Len(s) > 1
        /\ Tail(s) \in Seq(StepName) /\ Len(Tail(s)) = Len(s) - 1
        /\ \A i \in 1..(Len(s) - 1) : Tail(s)[i] = s[i + 1]
    BY TailIs
  <1>2. /\ Len(Tail(s)) > 0 /\ Head(s) = s[1] /\ Head(Tail(s)) = Tail(s)[1]
    BY <1>1, HeadIs
  <1>3. \A i \in 1..(Len(Tail(s)) - 1) : <<Tail(s)[i], Tail(s)[i + 1]>> \in pairs
    BY <1>1 DEF Path
  <1>4. Tail(s)[Len(Tail(s))] \in ends
    BY <1>1 DEF Path
  <1>5. <<s[1], s[1 + 1]>> \in pairs
    BY <1>1 DEF Path
  <1> QED
    BY <1>1, <1>2, <1>3, <1>4, <1>5 DEF Path

\* Two paths make one when the second may follow the first.
LEMMA PathCat ==
  ASSUME NEW s, NEW t, NEW pairs, NEW a, NEW b, NEW ends,
         Path(s, pairs, {a}), Path(t, pairs, ends), Head(t) = b, <<a, b>> \in pairs
  PROVE  Path(s \o t, pairs, ends) /\ Head(s \o t) = Head(s)
  <1>1. /\ s \in Seq(StepName) /\ t \in Seq(StepName) /\ s \o t \in Seq(StepName)
        /\ Len(s) \in Nat \ {0} /\ Len(t) \in Nat \ {0}
        /\ Len(s \o t) = Len(s) + Len(t)
        /\ \A i \in 1..(Len(s) + Len(t)) :
             (s \o t)[i] = IF i <= Len(s) THEN s[i] ELSE t[i - Len(s)]
    BY DEF Path
  <1>2. \A i \in 1..(Len(s \o t) - 1) : <<(s \o t)[i], (s \o t)[i + 1]>> \in pairs
    <2> TAKE i \in 1..(Len(s \o t) - 1)
    <2>1. CASE i < Len(s)
      <3>1. (s \o t)[i] = s[i] /\ (s \o t)[i + 1] = s[i + 1] /\ i \in 1..(Len(s) - 1)
        BY <1>1, <2>1
      <3> QED
        BY <3>1 DEF Path
    <2>2. CASE i = Len(s)
      <3>1. (s \o t)[i] = s[Len(s)] /\ (s \o t)[i + 1] = t[1]
        BY <1>1, <2>2
      <3>2. t[1] = Head(t) /\ s[Len(s)] = a
        BY <1>1 DEF Path
      <3> QED
        BY <3>1, <3>2
    <2>3. CASE i > Len(s)
      <3>1. /\ (s \o t)[i] = t[i - Len(s)] /\ (s \o t)[i + 1] = t[i - Len(s) + 1]
            /\ i - Len(s) \in 1..(Len(t) - 1)
        BY <1>1, <2>3
      <3> QED
        BY <3>1 DEF Path
    <2>4. i \in Int /\ Len(s) \in Int
      BY <1>1
    <2> QED
      BY <2>1, <2>2, <2>3, <2>4
  <1>3. (s \o t)[Len(s \o t)] = t[Len(t)]
    BY <1>1
  <1>4. Head(s \o t) = s[1] /\ Head(s) = s[1]
    BY <1>1
  <1> QED
    BY <1>1, <1>2, <1>3, <1>4 DEF Path

\* The part that removes and the part that installs an extension.
LEMMA PlanParts ==
  ASSUME NEW pairs
  PROVE  /\ RemovePairs \subseteq pairs => Path(RemoveSteps, pairs, {"unregistry"})
         /\ InstallPairs \subseteq pairs => Path(InstallSteps, pairs, {"hooks"})
         /\ Head(RemoveSteps) = "unregister" /\ Head(InstallSteps) = "copy"
  <1>1. ASSUME RemovePairs \subseteq pairs PROVE Path(RemoveSteps, pairs, {"unregistry"})
    <2>1. RemoveSteps \in Seq(StepName) /\ Len(RemoveSteps) = 5
      BY DEF RemoveSteps, StepName
    <2>2. \A i \in 1..4 : <<RemoveSteps[i], RemoveSteps[i + 1]>> \in RemovePairs
      <3> TAKE i \in 1..4
      <3>1. i = 1 \/ i = 2 \/ i = 3 \/ i = 4
        OBVIOUS
      <3> QED
        BY <3>1 DEF RemoveSteps, RemovePairs
    <2>3. RemoveSteps[5] = "unregistry"
      BY DEF RemoveSteps
    <2> QED
      BY <1>1, <2>1, <2>2, <2>3 DEF Path
  <1>2. ASSUME InstallPairs \subseteq pairs PROVE Path(InstallSteps, pairs, {"hooks"})
    <2>1. InstallSteps \in Seq(StepName) /\ Len(InstallSteps) = 4
      BY DEF InstallSteps, StepName
    <2>2. \A i \in 1..3 : <<InstallSteps[i], InstallSteps[i + 1]>> \in InstallPairs
      <3> TAKE i \in 1..3
      <3>1. i = 1 \/ i = 2 \/ i = 3
        OBVIOUS
      <3> QED
        BY <3>1 DEF InstallSteps, InstallPairs
    <2>3. InstallSteps[4] = "hooks"
      BY DEF InstallSteps
    <2> QED
      BY <1>2, <2>1, <2>2, <2>3 DEF Path
  <1> QED
    BY <1>1, <1>2 DEF RemoveSteps, InstallSteps

\* A plan of one or two steps.
LEMMA OnePath ==
  ASSUME NEW a \in StepName, NEW pairs, NEW ends, a \in ends
  PROVE  Path(<<a>>, pairs, ends) /\ Head(<<a>>) = a
  BY DEF Path

\* A plan of two steps.
LEMMA TwoPath ==
  ASSUME NEW a \in StepName, NEW b \in StepName, NEW pairs, NEW ends,
         b \in ends, <<a, b>> \in pairs
  PROVE  Path(<<a, b>>, pairs, ends) /\ Head(<<a, b>>) = a
  BY DEF Path

\* The plans the commands begin with.
LEMMA PlansOK ==
  /\ Path(RemoveSteps, Follows("remove", FALSE), Ends("remove"))
  /\ Path(InstallSteps \o <<"registry">>, Follows("add", TRUE), Ends("add"))
  /\ Head(InstallSteps \o <<"registry">>) = "copy"
  /\ Path(<<"clearbackup">> \o RemoveSteps \o InstallSteps \o <<"config", "registry">>,
          Follows("add", FALSE), Ends("add"))
  /\ Head(<<"clearbackup">> \o RemoveSteps \o InstallSteps \o <<"config", "registry">>)
       = "clearbackup"
  /\ Path(<<"backup", "download">> \o RemoveSteps \o <<"validate">> \o InstallSteps
            \o <<"registry", "restoreconf", "meta", "metahooks", "cleanup">>,
          Follows("update", FALSE), Ends("update"))
  /\ Head(<<"backup", "download">> \o RemoveSteps \o <<"validate">> \o InstallSteps
            \o <<"registry", "restoreconf", "meta", "metahooks", "cleanup">>) = "backup"
  <1>1. Path(RemoveSteps, Follows("remove", FALSE), Ends("remove"))
    BY PlanParts DEF Follows, Ends
  <1>2. /\ Path(InstallSteps \o <<"registry">>, Follows("add", TRUE), Ends("add"))
        /\ Head(InstallSteps \o <<"registry">>) = "copy"
    <2> DEFINE P == Follows("add", TRUE)
    <2>1. InstallPairs \subseteq P /\ <<"hooks", "registry">> \in P /\ "registry" \in Ends("add")
      BY DEF Follows, Ends
    <2> HIDE DEF P
    <2>2. Path(InstallSteps, P, {"hooks"}) /\ Head(InstallSteps) = "copy"
      BY <2>1, PlanParts
    <2>a. "registry" \in StepName
      BY DEF StepName
    <2>3. Path(<<"registry">>, P, Ends("add")) /\ Head(<<"registry">>) = "registry"
      BY <2>1, <2>a, OnePath
    <2>4. Path(InstallSteps \o <<"registry">>, P, Ends("add"))
          /\ Head(InstallSteps \o <<"registry">>) = "copy"
      BY <2>1, <2>2, <2>3, PathCat
    <2> QED
      BY <2>4 DEF P
  <1>3. /\ Path(<<"clearbackup">> \o RemoveSteps \o InstallSteps \o <<"config", "registry">>,
                Follows("add", FALSE), Ends("add"))
        /\ Head(<<"clearbackup">> \o RemoveSteps \o InstallSteps \o <<"config", "registry">>)
             = "clearbackup"
    <2> DEFINE P == Follows("add", FALSE)
               A == <<"clearbackup">> \o RemoveSteps
               B == A \o InstallSteps
               C == <<"config", "registry">>
    <2>1. /\ RemovePairs \subseteq P /\ InstallPairs \subseteq P /\ "registry" \in Ends("add")
          /\ <<"clearbackup", "unregister">> \in P /\ <<"unregistry", "copy">> \in P
          /\ <<"hooks", "config">> \in P /\ <<"config", "registry">> \in P
      BY DEF Follows, Ends
    <2> HIDE DEF P
    <2>2. /\ Path(RemoveSteps, P, {"unregistry"}) /\ Head(RemoveSteps) = "unregister"
          /\ Path(InstallSteps, P, {"hooks"}) /\ Head(InstallSteps) = "copy"
      BY <2>1, PlanParts
    <2>a. "clearbackup" \in StepName /\ "config" \in StepName /\ "registry" \in StepName
      BY DEF StepName
    <2>3. /\ Path(<<"clearbackup">>, P, {"clearbackup"}) /\ Head(<<"clearbackup">>) = "clearbackup"
          /\ Path(C, P, Ends("add")) /\ Head(C) = "config"
      BY <2>1, <2>a, OnePath, TwoPath
    <2>4. Path(A, P, {"unregistry"}) /\ Head(A) = "clearbackup"
      BY <2>1, <2>2, <2>3, PathCat
    <2> HIDE DEF A, C
    <2>5. Path(B, P, {"hooks"}) /\ Head(B) = "clearbackup"
      BY <2>1, <2>2, <2>4, PathCat
    <2> HIDE DEF B
    <2>6. Path(B \o C, P, Ends("add")) /\ Head(B \o C) = "clearbackup"
      BY <2>1, <2>3, <2>5, PathCat
    <2> QED
      BY <2>6 DEF A, B, C, P
  <1>4. /\ Path(<<"backup", "download">> \o RemoveSteps \o <<"validate">> \o InstallSteps
                  \o <<"registry", "restoreconf", "meta", "metahooks", "cleanup">>,
                Follows("update", FALSE), Ends("update"))
        /\ Head(<<"backup", "download">> \o RemoveSteps \o <<"validate">> \o InstallSteps
                  \o <<"registry", "restoreconf", "meta", "metahooks", "cleanup">>) = "backup"
    <2> DEFINE P == Follows("update", FALSE)
               A == <<"backup", "download">> \o RemoveSteps
               B == A \o <<"validate">>
               C == B \o InstallSteps
               D == <<"registry", "restoreconf", "meta", "metahooks", "cleanup">>
    <2>1. /\ RemovePairs \subseteq P /\ InstallPairs \subseteq P /\ "cleanup" \in Ends("update")
          /\ <<"backup", "download">> \in P /\ <<"download", "unregister">> \in P
          /\ <<"unregistry", "validate">> \in P /\ <<"validate", "copy">> \in P
          /\ <<"hooks", "registry">> \in P /\ <<"registry", "restoreconf">> \in P
          /\ <<"restoreconf", "meta">> \in P /\ <<"meta", "metahooks">> \in P
          /\ <<"metahooks", "cleanup">> \in P
      BY DEF Follows, Ends
    <2> HIDE DEF P
    <2>2. /\ Path(RemoveSteps, P, {"unregistry"}) /\ Head(RemoveSteps) = "unregister"
          /\ Path(InstallSteps, P, {"hooks"}) /\ Head(InstallSteps) = "copy"
      BY <2>1, PlanParts
    <2>a. "backup" \in StepName /\ "download" \in StepName /\ "validate" \in StepName
      BY DEF StepName
    <2>3. /\ Path(<<"backup", "download">>, P, {"download"})
          /\ Head(<<"backup", "download">>) = "backup"
          /\ Path(<<"validate">>, P, {"validate"}) /\ Head(<<"validate">>) = "validate"
      BY <2>1, <2>a, OnePath, TwoPath
    <2>4. Path(D, P, Ends("update")) /\ Head(D) = "registry"
      <3>1. D \in Seq(StepName) /\ Len(D) = 5 /\ Head(D) = "registry" /\ D[5] = "cleanup"
        BY DEF StepName
      <3>2. \A i \in 1..4 : <<D[i], D[i + 1]>> \in P
        <4> TAKE i \in 1..4
        <4>1. i = 1 \/ i = 2 \/ i = 3 \/ i = 4
          OBVIOUS
        <4> QED
          BY <2>1, <4>1
      <3> QED
        BY <2>1, <3>1, <3>2 DEF Path
    <2>5. Path(A, P, {"unregistry"}) /\ Head(A) = "backup"
      BY <2>1, <2>2, <2>3, PathCat
    <2> HIDE DEF A, D
    <2>6. Path(B, P, {"validate"}) /\ Head(B) = "backup"
      BY <2>1, <2>3, <2>5, PathCat
    <2> HIDE DEF B
    <2>7. Path(C, P, {"hooks"}) /\ Head(C) = "backup"
      BY <2>1, <2>2, <2>6, PathCat
    <2> HIDE DEF C
    <2>8. Path(C \o D, P, Ends("update")) /\ Head(C \o D) = "backup"
      BY <2>1, <2>4, <2>7, PathCat
    <2> QED
      BY <2>8 DEF A, B, C, D, P
  <1> QED
    BY <1>1, <1>2, <1>3, <1>4

-----------------------------------------------------------------------------
(* How a command goes on. *)

\* The command c, with its plan one step shorter.
Onward(c) ==
  /\ cli' # Idle /\ IsCommand(cli')
  /\ cli'.todo = Tail(cli.todo) /\ Len(cli.todo) # 1
  /\ cli'.op = c.op /\ cli'.e = c.e /\ cli'.v = c.v /\ cli'.prio = c.prio /\ cli'.keep = c.keep
  /\ cli'.before = c.before /\ cli'.entry = c.entry /\ cli'.saved = c.saved
  /\ cli'.hooks = c.hooks /\ cli'.listed = c.listed /\ cli'.cmds = c.cmds
  /\ cli'.skills = c.skills

Ended == cli' = Idle /\ Head(cli.todo) \in Ends(cli.op)

\* A command is not the idle state.
LEMMA NotIdle ==
  ASSUME NEW c, IsCommand(c)
  PROVE  c # Idle
  BY DEF IsCommand, Idle, Op

\* Taking a step off the plan of a command leaves its other fields alone.
LEMMA Shortened ==
  ASSUME NEW c, c = Shape(c), NEW d, d = [c EXCEPT !.todo = Tail(@)]
  PROVE  /\ d = Shape(d) /\ d.todo = Tail(c.todo)
         /\ d.op = c.op /\ d.e = c.e /\ d.v = c.v /\ d.prio = c.prio /\ d.keep = c.keep
         /\ d.before = c.before /\ d.entry = c.entry /\ d.saved = c.saved
         /\ d.hooks = c.hooks /\ d.listed = c.listed /\ d.cmds = c.cmds
         /\ d.skills = c.skills
  <1>1. d = [op |-> c.op, e |-> c.e, v |-> c.v, prio |-> c.prio, keep |-> c.keep,
             todo |-> Tail(c.todo), before |-> c.before, entry |-> c.entry,
             saved |-> c.saved, hooks |-> c.hooks, listed |-> c.listed, cmds |-> c.cmds,
             skills |-> c.skills]
    BY DEF Shape
  <1> QED
    BY <1>1 DEF Shape

\* A command ends with the last step of its plan, or goes on with one step less.
LEMMA Proceeds ==
  ASSUME TypeOK, cli # Idle,
         NEW c, IsCommand(c), c.todo = cli.todo, c.op = cli.op, c.before = cli.before,
         GoWith(c)
  PROVE  Ended \/ Onward(c)
  <1> IsCommand(cli)
    BY DEF TypeOK
  <1>1. PlanOK(cli) /\ cli.todo \in Seq(StepName) /\ Len(cli.todo) > 0
    BY DEF IsCommand, PlanOK, Path
  <1>2. CASE Len(cli.todo) = 1
    <2>1. Head(cli.todo) \in Ends(cli.op)
      BY <1>1, <1>2, HeadIs DEF PlanOK, Path
    <2> QED
      BY <1>2, <2>1 DEF GoWith, Ended
  <1>3. CASE Len(cli.todo) # 1
    <2> DEFINE d == [c EXCEPT !.todo = Tail(@)]
    <2>1. /\ d = Shape(d) /\ d.todo = Tail(c.todo)
          /\ d.op = c.op /\ d.e = c.e /\ d.v = c.v /\ d.prio = c.prio /\ d.keep = c.keep
          /\ d.before = c.before /\ d.entry = c.entry /\ d.saved = c.saved
          /\ d.hooks = c.hooks /\ d.listed = c.listed /\ d.cmds = c.cmds
          /\ d.skills = c.skills
      <3>1. c = Shape(c)
        BY DEF IsCommand
      <3> QED
        BY <3>1, Shortened
    <2>2. cli' = d
      BY <1>3 DEF GoWith
    <2> HIDE DEF d
    <2>3. PlanOK(d)
      BY <1>1, <1>3, <2>1, PathTail DEF PlanOK
    <2>4. IsCommand(d)
      BY <2>1, <2>3 DEF IsCommand
    <2>5. d # Idle
      BY <2>4, NotIdle
    <2> QED
      BY <1>3, <2>1, <2>2, <2>4, <2>5 DEF Onward
  <1> QED
    BY <1>2, <1>3

\* The step h belongs to the commands in S and is followed by n.
Between(h, S, n) ==
  Head(cli.todo) = h => cli.op \in S /\ cli' # Idle /\ Head(cli'.todo) = n
Last(h, S) == Head(cli.todo) = h => cli.op \in S /\ cli' = Idle

Itinerary ==
  /\ Between("clearbackup", {"add"}, "unregister")
  /\ Between("unregister", {"add", "remove", "update"}, "unskill")
  /\ Between("unskill", {"add", "remove", "update"}, "rmdir")
  /\ Between("rmdir", {"add", "remove", "update"}, "unhook")
  /\ Between("unhook", {"add", "remove", "update"}, "unregistry")
  /\ Head(cli.todo) = "unregistry" =>
       \/ cli.op = "add" /\ cli' # Idle /\ Head(cli'.todo) = "copy"
       \/ cli.op = "update" /\ cli' # Idle /\ Head(cli'.todo) = "validate"
       \/ cli.op = "remove" /\ cli' = Idle
  /\ Between("validate", {"update"}, "copy")
  /\ Between("copy", {"add", "update"}, "commands")
  /\ Between("commands", {"add", "update"}, "skills")
  /\ Between("skills", {"add", "update"}, "hooks")
  /\ Head(cli.todo) = "hooks" =>
       /\ cli.op \in {"add", "update"} /\ cli' # Idle
       /\ Head(cli'.todo) = IF cli.op = "add" /\ cli.before.entry # NoEntry
                            THEN "config" ELSE "registry"
  /\ Between("config", {"add"}, "registry")
  /\ Head(cli.todo) = "config" => cli.before.entry # NoEntry
  /\ Head(cli.todo) = "registry" =>
       \/ cli.op = "add" /\ cli' = Idle
       \/ cli.op = "update" /\ cli' # Idle /\ Head(cli'.todo) = "restoreconf"
  /\ Between("backup", {"update"}, "download")
  /\ Between("download", {"update"}, "unregister")
  /\ Between("restoreconf", {"update"}, "meta")
  /\ Between("meta", {"update"}, "metahooks")
  /\ Between("metahooks", {"update"}, "cleanup")
  /\ Last("cleanup", {"update", "rollback"})
  /\ Between("rbdir", {"rollback"}, "rbfiles")
  /\ Head(cli.todo) = "rbfiles" =>
       /\ cli.op = "rollback" /\ cli' # Idle /\ Head(cli'.todo) = cli.todo[2]
       /\ cli.todo[2] \in {"rbhooks", "rbregistry"}
  /\ Between("rbhooks", {"rollback"}, "rbregistry")
  /\ Between("rbregistry", {"rollback"}, "cleanup")
  /\ Between("flag", {"enable", "disable"}, "flaghooks")
  /\ Last("flaghooks", {"enable", "disable"})
  /\ Last("priority", {"priority"})
  /\ Between("unagent", {"switch"}, "setagent")
  /\ Between("setagent", {"switch"}, "regagent")
  /\ Last("regagent", {"switch"})

\* The step at the head of the plan tells the command and the step that follows.
LEMMA Itineraries ==
  ASSUME TypeOK, cli # Idle, NEW c, c.op = cli.op, c.before = cli.before, Ended \/ Onward(c)
  PROVE  Itinerary
  <1> IsCommand(cli) /\ cli.op \in Op
    BY DEF TypeOK, IsCommand
  <1>1. PlanOK(cli)
    BY DEF IsCommand
  <1>2. ASSUME Onward(c)
        PROVE  /\ cli' # Idle
               /\ <<Head(cli.todo), Head(cli'.todo)>> \in Follows(cli.op, cli.before.entry = NoEntry)
               /\ Head(cli'.todo) = cli.todo[2]
    BY <1>1, <1>2, PathTail DEF PlanOK, Onward
  <1> DEFINE h == Head(cli.todo)
             n == Head(cli'.todo)
  <1>3. \/ cli' = Idle /\ h \in Ends(cli.op)
        \/ /\ cli' # Idle /\ <<h, n>> \in Follows(cli.op, cli.before.entry = NoEntry)
           /\ n = cli.todo[2]
    BY <1>2 DEF Ended
  <1> HIDE DEF h, n
  <1>4. CASE cli.op = "add"
    BY <1>3, <1>4 DEF Itinerary, Between, Last, Follows, Ends, RemovePairs, InstallPairs, h, n
  <1>5. CASE cli.op = "remove"
    BY <1>3, <1>5 DEF Itinerary, Between, Last, Follows, Ends, RemovePairs, h, n
  <1>6. CASE cli.op = "update"
    BY <1>3, <1>6 DEF Itinerary, Between, Last, Follows, Ends, RemovePairs, InstallPairs, h, n
  <1>7. CASE cli.op = "rollback"
    BY <1>3, <1>7 DEF Itinerary, Between, Last, Follows, Ends, h, n
  <1>8. CASE cli.op \in {"enable", "disable"}
    BY <1>3, <1>8 DEF Itinerary, Between, Last, Follows, Ends, h, n
  <1>9. CASE cli.op \in {"priority", "switch"}
    BY <1>3, <1>9 DEF Itinerary, Between, Last, Follows, Ends, h, n
  <1> QED
    BY <1>4, <1>5, <1>6, <1>7, <1>8, <1>9 DEF Op

\* A step that only moves on.
LEMMA Goes ==
  ASSUME TypeOK, cli # Idle, Go
  PROVE  (Ended \/ Onward(cli)) /\ Itinerary /\ IsCommand(cli)
  <1>1. IsCommand(cli)
    BY DEF TypeOK
  <1>2. Ended \/ Onward(cli)
    BY <1>1, Proceeds DEF Go
  <1> QED
    BY <1>1, <1>2, Itineraries

\* The steps that note something in the command: Commands, Skills and Backup.
LEMMA GoesNoting ==
  ASSUME TypeOK, cli # Idle, NEW c, IsCommand(c), GoWith(c),
         c.todo = cli.todo, c.op = cli.op, c.before = cli.before
  PROVE  (Ended \/ Onward(c)) /\ Itinerary
  <1>1. Ended \/ Onward(c)
    BY Proceeds
  <1> QED
    BY <1>1, Itineraries

\* The command as Commands leaves it, with the names it registered.
LEMMA NotingCommands ==
  ASSUME IsCommand(cli), NEW K \in SUBSET Key, NEW c, c = [cli EXCEPT !.cmds = K]
  PROVE  /\ IsCommand(c) /\ c.cmds = K /\ c.todo = cli.todo /\ c.skills = cli.skills
         /\ c.op = cli.op /\ c.e = cli.e /\ c.v = cli.v /\ c.prio = cli.prio /\ c.keep = cli.keep
         /\ c.before = cli.before /\ c.entry = cli.entry /\ c.saved = cli.saved
         /\ c.hooks = cli.hooks /\ c.listed = cli.listed
  <1>1. cli = Shape(cli)
    BY DEF IsCommand
  <1>2. c = [op |-> cli.op, e |-> cli.e, v |-> cli.v, prio |-> cli.prio, keep |-> cli.keep,
             todo |-> cli.todo, before |-> cli.before, entry |-> cli.entry,
             saved |-> cli.saved, hooks |-> cli.hooks, listed |-> cli.listed, cmds |-> K,
             skills |-> cli.skills]
    BY <1>1 DEF Shape
  <1>3. /\ c = Shape(c) /\ c.cmds = K /\ c.todo = cli.todo /\ c.skills = cli.skills
        /\ c.op = cli.op /\ c.e = cli.e /\ c.v = cli.v /\ c.prio = cli.prio /\ c.keep = cli.keep
        /\ c.before = cli.before /\ c.entry = cli.entry /\ c.saved = cli.saved
        /\ c.hooks = cli.hooks /\ c.listed = cli.listed
    BY <1>2 DEF Shape
  <1> QED
    BY <1>3 DEF IsCommand, PlanOK

\* The command as Skills leaves it, with the skills it wrote.
LEMMA NotingSkills ==
  ASSUME IsCommand(cli), NEW N \in SUBSET Name, NEW c, c = [cli EXCEPT !.skills = N]
  PROVE  /\ IsCommand(c) /\ c.cmds = cli.cmds /\ c.todo = cli.todo /\ c.skills = N
         /\ c.op = cli.op /\ c.e = cli.e /\ c.v = cli.v /\ c.prio = cli.prio /\ c.keep = cli.keep
         /\ c.before = cli.before /\ c.entry = cli.entry /\ c.saved = cli.saved
         /\ c.hooks = cli.hooks /\ c.listed = cli.listed
  <1>1. cli = Shape(cli)
    BY DEF IsCommand
  <1>2. c = [op |-> cli.op, e |-> cli.e, v |-> cli.v, prio |-> cli.prio, keep |-> cli.keep,
             todo |-> cli.todo, before |-> cli.before, entry |-> cli.entry,
             saved |-> cli.saved, hooks |-> cli.hooks, listed |-> cli.listed, cmds |-> cli.cmds,
             skills |-> N]
    BY <1>1 DEF Shape
  <1>3. /\ c = Shape(c) /\ c.cmds = cli.cmds /\ c.todo = cli.todo /\ c.skills = N
        /\ c.op = cli.op /\ c.e = cli.e /\ c.v = cli.v /\ c.prio = cli.prio /\ c.keep = cli.keep
        /\ c.before = cli.before /\ c.entry = cli.entry /\ c.saved = cli.saved
        /\ c.hooks = cli.hooks /\ c.listed = cli.listed
    BY <1>2 DEF Shape
  <1> QED
    BY <1>3 DEF IsCommand, PlanOK

SavedFiles == [k \in Key |-> IF k \in registry[cli.e].cmds THEN files[k] ELSE NoFile]

\* The command as Backup leaves it, with the entry, hooks, list and files it saved.
LEMMA NotingBackup ==
  ASSUME TypeOK, IsCommand(cli), NEW c,
         c = [cli EXCEPT !.entry = registry[cli.e], !.hooks = HooksOf(cli.e), !.listed = listed,
                         !.saved = SavedFiles]
  PROVE  /\ IsCommand(c) /\ c.cmds = cli.cmds /\ c.todo = cli.todo /\ c.skills = cli.skills
         /\ c.op = cli.op /\ c.e = cli.e /\ c.v = cli.v /\ c.prio = cli.prio /\ c.keep = cli.keep
         /\ c.before = cli.before /\ c.entry = registry[cli.e] /\ c.saved = SavedFiles
         /\ c.hooks = HooksOf(cli.e) /\ c.listed = listed
  <1>1. cli = Shape(cli)
    BY DEF IsCommand
  <1>2. c = [op |-> cli.op, e |-> cli.e, v |-> cli.v, prio |-> cli.prio, keep |-> cli.keep,
             todo |-> cli.todo, before |-> cli.before, entry |-> registry[cli.e],
             saved |-> SavedFiles, hooks |-> HooksOf(cli.e), listed |-> listed,
             cmds |-> cli.cmds, skills |-> cli.skills]
    BY <1>1 DEF Shape
  <1>3. /\ c = Shape(c) /\ c.cmds = cli.cmds /\ c.todo = cli.todo /\ c.skills = cli.skills
        /\ c.op = cli.op /\ c.e = cli.e /\ c.v = cli.v /\ c.prio = cli.prio /\ c.keep = cli.keep
        /\ c.before = cli.before /\ c.entry = registry[cli.e] /\ c.saved = SavedFiles
        /\ c.hooks = HooksOf(cli.e) /\ c.listed = listed
    BY <1>2 DEF Shape
  <1>4. IsEntry(registry[cli.e]) /\ listed \subseteq Ext
    BY DEF TypeOK, IsCommand
  <1>5. SavedFiles \in [Key -> File]
    BY DEF SavedFiles, TypeOK, File
  <1> QED
    BY <1>3, <1>4, <1>5 DEF IsCommand, PlanOK

\* A failed update turns into its rollback.
LEMMA RollsBack ==
  ASSUME IsCommand(cli), cli.op = "update"
  PROVE  /\ IsCommand(Rollback) /\ Rollback # Idle /\ Rollback.op = "rollback"
         /\ Rollback.e = cli.e /\ Rollback.v = cli.v /\ Rollback.prio = cli.prio
         /\ Rollback.keep = cli.keep /\ Rollback.before = cli.before
         /\ Rollback.entry = cli.entry /\ Rollback.saved = cli.saved
         /\ Rollback.hooks = cli.hooks /\ Rollback.listed = cli.listed
         /\ Head(Rollback.todo) = "rbdir" /\ Len(Rollback.todo) > 2
         /\ Rollback.todo[3] = IF At("backup") THEN "rbregistry" ELSE "rbhooks"
  <1> DEFINE short == <<"rbdir", "rbfiles", "rbregistry", "cleanup">>
             t == IF At("backup") THEN short ELSE RollbackSteps
             P == Follows("rollback", cli.before.entry = NoEntry)
             E == Ends("rollback")
  <1>1. cli = Shape(cli)
    BY DEF IsCommand
  <1>2. Rollback = [op |-> "rollback", e |-> cli.e, v |-> cli.v, prio |-> cli.prio,
                    keep |-> cli.keep, todo |-> t, before |-> cli.before, entry |-> cli.entry,
                    saved |-> cli.saved, hooks |-> cli.hooks, listed |-> cli.listed,
                    cmds |-> cli.cmds, skills |-> cli.skills]
    <2>1. Rollback = [cli EXCEPT !.op = "rollback", !.todo = t]
      BY DEF Rollback
    <2> HIDE DEF t
    <2> QED
      BY <1>1, <2>1 DEF Shape
  <1>3. /\ <<"rbdir", "rbfiles">> \in P /\ <<"rbfiles", "rbhooks">> \in P
        /\ <<"rbfiles", "rbregistry">> \in P /\ <<"rbhooks", "rbregistry">> \in P
        /\ <<"rbregistry", "cleanup">> \in P /\ "cleanup" \in E
    BY DEF Follows, Ends
  <1> HIDE DEF P, E
  <1>4. Path(short, P, E) /\ Head(short) = "rbdir" /\ Len(short) > 2 /\ short[3] = "rbregistry"
    <2>1. short \in Seq(StepName) /\ Len(short) = 4 /\ Head(short) = "rbdir"
          /\ short[3] = "rbregistry" /\ short[4] = "cleanup"
      BY DEF StepName
    <2>2. \A i \in 1..3 : <<short[i], short[i + 1]>> \in P
      <3> TAKE i \in 1..3
      <3>1. i = 1 \/ i = 2 \/ i = 3
        OBVIOUS
      <3> QED
        BY <1>3, <3>1
    <2> QED
      BY <1>3, <2>1, <2>2 DEF Path
  <1>5. Path(RollbackSteps, P, E) /\ Head(RollbackSteps) = "rbdir"
        /\ Len(RollbackSteps) > 2 /\ RollbackSteps[3] = "rbhooks"
    <2>1. RollbackSteps \in Seq(StepName) /\ Len(RollbackSteps) = 5
          /\ Head(RollbackSteps) = "rbdir"
          /\ RollbackSteps[3] = "rbhooks" /\ RollbackSteps[5] = "cleanup"
      BY DEF StepName, RollbackSteps
    <2>2. \A i \in 1..4 : <<RollbackSteps[i], RollbackSteps[i + 1]>> \in P
      <3> TAKE i \in 1..4
      <3>1. i = 1 \/ i = 2 \/ i = 3 \/ i = 4
        OBVIOUS
      <3> QED
        BY <1>3, <3>1 DEF RollbackSteps
    <2> QED
      BY <1>3, <2>1, <2>2 DEF Path
  <1>6. Path(t, P, E) /\ Head(t) = "rbdir" /\ Len(t) > 2
        /\ t[3] = IF At("backup") THEN "rbregistry" ELSE "rbhooks"
    BY <1>4, <1>5
  <1> HIDE DEF t
  <1>7. /\ Rollback = Shape(Rollback) /\ Rollback.op = "rollback" /\ Rollback.todo = t
        /\ Rollback.e = cli.e /\ Rollback.v = cli.v /\ Rollback.prio = cli.prio
        /\ Rollback.keep = cli.keep /\ Rollback.before = cli.before
        /\ Rollback.entry = cli.entry /\ Rollback.saved = cli.saved
        /\ Rollback.hooks = cli.hooks /\ Rollback.listed = cli.listed
        /\ Rollback.cmds = cli.cmds /\ Rollback.skills = cli.skills
    BY <1>2 DEF Shape
  <1>8. PlanOK(Rollback)
    BY <1>6, <1>7 DEF PlanOK, P, E
  <1>9. IsCommand(Rollback)
    BY <1>7, <1>8 DEF IsCommand, Op
  <1> QED
    BY <1>6, <1>7, <1>9, NotIdle

\* What a command starts from.
Started(op, e, v, p, keep, todo) ==
  /\ cli = Idle /\ cli' # Idle /\ IsCommand(cli')
  /\ cli'.op = op /\ cli'.e = e /\ cli'.v = v /\ cli'.prio = p /\ cli'.keep = keep
  /\ cli'.todo = todo /\ cli'.before.entry = registry[e] /\ cli'.before.dir = dir[e]
  /\ cli'.before.listed = listed /\ cli'.before.hooks = HooksOf(e)
  /\ cli'.entry = registry[e] /\ cli'.saved = NoFiles
  /\ UNCHANGED <<registry, dir, backup, upd, files, skills, active, dirs, hooks, listed,
                 damaged, failed>>

\* A command that begins is one, and nothing on disk has changed.
LEMMA Starts ==
  ASSUME TypeOK, NEW op \in Op, NEW e \in Ext, NEW v, NEW p, NEW keep \in BOOLEAN, NEW todo,
         op \in {"add", "update"} => v \in Version /\ p \in Nat,
         op \in {"add", "priority"} => p \in Priority \ {0},
         op = "switch" => v \in Agent,
         op # "rollback",
         Path(todo, Follows(op, registry[e] = NoEntry), Ends(op)),
         Begin(op, e, v, p, keep, todo)
  PROVE  Started(op, e, v, p, keep, todo) /\ ops' = ops + 1
  <1> DEFINE b == View(e)
             c == [op |-> op, e |-> e, v |-> v, prio |-> p, keep |-> keep, todo |-> todo,
                   before |-> b, entry |-> registry[e], saved |-> NoFiles,
                   hooks |-> {}, listed |-> {}, cmds |-> {}, skills |-> {}]
  <1>1. /\ cli' = c /\ cli = Idle /\ ops' = ops + 1
        /\ UNCHANGED <<registry, dir, backup, upd, files, skills, active, dirs, hooks, listed,
                       damaged, failed>>
    BY DEF Begin, tree, agents, yml
  <1>2. /\ b.entry = registry[e] /\ b.dir = dir[e] /\ b.listed = listed /\ b.hooks = HooksOf(e)
        /\ b = [entry |-> b.entry, dir |-> b.dir, listed |-> b.listed, hooks |-> b.hooks]
    BY DEF View
  <1> HIDE DEF b
  <1>3. /\ c = Shape(c) /\ c.op = op /\ c.e = e /\ c.v = v /\ c.prio = p /\ c.keep = keep
        /\ c.todo = todo /\ c.before = b /\ c.entry = registry[e] /\ c.saved = NoFiles
        /\ c.listed = {} /\ c.cmds = {} /\ c.skills = {}
    BY DEF Shape
  <1> HIDE DEF c
  <1>4. IsEntry(registry[e]) /\ dir[e] \in DirState /\ listed \subseteq Ext
    BY DEF TypeOK
  <1>5. NoFiles \in [Key -> File]
    BY DEF NoFiles, File
  <1>6. Priority \subseteq Nat
    BY ExtensionsAssumption
  <1>7. IsCommand(c)
    BY <1>2, <1>3, <1>4, <1>5, <1>6 DEF IsCommand, PlanOK
  <1> QED
    BY <1>1, <1>2, <1>3, <1>7, NotIdle DEF Started

\* How each command starts.
Begins ==
  \/ \E e \in Ext, v \in Version, p \in Priority \ {0} :
       \/ /\ Started("add", e, v, p, FALSE, cli'.todo) /\ Head(cli'.todo) = "clearbackup"
          /\ Installed(e) /\ ~Conflicts(e, v)
          /\ latest' = [latest EXCEPT ![e] = IF e \notin damaged THEN @ ELSE 0]
       \/ /\ Started("add", e, v, p, FALSE, cli'.todo) /\ Head(cli'.todo) = "copy"
          /\ ~Installed(e) /\ ~Conflicts(e, v)
          /\ latest' = [latest EXCEPT ![e] = 0]
  \/ \E e \in Ext, keep \in BOOLEAN :
       /\ Started("remove", e, 0, 0, keep, cli'.todo) /\ Head(cli'.todo) = "unregister"
       /\ Installed(e)
       /\ latest' = [latest EXCEPT ![e] = IF e \in damaged THEN 0 ELSE @]
  \/ \E e \in Ext, v \in Version :
       /\ Started("update", e, v, 10, TRUE, cli'.todo) /\ Head(cli'.todo) = "backup"
       /\ Installed(e) /\ v > registry[e].ver
       /\ latest' = [latest EXCEPT ![e] = IF e \in damaged THEN 0 ELSE @]
  \/ \E e \in Ext, op \in {"enable", "disable"} :
       /\ Started(op, e, 0, 0, FALSE, cli'.todo) /\ Head(cli'.todo) = "flag"
       /\ Installed(e) /\ UNCHANGED latest
  \/ \E e \in Ext, p \in Priority \ {0} :
       /\ Started("priority", e, 0, p, FALSE, cli'.todo) /\ Head(cli'.todo) = "priority"
       /\ Installed(e) /\ UNCHANGED latest
  \/ \E e \in Ext, a \in Agent :
       /\ Started("switch", e, a, 0, FALSE, cli'.todo) /\ Head(cli'.todo) = "unagent"
       /\ UNCHANGED latest

Opening ==
  \/ \E e \in Ext, v \in Version, p \in Priority, force \in BOOLEAN : Add(e, v, p, force)
  \/ \E e \in Ext, keep \in BOOLEAN : Remove(e, keep)
  \/ \E e \in Ext, v \in Version : Update(e, v)
  \/ \E e \in Ext, on \in BOOLEAN : SetEnabled(e, on)
  \/ \E e \in Ext, p \in Priority : SetPriority(e, p)
  \/ \E a \in Agent : SwitchAgent(a)

\* Every way to begin a command, with its first step and what the guard checked.
LEMMA Openings ==
  ASSUME TypeOK, Opening
  PROVE  Begins /\ ops' = ops + 1
  <1>1. ASSUME NEW e \in Ext, NEW v \in Version, NEW p \in Priority, NEW force \in BOOLEAN,
               Add(e, v, p, force)
        PROVE  Begins /\ ops' = ops + 1
    <2>1. p \in Priority \ {0} /\ p \in Nat /\ ~Conflicts(e, v)
      BY <1>1, ExtensionsAssumption DEF Add, AddGuard
    <2>2. CASE Installed(e)
      <3> DEFINE todo == <<"clearbackup">> \o RemoveSteps \o InstallSteps \o <<"config", "registry">>
      <3>1. Path(todo, Follows("add", FALSE), Ends("add")) /\ Head(todo) = "clearbackup"
        BY PlansOK
      <3> HIDE DEF todo
      <3>2. Begin("add", e, v, p, FALSE, todo)
            /\ latest' = [latest EXCEPT ![e] = IF e \notin damaged THEN @ ELSE 0]
        BY <1>1, <2>2 DEF Add, todo
      <3>3. Path(todo, Follows("add", registry[e] = NoEntry), Ends("add"))
        BY <3>1, <2>2 DEF Installed
      <3>4. Started("add", e, v, p, FALSE, todo) /\ ops' = ops + 1
        BY <2>1, <3>2, <3>3, Starts DEF Op
      <3>5. cli'.todo = todo
        BY <3>4 DEF Started
      <3> QED
        BY <2>1, <2>2, <3>1, <3>2, <3>4, <3>5 DEF Begins
    <2>3. CASE ~Installed(e)
      <3> DEFINE todo == InstallSteps \o <<"registry">>
      <3>1. Path(todo, Follows("add", TRUE), Ends("add")) /\ Head(todo) = "copy"
        BY PlansOK
      <3> HIDE DEF todo
      <3>2. Begin("add", e, v, p, FALSE, todo) /\ latest' = [latest EXCEPT ![e] = 0]
        BY <1>1, <2>3 DEF Add, todo
      <3>3. Path(todo, Follows("add", registry[e] = NoEntry), Ends("add"))
        BY <3>1, <2>3 DEF Installed
      <3>4. Started("add", e, v, p, FALSE, todo) /\ ops' = ops + 1
        BY <2>1, <3>2, <3>3, Starts DEF Op
      <3>5. cli'.todo = todo
        BY <3>4 DEF Started
      <3> QED
        BY <2>1, <2>3, <3>1, <3>2, <3>4, <3>5 DEF Begins
    <2> QED
      BY <2>2, <2>3
  <1>2. ASSUME NEW e \in Ext, NEW keep \in BOOLEAN, Remove(e, keep)
        PROVE  Begins /\ ops' = ops + 1
    <2>1. /\ Begin("remove", e, 0, 0, keep, RemoveSteps) /\ Installed(e)
          /\ latest' = [latest EXCEPT ![e] = IF e \in damaged THEN 0 ELSE @]
      BY <1>2 DEF Remove
    <2>2. Path(RemoveSteps, Follows("remove", registry[e] = NoEntry), Ends("remove"))
          /\ Head(RemoveSteps) = "unregister"
      BY <2>1, PlansOK, PlanParts DEF Installed
    <2>3. Started("remove", e, 0, 0, keep, RemoveSteps) /\ ops' = ops + 1
      BY <2>1, <2>2, Starts DEF Op
    <2>4. cli'.todo = RemoveSteps
      BY <2>3 DEF Started
    <2> QED
      BY <2>1, <2>2, <2>3, <2>4 DEF Begins
  <1>3. ASSUME NEW e \in Ext, NEW v \in Version, Update(e, v)
        PROVE  Begins /\ ops' = ops + 1
    <2> DEFINE todo == <<"backup", "download">> \o RemoveSteps \o <<"validate">> \o InstallSteps
                         \o <<"registry", "restoreconf", "meta", "metahooks", "cleanup">>
    <2>1. Path(todo, Follows("update", FALSE), Ends("update")) /\ Head(todo) = "backup"
      BY PlansOK
    <2> HIDE DEF todo
    <2>2. /\ Begin("update", e, v, 10, TRUE, todo) /\ Installed(e) /\ v > registry[e].ver
          /\ latest' = [latest EXCEPT ![e] = IF e \in damaged THEN 0 ELSE @]
      BY <1>3 DEF Update, todo
    <2>3. Path(todo, Follows("update", registry[e] = NoEntry), Ends("update"))
      BY <2>1, <2>2 DEF Installed
    <2>4. Started("update", e, v, 10, TRUE, todo) /\ ops' = ops + 1
      BY <2>2, <2>3, Starts DEF Op
    <2>5. cli'.todo = todo
      BY <2>4 DEF Started
    <2> QED
      BY <2>1, <2>2, <2>4, <2>5 DEF Begins
  <1>4. ASSUME NEW e \in Ext, NEW on \in BOOLEAN, SetEnabled(e, on)
        PROVE  Begins /\ ops' = ops + 1
    <2> DEFINE op == IF on THEN "enable" ELSE "disable"
    <2>0. op \in {"enable", "disable"} /\ op \in Op
      BY DEF Op
    <2>1. Begin(op, e, 0, 0, FALSE, <<"flag", "flaghooks">>) /\ Installed(e) /\ UNCHANGED latest
      BY <1>4 DEF SetEnabled
    <2> HIDE DEF op
    <2>a. /\ "flag" \in StepName /\ "flaghooks" \in StepName /\ "flaghooks" \in Ends(op)
          /\ <<"flag", "flaghooks">> \in Follows(op, registry[e] = NoEntry)
      BY <2>0 DEF StepName, Ends, Follows
    <2>2. Path(<<"flag", "flaghooks">>, Follows(op, registry[e] = NoEntry), Ends(op))
          /\ Head(<<"flag", "flaghooks">>) = "flag"
      BY <2>a, TwoPath
    <2>b. op \notin {"add", "update", "priority", "switch", "rollback"}
      BY <2>0
    <2>3. Started(op, e, 0, 0, FALSE, <<"flag", "flaghooks">>) /\ ops' = ops + 1
      BY <2>0, <2>b, <2>1, <2>2, Starts
    <2>4. cli'.todo = <<"flag", "flaghooks">>
      BY <2>3 DEF Started
    <2>5. Started(op, e, 0, 0, FALSE, cli'.todo) /\ Head(cli'.todo) = "flag"
      BY <2>2, <2>3, <2>4
    <2> QED
      BY <2>0, <2>1, <2>3, <2>5 DEF Begins
  <1>5. ASSUME NEW e \in Ext, NEW p \in Priority, SetPriority(e, p)
        PROVE  Begins /\ ops' = ops + 1
    <2>p. p \in Nat
      BY ExtensionsAssumption
    <2>q. /\ Begin("priority", e, 0, p, FALSE, <<"priority">>) /\ Installed(e) /\ UNCHANGED latest
          /\ p >= 1
      BY <1>5 DEF SetPriority
    <2>r. p \in Priority \ {0}
      BY <2>p, <2>q
    <2>1. /\ Begin("priority", e, 0, p, FALSE, <<"priority">>) /\ Installed(e) /\ UNCHANGED latest
          /\ p \in Priority \ {0}
      BY <2>q, <2>r
    <2>a. "priority" \in StepName /\ "priority" \in Ends("priority")
      BY DEF StepName, Ends
    <2>2. Path(<<"priority">>, Follows("priority", registry[e] = NoEntry), Ends("priority"))
          /\ Head(<<"priority">>) = "priority"
      BY <2>a, OnePath
    <2>3. Started("priority", e, 0, p, FALSE, <<"priority">>) /\ ops' = ops + 1
      BY <2>1, <2>2, Starts DEF Op
    <2>4. cli'.todo = <<"priority">>
      BY <2>3 DEF Started
    <2> QED
      BY <2>1, <2>2, <2>3, <2>4 DEF Begins
  <1>6. ASSUME NEW a \in Agent, SwitchAgent(a)
        PROVE  Begins /\ ops' = ops + 1
    <2> DEFINE e == CHOOSE x \in Ext : TRUE
               todo == <<"unagent", "setagent", "regagent">>
               P == Follows("switch", registry[e] = NoEntry)
    <2>0. e \in Ext
      BY ExtensionsAssumption DEF e
    <2>1. Begin("switch", e, a, 0, FALSE, todo) /\ UNCHANGED latest
      BY <1>6 DEF SwitchAgent
    <2> HIDE DEF e
    <2>a. /\ "regagent" \in Ends("switch")
          /\ <<"unagent", "setagent">> \in P
          /\ <<"setagent", "regagent">> \in P
      BY DEF Ends, Follows
    <2> HIDE DEF P
    <2>2. Path(todo, P, Ends("switch"))
          /\ Head(todo) = "unagent"
      <3>1. todo \in Seq(StepName) /\ Len(todo) = 3 /\ Head(todo) = "unagent"
            /\ todo[3] = "regagent"
        BY DEF StepName
      <3>2. \A i \in 1..2 : <<todo[i], todo[i + 1]>> \in P
        <4> TAKE i \in 1..2
        <4>1. i = 1 \/ i = 2
          OBVIOUS
        <4> QED
          BY <2>a, <4>1
      <3> QED
        BY <2>a, <3>1, <3>2 DEF Path
    <2> HIDE DEF todo
    <2>3. Started("switch", e, a, 0, FALSE, todo) /\ ops' = ops + 1
      BY <2>0, <2>1, <2>2, Starts DEF Op, P
    <2>4. cli'.todo = todo
      BY <2>3 DEF Started
    <2> QED
      BY <2>0, <2>1, <2>2, <2>3, <2>4 DEF Begins
  <1> QED
    BY <1>1, <1>2, <1>3, <1>4, <1>5, <1>6 DEF Opening

-----------------------------------------------------------------------------
(* Types. *)

\* The command of every step is a command, or none.
CliOK == cli = Idle \/ IsCommand(cli)

\* What is written is of its type.
LEMMA Written ==
  ASSUME TypeOK
  PROVE  /\ NoEntry \in Entry /\ IsEntry(NoEntry) /\ NoDir \in DirState /\ NoUpd \in UpdState
         /\ \A K : UnregisterCommands(files, K) \in [Key -> File]
         /\ \A D, N, c : c \in File => RegisterForAll(files, D, N, c) \in [Key -> File]
         /\ \A a, N, c : c \in File => RegisterCommands(files, a, N, c) \in [Key -> File]
         /\ \A e \in Ext, v \in Version : Content(e, v) \in File
         /\ \A e \in Ext, v \in Version : Provides[e][v] \subseteq Name /\ Primary[e][v] \subseteq Name
         /\ \A e \in Ext, v \in Version : NewSkills(e, v) \subseteq Name
         /\ \A e \in Ext, v \in Version : Content(e, v) # NoFile
  <1> USE ExtensionsAssumption
  <1>1. NoEntry \in Entry /\ IsEntry(NoEntry)
    BY DEF NoEntry, Entry, IsEntry
  <1>2. NoDir \in DirState /\ NoUpd \in UpdState
    BY DEF NoDir, DirState, NoUpd, UpdState
  <1>3. \A K : UnregisterCommands(files, K) \in [Key -> File]
    BY DEF UnregisterCommands, TypeOK, File
  <1>4. \A D, N, c : c \in File => RegisterForAll(files, D, N, c) \in [Key -> File]
    BY DEF RegisterForAll, TypeOK
  <1>5. \A a, N, c : c \in File => RegisterCommands(files, a, N, c) \in [Key -> File]
    BY DEF RegisterCommands, TypeOK
  <1>6. \A e \in Ext, v \in Version : Content(e, v) \in File /\ Content(e, v) # NoFile
    BY DEF Content, File, Version
  <1>7. \A e \in Ext, v \in Version : Provides[e][v] \subseteq Name /\ Primary[e][v] \subseteq Name
    BY DEF Version
  <1>8. \A e \in Ext, v \in Version : NewSkills(e, v) \subseteq Name
    BY <1>7 DEF NewSkills
  <1> QED
    BY <1>1, <1>2, <1>3, <1>4, <1>5, <1>6, <1>7, <1>8

\* Some steps belong to one kind of command.
LEMMA StepTells ==
  ASSUME TypeOK, cli # Idle
  PROVE  /\ Head(cli.todo) \in {"copy", "commands", "skills"} => cli.op \in {"add", "update"}
         /\ Head(cli.todo) = "backup" => cli.op = "update"
         /\ Head(cli.todo) \in {"clearbackup", "backup", "download", "unregister", "unskill",
                              "rmdir"} => cli.op # "rollback"
         /\ Head(cli.todo) \in {"rmdir", "copy", "rbdir", "backup", "cleanup"} =>
              cli.op \in {"add", "remove", "update", "rollback"}
         /\ Head(cli.todo) = "cleanup" => cli.op \in {"update", "rollback"}
         /\ Head(cli.todo) = "rbdir" => cli.op = "rollback"
  <1> IsCommand(cli)
    BY DEF TypeOK
  <1> DEFINE h == Head(cli.todo)
             n == Head(Tail(cli.todo))
  <1>1. h \in Ends(cli.op) \/ <<h, n>> \in Follows(cli.op, cli.before.entry = NoEntry)
    <2>1. CASE Len(cli.todo) = 1
      BY <2>1, HeadIs DEF IsCommand, PlanOK, Path
    <2>2. CASE Len(cli.todo) # 1
      BY <2>2, PathTail DEF IsCommand, PlanOK
    <2> QED
      BY <2>1, <2>2
  <1>2. cli.op \in Op
    BY DEF IsCommand
  <1> HIDE DEF h, n
  <1>3. /\ h \in {"copy", "commands", "skills"} => cli.op \in {"add", "update"}
        /\ h = "backup" => cli.op = "update"
        /\ h \in {"clearbackup", "backup", "download", "unregister", "unskill", "rmdir"} =>
             cli.op # "rollback"
        /\ h \in {"rmdir", "copy", "rbdir", "backup", "cleanup"} =>
             cli.op \in {"add", "remove", "update", "rollback"}
        /\ h = "cleanup" => cli.op \in {"update", "rollback"}
        /\ h = "rbdir" => cli.op = "rollback"
    BY <1>1, <1>2 DEF Op, Follows, Ends, RemovePairs, InstallPairs
  <1> QED
    BY <1>3 DEF h

\* Each step keeps the types and the plan of the command.
LEMMA TypeStep ==
  ASSUME TypeOK, EntryOK, Step
  PROVE  TypeOK'
  <1> DEFINE e == cli.e
             r == registry[cli.e]
  <1>0. ASSUME cli # Idle
        PROVE  /\ IsCommand(cli) /\ e \in Ext /\ r \in Entry /\ IsEntry(r) /\ dir[e] \in DirState
               /\ backup[e] \in Nat /\ upd[e] \in UpdState
    BY <1>0 DEF TypeOK, IsCommand
  <1>g. ASSUME cli # Idle, Go PROVE CliOK' /\ Itinerary
    BY <1>g, Goes DEF Ended, Onward, CliOK
  <1>1. CASE ClearBackup
    BY <1>0, <1>1, <1>g DEF ClearBackup, At, TypeOK, CliOK, agents, yml, history
  <1>2. CASE Unregister
    BY <1>0, <1>2, <1>g, Written DEF Unregister, At, TypeOK, CliOK, tree, yml, history
  <1>3. CASE Unskill
    BY <1>0, <1>3, <1>g DEF Unskill, At, TypeOK, CliOK, tree, yml, history
  <1>4. CASE RemoveDir
    <2>0. 0 \in 0..MaxVersion /\ dir[e] \in DirState
      BY <1>0, <1>4, ExtensionsAssumption DEF RemoveDir, At
    <2>1. /\ [dir[e] EXCEPT !.ver = 0] \in DirState /\ dir[e].conf \in Nat /\ NoDir \in DirState
      BY <2>0, Written DEF DirState
    <2> QED
      BY <1>0, <1>4, <1>g, <2>1 DEF RemoveDir, At, SetDir, TypeOK, CliOK, agents, yml, history
  <1>5. CASE Unhook
    BY <1>0, <1>5, <1>g DEF Unhook, At, TypeOK, CliOK, tree, agents, history
  <1>6. CASE Unregistry
    BY <1>0, <1>6, <1>g, Written DEF Unregistry, SetEntry, At, TypeOK, CliOK, tree, agents, yml, history
  <1>7. CASE Copy
    <2>1. cli # Idle /\ cli.op \in {"add", "update"}
      BY <1>7, <1>g DEF Copy, At, Itinerary, Between
    <2>2. [ver |-> cli.v, conf |-> 0] \in DirState
      BY <1>0, <2>1 DEF DirState, IsCommand, Version
    <2> QED
      BY <1>0, <1>7, <1>g, <2>1, <2>2 DEF Copy, At, SetDir, TypeOK, CliOK, agents, yml, history
  <1>8. CASE Commands
    <2>1. cli # Idle /\ IsCommand(cli)
      BY <1>0, <1>8 DEF Commands, At
    <2> DEFINE K == RegisteredForAll(dirs, Names)
               c == [cli EXCEPT !.cmds = K]
    <2>2. cli.op \in {"add", "update"}
      BY <1>8, <2>1, StepTells DEF Commands, At
    <2>3. cli.v \in Version /\ Names \subseteq Name
      BY <1>0, <2>1, <2>2, Written DEF IsCommand, Names
    <2>4. K \in SUBSET Key
      BY <2>3 DEF RegisteredForAll, Key, TypeOK
    <2>5. GoWith(c)
      BY <1>8 DEF Commands
    <2> HIDE DEF K, c
    <2>6. IsCommand(c) /\ c.todo = cli.todo /\ c.op = cli.op /\ c.before = cli.before
      BY <2>1, <2>4, NotingCommands DEF c
    <2>7. CliOK'
      BY <2>1, <2>5, <2>6, GoesNoting DEF Ended, Onward, CliOK
    <2> QED
      BY <1>0, <1>8, <2>1, <2>3, <2>7, Written DEF Commands, TypeOK, CliOK, tree, yml, history
  <1>9. CASE Skills
    <2>1. cli # Idle /\ IsCommand(cli) /\ cli.op \in {"add", "update"}
      BY <1>0, <1>9, StepTells DEF Skills, At
    <2> DEFINE N == NewSkills(cli.e, cli.v)
               c == [cli EXCEPT !.skills = N]
    <2>2. N \in SUBSET Name
      BY <1>0, <2>1, Written DEF IsCommand
    <2>3. GoWith(c)
      BY <1>9 DEF Skills
    <2> HIDE DEF N, c
    <2>4. IsCommand(c) /\ c.todo = cli.todo /\ c.op = cli.op /\ c.before = cli.before
      BY <2>1, <2>2, NotingSkills DEF c
    <2>5. CliOK'
      BY <2>1, <2>3, <2>4, GoesNoting DEF Ended, Onward, CliOK
    <2> QED
      BY <1>9, <2>5 DEF Skills, TypeOK, CliOK, tree, yml, history
  <1>10. CASE Hooks
    BY <1>0, <1>10, <1>g DEF Hooks, At, TypeOK, CliOK, tree, agents, history
  <1>11. CASE Config
    <2>1. cli # Idle
      BY <1>11 DEF Config, At
    <2>2. \A n \in Nat : [dir[e] EXCEPT !.conf = n] \in DirState
      BY <1>0, <2>1 DEF DirState
    <2>3. (IF backup[e] # 0 THEN backup[e] ELSE dir[e].conf) \in Nat
      BY <1>0, <2>1 DEF DirState
    <2>4. dir' \in [Ext -> DirState]
      <3>1. dir' = [dir EXCEPT ![e] = [dir[e] EXCEPT !.conf = IF backup[e] # 0 THEN backup[e] ELSE dir[e].conf]]
        BY <1>11 DEF Config
      <3> QED
        BY <1>0, <2>1, <2>2, <2>3, <3>1 DEF TypeOK
    <2> QED
      BY <1>0, <1>11, <1>g, <2>1, <2>4 DEF Config, TypeOK, CliOK, agents, yml, history
  <1>12. CASE Registry
    <2>1. cli # Idle /\ cli.op \in {"add", "update"}
      BY <1>12, <1>g DEF Registry, At, Itinerary
    <2>2. cli.v \in Version /\ cli.prio \in Nat /\ cli.cmds \subseteq Key /\ cli.skills \subseteq Name
      BY <1>0, <2>1 DEF IsCommand
    <2>3. IsEntry([ver |-> cli.v, enabled |-> TRUE, prio |-> cli.prio,
                   cmds |-> cli.cmds, skills |-> cli.skills])
      BY <2>2 DEF IsEntry, Entry, Version
    <2> QED
      BY <1>0, <1>12, <1>g, <2>1, <2>3
         DEF Registry, SetEntry, At, IsEntry, TypeOK, CliOK, tree, agents, yml, history
  <1>13. CASE Backup
    <2>1. cli # Idle /\ IsCommand(cli) /\ e \in Ext
      BY <1>0, <1>13 DEF Backup, At
    <2> DEFINE c == [cli EXCEPT !.entry = registry[cli.e], !.hooks = HooksOf(cli.e), !.listed = listed,
                                !.saved = SavedFiles]
    <2>3. GoWith(c)
      BY <1>13 DEF Backup, SavedFiles
    <2> HIDE DEF c
    <2>4. IsCommand(c) /\ c.todo = cli.todo /\ c.op = cli.op /\ c.before = cli.before
      BY <2>1, NotingBackup DEF c
    <2>5. CliOK'
      BY <2>1, <2>3, <2>4, GoesNoting DEF Ended, Onward, CliOK
    <2>6. [has |-> TRUE, copy |-> dir[e],
           conf |-> IF dir[e].conf # 0 THEN dir[e].conf ELSE upd[e].conf] \in UpdState
      BY <1>0, <2>1 DEF UpdState, DirState
    <2>7. upd' \in [Ext -> UpdState]
      BY <1>13, <2>1, <2>6 DEF Backup, TypeOK
    <2> QED
      BY <1>13, <2>5, <2>7 DEF Backup, TypeOK, CliOK, agents, yml, history
  <1>14. CASE Download
    BY <1>0, <1>14, <1>g DEF Download, At, TypeOK, CliOK, tree, agents, yml, history
  <1>15. CASE Validate
    BY <1>0, <1>15, <1>g DEF Validate, At, TypeOK, CliOK, tree, agents, yml, history
  <1>16. CASE RestoreConf
    <2>1. cli # Idle
      BY <1>16 DEF RestoreConf, At
    <2>2. \A n \in Nat : [dir[e] EXCEPT !.conf = n] \in DirState
      BY <1>0, <2>1 DEF DirState
    <2>3. (IF upd[e].conf # 0 THEN upd[e].conf ELSE dir[e].conf) \in Nat
      BY <1>0, <2>1 DEF DirState, UpdState
    <2>4. dir' \in [Ext -> DirState]
      <3>1. dir' = [dir EXCEPT ![e] = [dir[e] EXCEPT !.conf = IF upd[e].conf # 0 THEN upd[e].conf ELSE dir[e].conf]]
        BY <1>16 DEF RestoreConf
      <3> QED
        BY <1>0, <2>1, <2>2, <2>3, <3>1 DEF TypeOK
    <2> QED
      BY <1>0, <1>16, <1>g, <2>1, <2>4 DEF RestoreConf, TypeOK, CliOK, agents, yml, history
  <1>17. CASE Meta
    <2>1. cli # Idle /\ cli.op = "update" /\ At("meta")
      BY <1>17, <1>g DEF Meta, At, Itinerary, Between
    <2>2. r.ver \in Version /\ cli.entry \in Entry
      BY <1>0, <2>1 DEF EntryOK, Runs, On, At, IsCommand, IsEntry
    <2>3. IsEntry([r EXCEPT !.prio = cli.entry.prio, !.enabled = cli.entry.enabled])
      BY <1>0, <2>1, <2>2 DEF IsEntry, Entry
    <2> QED
      BY <1>0, <1>17, <1>g, <2>1, <2>3
         DEF Meta, SetEntry, IsEntry, TypeOK, CliOK, tree, agents, yml, history
  <1>18. CASE MetaHooks
    BY <1>0, <1>18, <1>g DEF MetaHooks, At, TypeOK, CliOK, tree, agents, history
  <1>19. CASE Cleanup
    BY <1>0, <1>19, <1>g, Written DEF Cleanup, At, TypeOK, CliOK, agents, yml
  <1>20. CASE RollbackDir
    <2>1. cli # Idle /\ upd[e].copy \in DirState
      BY <1>0, <1>20 DEF RollbackDir, At, UpdState
    <2> QED
      BY <1>0, <1>20, <1>g, <2>1 DEF RollbackDir, SetDir, TypeOK, CliOK, agents, yml, history
  <1>21. CASE RollbackFiles
    <2>1. cli # Idle /\ cli.saved \in [Key -> File]
      BY <1>0, <1>21 DEF RollbackFiles, At, IsCommand
    <2>2. files' \in [Key -> File]
      BY <1>21, <2>1 DEF RollbackFiles, TypeOK, File
    <2> QED
      BY <1>0, <1>21, <1>g, <2>1, <2>2 DEF RollbackFiles, TypeOK, CliOK, tree, yml, history
  <1>22. CASE RollbackHooks
    <2>1. cli # Idle /\ cli.listed \subseteq Ext
      BY <1>0, <1>22 DEF RollbackHooks, At, IsCommand
    <2> QED
      BY <1>0, <1>22, <1>g, <2>1 DEF RollbackHooks, TypeOK, CliOK, tree, agents, history
  <1>23. CASE RollbackRegistry
    <2>1. cli # Idle /\ IsEntry(cli.entry)
      BY <1>0, <1>23 DEF RollbackRegistry, At, IsCommand
    <2> QED
      BY <1>0, <1>23, <1>g, <2>1
         DEF RollbackRegistry, SetEntry, IsEntry, TypeOK, CliOK, tree, agents, yml, history
  <1>24. CASE Flag
    <2>1. cli # Idle /\ cli.op \in {"enable", "disable"}
      BY <1>24, <1>g DEF Flag, At, Itinerary, Between
    <2>2. r.ver \in Version
      BY <1>0, <2>1 DEF EntryOK, Runs, IsEntry
    <2>3. IsEntry([r EXCEPT !.enabled = (cli.op = "enable")])
      BY <1>0, <2>1, <2>2 DEF IsEntry, Entry
    <2> QED
      BY <1>0, <1>24, <1>g, <2>1, <2>3
         DEF Flag, SetEntry, IsEntry, TypeOK, CliOK, tree, agents, yml, history
  <1>25. CASE FlagHooks
    BY <1>0, <1>25, <1>g DEF FlagHooks, At, TypeOK, CliOK, tree, agents, history
  <1>26. CASE PriorityStep
    <2>1. cli # Idle /\ cli.op = "priority"
      BY <1>26, <1>g DEF PriorityStep, At, Itinerary, Last
    <2>2. r.ver \in Version /\ cli.prio \in Nat
      BY <1>0, <2>1 DEF EntryOK, Runs, IsEntry, IsCommand
    <2>3. IsEntry([r EXCEPT !.prio = cli.prio])
      BY <1>0, <2>1, <2>2 DEF IsEntry, Entry
    <2> QED
      BY <1>0, <1>26, <1>g, <2>1, <2>3
         DEF PriorityStep, SetEntry, IsEntry, TypeOK, CliOK, tree, agents, yml, history
  <1>27. CASE UnregisterAgent
    <2>1. cli # Idle /\ CliOK'
      BY <1>27, <1>g DEF UnregisterAgent, At
    <2>2. \A x \in Ext : registry'[x] \in Entry /\ IsEntry(registry'[x])
      <3> TAKE x \in Ext
      <3> DEFINE C == registry[x].cmds \ OfAgent(registry[x].cmds, active)
                 S == IF active \in SkillMode
                      THEN {n \in registry[x].skills : \E s \in skills' : s[1] = active /\ s[2] = n}
                      ELSE registry[x].skills
      <3>1. registry'[x] = [registry[x] EXCEPT !.cmds = C, !.skills = S]
        BY <1>27 DEF UnregisterAgent
      <3>2. registry[x] \in Entry /\ IsEntry(registry[x])
        BY DEF TypeOK
      <3>3. C \subseteq registry[x].cmds /\ S \subseteq registry[x].skills
        OBVIOUS
      <3> HIDE DEF C, S
      <3>4. registry'[x] \in Entry /\ registry'[x].ver = registry[x].ver
        BY <3>1, <3>2, <3>3 DEF Entry
      <3>5. ASSUME registry[x] = NoEntry PROVE registry'[x] = NoEntry
        <4>1. C = {} /\ S = {}
          BY <3>3, <3>5 DEF NoEntry
        <4>2. /\ registry'[x].ver = 0 /\ registry'[x].enabled = FALSE /\ registry'[x].prio = 0
              /\ registry'[x].cmds = {} /\ registry'[x].skills = {}
          BY <3>1, <3>5, <4>1 DEF NoEntry
        <4> QED
          BY <3>4, <4>2 DEF Entry, NoEntry
      <3> QED
        BY <3>2, <3>4, <3>5 DEF IsEntry
    <2>3. registry' \in [Ext -> Entry]
      <3>1. registry' = [x \in Ext |-> registry'[x]]
        BY <1>27 DEF UnregisterAgent
      <3> QED
        BY <2>2, <3>1
    <2> QED
      BY <1>27, <2>1, <2>2, <2>3, Written
         DEF UnregisterAgent, TypeOK, CliOK, tree, yml, history
  <1>28. CASE SetAgent
    <2>1. cli # Idle /\ cli.op = "switch"
      BY <1>28, <1>g DEF SetAgent, At, Itinerary, Between
    <2>2. cli.v \in Agent
      BY <1>0, <2>1 DEF IsCommand
    <2>3. dirs' \subseteq Agent /\ active' \in Agent
      BY <1>28, <2>2 DEF SetAgent, TypeOK
    <2> QED
      BY <1>28, <1>g, <2>1, <2>3 DEF SetAgent, TypeOK, CliOK, tree, yml, history
  <1>29. CASE RegisterAgent
    <2>1. cli # Idle /\ CliOK'
      BY <1>29, <1>g DEF RegisterAgent, At
    <2> DEFINE cmds(x) == IF Usable(x) /\ active \notin SkillMode
                          THEN {active} \X Provides[x][dir[x].ver] ELSE {}
               new(x) == IF Usable(x) THEN NewSkills(x, dir[x].ver) ELSE {}
    <2>2. /\ files' = [k \in Key |->
              IF \E x \in Ext : k \in cmds(x)
              THEN LET x == CHOOSE f \in Ext : k \in cmds(f) IN Content(x, dir[x].ver)
              ELSE files[k]]
          /\ registry' = [x \in Ext |->
              IF Usable(x) THEN [registry[x] EXCEPT !.cmds = @ \cup cmds(x), !.skills = @ \cup new(x)]
              ELSE registry[x]]
          /\ UNCHANGED <<tree, active, dirs, yml, ops, history>>
      BY <1>29 DEF RegisterAgent
    <2>3. \A x \in Ext : Usable(x) => dir[x].ver \in Version /\ registry[x].ver \in Version
      BY DEF Usable, TypeOK, DirState, Version, IsEntry, NoEntry
    <2>4. \A x \in Ext : cmds(x) \subseteq Key /\ new(x) \subseteq Name
                        /\ (cmds(x) # {} => Usable(x))
      BY <2>3, Written DEF TypeOK, Key
    <2> HIDE DEF cmds, new
    <2>5. files' \in [Key -> File]
      <3>1. \A k \in Key : (\E x \in Ext : k \in cmds(x)) =>
               LET x == CHOOSE f \in Ext : k \in cmds(f) IN Content(x, dir[x].ver) \in File
        BY <2>3, <2>4, Written
      <3> QED
        BY <2>2, <3>1 DEF TypeOK
    <2>6. \A x \in Ext : registry'[x] \in Entry /\ IsEntry(registry'[x])
      <3> TAKE x \in Ext
      <3>1. registry[x] \in Entry /\ IsEntry(registry[x])
        BY DEF TypeOK
      <3>2. CASE Usable(x)
        <4>1. registry'[x] = [registry[x] EXCEPT !.cmds = @ \cup cmds(x), !.skills = @ \cup new(x)]
          BY <2>2, <3>2
        <4> QED
          BY <2>3, <2>4, <3>1, <3>2, <4>1 DEF Entry, IsEntry
      <3> QED
        BY <2>2, <3>1, <3>2
    <2>7. registry' \in [Ext -> Entry]
      BY <2>2, <2>6
    <2> QED
      BY <2>1, <2>2, <2>5, <2>6, <2>7 DEF TypeOK, CliOK, tree, yml, history
  <1> QED
    BY <1>1, <1>2, <1>3, <1>4, <1>5, <1>6, <1>7, <1>8, <1>9, <1>10, <1>11, <1>12, <1>13, <1>14,
       <1>15, <1>16, <1>17, <1>18, <1>19, <1>20, <1>21, <1>22, <1>23, <1>24, <1>25, <1>26,
       <1>27, <1>28, <1>29 DEF Step

\* The ways a step that raises ends.
LEMMA Fails ==
  ASSUME Fail
  PROVE  /\ cli # Idle /\ (Partly \/ Torn)
         /\ UNCHANGED <<registry, skills, active, dirs, hooks, listed, ops>>
         /\ \/ /\ cli.op = "update" /\ cli' = Rollback
               /\ Partly /\ UNCHANGED <<damaged, latest, failed>>
            \/ /\ cli.op = "update" /\ cli' = Rollback
               /\ damaged' = damaged \cup {cli.e} /\ UNCHANGED failed
               /\ latest' = [latest EXCEPT ![cli.e] = 0]
            \/ /\ cli.op = "switch" /\ ~At("setagent") /\ Go
               /\ failed' = failed \cup Ext /\ UNCHANGED <<tree, files, damaged, latest>>
            \/ /\ cli.op \notin {"update", "switch"} /\ cli' = Idle
               /\ damaged' = damaged \cup {cli.e} /\ UNCHANGED <<failed, latest>>
  <1>1. CASE FailUpdate
    BY <1>1 DEF Fail, FailUpdate, yml
  <1>2. CASE FailSwitch
    BY <1>2 DEF Fail, FailSwitch, Partly, yml
  <1>3. CASE FailOther
    BY <1>3 DEF Fail, FailOther, yml
  <1> QED
    BY <1>1, <1>2, <1>3 DEF Fail

\* What may be left of a directory is a directory.
LEMMA PartsAre ==
  ASSUME NEW d \in DirState, NEW p \in Part(d)
  PROVE  p \in DirState
  <1> PICK v \in {0, d.ver}, c \in {0, d.conf} : p = [ver |-> v, conf |-> c]
    BY DEF Part
  <1>1. v \in 0..MaxVersion /\ c \in Nat
    BY ExtensionsAssumption DEF DirState
  <1> QED
    BY <1>1 DEF DirState

\* Whatever a step that raises or is killed had done, it is of its type, and
\* touched only the extension that its command writes.
LEMMA LeftOver ==
  ASSUME TypeOK, cli # Idle, Partly \/ Torn
  PROVE  /\ dir' \in [Ext -> DirState] /\ backup' \in [Ext -> Nat]
         /\ upd' \in [Ext -> UpdState] /\ files' \in [Key -> File]
         /\ \A x \in Ext : ~Writing(x) =>
              dir'[x] = dir[x] /\ backup'[x] = backup[x] /\ upd'[x] = upd[x]
  <1>0. /\ IsCommand(cli) /\ cli.e \in Ext /\ dir[cli.e] \in DirState /\ upd[cli.e] \in UpdState
        /\ dir[cli.e].conf \in Nat /\ upd[cli.e].conf \in Nat /\ upd[cli.e].copy \in DirState
    BY DEF TypeOK, IsCommand, DirState, UpdState
  <1>1. On({"rmdir", "copy", "rbdir", "backup", "cleanup"}) => Writing(cli.e)
    BY StepTells DEF On, Writing, Runs
  <1>2. CASE UNCHANGED <<tree, files>>
    BY <1>2 DEF tree, TypeOK
  <1>3. CASE /\ At("backup") /\ dir[cli.e] # NoDir /\ UNCHANGED <<dir, backup, files>>
             /\ \E conf \in {upd[cli.e].conf} \cup ({dir[cli.e].conf} \ {0}) :
                  upd' = [upd EXCEPT ![cli.e] = [has |-> TRUE, copy |-> dir[cli.e], conf |-> conf]]
    <2> PICK conf \in Nat :
          upd' = [upd EXCEPT ![cli.e] = [has |-> TRUE, copy |-> dir[cli.e], conf |-> conf]]
      BY <1>0, <1>3
    <2>1. [has |-> TRUE, copy |-> dir[cli.e], conf |-> conf] \in UpdState
      BY <1>0 DEF UpdState
    <2> QED
      BY <1>1, <1>3, <2>1 DEF TypeOK, On, At
  <1>4. CASE /\ At("rmdir") /\ UNCHANGED <<upd, files>>
             /\ \E d \in Part(dir[cli.e]) : SetDir(cli.e, d) /\ (cli.keep => d.conf = dir[cli.e].conf)
             /\ backup' = IF cli.keep \/ dir[cli.e].conf = 0 THEN backup
                          ELSE [backup EXCEPT ![cli.e] = dir[cli.e].conf]
    <2> PICK d \in DirState : SetDir(cli.e, d)
      BY <1>0, <1>4, PartsAre
    <2> QED
      BY <1>0, <1>1, <1>4 DEF SetDir, TypeOK, On, At
  <1>5. CASE At("copy") /\ SetDir(cli.e, NoDir) /\ UNCHANGED <<backup, upd, files>>
    BY <1>1, <1>5, Written DEF SetDir, TypeOK, On, At
  <1>6. CASE /\ At("commands") /\ UNCHANGED tree
             /\ \E a \in dirs : files' = RegisterCommands(files, a, Names, Content(cli.e, cli.v))
    <2>1. cli.v \in Version
      BY <1>0, <1>6, StepTells DEF At, IsCommand
    <2>2. files' \in [Key -> File]
      BY <1>0, <1>6, <2>1, Written
    <2> QED
      BY <1>6, <2>2 DEF tree, TypeOK
  <1>7. CASE /\ At("rbdir") /\ upd[cli.e].has /\ UNCHANGED <<backup, upd, files>>
             /\ \E d \in Part(upd[cli.e].copy) : SetDir(cli.e, d)
    <2> PICK d \in DirState : SetDir(cli.e, d)
      BY <1>0, <1>7, PartsAre
    <2> QED
      BY <1>1, <1>7 DEF SetDir, TypeOK, On, At
  <1>8. CASE Torn
    <2>1. PICK u \in UpdState : upd' = [upd EXCEPT ![cli.e] = u]
      <3>1. CASE At("backup")
        <4>2. PICK d \in DirState :
                upd' = [upd EXCEPT ![cli.e] = [has |-> TRUE, copy |-> d, conf |-> upd[cli.e].conf]]
          BY <1>0, <1>8, <3>1, PartsAre DEF Torn, At, TypeOK
        <4>3. [has |-> TRUE, copy |-> d, conf |-> upd[cli.e].conf] \in UpdState
          BY <1>0 DEF UpdState
        <4> QED
          BY <4>2, <4>3
      <3>2. CASE At("cleanup")
        <4>1. PICK d \in DirState, conf \in Nat :
                \/ upd' = [upd EXCEPT ![cli.e].copy = d, ![cli.e].conf = conf]
                \/ upd' = [upd EXCEPT ![cli.e] = [has |-> FALSE, copy |-> NoDir, conf |-> conf]]
          BY <1>0, <1>8, <3>2, PartsAre DEF Torn, At
        <4>2. [has |-> FALSE, copy |-> NoDir, conf |-> conf] \in UpdState
              /\ [has |-> upd[cli.e].has, copy |-> d, conf |-> conf] \in UpdState
          BY <1>0, Written DEF UpdState
        <4>3. \/ upd' = [upd EXCEPT ![cli.e] = [has |-> upd[cli.e].has, copy |-> d, conf |-> conf]]
              \/ upd' = [upd EXCEPT ![cli.e] = [has |-> FALSE, copy |-> NoDir, conf |-> conf]]
          BY <1>0, <4>1 DEF TypeOK, UpdState
        <4> QED
          BY <4>2, <4>3
      <3> QED
        BY <1>8, <3>1, <3>2 DEF Torn
    <2>2. Writing(cli.e) /\ UNCHANGED <<dir, backup, files>>
      BY <1>1, <1>8 DEF Torn, On, At
    <2> QED
      BY <2>1, <2>2 DEF TypeOK
  <1> QED
    BY <1>2, <1>3, <1>4, <1>5, <1>6, <1>7, <1>8 DEF Partly

\* A step that raises has the backup whole or not at all, unless it was torn,
\* and a registration writes names of its extension only.
LEMMA PartlyDone ==
  ASSUME TypeOK, cli # Idle, Partly
  PROVE  /\ At("backup") => /\ dir' = dir
                            /\ \/ upd' = upd
                               \/ upd'[cli.e].has /\ upd'[cli.e].copy = dir[cli.e]
         /\ ~At("backup") => upd' = upd
         /\ files' = files \/ (/\ At("commands") /\ cli.op \in {"add", "update"}
                               /\ \A k \in Key : \/ files'[k] = files[k]
                                                 \/ /\ k[2] \in Provides[cli.e][cli.v]
                                                    /\ files'[k] = Content(cli.e, cli.v))
  <1> IsCommand(cli) /\ cli.e \in Ext
    BY DEF TypeOK, IsCommand
  <1>1. CASE UNCHANGED <<tree, files>>
    BY <1>1 DEF tree
  <1>2. CASE At("backup") /\ UNCHANGED <<dir, backup, files>>
             /\ \E conf : upd' = [upd EXCEPT ![cli.e] = [has |-> TRUE, copy |-> dir[cli.e], conf |-> conf]]
    BY <1>2 DEF TypeOK
  <1>3. CASE (At("rmdir") \/ At("copy") \/ At("rbdir")) /\ UNCHANGED <<upd, files>>
    BY <1>3 DEF At
  <1>4. CASE /\ At("commands") /\ UNCHANGED tree
             /\ \E a \in dirs : files' = RegisterCommands(files, a, Names, Content(cli.e, cli.v))
    <2>1. cli.op \in {"add", "update"}
      BY <1>4, StepTells DEF At
    <2>2. \A k \in Key : \/ files'[k] = files[k]
                         \/ k[2] \in Provides[cli.e][cli.v] /\ files'[k] = Content(cli.e, cli.v)
      BY <1>4 DEF RegisterCommands, Names
    <2> QED
      BY <1>4, <2>1, <2>2 DEF tree, At
  <1> QED
    BY <1>1, <1>2, <1>3, <1>4 DEF Partly

\* So does every action.
LEMMA TypeNext ==
  ASSUME TypeOK, EntryOK, [Next]_vars
  PROVE  TypeOK'
  <1>1. CASE Opening
    <2>1. Begins /\ ops' = ops + 1
      BY <1>1, Openings
    <2> QED
      BY <2>1 DEF Begins, Started, TypeOK
  <1>2. ASSUME NEW e \in Ext, EditConfig(e) PROVE TypeOK'
    <2>1. latest' \in [Ext -> Nat]
      BY <1>2 DEF EditConfig, TypeOK
    <2>2. dir' = [dir EXCEPT ![e] = [dir[e] EXCEPT !.conf = latest'[e]]]
      BY <1>2 DEF EditConfig
    <2>3. [dir[e] EXCEPT !.conf = latest'[e]] \in DirState
      BY <2>1 DEF TypeOK, DirState
    <2>4. dir' \in [Ext -> DirState]
      BY <2>2, <2>3 DEF TypeOK
    <2> QED
      BY <1>2, <2>1, <2>4 DEF EditConfig, TypeOK, agents, yml
  <1>3. CASE Step
    BY <1>3, TypeStep
  <1>4. CASE Fail
    <2>1. cli # Idle /\ IsCommand(cli) /\ cli.e \in Ext
      BY <1>4, Fails DEF TypeOK, IsCommand
    <2>2. CliOK'
      <3>1. CASE cli.op = "update" /\ cli' = Rollback
        BY <2>1, <3>1, RollsBack DEF CliOK
      <3>2. CASE cli.op = "switch" /\ Go
        BY <2>1, <3>2, Goes DEF CliOK, Ended, Onward
      <3>3. CASE cli' = Idle
        BY <3>3 DEF CliOK
      <3> QED
        BY <1>4, <3>1, <3>2, <3>3, Fails
    <2>3. damaged' \subseteq Ext /\ failed' \subseteq Ext /\ latest' \in [Ext -> Nat]
      BY <1>4, <2>1, Fails DEF TypeOK
    <2> QED
      BY <1>4, <2>1, <2>2, <2>3, Fails, LeftOver DEF TypeOK, CliOK
  <1>5. CASE Interrupt
    <2>1. cli # Idle /\ IsCommand(cli) /\ cli.e \in Ext /\ cli' = Idle
      BY <1>5 DEF Interrupt, TypeOK, IsCommand
    <2>2. registry' \in [Ext -> Entry] /\ \A e \in Ext : IsEntry(registry'[e])
      BY <1>5, Written DEF Interrupt, TypeOK
    <2>3. damaged' \subseteq Ext /\ listed' \subseteq Ext
      BY <1>5, <2>1 DEF Interrupt, TypeOK, yml
    <2>4. Partly \/ Torn
      BY <1>5 DEF Interrupt, Partly
    <2> QED
      BY <1>5, <2>1, <2>2, <2>3, <2>4, LeftOver DEF Interrupt, TypeOK
  <1>6. CASE UNCHANGED vars
    BY <1>6 DEF vars, tree, agents, yml, history, TypeOK
  <1> QED
    BY <1>1, <1>2, <1>3, <1>4, <1>5, <1>6 DEF Next, Opening

-----------------------------------------------------------------------------
(* Steps: the step at the head of the plan is the one that is taken, it     *)
(* goes on to the next one, and it touches what that step writes.           *)

\* The command after a step that does not end it.
Carried ==
  /\ cli' # Idle /\ IsCommand(cli')
  /\ cli'.todo = Tail(cli.todo) /\ Len(cli.todo) # 1
  /\ cli'.op = cli.op /\ cli'.e = cli.e /\ cli'.v = cli.v /\ cli'.prio = cli.prio
  /\ cli'.keep = cli.keep /\ cli'.before = cli.before
  /\ IF At("backup")
     THEN /\ cli'.entry = registry[cli.e] /\ cli'.saved = SavedFiles
          /\ cli'.hooks = HooksOf(cli.e) /\ cli'.listed = listed
     ELSE /\ cli'.entry = cli.entry /\ cli'.saved = cli.saved
          /\ cli'.hooks = cli.hooks /\ cli'.listed = cli.listed
  /\ cli'.cmds = IF At("commands") THEN RegisteredForAll(dirs, Names) ELSE cli.cmds

Goer ==
  \/ ClearBackup \/ Unregister \/ Unskill \/ RemoveDir \/ Unhook \/ Unregistry
  \/ Copy \/ Hooks \/ Config \/ Registry \/ Download \/ Validate
  \/ RestoreConf \/ Meta \/ MetaHooks \/ Cleanup \/ RollbackDir \/ RollbackFiles
  \/ RollbackHooks \/ RollbackRegistry \/ Flag \/ FlagHooks \/ PriorityStep \/ UnregisterAgent
  \/ SetAgent \/ RegisterAgent

\* The step at the head of the plan is the one that is taken.
LEMMA Acts ==
  ASSUME Step
  PROVE 
    /\ At("clearbackup") => ClearBackup
    /\ At("unregister") => Unregister
    /\ At("unskill") => Unskill
    /\ At("rmdir") => RemoveDir
    /\ At("unhook") => Unhook
    /\ At("unregistry") => Unregistry
    /\ At("copy") => Copy
    /\ At("commands") => Commands
    /\ At("skills") => Skills
    /\ At("hooks") => Hooks
    /\ At("config") => Config
    /\ At("registry") => Registry
    /\ At("backup") => Backup
    /\ At("download") => Download
    /\ At("validate") => Validate
    /\ At("restoreconf") => RestoreConf
    /\ At("meta") => Meta
    /\ At("metahooks") => MetaHooks
    /\ At("cleanup") => Cleanup
    /\ At("rbdir") => RollbackDir
    /\ At("rbfiles") => RollbackFiles
    /\ At("rbhooks") => RollbackHooks
    /\ At("rbregistry") => RollbackRegistry
    /\ At("flag") => Flag
    /\ At("flaghooks") => FlagHooks
    /\ At("priority") => PriorityStep
    /\ At("unagent") => UnregisterAgent
    /\ At("setagent") => SetAgent
    /\ At("regagent") => RegisterAgent
    /\ \E s \in StepName : At(s)
  <1>1. ClearBackup => At("clearbackup")
    BY DEF ClearBackup
  <1>2. Unregister => At("unregister")
    BY DEF Unregister
  <1>3. Unskill => At("unskill")
    BY DEF Unskill
  <1>4. RemoveDir => At("rmdir")
    BY DEF RemoveDir
  <1>5. Unhook => At("unhook")
    BY DEF Unhook
  <1>6. Unregistry => At("unregistry")
    BY DEF Unregistry
  <1>7. Copy => At("copy")
    BY DEF Copy
  <1>8. Commands => At("commands")
    BY DEF Commands
  <1>9. Skills => At("skills")
    BY DEF Skills
  <1>10. Hooks => At("hooks")
    BY DEF Hooks
  <1>11. Config => At("config")
    BY DEF Config
  <1>12. Registry => At("registry")
    BY DEF Registry
  <1>13. Backup => At("backup")
    BY DEF Backup
  <1>14. Download => At("download")
    BY DEF Download
  <1>15. Validate => At("validate")
    BY DEF Validate
  <1>16. RestoreConf => At("restoreconf")
    BY DEF RestoreConf
  <1>17. Meta => At("meta")
    BY DEF Meta
  <1>18. MetaHooks => At("metahooks")
    BY DEF MetaHooks
  <1>19. Cleanup => At("cleanup")
    BY DEF Cleanup
  <1>20. RollbackDir => At("rbdir")
    BY DEF RollbackDir
  <1>21. RollbackFiles => At("rbfiles")
    BY DEF RollbackFiles
  <1>22. RollbackHooks => At("rbhooks")
    BY DEF RollbackHooks
  <1>23. RollbackRegistry => At("rbregistry")
    BY DEF RollbackRegistry
  <1>24. Flag => At("flag")
    BY DEF Flag
  <1>25. FlagHooks => At("flaghooks")
    BY DEF FlagHooks
  <1>26. PriorityStep => At("priority")
    BY DEF PriorityStep
  <1>27. UnregisterAgent => At("unagent")
    BY DEF UnregisterAgent
  <1>28. SetAgent => At("setagent")
    BY DEF SetAgent
  <1>29. RegisterAgent => At("regagent")
    BY DEF RegisterAgent
  <1> QED
    BY <1>1, <1>2, <1>3, <1>4, <1>5, <1>6, <1>7, <1>8, <1>9, <1>10, <1>11, <1>12, <1>13, <1>14, <1>15, <1>16, <1>17, <1>18, <1>19, <1>20, <1>21, <1>22, <1>23, <1>24, <1>25, <1>26, <1>27, <1>28, <1>29 DEF Step, At, StepName

\* A step either ends the command or carries it on.
LEMMA StepMoves ==
  ASSUME TypeOK, Step
  PROVE  cli # Idle /\ IsCommand(cli) /\ cli.e \in Ext /\ Itinerary /\ (Ended \/ Carried)
  <1>0. cli # Idle /\ IsCommand(cli) /\ cli.e \in Ext
    BY Acts DEF At, TypeOK, IsCommand
  <1>1. CASE Commands
    <2> DEFINE K == RegisteredForAll(dirs, Names)
               c == [cli EXCEPT !.cmds = K]
    <2>1. GoWith(c) /\ At("commands") /\ ~At("backup")
      BY <1>1 DEF Commands, At
    <2>2. K \in SUBSET Key
      <3>1. cli.v \in Version
        BY <1>0, <2>1, StepTells DEF IsCommand, At
      <3> QED
        BY <1>0, <3>1, Written DEF RegisteredForAll, Key, TypeOK, Names
    <2> HIDE DEF K, c
    <2>3. /\ IsCommand(c) /\ c.cmds = K /\ c.todo = cli.todo
          /\ c.op = cli.op /\ c.e = cli.e /\ c.v = cli.v /\ c.prio = cli.prio /\ c.keep = cli.keep
          /\ c.before = cli.before /\ c.entry = cli.entry /\ c.saved = cli.saved
          /\ c.hooks = cli.hooks /\ c.listed = cli.listed
      BY <1>0, <2>2, NotingCommands DEF c
    <2>4. (Ended \/ Onward(c)) /\ Itinerary
      BY <1>0, <2>1, <2>3, GoesNoting
    <2> QED
      BY <1>0, <2>1, <2>3, <2>4 DEF Onward, Carried, K
  <1>2. CASE Skills
    <2> DEFINE N == NewSkills(cli.e, cli.v)
               c == [cli EXCEPT !.skills = N]
    <2>1. GoWith(c) /\ At("skills") /\ ~At("backup") /\ ~At("commands")
      BY <1>2 DEF Skills, At
    <2>2. N \in SUBSET Name
      <3>1. cli.v \in Version
        BY <1>0, <2>1, StepTells DEF IsCommand, At
      <3> QED
        BY <1>0, <3>1, Written
    <2> HIDE DEF N, c
    <2>3. /\ IsCommand(c) /\ c.cmds = cli.cmds /\ c.todo = cli.todo
          /\ c.op = cli.op /\ c.e = cli.e /\ c.v = cli.v /\ c.prio = cli.prio /\ c.keep = cli.keep
          /\ c.before = cli.before /\ c.entry = cli.entry /\ c.saved = cli.saved
          /\ c.hooks = cli.hooks /\ c.listed = cli.listed
      BY <1>0, <2>2, NotingSkills DEF c
    <2>4. (Ended \/ Onward(c)) /\ Itinerary
      BY <1>0, <2>1, <2>3, GoesNoting
    <2> QED
      BY <1>0, <2>1, <2>3, <2>4 DEF Onward, Carried
  <1>3. CASE Backup
    <2> DEFINE c == [cli EXCEPT !.entry = registry[cli.e], !.hooks = HooksOf(cli.e), !.listed = listed,
                                !.saved = SavedFiles]
    <2>1. GoWith(c) /\ At("backup") /\ ~At("commands")
      BY <1>3 DEF Backup, SavedFiles, At
    <2> HIDE DEF c
    <2>2. /\ IsCommand(c) /\ c.cmds = cli.cmds /\ c.todo = cli.todo
          /\ c.op = cli.op /\ c.e = cli.e /\ c.v = cli.v /\ c.prio = cli.prio /\ c.keep = cli.keep
          /\ c.before = cli.before /\ c.entry = registry[cli.e] /\ c.saved = SavedFiles
          /\ c.hooks = HooksOf(cli.e) /\ c.listed = listed
      BY <1>0, NotingBackup DEF c
    <2>3. (Ended \/ Onward(c)) /\ Itinerary
      BY <1>0, <2>1, <2>2, GoesNoting
    <2> QED
      BY <1>0, <2>1, <2>2, <2>3 DEF Onward, Carried
  <1>4. CASE Goer
    <2>1. Go /\ ~At("backup") /\ ~At("commands")
      <3>1. CASE ClearBackup
        BY <3>1 DEF ClearBackup, At
      <3>2. CASE Unregister
        BY <3>2 DEF Unregister, At
      <3>3. CASE Unskill
        BY <3>3 DEF Unskill, At
      <3>4. CASE RemoveDir
        BY <3>4 DEF RemoveDir, At
      <3>5. CASE Unhook
        BY <3>5 DEF Unhook, At
      <3>6. CASE Unregistry
        BY <3>6 DEF Unregistry, At
      <3>7. CASE Copy
        BY <3>7 DEF Copy, At
      <3>8. CASE Hooks
        BY <3>8 DEF Hooks, At
      <3>9. CASE Config
        BY <3>9 DEF Config, At
      <3>10. CASE Registry
        BY <3>10 DEF Registry, At
      <3>11. CASE Download
        BY <3>11 DEF Download, At
      <3>12. CASE Validate
        BY <3>12 DEF Validate, At
      <3>13. CASE RestoreConf
        BY <3>13 DEF RestoreConf, At
      <3>14. CASE Meta
        BY <3>14 DEF Meta, At
      <3>15. CASE MetaHooks
        BY <3>15 DEF MetaHooks, At
      <3>16. CASE Cleanup
        BY <3>16 DEF Cleanup, At
      <3>17. CASE RollbackDir
        BY <3>17 DEF RollbackDir, At
      <3>18. CASE RollbackFiles
        BY <3>18 DEF RollbackFiles, At
      <3>19. CASE RollbackHooks
        BY <3>19 DEF RollbackHooks, At
      <3>20. CASE RollbackRegistry
        BY <3>20 DEF RollbackRegistry, At
      <3>21. CASE Flag
        BY <3>21 DEF Flag, At
      <3>22. CASE FlagHooks
        BY <3>22 DEF FlagHooks, At
      <3>23. CASE PriorityStep
        BY <3>23 DEF PriorityStep, At
      <3>24. CASE UnregisterAgent
        BY <3>24 DEF UnregisterAgent, At
      <3>25. CASE SetAgent
        BY <3>25 DEF SetAgent, At
      <3>26. CASE RegisterAgent
        BY <3>26 DEF RegisterAgent, At
      <3> QED
        BY <1>4, <3>1, <3>2, <3>3, <3>4, <3>5, <3>6, <3>7, <3>8, <3>9, <3>10, <3>11, <3>12, <3>13, <3>14, <3>15, <3>16, <3>17, <3>18, <3>19, <3>20, <3>21, <3>22, <3>23, <3>24, <3>25, <3>26 DEF Goer
    <2>2. (Ended \/ Onward(cli)) /\ Itinerary
      BY <1>0, <2>1, Goes
    <2> QED
      BY <1>0, <2>1, <2>2 DEF Onward, Carried
  <1> QED
    BY <1>1, <1>2, <1>3, <1>4 DEF Step, Goer

Untouched ==
  /\ latest' = latest /\ damaged' = damaged
  /\ ~On({"cleanup"}) => failed' = failed
  /\ ~On(WritesRegistry) => registry' = registry
  /\ ~On(WritesYml) => hooks' = hooks /\ listed' = listed
  /\ ~On({"rmdir", "copy", "config", "restoreconf", "rbdir"}) => dir' = dir
  /\ ~On({"clearbackup", "rmdir", "config"}) => backup' = backup
  /\ ~On({"backup", "cleanup"}) => upd' = upd
  /\ ~On({"unregister", "commands", "rbfiles", "unagent", "regagent"}) => files' = files

\* What a step does not write stays as it was.
LEMMA Touches ==
  ASSUME Step
  PROVE  Untouched
  <1> USE DEF Untouched, On, WritesRegistry, WritesYml, tree, agents, yml, history
  <1>1. CASE ClearBackup
    BY <1>1 DEF ClearBackup, At
  <1>2. CASE Unregister
    BY <1>2 DEF Unregister, At
  <1>3. CASE Unskill
    BY <1>3 DEF Unskill, At
  <1>4. CASE RemoveDir
    BY <1>4 DEF RemoveDir, At, SetDir
  <1>5. CASE Unhook
    BY <1>5 DEF Unhook, At
  <1>6. CASE Unregistry
    BY <1>6 DEF Unregistry, At
  <1>7. CASE Copy
    BY <1>7 DEF Copy, At, SetDir
  <1>8. CASE Commands
    BY <1>8 DEF Commands, At
  <1>9. CASE Skills
    BY <1>9 DEF Skills, At
  <1>10. CASE Hooks
    BY <1>10 DEF Hooks, At
  <1>11. CASE Config
    BY <1>11 DEF Config, At
  <1>12. CASE Registry
    BY <1>12 DEF Registry, At
  <1>13. CASE Backup
    BY <1>13 DEF Backup, At
  <1>14. CASE Download
    BY <1>14 DEF Download, At
  <1>15. CASE Validate
    BY <1>15 DEF Validate, At
  <1>16. CASE RestoreConf
    BY <1>16 DEF RestoreConf, At
  <1>17. CASE Meta
    BY <1>17 DEF Meta, At
  <1>18. CASE MetaHooks
    BY <1>18 DEF MetaHooks, At
  <1>19. CASE Cleanup
    BY <1>19 DEF Cleanup, At
  <1>20. CASE RollbackDir
    BY <1>20 DEF RollbackDir, At, SetDir
  <1>21. CASE RollbackFiles
    BY <1>21 DEF RollbackFiles, At
  <1>22. CASE RollbackHooks
    BY <1>22 DEF RollbackHooks, At
  <1>23. CASE RollbackRegistry
    BY <1>23 DEF RollbackRegistry, At
  <1>24. CASE Flag
    BY <1>24 DEF Flag, At
  <1>25. CASE FlagHooks
    BY <1>25 DEF FlagHooks, At
  <1>26. CASE PriorityStep
    BY <1>26 DEF PriorityStep, At
  <1>27. CASE UnregisterAgent
    BY <1>27 DEF UnregisterAgent, At
  <1>28. CASE SetAgent
    BY <1>28 DEF SetAgent, At
  <1>29. CASE RegisterAgent
    BY <1>29 DEF RegisterAgent, At
  <1> QED
    BY <1>1, <1>2, <1>3, <1>4, <1>5, <1>6, <1>7, <1>8, <1>9, <1>10, <1>11, <1>12, <1>13, <1>14, <1>15, <1>16, <1>17, <1>18, <1>19, <1>20, <1>21, <1>22, <1>23, <1>24, <1>25, <1>26, <1>27, <1>28, <1>29 DEF Step

-----------------------------------------------------------------------------
(* The registry entry. *)

\* Each step leaves the registry entry as the next one expects it.
LEMMA EntryStep ==
  ASSUME TypeOK, EntryOK, Step
  PROVE  EntryOK'
  <1> DEFINE e == cli.e
  <1>0. cli # Idle /\ IsCommand(cli) /\ e \in Ext /\ Itinerary /\ (Ended \/ Carried)
    BY StepMoves
  <1>1. registry \in [Ext -> Entry] /\ registry[e] \in Entry /\ IsEntry(registry[e])
    BY <1>0 DEF TypeOK
  <1>2. CASE cli' = Idle
    BY <1>2 DEF EntryOK, Runs
  <1>3. CASE cli' # Idle
    <2>1. Carried
      BY <1>0, <1>3 DEF Ended
    <2>2. At("backup") => cli.op = "update" /\ registry[e] = cli.before.entry
      BY <1>0 DEF EntryOK, Runs, On, At, Itinerary, Between
    <2>3. CASE On({"unregistry"})
      <3>1. registry'[e] = NoEntry
        BY <1>1, <1>0, <2>3, Acts DEF On, At, Unregistry, SetEntry
      <3> QED
        BY <1>0, <1>3, <2>1, <2>3, <3>1 DEF EntryOK, Runs, On, At, Itinerary, Carried
    <2>4. CASE On({"registry"})
      <3>1. registry'[e].ver = cli.v /\ registry'[e].enabled
        BY <1>1, <1>0, <2>4, Acts DEF On, At, Registry, SetEntry
      <3> QED
        BY <1>0, <1>3, <2>1, <2>4, <3>1 DEF EntryOK, Runs, On, At, Itinerary, Carried
    <2>5. CASE On({"meta"})
      <3>1. /\ registry'[e].ver = registry[e].ver /\ registry'[e].enabled = cli.entry.enabled
            /\ registry'[e].prio = cli.entry.prio
        BY <1>1, <1>0, <2>5, Acts DEF On, At, Meta, SetEntry, Entry
      <3> QED
        BY <1>0, <1>3, <2>1, <2>5, <3>1 DEF EntryOK, Runs, On, At, Itinerary, Between, Carried
    <2>6. CASE On({"flag"})
      <3>1. /\ registry'[e].ver = registry[e].ver
            /\ registry'[e].enabled = (cli.op = "enable")
        BY <1>1, <1>0, <2>6, Acts DEF On, At, Flag, SetEntry, Entry
      <3>2. registry[e] = cli.before.entry /\ registry[e] # NoEntry
            /\ cli.op \in {"enable", "disable"} /\ Head(cli'.todo) = "flaghooks"
        BY <1>0, <2>6 DEF EntryOK, Runs, On, Itinerary, Between
      <3>3. registry'[e].ver # 0
        BY <1>1, <3>1, <3>2 DEF IsEntry, Version
      <3>4. registry'[e] # NoEntry
        BY <3>3 DEF NoEntry
      <3> QED
        BY <1>0, <1>3, <2>1, <2>6, <3>1, <3>2, <3>4 DEF EntryOK, Runs, On, At, Carried
    <2>7. CASE On({"rbregistry"})
      <3>1. registry'[e] = cli.entry
        BY <1>1, <1>0, <2>7, Acts DEF On, At, RollbackRegistry, SetEntry
      <3> QED
        BY <1>0, <1>3, <2>1, <2>7, <3>1 DEF EntryOK, Runs, On, At, Itinerary, Between, Carried
    <2>8. CASE On({"unagent", "regagent", "priority", "setagent"})
      <3>1. cli'.op \in {"switch"}
        BY <1>0, <1>3, <2>1, <2>8 DEF On, Itinerary, Between, Last, Carried
      <3> QED
        BY <3>1 DEF EntryOK, Runs
    <2>9. CASE ~On(WritesRegistry \cup {"setagent"})
      <3>1. registry' = registry
        BY <2>9, Touches DEF Untouched, On
      <3>2. \E s \in StepName : At(s)
        BY Acts
      <3>3. CASE cli.op \in {"add", "remove", "update"}
        BY <1>0, <1>3, <2>1, <2>2, <2>9, <3>1, <3>2, <3>3
           DEF EntryOK, Runs, On, At, Itinerary, Between, Last, Carried, WritesRegistry, StepName
      <3>4. CASE cli.op \in {"rollback", "enable", "disable", "priority", "switch"}
        BY <1>0, <1>3, <2>1, <2>2, <2>9, <3>1, <3>2, <3>4
           DEF EntryOK, Runs, On, At, Itinerary, Between, Last, Carried, WritesRegistry, StepName
      <3> QED
        BY <1>0, <3>3, <3>4 DEF IsCommand, Op
    <2> QED
      BY <2>3, <2>4, <2>5, <2>6, <2>7, <2>8, <2>9 DEF On, WritesRegistry
  <1> QED
    BY <1>2, <1>3

\* So does every action: a rollback still has the entry the update found.
LEMMA EntryNext ==
  ASSUME TypeOK, EntryOK, [Next]_vars
  PROVE  EntryOK'
  <1>1. CASE Opening
    <2>1. Begins
      BY <1>1, Openings
    <2>2. cli' # Idle /\ UNCHANGED registry
      BY <2>1 DEF Begins, Started
    <2> QED
      BY <2>1, <2>2 DEF Begins, Started, EntryOK, Runs, On, Installed
  <1>2. ASSUME NEW e \in Ext, EditConfig(e) PROVE EntryOK'
    BY <1>2 DEF EditConfig, EntryOK, Runs
  <1>3. CASE Step
    BY <1>3, EntryStep
  <1>4. CASE Fail
    <2>1. cli # Idle /\ IsCommand(cli) /\ UNCHANGED registry
      BY <1>4, Fails DEF TypeOK
    <2>2. CASE cli.op = "update" /\ cli' = Rollback
      BY <2>1, <2>2, RollsBack DEF EntryOK, Runs, On
    <2>3. CASE cli.op = "switch" /\ Go
      <3>1. cli' = Idle \/ cli'.op = "switch"
        BY <2>1, <2>3, Goes DEF Ended, Onward
      <3> QED
        BY <3>1 DEF EntryOK, Runs
    <2>4. CASE cli' = Idle
      BY <2>4 DEF EntryOK, Runs
    <2> QED
      BY <1>4, <2>2, <2>3, <2>4, Fails
  <1>5. CASE Interrupt
    BY <1>5 DEF Interrupt, EntryOK, Runs
  <1>6. CASE UNCHANGED vars
    BY <1>6 DEF vars, EntryOK, Runs, On
  <1> QED
    BY <1>1, <1>2, <1>3, <1>4, <1>5, <1>6 DEF Next, Opening

-----------------------------------------------------------------------------
(* Hooks and the installed list: what an update saved. *)

\* Each step of an update or a rollback keeps what was captured of extensions.yml.
LEMMA YmlStep ==
  ASSUME TypeOK, YmlOK, Step
  PROVE  YmlOK'
  <1> DEFINE e == cli.e
  <1>0. cli # Idle /\ IsCommand(cli) /\ e \in Ext /\ Itinerary /\ (Ended \/ Carried)
    BY StepMoves
  <1>2. CASE cli' = Idle \/ cli.op \notin {"update", "rollback"}
    BY <1>0, <1>2 DEF YmlOK, Runs, Ended, Carried
  <1>3. CASE cli' # Idle /\ cli.op = "update"
    <2>1. Carried
      BY <1>0, <1>3 DEF Ended
    <2>2. /\ \A h \in cli.before.hooks : h[2] = e
          /\ \A f \in Ext \ {e} : f \in listed <=> f \in cli.before.listed
          /\ IF On({"backup"}) THEN Restored ELSE Captured
      BY <1>0, <1>3 DEF YmlOK, Runs
    <2>3. \A f \in Ext \ {e} : f \in listed' <=> f \in listed
      <3>1. CASE On({"unhook"})
        BY <3>1, Acts DEF On, At, Unhook
      <3>2. CASE On({"hooks"})
        BY <3>2, Acts DEF On, At, Hooks
      <3>3. CASE On({"metahooks"})
        BY <3>3, Acts DEF On, At, MetaHooks
      <3>4. CASE ~On(WritesYml)
        BY <3>4, Touches DEF Untouched
      <3> QED
        BY <1>0, <1>3, <3>1, <3>2, <3>3, <3>4
           DEF On, WritesYml, Itinerary, Between, Last
    <2>4. Head(cli'.todo) # "backup" /\ cli'.op = "update"
      <3>1. \E s \in StepName : At(s)
        BY Acts
      <3> QED
        BY <1>0, <1>3, <2>1, <3>1 DEF Itinerary, Between, Last, At, StepName, Carried
    <2>5. Captured'
      BY <1>0, <2>1, <2>2 DEF Captured, Restored, On, At, Carried
    <2> QED
      BY <1>3, <2>1, <2>2, <2>3, <2>4, <2>5 DEF YmlOK, Runs, On, Carried
  <1>4. CASE cli' # Idle /\ cli.op = "rollback"
    <2>1. Carried
      BY <1>0, <1>4 DEF Ended
    <2>2. cli'.op = "rollback" /\ cli'.e = e /\ cli'.before = cli.before
      BY <1>4, <2>1 DEF Carried
    <2>3. On({"rbdir", "rbfiles", "rbhooks", "rbregistry"})
      <3>1. \E s \in StepName : At(s)
        BY Acts
      <3> QED
        BY <1>0, <1>4, <3>1 DEF Itinerary, Between, Last, On, At, StepName
    <2>4. cli'.hooks = cli.hooks /\ cli'.listed = cli.listed
      BY <2>1, <2>3 DEF Carried, On, At
    <2>5. CASE On({"rbhooks"})
      <3>1. hooks' = (hooks \ HooksOf(e)) \cup cli.hooks /\ listed' = cli.listed /\ Captured
        BY <1>0, <1>4, <2>5, Acts DEF On, At, RollbackHooks, YmlOK, Runs
      <3>2. \A h \in cli.hooks : h[2] = e
        BY <1>0, <1>4, <3>1 DEF YmlOK, Runs, Captured
      <3>3. {h \in hooks' : h[2] = e} = cli.hooks
        BY <3>1, <3>2 DEF HooksOf
      <3>4. Restored'
        BY <2>2, <3>1, <3>3 DEF Restored, HooksOf, Captured
      <3>5. Head(cli'.todo) = "rbregistry"
        BY <1>0, <2>5 DEF Itinerary, Between, On
      <3> QED
        BY <1>0, <1>4, <2>2, <3>1, <3>4, <3>5 DEF YmlOK, Runs, On, Captured
    <2>6. CASE ~On({"rbhooks"})
      <3>1. hooks' = hooks /\ listed' = listed
        BY <2>3, <2>6, Touches DEF Untouched, On, WritesYml
      <3>2. Captured' <=> Captured
        BY <2>2, <2>4 DEF Captured
      <3>3. Restored' <=> Restored
        BY <2>2, <3>1 DEF Restored, HooksOf
      <3>4. /\ Head(cli'.todo) = cli.todo[2]
            /\ Len(cli.todo) > 2 => cli'.todo[2] = cli.todo[3]
        BY <1>0, <2>1, PathTail DEF IsCommand, PlanOK, Carried
      <3>5. CASE On({"rbdir"})
        BY <1>0, <1>4, <2>2, <3>1, <3>2, <3>3, <3>4, <3>5 DEF YmlOK, Runs, On, Itinerary, Between
      <3>6. CASE On({"rbfiles"})
        BY <1>0, <1>4, <2>2, <3>1, <3>2, <3>3, <3>4, <3>6 DEF YmlOK, Runs, On, Itinerary, Between
      <3>7. CASE On({"rbregistry"})
        BY <1>0, <1>4, <2>2, <3>1, <3>2, <3>3, <3>4, <3>7 DEF YmlOK, Runs, On, Itinerary, Between
      <3> QED
        BY <2>3, <2>6, <3>5, <3>6, <3>7 DEF On
    <2> QED
      BY <2>5, <2>6
  <1> QED
    BY <1>2, <1>3, <1>4

\* So does every action: a failed backup has captured nothing, and restores nothing.
LEMMA YmlNext ==
  ASSUME TypeOK, YmlOK, [Next]_vars
  PROVE  YmlOK'
  <1>1. CASE Opening
    <2>1. Begins
      BY <1>1, Openings
    <2>2. cli' # Idle /\ UNCHANGED <<hooks, listed>>
      BY <2>1 DEF Begins, Started
    <2>3. ASSUME cli'.op \in {"update", "rollback"}
          PROVE  /\ cli'.op = "update" /\ Head(cli'.todo) = "backup"
                 /\ cli'.before.listed = listed /\ cli'.before.hooks = HooksOf(cli'.e)
      BY <2>1, <2>3 DEF Begins, Started
    <2> QED
      BY <2>2, <2>3 DEF YmlOK, Runs, On, Restored, HooksOf
  <1>2. ASSUME NEW e \in Ext, EditConfig(e) PROVE YmlOK'
    BY <1>2 DEF EditConfig, YmlOK, Runs
  <1>3. CASE Step
    BY <1>3, YmlStep
  <1>4. CASE Fail
    <2>1. cli # Idle /\ IsCommand(cli) /\ UNCHANGED <<hooks, listed>>
      BY <1>4, Fails DEF TypeOK
    <2>2. CASE cli.op = "update" /\ cli' = Rollback
      <3>1. /\ cli'.op = "rollback" /\ cli'.e = cli.e /\ cli'.before = cli.before
            /\ cli'.hooks = cli.hooks /\ cli'.listed = cli.listed /\ Head(cli'.todo) = "rbdir"
            /\ Len(cli'.todo) > 2
            /\ cli'.todo[3] = IF At("backup") THEN "rbregistry" ELSE "rbhooks"
        BY <2>1, <2>2, RollsBack
      <3>2. (Captured' <=> Captured) /\ (Restored' <=> Restored)
        BY <2>1, <3>1 DEF Captured, Restored, HooksOf
      <3> QED
        BY <2>1, <2>2, <3>1, <3>2 DEF YmlOK, Runs, On, At
    <2>3. CASE cli.op = "switch" /\ Go
      <3>1. cli' = Idle \/ cli'.op = "switch"
        BY <2>1, <2>3, Goes DEF Ended, Onward
      <3> QED
        BY <3>1 DEF YmlOK, Runs
    <2>4. CASE cli' = Idle
      BY <2>4 DEF YmlOK, Runs
    <2> QED
      BY <1>4, <2>2, <2>3, <2>4, Fails
  <1>5. CASE Interrupt
    BY <1>5 DEF Interrupt, YmlOK, Runs
  <1>6. CASE UNCHANGED vars
    BY <1>6 DEF vars, yml, YmlOK, Runs, On, Captured, Restored, HooksOf
  <1> QED
    BY <1>1, <1>2, <1>3, <1>4, <1>5, <1>6 DEF Next, Opening

-----------------------------------------------------------------------------
(* Hooks of an extension. *)

Of(H, f) == {h \in H : h[2] = f}

Replaces(I, H, e, G) == I = (H \ Of(H, e)) \cup G /\ \A h \in G : h[2] = e
Flags(I, H, e, b) == I = {h \in H : h[2] # e} \cup {<<h[1], e, b>> : h \in Of(H, e)}

\* Replacing the hooks of an extension changes those of no other.
LEMMA HooksReplaced ==
  ASSUME NEW H, NEW e, NEW G, NEW I, Replaces(I, H, e, G)
  PROVE  Of(I, e) = G /\ \A f : f # e => Of(I, f) = Of(H, f)
  BY DEF Of, Replaces

\* Every hook of a product is one of the extension, and setting their flags
\* gives the product with the other flag.
LEMMA HookProduct ==
  ASSUME NEW e, NEW E, NEW b, NEW c
  PROVE  /\ \A h \in (E \X {e} \X {b}) : h[2] = e
         /\ {<<h[1], e, b>> : h \in (E \X {e} \X {c})} = E \X {e} \X {b}
  <1>1. ASSUME NEW t \in E \X {e} \X {b}
        PROVE  t \in {<<h[1], e, b>> : h \in (E \X {e} \X {c})}
    <2>1. <<t[1], e, c>> \in E \X {e} \X {c} /\ t = <<t[1], e, b>>
      OBVIOUS
    <2>2. t = << <<t[1], e, c>>[1], e, b >>
      BY <2>1
    <2> QED
      BY <2>1, <2>2
  <1>2. {<<h[1], e, b>> : h \in (E \X {e} \X {c})} \subseteq E \X {e} \X {b}
    OBVIOUS
  <1> QED
    BY <1>1, <1>2

\* Setting the flags of the hooks of an extension.
LEMMA HooksFlagged ==
  ASSUME NEW H, NEW e, NEW b, NEW I, Flags(I, H, e, b)
  PROVE  /\ Of(I, e) = {<<h[1], e, b>> : h \in Of(H, e)}
         /\ \A f : f # e => Of(I, f) = Of(H, f)
  <1> DEFINE G == {<<h[1], e, b>> : h \in Of(H, e)}
  <1>1. \A h \in G : h[2] = e
    OBVIOUS
  <1>2. I = (H \ Of(H, e)) \cup G
    BY DEF Of, Flags
  <1>4. Replaces(I, H, e, G)
    BY <1>1, <1>2 DEF Replaces
  <1> HIDE DEF G
  <1>3. Of(I, e) = G /\ \A f : f # e => Of(I, f) = Of(H, f)
    BY <1>4, HooksReplaced
  <1> QED
    BY <1>3 DEF G

\* An entry is registered if and only if it has a version.
LEMMA InstalledVer ==
  ASSUME NEW r, IsEntry(r)
  PROVE  /\ r = NoEntry <=> r.ver = 0
         /\ r # NoEntry => r.ver \in Version
  BY DEF IsEntry, NoEntry, Version

\* An extension that the running command does not work on.
Aside(x) == x # cli.e \/ cli.op = "switch"

\* A step changes no version, flag or priority of an extension it is not about.
LEMMA EntryAside ==
  ASSUME TypeOK, TypeOK', Step, NEW x \in Ext, Aside(x)
  PROVE  /\ registry'[x].ver = registry[x].ver /\ registry'[x].enabled = registry[x].enabled
         /\ registry'[x].prio = registry[x].prio
         /\ registry'[x] = NoEntry <=> registry[x] = NoEntry
  <1>0. cli # Idle /\ IsCommand(cli) /\ cli.e \in Ext /\ Itinerary
    BY StepMoves
  <1>1. registry \in [Ext -> Entry] /\ registry[x] \in Entry
    BY DEF TypeOK
  <1>2. /\ registry'[x].ver = registry[x].ver /\ registry'[x].enabled = registry[x].enabled
        /\ registry'[x].prio = registry[x].prio
    <2>1. CASE On({"unagent"})
      <3>1. UnregisterAgent
        BY <1>0, <2>1, Acts DEF On, At
      <3>2. \E C, S : registry'[x] = [registry[x] EXCEPT !.cmds = C, !.skills = S]
        BY <3>1 DEF UnregisterAgent
      <3> QED
        BY <1>1, <3>2 DEF Entry
    <2>2. CASE On({"regagent"})
      <3>1. RegisterAgent
        BY <1>0, <2>2, Acts DEF On, At
      <3>2. \/ registry'[x] = registry[x]
            \/ \E C, S : registry'[x] = [registry[x] EXCEPT !.cmds = C, !.skills = S]
        BY <3>1 DEF RegisterAgent
      <3> QED
        BY <1>1, <3>2 DEF Entry
    <2>3. CASE On({"unregistry", "registry", "meta", "rbregistry", "flag", "priority"})
      <3>1. x # cli.e
        BY <1>0, <2>3 DEF Aside, On, Itinerary, Between, Last
      <3>2. \E r : registry' = [registry EXCEPT ![cli.e] = r]
        BY <1>0, <2>3, Acts
           DEF On, At, Unregistry, Registry, Meta, RollbackRegistry, Flag, PriorityStep, SetEntry
      <3> QED
        BY <1>0, <1>1, <3>1, <3>2
    <2>4. CASE ~On(WritesRegistry)
      BY <2>4, Touches DEF Untouched
    <2> QED
      BY <2>1, <2>2, <2>3, <2>4 DEF On, WritesRegistry
  <1>3. IsEntry(registry[x]) /\ IsEntry(registry'[x])
    BY DEF TypeOK
  <1> QED
    BY <1>2, <1>3, InstalledVer

\* A step changes no hook of an extension it is not about.
LEMMA HooksAside ==
  ASSUME TypeOK, YmlOK, Step, NEW x \in Ext, x # cli.e \/ cli.op \in {"switch", "priority"}
  PROVE  /\ Of(hooks', x) = Of(hooks, x)
         /\ x \in listed' <=> x \in listed
  <1> DEFINE e == cli.e
  <1>0. cli # Idle /\ IsCommand(cli) /\ e \in Ext /\ Itinerary
    BY StepMoves
  <1>1. CASE ~On(WritesYml)
    BY <1>1, Touches DEF Untouched
  <1>2. CASE On(WritesYml)
    <2>1. x # e
      BY <1>0, <1>2 DEF On, WritesYml, Itinerary, Between, Last
    <2>2. HooksOf(e) = Of(hooks, e)
      BY DEF HooksOf, Of
    <2>3. CASE On({"unhook"})
      <3>1. hooks' = hooks \ Of(hooks, e) /\ listed' = listed \ {e}
        BY <2>2, <2>3, <1>0, Acts DEF On, At, Unhook
      <3>2. Of(hooks', x) = Of(hooks, x)
        <4>1. Replaces(hooks', hooks, e, {})
          BY <3>1 DEF Replaces
        <4> QED
          BY <2>1, <4>1, HooksReplaced
      <3> QED
        BY <2>1, <3>1, <3>2
    <2>4. CASE On({"hooks"})
      <3> DEFINE E == HookEvents[e][cli.v]
      <3>1. hooks' = (hooks \ Of(hooks, e)) \cup (E \X {e} \X {TRUE}) /\ listed' = listed \cup {e}
        BY <2>2, <2>4, <1>0, Acts DEF On, At, Hooks
      <3> HIDE DEF E
      <3>2. \A h \in (E \X {e} \X {TRUE}) : h[2] = e
        BY HookProduct
      <3>3. Of(hooks', x) = Of(hooks, x)
        <4>1. Replaces(hooks', hooks, e, E \X {e} \X {TRUE})
          BY <3>1, <3>2 DEF Replaces
        <4> QED
          BY <2>1, <4>1, HooksReplaced
      <3> QED
        BY <2>1, <3>1, <3>3
    <2>5. CASE On({"rbhooks"})
      <3>1. /\ \A h \in cli.hooks : h[2] = e
            /\ x \in cli.listed <=> x \in listed
        BY <1>0, <2>1, <2>5 DEF YmlOK, Runs, On, Captured, Itinerary, Between
      <3> QED
        <4>1. hooks' = (hooks \ Of(hooks, e)) \cup cli.hooks /\ listed' = cli.listed
          BY <2>2, <2>5, <1>0, Acts DEF On, At, RollbackHooks
        <4>2. Replaces(hooks', hooks, e, cli.hooks)
          BY <3>1, <4>1 DEF Replaces
        <4>3. Of(hooks', x) = Of(hooks, x)
          BY <2>1, <4>2, HooksReplaced
        <4> QED
          BY <3>1, <4>1, <4>3
    <2>6. CASE On({"metahooks"})
      <3>1. /\ listed' = listed
            /\ \/ hooks' = hooks
               \/ \E b : Flags(hooks', hooks, e, b)
        BY <2>2, <2>6, <1>0, Acts DEF On, At, MetaHooks, EnableHooks, Flags
      <3>2. ASSUME NEW b, Flags(hooks', hooks, e, b)
            PROVE  Of(hooks', x) = Of(hooks, x)
        BY <2>1, <3>2, HooksFlagged
      <3> QED
        BY <3>1, <3>2
    <2>7. CASE On({"flaghooks"})
      <3>1. /\ listed' = listed
            /\ \/ hooks' = hooks
               \/ \E b : Flags(hooks', hooks, e, b)
        BY <2>2, <2>7, <1>0, Acts DEF On, At, FlagHooks, EnableHooks, Flags
      <3>2. ASSUME NEW b, Flags(hooks', hooks, e, b)
            PROVE  Of(hooks', x) = Of(hooks, x)
        BY <2>1, <3>2, HooksFlagged
      <3> QED
        BY <3>1, <3>2
    <2> QED
      BY <1>2, <2>3, <2>4, <2>5, <2>6, <2>7 DEF On, WritesYml
  <1> QED
    BY <1>1, <1>2

\* Each step leaves the hooks of an undamaged extension as the next one expects them.
LEMMA HooksStep ==
  ASSUME TypeOK, TypeOK', EntryOK, EntryOK', YmlOK, YmlOK', Step, NEW x \in Ext, HooksOK(x)
  PROVE  HooksOK(x)'
  <1> DEFINE e == cli.e
             Same == Of(hooks', x) = Of(hooks, x) /\ (x \in listed' <=> x \in listed)
  <1>0. cli # Idle /\ IsCommand(cli) /\ e \in Ext /\ Itinerary /\ (Ended \/ Carried)
    BY StepMoves
  <1>1. HooksOf(x) = Of(hooks, x) /\ HooksOf(x)' = Of(hooks', x)
    BY DEF HooksOf, Of
  <1>2. damaged' = damaged
    BY Touches DEF Untouched
  <1>3. /\ IsEntry(registry[x]) /\ IsEntry(registry'[x])
        /\ registry \in [Ext -> Entry] /\ registry[x] \in Entry
    BY DEF TypeOK
  <1>4. \E s \in StepName : At(s)
    BY Acts
  <1>5. cli' = Idle \/ (cli'.op = cli.op /\ cli'.e = cli.e /\ cli'.v = cli.v /\ cli'.before = cli.before)
    BY <1>0 DEF Ended, Carried
  <1> SUFFICES ASSUME x \notin damaged PROVE HooksOK(x)'
    BY <1>2 DEF HooksOK
  <1>6. CASE x # e \/ cli.op \in {"switch", "priority"}
    <2>1. HooksMatch(x)
      BY <1>6 DEF HooksOK, Runs
    <2>2. Same
      BY <1>6, HooksAside
    <2>3. /\ registry'[x].ver = registry[x].ver /\ registry'[x].enabled = registry[x].enabled
          /\ registry'[x] = NoEntry <=> registry[x] = NoEntry
      <3>1. CASE Aside(x)
        BY <3>1, EntryAside
      <3>2. CASE ~Aside(x)
        <4>1. cli.op = "priority" /\ x = e
          BY <1>6, <3>2 DEF Aside
        <4>2. At("priority")
          BY <1>0, <1>4, <4>1 DEF At, StepName, Itinerary, Between, Last
        <4>3. registry'[x] = [registry[x] EXCEPT !.prio = cli.prio]
          BY <1>0, <1>3, <4>1, <4>2, Acts DEF PriorityStep, SetEntry
        <4>4. registry'[x].ver = registry[x].ver /\ registry'[x].enabled = registry[x].enabled
          BY <1>3, <4>3 DEF Entry
        <4> QED
          BY <1>3, <4>4, InstalledVer
      <3> QED
        BY <3>1, <3>2
    <2>4. HooksMatch(x)'
      BY <1>1, <2>1, <2>2, <2>3 DEF HooksMatch, FullHooks, NoHooks, Installed
    <2> QED
      BY <1>5, <1>6, <2>4 DEF HooksOK, Runs, Op
  <1>7. CASE x = e /\ cli.op \in {"add", "remove", "update"}
    <2> PICK v : v = cli.v
      OBVIOUS
    <2>0. /\ On({"clearbackup", "backup", "download", "unregister", "unskill", "rmdir",
                 "unhook", "cleanup"}) => HooksMatch(x)
          /\ On({"unregistry", "validate", "copy", "commands", "skills", "hooks"}) => NoHooks(x)
          /\ On({"config", "registry", "restoreconf", "meta", "metahooks"}) => FullHooks(x, v, TRUE)
          /\ cli.op = "update" =>
               /\ x \in cli.before.listed
               /\ cli.before.hooks =
                    HookEvents[x][cli.before.entry.ver] \X {x} \X {cli.before.entry.enabled}
      BY <1>0, <1>7 DEF HooksOK, Runs
    <2>a. \* It is enough to look at the next step.
          ASSUME \/ cli' = Idle /\ HooksMatch(x)'
                 \/ /\ cli' # Idle
                    /\ Head(cli'.todo) \in {"clearbackup", "backup", "download", "unregister",
                                            "unskill", "rmdir", "unhook", "cleanup"}
                    /\ HooksMatch(x)'
                 \/ /\ cli' # Idle
                    /\ Head(cli'.todo) \in {"unregistry", "validate", "copy", "commands",
                                            "skills", "hooks"}
                    /\ NoHooks(x)'
                 \/ /\ cli' # Idle
                    /\ Head(cli'.todo) \in {"config", "registry", "restoreconf", "meta",
                                            "metahooks"}
                    /\ FullHooks(x, v, TRUE)'
          PROVE  HooksOK(x)'
      <3>1. CASE cli' = Idle
        BY <2>a, <3>1 DEF HooksOK, Runs, Idle
      <3>2. CASE cli' # Idle
        <4>1. cli'.op = cli.op /\ cli'.e = x /\ cli'.v = v /\ cli'.before = cli.before
          BY <1>5, <1>7, <3>2
        <4>2. cli'.op \notin {"enable", "disable", "rollback", "switch", "priority"}
          BY <1>7, <4>1
        <4> QED
          BY <1>7, <2>0, <2>a, <3>2, <4>1, <4>2 DEF HooksOK, Runs, On, FullHooks, Op
      <3> QED
        BY <3>1, <3>2
    <2>1. CASE ~On(WritesYml \cup WritesRegistry)
      <3>1. registry' = registry /\ hooks' = hooks /\ listed' = listed
        BY <2>1, Touches DEF Untouched, On
      <3>2. /\ HooksMatch(x)' <=> HooksMatch(x)
            /\ NoHooks(x)' <=> NoHooks(x)
            /\ FullHooks(x, v, TRUE)' <=> FullHooks(x, v, TRUE)
        BY <3>1 DEF HooksMatch, NoHooks, FullHooks, HooksOf, Installed
      <3> QED
        BY <1>0, <1>4, <1>7, <2>0, <2>1, <2>a, <3>2
           DEF On, At, StepName, WritesYml, WritesRegistry, Itinerary, Between, Last
    <2>2. CASE On({"unhook"})
      <3>1. hooks' = hooks \ Of(hooks, x) /\ listed' = listed \ {x}
        BY <1>0, <1>1, <1>7, <2>2, Acts DEF On, At, Unhook
      <3>2. Replaces(hooks', hooks, x, {})
        BY <3>1 DEF Replaces
      <3>3. NoHooks(x)'
        BY <1>1, <3>1, <3>2, HooksReplaced DEF NoHooks
      <3> QED
        BY <1>0, <2>2, <2>a, <3>3 DEF On, Itinerary, Between
    <2>3. CASE On({"unregistry"})
      <3>1. registry'[x] = NoEntry /\ hooks' = hooks /\ listed' = listed
        BY <1>0, <1>3, <1>7, <2>3, Acts DEF On, At, Unregistry, SetEntry, yml
      <3>2. NoHooks(x)' /\ HooksMatch(x)'
        BY <1>1, <2>0, <2>3, <3>1 DEF NoHooks, HooksMatch, Installed, On
      <3> QED
        BY <1>0, <2>3, <2>a, <3>2 DEF On, Itinerary
    <2>4. CASE On({"hooks"})
      <3> DEFINE G == HookEvents[x][v] \X {x} \X {TRUE}
      <3>1. hooks' = (hooks \ Of(hooks, x)) \cup G /\ listed' = listed \cup {x}
        BY <1>0, <1>1, <1>7, <2>4, Acts DEF On, At, Hooks
      <3>2. \A h \in G : h[2] = x
        BY HookProduct
      <3> HIDE DEF G
      <3>3. Replaces(hooks', hooks, x, G)
        BY <3>1, <3>2 DEF Replaces
      <3>5. Of(hooks', x) = G
        BY <3>3, HooksReplaced
      <3>4. FullHooks(x, v, TRUE)'
        BY <1>1, <3>1, <3>5 DEF FullHooks, G
      <3> QED
        BY <1>0, <2>4, <2>a, <3>4 DEF On, Itinerary
    <2>5. CASE On({"registry"})
      <3>1. /\ registry'[x].ver = v /\ registry'[x].enabled = TRUE /\ hooks' = hooks /\ listed' = listed
        BY <1>0, <1>3, <1>7, <2>5, Acts DEF On, At, Registry, SetEntry, yml
      <3>2. v \in Version
        BY <1>0, <1>7, <2>5 DEF IsCommand, On, Itinerary
      <3>3. registry'[x] # NoEntry
        BY <3>1, <3>2 DEF NoEntry, Version
      <3>4. FullHooks(x, v, TRUE)' /\ HooksMatch(x)'
        BY <1>1, <2>0, <2>5, <3>1, <3>3 DEF FullHooks, HooksMatch, Installed, On
      <3> QED
        BY <1>0, <2>5, <2>a, <3>4 DEF On, Itinerary
    <2>6. CASE On({"meta"})
      <3>1. hooks' = hooks /\ listed' = listed
        BY <1>0, <2>6, Acts DEF On, At, Meta, yml
      <3>2. FullHooks(x, v, TRUE)'
        BY <1>1, <2>0, <2>6, <3>1 DEF FullHooks, On
      <3> QED
        BY <1>0, <2>6, <2>a, <3>2 DEF On, Itinerary, Between
    <2>7. CASE On({"metahooks"})
      <3>1. /\ listed' = listed /\ registry' = registry
            /\ IF cli.entry.enabled THEN hooks' = hooks ELSE Flags(hooks', hooks, x, FALSE)
        BY <1>0, <1>1, <1>7, <2>7, Acts DEF On, At, MetaHooks, EnableHooks, Flags
      <3>2. /\ registry[x].ver = v /\ registry[x].enabled = cli.entry.enabled
            /\ v \in Version /\ cli.entry.enabled \in BOOLEAN
        BY <1>0, <1>7, <2>7 DEF EntryOK, Runs, On, Itinerary, Between, IsCommand, IsEntry, Entry
      <3>3. registry[x] # NoEntry
        BY <3>2 DEF NoEntry, Version
      <3>4. Of(hooks, x) = HookEvents[x][v] \X {x} \X {TRUE} /\ x \in listed
        BY <1>1, <2>0, <2>7 DEF On, FullHooks
      <3>5. Of(hooks', x) = HookEvents[x][v] \X {x} \X {cli.entry.enabled}
        <4>1. CASE cli.entry.enabled
          BY <3>1, <3>2, <3>4, <4>1
        <4>2. CASE ~cli.entry.enabled
          <5> DEFINE E == HookEvents[x][v]
          <5>b. PICK b : b = FALSE
            OBVIOUS
          <5>c. PICK c : c = TRUE
            OBVIOUS
          <5>0. Flags(hooks', hooks, x, b)
            BY <3>1, <4>2, <5>b
          <5>1. Of(hooks', x) = {<<h[1], x, b>> : h \in Of(hooks, x)}
            BY <5>0, HooksFlagged
          <5>2. Of(hooks', x) = {<<h[1], x, b>> : h \in (E \X {x} \X {c})}
            BY <3>4, <5>1, <5>c
          <5> HIDE DEF E
          <5>3. Of(hooks', x) = E \X {x} \X {b}
            BY <5>2, HookProduct
          <5> QED
            BY <3>2, <4>2, <5>3, <5>b DEF E
        <4> QED
          BY <4>1, <4>2
      <3>6. HooksMatch(x)'
        BY <1>1, <3>1, <3>2, <3>3, <3>4, <3>5 DEF HooksMatch, FullHooks, Installed
      <3> QED
        BY <1>0, <2>7, <2>a, <3>6 DEF On, Itinerary, Between
    <2> QED
      <3>1. Head(cli.todo) \notin {"rbhooks", "flaghooks", "rbregistry", "flag", "priority",
                                   "unagent", "regagent"}
        BY <1>0, <1>7 DEF Itinerary, Between, Last
      <3> QED
        BY <2>1, <2>2, <2>3, <2>4, <2>5, <2>6, <2>7, <3>1 DEF On, WritesYml, WritesRegistry
  <1>8. CASE x = e /\ cli.op \in {"enable", "disable"}
    <2>1. CASE On({"flag"})
      <3>1. /\ hooks' = hooks /\ listed' = listed /\ registry'[x].ver = registry[x].ver
        BY <1>0, <1>3, <1>8, <2>1, Acts DEF On, At, Flag, SetEntry, yml, Entry
      <3>2. registry[x] = cli.before.entry /\ registry[x] # NoEntry /\ HooksMatch(x)
        BY <1>0, <1>8, <2>1 DEF EntryOK, HooksOK, Runs, On
      <3>3. /\ Of(hooks', x) = HookEvents[x][registry'[x].ver] \X {x} \X {cli.before.entry.enabled}
            /\ x \in listed'
        BY <1>1, <3>1, <3>2 DEF HooksMatch, FullHooks, Installed
      <3>4. cli' # Idle /\ Head(cli'.todo) = "flaghooks"
        BY <1>0, <2>1 DEF On, Itinerary, Between
      <3> QED
        BY <1>1, <1>5, <1>8, <3>3, <3>4 DEF HooksOK, Runs, On, FullHooks, Op
    <2>2. CASE On({"flaghooks"})
      <3>1. /\ listed' = listed /\ registry' = registry
            /\ Flags(hooks', hooks, x, cli.op = "enable")
        BY <1>0, <1>1, <1>8, <2>2, Acts DEF On, At, FlagHooks, EnableHooks, Flags
      <3>2. /\ registry[x] # NoEntry /\ registry[x].enabled = (cli.op = "enable")
            /\ FullHooks(x, registry[x].ver, cli.before.entry.enabled)
        BY <1>0, <1>8, <2>2 DEF EntryOK, HooksOK, Runs, On
      <3> DEFINE E == HookEvents[x][registry[x].ver]
                 b == (cli.op = "enable")
      <3>3. Of(hooks', x) = {<<h[1], x, b>> : h \in Of(hooks, x)}
        BY <3>1, HooksFlagged
      <3>4. Of(hooks, x) = E \X {x} \X {cli.before.entry.enabled} /\ x \in listed
        BY <1>1, <3>2 DEF FullHooks
      <3>5. Of(hooks', x) = {<<h[1], x, b>> : h \in (E \X {x} \X {cli.before.entry.enabled})}
        BY <3>3, <3>4
      <3> HIDE DEF E, b
      <3>6. Of(hooks', x) = E \X {x} \X {b}
        BY <3>5, HookProduct
      <3>7. HooksMatch(x)'
        BY <1>1, <3>1, <3>2, <3>4, <3>6 DEF HooksMatch, FullHooks, Installed, E, b
      <3>8. cli' = Idle
        BY <1>0, <2>2 DEF On, Itinerary, Last
      <3> QED
        BY <3>7, <3>8 DEF HooksOK, Runs
    <2> QED
      BY <1>0, <1>4, <1>8, <2>1, <2>2 DEF On, At, StepName, Itinerary, Between, Last
  <1>9. CASE x = e /\ cli.op = "rollback"
    <2>0. /\ x \in cli.before.listed
          /\ cli.before.hooks =
               HookEvents[x][cli.before.entry.ver] \X {x} \X {cli.before.entry.enabled}
      BY <1>0, <1>9 DEF HooksOK, Runs
    <2>1. CASE cli' # Idle
      BY <1>5, <1>9, <2>0, <2>1 DEF HooksOK, Runs, Op
    <2>2. CASE cli' = Idle
      <3>1. At("cleanup")
        BY <1>0, <1>4, <1>9, <2>2 DEF At, StepName, Itinerary, Between, Last
      <3>2. hooks' = hooks /\ listed' = listed /\ registry' = registry
        BY <3>1, Acts DEF Cleanup, yml
      <3>3. HooksOf(x) = cli.before.hooks /\ listed = cli.before.listed
        BY <1>0, <1>9, <3>1 DEF YmlOK, Runs, On, At, Restored
      <3>4. registry[x] = cli.before.entry /\ cli.before.entry # NoEntry
        BY <1>0, <1>9, <3>1 DEF EntryOK, Runs, On, At
      <3>5. HooksMatch(x)'
        BY <1>1, <2>0, <3>2, <3>3, <3>4 DEF HooksMatch, FullHooks, Installed
      <3> QED
        BY <2>2, <3>5 DEF HooksOK, Runs
    <2> QED
      BY <2>1, <2>2
  <1> QED
    BY <1>0, <1>6, <1>7, <1>8, <1>9 DEF IsCommand, Op

\* So does every action.
LEMMA HooksNext ==
  ASSUME TypeOK, TypeOK', EntryOK, EntryOK', YmlOK, YmlOK', [Next]_vars,
         NEW x \in Ext, HooksOK(x)
  PROVE  HooksOK(x)'
  <1>1. CASE Opening
    <2>1. Begins
      BY <1>1, Openings
    <2>2. /\ cli = Idle /\ cli' # Idle
          /\ UNCHANGED <<registry, hooks, listed, damaged>>
      BY <2>1 DEF Begins, Started
    <2>3. HooksMatch(x)' <=> HooksMatch(x)
      BY <2>2 DEF HooksMatch, NoHooks, FullHooks, HooksOf, Installed
    <2>4. x \notin damaged => HooksMatch(x)
      BY <2>2 DEF HooksOK, Runs
    <2>5. ASSUME x \notin damaged, cli'.e = x
          PROVE  /\ Head(cli'.todo) = "copy" => NoHooks(x)'
                 /\ Head(cli'.todo) \in {"copy", "clearbackup", "unregister", "backup", "flag",
                                         "priority", "unagent"}
                 /\ cli'.op = "update" =>
                      /\ x \in cli'.before.listed
                      /\ cli'.before.hooks =
                           HookEvents[x][cli'.before.entry.ver] \X {x} \X {cli'.before.entry.enabled}
                 /\ cli'.op # "rollback"
      <3>1. Head(cli'.todo) = "copy" => registry[x] = NoEntry
        BY <2>1, <2>5 DEF Begins, Started, Installed
      <3>2. Head(cli'.todo) \in {"copy", "clearbackup", "unregister", "backup", "flag",
                                 "priority", "unagent"} /\ cli'.op # "rollback"
        BY <2>1 DEF Begins, Started
      <3>3. cli'.op = "update" => /\ registry[x] # NoEntry /\ cli'.before.entry = registry[x]
                                  /\ cli'.before.listed = listed /\ cli'.before.hooks = HooksOf(x)
        BY <2>1, <2>5 DEF Begins, Started, Installed
      <3>4. Head(cli'.todo) = "copy" => NoHooks(x)'
        BY <2>2, <2>4, <2>5, <3>1 DEF HooksMatch, NoHooks, HooksOf, Installed
      <3> QED
        BY <2>4, <2>5, <3>2, <3>3, <3>4 DEF HooksMatch, FullHooks, Installed
    <2> QED
      BY <2>2, <2>3, <2>4, <2>5 DEF HooksOK, Runs, On
  <1>2. ASSUME NEW e \in Ext, EditConfig(e) PROVE HooksOK(x)'
    BY <1>2 DEF EditConfig, yml, HooksOK, Runs, HooksMatch, NoHooks, FullHooks, HooksOf, Installed
  <1>3. CASE Step
    BY <1>3, HooksStep
  <1>4. CASE Fail
    <2>1. cli # Idle /\ IsCommand(cli) /\ UNCHANGED <<registry, hooks, listed>>
      BY <1>4, Fails DEF TypeOK
    <2>2. HooksMatch(x)' <=> HooksMatch(x)
      BY <2>1 DEF HooksMatch, NoHooks, FullHooks, HooksOf, Installed
    <2>3. CASE cli.op = "update" /\ cli' = Rollback /\ damaged \subseteq damaged'
      <3>1. cli' # Idle /\ cli'.op = "rollback" /\ cli'.e = cli.e /\ cli'.before = cli.before
        BY <2>1, <2>3, RollsBack
      <3> QED
        BY <2>1, <2>2, <2>3, <3>1 DEF HooksOK, Runs, Op
    <2>4. CASE cli.op = "switch" /\ Go /\ damaged' = damaged
      <3>1. cli' = Idle \/ cli'.op = "switch"
        BY <2>1, <2>4, Goes DEF Ended, Onward
      <3> QED
        BY <2>1, <2>2, <2>4, <3>1 DEF HooksOK, Runs, Op
    <2>5. CASE cli' = Idle /\ damaged' = damaged \cup {cli.e}
      BY <2>1, <2>2, <2>5 DEF HooksOK, Runs
    <2> QED
      BY <1>4, <2>3, <2>4, <2>5, Fails
  <1>5. CASE Interrupt
    <2>1. cli # Idle /\ cli' = Idle
      BY <1>5 DEF Interrupt
    <2>2. CASE damaged' = Ext
      BY <2>2 DEF HooksOK
    <2>3. CASE /\ damaged' = damaged \cup (IF cli.op = "switch" THEN Ext ELSE {cli.e})
               /\ UNCHANGED <<registry, yml>>
      <3>1. HooksMatch(x)' <=> HooksMatch(x)
        BY <2>3 DEF HooksMatch, NoHooks, FullHooks, HooksOf, Installed, yml
      <3> QED
        BY <2>1, <2>3, <3>1 DEF HooksOK, Runs
    <2> QED
      BY <1>5, <2>2, <2>3 DEF Interrupt
  <1>6. CASE UNCHANGED vars
    BY <1>6 DEF vars, yml, history, HooksOK, Runs, On, HooksMatch, NoHooks, FullHooks, HooksOf, Installed
  <1> QED
    BY <1>1, <1>2, <1>3, <1>4, <1>5, <1>6 DEF Next, Opening

-----------------------------------------------------------------------------
(* The directory and the configuration. *)

\* What a step does to the directory and its two backups.
LEMMA TreeStep ==
  ASSUME TypeOK, Step
  PROVE  /\ \A x \in Ext \ {cli.e} : dir'[x] = dir[x] /\ backup'[x] = backup[x] /\ upd'[x] = upd[x]
         /\ On({"rmdir"}) =>
              /\ dir'[cli.e] = IF cli.keep THEN [dir[cli.e] EXCEPT !.ver = 0] ELSE NoDir
              /\ backup'[cli.e] = IF cli.keep \/ dir[cli.e].conf = 0 THEN backup[cli.e]
                                  ELSE dir[cli.e].conf
         /\ On({"copy"}) => dir'[cli.e].ver = cli.v /\ dir'[cli.e].conf = 0
         /\ On({"config"}) =>
              /\ dir'[cli.e].ver = dir[cli.e].ver
              /\ dir'[cli.e].conf = IF backup[cli.e] # 0 THEN backup[cli.e] ELSE dir[cli.e].conf
         /\ On({"restoreconf"}) =>
              /\ dir'[cli.e].ver = dir[cli.e].ver
              /\ dir'[cli.e].conf = IF upd[cli.e].conf # 0 THEN upd[cli.e].conf ELSE dir[cli.e].conf
         /\ On({"rbdir"}) =>
              dir'[cli.e] = IF upd[cli.e].has THEN upd[cli.e].copy ELSE dir[cli.e]
         /\ On({"backup"}) => IF dir[cli.e] = NoDir THEN upd'[cli.e] = upd[cli.e]
              ELSE /\ upd'[cli.e].has /\ upd'[cli.e].copy = dir[cli.e]
                   /\ upd'[cli.e].conf = IF dir[cli.e].conf # 0 THEN dir[cli.e].conf
                                         ELSE upd[cli.e].conf
         /\ On({"cleanup"}) => upd'[cli.e] = NoUpd
  <1> DEFINE e == cli.e
  <1>0. cli # Idle /\ e \in Ext
    BY StepMoves
  <1>1. /\ dir \in [Ext -> DirState] /\ dir[e] \in DirState /\ backup \in [Ext -> Nat]
        /\ upd \in [Ext -> UpdState]
    BY <1>0 DEF TypeOK
  <1>2. CASE On({"clearbackup"})
    BY <1>0, <1>1, <1>2, Acts DEF On, At, ClearBackup
  <1>3. CASE On({"rmdir"})
    BY <1>0, <1>1, <1>3, Acts DEF On, At, RemoveDir, SetDir
  <1>4. CASE On({"copy"})
    BY <1>0, <1>1, <1>4, Acts DEF On, At, Copy, SetDir
  <1>5. CASE On({"config"})
    BY <1>0, <1>1, <1>5, Acts DEF On, At, Config, DirState
  <1>6. CASE On({"restoreconf"})
    BY <1>0, <1>1, <1>6, Acts DEF On, At, RestoreConf, DirState
  <1>7. CASE On({"rbdir"})
    BY <1>0, <1>1, <1>7, Acts DEF On, At, RollbackDir, SetDir
  <1>8. CASE On({"backup"})
    BY <1>0, <1>1, <1>8, Acts DEF On, At, Backup
  <1>9. CASE On({"cleanup"})
    BY <1>0, <1>1, <1>9, Acts DEF On, At, Cleanup
  <1>10. CASE ~On({"clearbackup", "rmdir", "copy", "config", "restoreconf", "rbdir", "backup",
                   "cleanup"})
    BY <1>10, Touches DEF On, Untouched
  <1> QED
    BY <1>2, <1>3, <1>4, <1>5, <1>6, <1>7, <1>8, <1>9, <1>10 DEF On

\* An extension that no add, remove, update or rollback works on keeps its version,
\* its directory and its backups.
LEMMA VersionKept ==
  ASSUME TypeOK, TypeOK', Step, NEW x \in Ext, ~Writing(x)
  PROVE  /\ registry'[x].ver = registry[x].ver
         /\ Installed(x)' <=> Installed(x)
         /\ dir'[x] = dir[x] /\ backup'[x] = backup[x] /\ upd'[x] = upd[x] /\ ~Writing(x)'
  <1>0. cli # Idle /\ IsCommand(cli) /\ cli.e \in Ext /\ Itinerary /\ (Ended \/ Carried)
    BY StepMoves
  <1>1. IsEntry(registry[x]) /\ IsEntry(registry'[x]) /\ registry[x] \in Entry
        /\ registry \in [Ext -> Entry]
    BY DEF TypeOK
  <1>2. registry'[x].ver = registry[x].ver
    <2>1. CASE Aside(x)
      BY <2>1, EntryAside
    <2>2. CASE ~Aside(x)
      <3>1. x = cli.e /\ cli.op \in {"enable", "disable", "priority"}
        BY <1>0, <2>2 DEF Aside, Writing, Runs, IsCommand, Op
      <3>2. CASE On({"flag"})
        BY <1>0, <1>1, <3>1, <3>2, Acts DEF On, At, Flag, SetEntry, Entry
      <3>3. CASE On({"priority"})
        BY <1>0, <1>1, <3>1, <3>3, Acts DEF On, At, PriorityStep, SetEntry, Entry
      <3>4. CASE ~On({"flag", "priority"})
        BY <1>0, <3>1, <3>4, Touches DEF Untouched, On, WritesRegistry, Itinerary, Between, Last
      <3> QED
        BY <3>2, <3>3, <3>4 DEF On
    <2> QED
      BY <2>1, <2>2
  <1>3. dir'[x] = dir[x] /\ backup'[x] = backup[x] /\ upd'[x] = upd[x]
    <2>1. CASE x # cli.e
      BY <2>1, TreeStep
    <2>2. CASE x = cli.e
      <3>1. cli.op \in {"enable", "disable", "priority", "switch"}
        BY <1>0, <2>2 DEF Writing, Runs, IsCommand, Op
      <3> QED
        BY <1>0, <3>1, Touches DEF Untouched, On, Itinerary, Between, Last
    <2> QED
      BY <2>1, <2>2
  <1>4. ~Writing(x)'
    BY <1>0 DEF Writing, Runs, Ended, Carried
  <1>5. Installed(x)' <=> Installed(x)
    BY <1>1, <1>2, InstalledVer DEF Installed
  <1> QED
    BY <1>2, <1>3, <1>4, <1>5

\* Each step leaves the directory and its two backups as the next one expects them.
LEMMA DirStep ==
  ASSUME TypeOK, TypeOK', EntryOK, EntryOK', Step, NEW x \in Ext, DirOK(x)
  PROVE  DirOK(x)'
  <1>0. cli # Idle /\ IsCommand(cli) /\ Itinerary /\ (Ended \/ Carried)
    BY StepMoves
  <1>1. damaged' = damaged /\ latest' = latest /\ Untouched
    BY Touches DEF Untouched
  <1>2. \E s \in StepName : At(s)
    BY Acts
  <1>3. cli' = Idle \/ (/\ cli'.op = cli.op /\ cli'.e = cli.e /\ cli'.v = cli.v
                        /\ cli'.before = cli.before /\ cli'.keep = cli.keep)
    BY <1>0 DEF Ended, Carried
  <1>4. dir[x] \in DirState /\ dir'[x] \in DirState /\ backup[x] \in Nat /\ upd[x] \in UpdState
        /\ upd'[x] \in UpdState /\ latest[x] \in Nat /\ IsEntry(registry[x])
    BY DEF TypeOK
  <1> SUFFICES ASSUME x \notin damaged PROVE DirOK(x)'
    BY <1>1 DEF DirOK
  <1>5. CASE ~Writing(x)
    <2>1. /\ registry'[x].ver = registry[x].ver
          /\ Installed(x)' <=> Installed(x)
          /\ dir'[x] = dir[x] /\ upd'[x] = upd[x] /\ ~Writing(x)'
      BY <1>5, VersionKept
    <2> QED
      BY <1>1, <1>5, <2>1 DEF DirOK, Current
  <1>6. CASE Writing(x) /\ cli.op = "add"
    <2>0. x = cli.e /\ ~cli.keep /\ upd[x] = NoUpd
          /\ (cli.before.entry = NoEntry => latest[x] = 0)
          /\ (cli.before.entry # NoEntry =>
                cli.before.dir.ver = cli.before.entry.ver /\ Current(x, cli.before.dir.conf))
      BY <1>6 DEF DirOK, Writing
    <2>1. upd' = upd
      BY <1>0, <1>1, <1>6 DEF Untouched, On, Itinerary, Between, Last
    <2>2. CASE cli' = Idle
      <3>1. At("registry")
        BY <1>0, <1>2, <1>6, <2>2 DEF At, StepName, Itinerary, Between, Last
      <3>2. registry'[x].ver = cli.v /\ dir' = dir
        BY <1>0, <1>1, <2>0, <3>1, Acts DEF Registry, SetEntry, TypeOK, Untouched, On, At
      <3>3. dir[x].ver = cli.v /\ Current(x, dir[x].conf)
        BY <1>0, <1>6, <3>1 DEF DirOK, On, At
      <3> QED
        BY <1>1, <2>0, <2>1, <2>2, <3>2, <3>3 DEF DirOK, Writing, Runs, Current
    <2>3. CASE cli' # Idle /\ On({"rmdir"})
      <3>1. /\ dir[x] = cli.before.dir /\ Head(cli'.todo) = "unhook"
            /\ backup'[x] = IF dir[x].conf = 0 THEN backup[x] ELSE dir[x].conf
        BY <1>0, <1>6, <2>0, <2>3, TreeStep DEF DirOK, On, Itinerary, Between
      <3>2. Current(x, backup[x])'
        BY <1>1, <1>4, <2>0, <3>1 DEF Current
      <3> QED
        BY <1>1, <1>3, <1>6, <2>0, <2>1, <2>3, <3>1, <3>2
           DEF DirOK, Writing, Runs, On, Current
    <2>4. CASE cli' # Idle /\ On({"copy"})
      <3>1. dir'[x].ver = cli.v /\ Head(cli'.todo) = "commands" /\ backup' = backup
        BY <1>0, <1>1, <1>6, <2>0, <2>4, TreeStep DEF Untouched, On, Itinerary, Between
      <3> QED
        BY <1>1, <1>3, <1>6, <2>0, <2>1, <2>4, <3>1 DEF DirOK, Writing, Runs, On, Current
    <2>5. CASE cli' # Idle /\ On({"config"})
      <3>1. /\ dir'[x].ver = cli.v /\ Head(cli'.todo) = "registry"
            /\ dir'[x].conf = IF backup[x] # 0 THEN backup[x] ELSE dir[x].conf
            /\ Current(x, backup[x])
        BY <1>0, <1>6, <2>0, <2>5, TreeStep DEF DirOK, On, Itinerary, Between
      <3>2. Current(x, dir[x].conf)'
        BY <1>1, <3>1 DEF Current
      <3> QED
        BY <1>1, <1>3, <1>6, <2>0, <2>1, <2>5, <3>1, <3>2 DEF DirOK, Writing, Runs, On, Current
    <2>6. CASE cli' # Idle /\ ~On({"rmdir", "copy", "config"})
      <3>1. dir' = dir
        BY <1>0, <1>1, <1>6, <2>6 DEF Untouched, On, Itinerary, Between, Last
      <3>2. On({"clearbackup"}) \/ backup' = backup
        BY <1>1, <2>6 DEF Untouched, On
      <3> QED
        BY <1>0, <1>1, <1>2, <1>3, <1>6, <2>0, <2>1, <2>6, <3>1, <3>2
           DEF DirOK, Writing, Runs, On, At, StepName, Itinerary, Between, Last, Current
    <2> QED
      BY <2>2, <2>3, <2>4, <2>5, <2>6 DEF On
  <1>7. CASE Writing(x) /\ cli.op = "remove"
    <2>0. x = cli.e /\ upd[x] = NoUpd
          /\ (cli.before.entry # NoEntry =>
                cli.before.dir.ver = cli.before.entry.ver /\ Current(x, cli.before.dir.conf))
      BY <1>7 DEF DirOK, Writing
    <2>1. upd' = upd
      BY <1>0, <1>1, <1>7 DEF Untouched, On, Itinerary, Between, Last
    <2>2. CASE cli' = Idle
      <3>1. At("unregistry")
        BY <1>0, <1>2, <1>7, <2>2 DEF At, StepName, Itinerary, Between, Last
      <3>2. registry'[x] = NoEntry
        BY <1>0, <2>0, <3>1, Acts DEF Unregistry, SetEntry, TypeOK
      <3> QED
        BY <1>1, <2>0, <2>1, <2>2, <3>2 DEF DirOK, Writing, Runs, Installed
    <2>3. CASE cli' # Idle /\ On({"rmdir"})
      <3>1. Head(cli'.todo) = "unhook"
        BY <1>0, <2>3 DEF On, Itinerary, Between
      <3> QED
        BY <1>1, <1>3, <1>7, <2>0, <2>1, <2>3, <3>1 DEF DirOK, Writing, Runs, On, Current
    <2>4. CASE cli' # Idle /\ ~On({"rmdir"})
      <3>1. dir' = dir
        BY <1>0, <1>1, <1>7, <2>4 DEF Untouched, On, Itinerary, Between, Last
      <3> QED
        BY <1>0, <1>1, <1>2, <1>3, <1>7, <2>0, <2>1, <2>4, <3>1
           DEF DirOK, Writing, Runs, On, At, StepName, Itinerary, Between, Last, Current
    <2> QED
      BY <2>2, <2>3, <2>4
  <1>8. CASE Writing(x) /\ cli.op = "update"
    <2>0. /\ x = cli.e /\ cli.before.entry # NoEntry
          /\ cli.before.dir.ver = cli.before.entry.ver /\ Current(x, cli.before.dir.conf)
          /\ On({"backup"}) => upd[x] = NoUpd
          /\ ~On({"backup"}) =>
               upd[x].has /\ upd[x].copy = cli.before.dir /\ Current(x, upd[x].conf)
      BY <1>8 DEF DirOK, Writing, EntryOK, Runs
    <2>2. CASE cli' = Idle
      <3>1. At("cleanup")
        BY <1>0, <1>2, <1>8, <2>2 DEF At, StepName, Itinerary, Between, Last
      <3>2. registry' = registry /\ dir' = dir /\ upd'[x] = NoUpd
        BY <1>1, <2>0, <3>1, TreeStep DEF Untouched, On, At, WritesRegistry
      <3>3. dir[x].ver = cli.v /\ Current(x, dir[x].conf) /\ registry[x].ver = cli.v
        BY <1>0, <1>8, <2>0, <3>1 DEF DirOK, On, At, EntryOK, Runs
      <3> QED
        BY <1>1, <2>2, <3>2, <3>3 DEF DirOK, Writing, Runs, Current
    <2>3. CASE cli' # Idle /\ On({"backup"})
      <3>1. dir[x] = cli.before.dir /\ dir' = dir /\ Head(cli'.todo) = "download"
        BY <1>0, <1>1, <1>8, <2>3 DEF DirOK, Untouched, On, Itinerary, Between
      <3>2. dir[x].ver # 0
        BY <1>0, <2>0, <3>1, InstalledVer DEF IsCommand, Version
      <3>3. /\ upd'[x].has /\ upd'[x].copy = dir[x]
            /\ upd'[x].conf = IF dir[x].conf # 0 THEN dir[x].conf ELSE upd[x].conf
        BY <2>0, <2>3, <3>2, TreeStep DEF NoDir
      <3>4. Current(x, upd[x].conf)'
        BY <1>1, <2>0, <3>1, <3>3 DEF Current
      <3> QED
        BY <1>1, <1>3, <1>8, <2>0, <2>3, <3>1, <3>3, <3>4 DEF DirOK, Writing, Runs, On, Current
    <2>4. CASE cli' # Idle /\ On({"rmdir"})
      <3>1. Head(cli'.todo) = "unhook" /\ upd' = upd
        BY <1>0, <1>1, <2>4 DEF On, Itinerary, Between, Untouched
      <3> QED
        BY <1>1, <1>3, <1>8, <2>0, <2>4, <3>1 DEF DirOK, Writing, Runs, On, Current
    <2>5. CASE cli' # Idle /\ On({"copy"})
      <3>1. Head(cli'.todo) = "commands" /\ upd' = upd /\ dir'[x].ver = cli.v
        BY <1>0, <1>1, <2>0, <2>5, TreeStep DEF On, Itinerary, Between, Untouched
      <3> QED
        BY <1>1, <1>3, <1>8, <2>0, <2>5, <3>1 DEF DirOK, Writing, Runs, On, Current
    <2>6. CASE cli' # Idle /\ On({"restoreconf"})
      <3>1. /\ Head(cli'.todo) = "meta" /\ upd' = upd /\ dir'[x].ver = cli.v
            /\ dir'[x].conf = IF upd[x].conf # 0 THEN upd[x].conf ELSE dir[x].conf
        BY <1>0, <1>1, <1>8, <2>0, <2>6, TreeStep DEF DirOK, On, Itinerary, Between, Untouched
      <3>2. Current(x, dir[x].conf)' /\ upd[x].has /\ upd[x].copy = cli.before.dir
            /\ Current(x, upd[x].conf)
        BY <1>1, <2>0, <2>6, <3>1 DEF Current, On
      <3> QED
        BY <1>1, <1>3, <1>8, <2>0, <2>6, <3>1, <3>2 DEF DirOK, Writing, Runs, On, Current
    <2>7. CASE cli' # Idle /\ ~On({"backup", "rmdir", "copy", "restoreconf"})
      <3>1. dir' = dir /\ upd' = upd
        BY <1>0, <1>1, <1>8, <2>7 DEF Untouched, On, Itinerary, Between, Last
      <3> QED
        BY <1>0, <1>1, <1>2, <1>3, <1>8, <2>0, <2>7, <3>1
           DEF DirOK, Writing, Runs, On, At, StepName, Itinerary, Between, Last, Current
    <2> QED
      BY <2>2, <2>3, <2>4, <2>5, <2>6, <2>7 DEF On
  <1>9. CASE Writing(x) /\ cli.op = "rollback"
    <2>0. /\ x = cli.e /\ cli.before.entry # NoEntry
          /\ cli.before.dir.ver = cli.before.entry.ver /\ Current(x, cli.before.dir.conf)
          /\ upd[x].has => upd[x].copy = cli.before.dir
          /\ ~upd[x].has \/ ~On({"rbdir"}) => dir[x] = cli.before.dir
      BY <1>9 DEF DirOK, Writing, EntryOK, Runs
    <2>2. CASE cli' = Idle
      <3>1. At("cleanup")
        BY <1>0, <1>2, <1>9, <2>2 DEF At, StepName, Itinerary, Between, Last
      <3>2. registry' = registry /\ dir' = dir /\ upd'[x] = NoUpd
        BY <1>1, <2>0, <3>1, TreeStep DEF Untouched, On, At, WritesRegistry
      <3>3. dir[x] = cli.before.dir /\ registry[x] = cli.before.entry
        BY <1>0, <1>9, <2>0, <3>1 DEF On, At, EntryOK, Runs
      <3> QED
        BY <1>1, <2>0, <2>2, <3>2, <3>3 DEF DirOK, Writing, Runs, Current
    <2>3. CASE cli' # Idle
      <3>1. upd' = upd
        BY <1>0, <1>1, <1>9, <2>3 DEF Untouched, On, Itinerary, Between, Last
      <3>2. dir'[x] = cli.before.dir
        <4>1. CASE On({"rbdir"})
          BY <2>0, <4>1, TreeStep
        <4>2. CASE ~On({"rbdir"})
          BY <1>0, <1>1, <1>9, <2>0, <4>2 DEF Untouched, On, Itinerary, Between, Last
        <4> QED
          BY <4>1, <4>2
      <3> QED
        BY <1>1, <1>3, <1>9, <2>0, <2>3, <3>1, <3>2 DEF DirOK, Writing, Runs, On, Current
    <2> QED
      BY <2>2, <2>3
  <1> QED
    BY <1>5, <1>6, <1>7, <1>8, <1>9 DEF Writing, Runs

\* A step that raises leaves an extension that its command does not write as it was.
LEMMA FailedTree ==
  ASSUME TypeOK, Fail, NEW x \in Ext, ~Writing(x)
  PROVE  /\ registry' = registry /\ latest'[x] = latest[x]
         /\ dir'[x] = dir[x] /\ backup'[x] = backup[x] /\ upd'[x] = upd[x] /\ ~Writing(x)'
  <1>0. cli # Idle /\ IsCommand(cli) /\ cli.e \in Ext /\ cli.op \in Op
    BY Fails DEF TypeOK, IsCommand
  <1>1. dir'[x] = dir[x] /\ backup'[x] = backup[x] /\ upd'[x] = upd[x]
    BY <1>0, Fails, LeftOver
  <1>2. latest'[x] = latest[x]
    BY <1>0, Fails DEF Writing, Runs, TypeOK
  <1>3. registry' = registry
    BY Fails
  <1>4. ~Writing(x)'
    <2>1. CASE cli.op = "update" /\ cli' = Rollback
      BY <1>0, <2>1, RollsBack DEF Writing, Runs
    <2>2. CASE cli.op = "switch" /\ Go
      BY <1>0, <2>2, Goes DEF Ended, Onward, Writing, Runs
    <2>3. CASE cli' = Idle
      BY <2>3 DEF Writing, Runs
    <2> QED
      BY <2>1, <2>2, <2>3, Fails
  <1> QED
    BY <1>1, <1>2, <1>3, <1>4

\* So does every action: an update that fails has the copy its rollback restores.
LEMMA DirNext ==
  ASSUME TypeOK, TypeOK', EntryOK, EntryOK', [Next]_vars, NEW x \in Ext, DirOK(x)
  PROVE  DirOK(x)'
  <1>1. CASE Opening
    <2>1. Begins
      BY <1>1, Openings
    <2>2. cli = Idle /\ cli' # Idle /\ UNCHANGED <<registry, dir, backup, upd, damaged>>
      BY <2>1 DEF Begins, Started
    <2> SUFFICES ASSUME x \notin damaged PROVE DirOK(x)'
      BY <2>2 DEF DirOK
    <2>3. /\ upd[x] = NoUpd
          /\ Installed(x) => dir[x].ver = registry[x].ver /\ Current(x, dir[x].conf)
      BY <2>2 DEF DirOK, Writing, Runs
    <2>4. CASE cli'.e # x
      <3>1. latest'[x] = latest[x]
        BY <2>1, <2>4 DEF Begins, Started, TypeOK
      <3> QED
        BY <2>2, <2>3, <2>4, <3>1 DEF DirOK, Writing, Current, Installed
    <2>5. CASE cli'.e = x
      <3>1. /\ cli'.before.entry = registry[x] /\ cli'.before.dir = dir[x]
            /\ \/ latest'[x] = latest[x] /\ Head(cli'.todo) # "copy"
               \/ latest'[x] = 0 /\ ~Installed(x) /\ Head(cli'.todo) = "copy"
        BY <2>1, <2>5 DEF Begins, Started, TypeOK
      <3>2. /\ Head(cli'.todo) \in {"copy", "clearbackup", "unregister", "backup", "flag",
                                    "priority", "unagent"}
            /\ cli'.op # "rollback" /\ (cli'.op = "update" => Head(cli'.todo) = "backup")
            /\ cli'.op = "add" => ~cli'.keep /\ Head(cli'.todo) \in {"copy", "clearbackup"}
            /\ cli'.op = "add" /\ ~Installed(x) => Head(cli'.todo) = "copy"
        BY <2>1, <2>5 DEF Begins, Started
      <3> QED
        BY <2>2, <2>3, <2>5, <3>1, <3>2 DEF DirOK, Writing, Runs, Current, Installed, On
    <2> QED
      BY <2>4, <2>5
  <1>2. ASSUME NEW e \in Ext, EditConfig(e) PROVE DirOK(x)'
    <2>1. /\ cli = Idle /\ cli' = cli /\ damaged' = damaged /\ registry' = registry
          /\ upd' = upd /\ backup' = backup
      BY <1>2 DEF EditConfig
    <2>2. dir'[x].ver = dir[x].ver
      BY <1>2 DEF EditConfig, TypeOK, DirState
    <2>3. IF x = e THEN dir'[x].conf = latest'[x]
          ELSE dir'[x].conf = dir[x].conf /\ latest'[x] = latest[x]
      BY <1>2 DEF EditConfig, TypeOK, DirState
    <2> QED
      BY <2>1, <2>2, <2>3 DEF DirOK, Writing, Runs, Current, Installed
  <1>3. CASE Step
    BY <1>3, DirStep
  <1>4. CASE Fail
    <2>1. cli # Idle /\ IsCommand(cli) /\ cli.e \in Ext
      BY <1>4, Fails DEF TypeOK, IsCommand
    <2>2. CASE ~Writing(x)
      <3>1. /\ registry' = registry /\ latest'[x] = latest[x] /\ upd'[x] = upd[x]
            /\ dir'[x] = dir[x] /\ ~Writing(x)'
        BY <1>4, <2>2, FailedTree
      <3>2. x \notin damaged' => x \notin damaged
        BY <1>4, Fails
      <3> QED
        BY <2>2, <3>1, <3>2 DEF DirOK, Current, Installed
    <2>3. CASE /\ Writing(x) /\ cli.op = "update" /\ cli' = Rollback /\ Partly
               /\ UNCHANGED <<damaged, latest>>
      <3>1. /\ cli' # Idle /\ cli'.op = "rollback" /\ cli'.e = cli.e /\ cli'.before = cli.before
            /\ Head(cli'.todo) = "rbdir"
        BY <2>1, <2>3, RollsBack
      <3>2. /\ registry' = registry /\ latest' = latest
            /\ On({"backup"}) => /\ dir' = dir
                                 /\ \/ upd' = upd
                                    \/ upd'[cli.e].has /\ upd'[cli.e].copy = dir[cli.e]
            /\ ~On({"backup"}) => upd' = upd
        BY <1>4, <2>1, <2>3, Fails, PartlyDone DEF On, At
      <3>3. x = cli.e /\ cli.before.entry # NoEntry
        BY <2>3 DEF Writing, EntryOK, Runs
      <3> SUFFICES ASSUME x \notin damaged PROVE DirOK(x)'
        BY <2>3 DEF DirOK
      <3>4. /\ cli.before.dir.ver = cli.before.entry.ver /\ Current(x, cli.before.dir.conf)
            /\ On({"backup"}) => upd[x] = NoUpd /\ dir[x] = cli.before.dir
            /\ ~On({"backup"}) => upd[x].has /\ upd[x].copy = cli.before.dir
        BY <2>3, <3>3 DEF DirOK, On
      <3>5. \/ ~upd'[x].has /\ dir'[x] = cli.before.dir
            \/ upd'[x].has /\ upd'[x].copy = cli.before.dir
        BY <3>2, <3>3, <3>4 DEF NoUpd
      <3> QED
        BY <3>1, <3>2, <3>3, <3>4, <3>5 DEF DirOK, Writing, Runs, On, Current
    <2>4. CASE Writing(x) /\ damaged' = damaged \cup {cli.e}
      BY <2>4 DEF DirOK, Writing
    <2> QED
      BY <1>4, <2>2, <2>3, <2>4, Fails DEF Writing, Runs
  <1>5. CASE Interrupt
    <2>1. cli # Idle /\ cli' = Idle /\ latest' = latest
      BY <1>5 DEF Interrupt
    <2>2. CASE damaged' = Ext
      BY <2>2 DEF DirOK
    <2>3. CASE /\ damaged' = damaged \cup (IF cli.op = "switch" THEN Ext ELSE {cli.e})
               /\ UNCHANGED registry /\ (Partly \/ Torn)
      <3>1. CASE x = cli.e \/ cli.op = "switch"
        BY <2>3, <3>1 DEF DirOK
      <3>2. CASE x # cli.e
        <4>1. dir'[x] = dir[x] /\ upd'[x] = upd[x] /\ ~Writing(x)
          BY <2>1, <2>3, <3>2, LeftOver DEF Writing
        <4> QED
          BY <2>1, <2>3, <4>1 DEF DirOK, Writing, Runs, Current, Installed
      <3> QED
        BY <3>1, <3>2
    <2> QED
      BY <1>5, <2>2, <2>3 DEF Interrupt
  <1>6. CASE UNCHANGED vars
    BY <1>6 DEF vars, tree, history, DirOK, Writing, Runs, On, Current, Installed
  <1> QED
    BY <1>1, <1>2, <1>3, <1>4, <1>5, <1>6 DEF Next, Opening

\* While a command writes, one of the three places has the newest config: the
\* directory until it is removed, then the backup of the remove or of the update.
LEMMA ConfigHeld ==
  ASSUME TypeOK, EntryOK, cli # Idle, NEW x \in Ext, DirOK(x), Writing(x), x \notin damaged
  PROVE  /\ On({"clearbackup", "backup", "download", "unregister", "unskill", "rmdir"}) =>
              Current(x, dir[x].conf)
         /\ cli.op = "add" /\ On({"unhook", "unregistry", "copy", "commands", "skills", "hooks",
                                  "config"}) => Current(x, backup[x])
         /\ cli.op = "update" /\ ~On({"backup"}) => Current(x, upd[x].conf)
         /\ cli.op = "update" /\ On({"cleanup"}) => Current(x, dir[x].conf)
         /\ cli.op = "rollback" /\ (~upd[x].has \/ ~On({"rbdir"})) => Current(x, dir[x].conf)
         /\ cli.op = "rollback" /\ upd[x].has => Current(x, upd[x].copy.conf)
  <1>0. IsCommand(cli) /\ x = cli.e /\ cli.op \in {"add", "remove", "update", "rollback"}
    BY DEF TypeOK, Writing, Runs
  <1>1. cli.before.entry # NoEntry => Current(x, cli.before.dir.conf)
    BY DEF DirOK
  <1>2. cli.op \in {"remove", "update", "rollback"} => cli.before.entry # NoEntry
    BY <1>0 DEF EntryOK, Runs
  <1>3. cli.op = "add" /\ cli.before.entry = NoEntry => latest[x] = 0
    BY DEF DirOK
  <1>4. Current(x, cli.before.dir.conf)
    BY <1>0, <1>1, <1>2, <1>3 DEF Current
  <1>5. cli.op # "rollback" /\ On({"clearbackup", "backup", "download", "unregister", "unskill", "rmdir"}) =>
              dir[x] = cli.before.dir
    BY <1>0 DEF DirOK
  <1>6. On({"clearbackup", "backup", "download", "unregister", "unskill", "rmdir"})
          => cli.op # "rollback"
    BY StepTells DEF On
  <1> QED
    BY <1>0, <1>4, <1>5, <1>6 DEF DirOK, On

\* No step takes the newest config from the last place that has it.
LEMMA ConfigStep ==
  ASSUME TypeOK, TypeOK', EntryOK, EntryOK', Step, NEW x \in Ext, DirOK(x), DirOK(x)',
         ConfigOK(x)
  PROVE  ConfigOK(x)'
  <1>0. cli # Idle /\ IsCommand(cli) /\ cli.e \in Ext /\ Itinerary /\ (Ended \/ Carried)
    BY StepMoves
  <1>1. damaged' = damaged /\ latest' = latest /\ Untouched
    BY Touches DEF Untouched
  <1>2. CASE ~Writing(x)
    <2>1. dir'[x] = dir[x] /\ backup'[x] = backup[x] /\ upd'[x] = upd[x] /\ ~Writing(x)'
      BY <1>2, VersionKept
    <2> QED
      BY <1>1, <2>1 DEF ConfigOK
  <1>3. CASE Writing(x) /\ (x \in damaged \/ latest[x] = 0)
    <2>1. latest[x] = 0
      BY <1>3 DEF ConfigOK
    <2> QED
      BY <1>1, <2>1 DEF ConfigOK
  <1>4. CASE Writing(x) /\ x \notin damaged /\ latest[x] # 0
    <2> SUFFICES latest[x] \in {dir'[x].conf, backup'[x], upd'[x].copy.conf, upd'[x].conf}
      BY <1>1, <1>4 DEF ConfigOK
    <2>0. x = cli.e
      BY <1>4 DEF Writing
    <2>1. /\ On({"clearbackup", "backup", "download", "unregister", "unskill", "rmdir"}) =>
               dir[x].conf = latest[x]
          /\ cli.op = "add" /\ On({"unhook", "unregistry", "copy", "commands", "skills", "hooks",
                                  "config"}) => backup[x] = latest[x]
          /\ cli.op = "update" /\ ~On({"backup"}) => upd[x].conf = latest[x]
          /\ cli.op = "update" /\ On({"cleanup"}) => dir[x].conf = latest[x]
          /\ cli.op = "rollback" /\ (~upd[x].has \/ ~On({"rbdir"})) => dir[x].conf = latest[x]
          /\ cli.op = "rollback" /\ upd[x].has => upd[x].copy.conf = latest[x]
      BY <1>0, <1>4, ConfigHeld DEF Current
    <2>2. CASE On({"clearbackup", "backup"})
      <3>1. dir' = dir
        BY <1>1, <2>2 DEF Untouched, On
      <3> QED
        BY <2>1, <2>2, <3>1 DEF On
    <2>3. CASE On({"rmdir"})
      <3>1. dir[x].conf = latest[x] /\ dir[x] \in DirState
        BY <2>1, <2>3 DEF On, TypeOK
      <3>2. /\ dir'[x] = IF cli.keep THEN [dir[x] EXCEPT !.ver = 0] ELSE NoDir
            /\ backup'[x] = IF cli.keep \/ dir[x].conf = 0 THEN backup[x] ELSE dir[x].conf
        BY <2>0, <2>3, TreeStep
      <3> QED
        BY <1>4, <3>1, <3>2 DEF DirState
    <2>4. CASE On({"copy"})
      <3>1. backup' = backup /\ upd' = upd /\ cli.op \in {"add", "update"}
        BY <1>0, <1>1, <2>4 DEF Untouched, On, Itinerary, Between
      <3> QED
        BY <2>1, <2>4, <3>1 DEF On
    <2>5. CASE On({"config"})
      <3>1. /\ cli.op = "add"
            /\ dir'[x].conf = IF backup[x] # 0 THEN backup[x] ELSE dir[x].conf
        BY <1>0, <2>0, <2>5, TreeStep DEF On, Itinerary, Between
      <3> QED
        BY <1>4, <2>1, <2>5, <3>1 DEF On
    <2>6. CASE On({"restoreconf"})
      <3>1. upd' = upd /\ cli.op = "update"
        BY <1>0, <1>1, <2>6 DEF Untouched, On, Itinerary, Between
      <3> QED
        BY <2>1, <2>6, <3>1 DEF On
    <2>7. CASE On({"rbdir"})
      <3>1. /\ cli.op = "rollback"
            /\ dir'[x] = IF upd[x].has THEN upd[x].copy ELSE dir[x]
        BY <1>0, <2>0, <2>7, TreeStep DEF On, Itinerary, Between
      <3> QED
        BY <2>1, <2>7, <3>1 DEF On
    <2>8. CASE On({"cleanup"})
      <3>1. dir' = dir /\ cli.op \in {"update", "rollback"}
        BY <1>0, <1>1, <2>8 DEF Untouched, On, Itinerary, Last
      <3> QED
        BY <2>1, <2>8, <3>1 DEF On
    <2>9. CASE ~On({"clearbackup", "backup", "rmdir", "copy", "config", "restoreconf", "rbdir",
                    "cleanup"})
      <3>1. dir' = dir /\ backup' = backup /\ upd' = upd
        BY <1>1, <2>9 DEF Untouched, On
      <3> QED
        BY <1>4, <3>1 DEF ConfigOK
    <2> QED
      BY <2>2, <2>3, <2>4, <2>5, <2>6, <2>7, <2>8, <2>9 DEF On
  <1> QED
    BY <1>2, <1>3, <1>4

\* Nor does a step that raises or is killed half way, torn backups included.
LEMMA ConfigLeft ==
  ASSUME TypeOK, EntryOK, cli # Idle, Partly \/ Torn, NEW x \in Ext, DirOK(x), ConfigOK(x),
         latest[x] # 0
  PROVE  latest[x] \in {dir'[x].conf, backup'[x], upd'[x].copy.conf, upd'[x].conf}
  <1>0. IsCommand(cli) /\ cli.e \in Ext
    BY DEF TypeOK, IsCommand
  <1>1. latest[x] \in {dir[x].conf, backup[x], upd[x].copy.conf, upd[x].conf}
    BY DEF ConfigOK
  <1>2. CASE ~Writing(x)
    BY <1>1, <1>2, LeftOver
  <1>3. CASE Writing(x)
    <2>0. x = cli.e /\ x \notin damaged
      BY <1>3 DEF Writing, ConfigOK
    <2>1. /\ On({"backup", "rmdir"}) => dir[x].conf = latest[x]
          /\ cli.op = "add" /\ On({"copy"}) => backup[x] = latest[x]
          /\ cli.op = "update" /\ On({"copy"}) => upd[x].conf = latest[x]
          /\ On({"cleanup"}) => dir[x].conf = latest[x]
          /\ On({"rbdir"}) /\ upd[x].has => upd[x].copy.conf = latest[x]
      <3>1. /\ On({"cleanup"}) => cli.op \in {"update", "rollback"}
            /\ On({"rbdir"}) => cli.op = "rollback"
            /\ On({"cleanup"}) => ~On({"rbdir"})
        BY StepTells DEF On
      <3> QED
        BY <1>3, <2>0, <3>1, ConfigHeld DEF Current, On
    <2>2. CASE UNCHANGED <<tree, files>>
      BY <1>1, <2>2 DEF tree
    <2>3. CASE (At("backup") \/ At("cleanup")) /\ UNCHANGED dir
      BY <2>1, <2>3 DEF On, At
    <2>4. CASE /\ At("rmdir")
               /\ \E d \in Part(dir[cli.e]) : SetDir(cli.e, d) /\ (cli.keep => d.conf = dir[cli.e].conf)
               /\ backup' = IF cli.keep \/ dir[cli.e].conf = 0 THEN backup
                            ELSE [backup EXCEPT ![cli.e] = dir[cli.e].conf]
      <3>1. dir[x].conf = latest[x]
        BY <2>1, <2>4 DEF On, At
      <3>2. cli.keep => dir'[x].conf = latest[x]
        BY <2>0, <2>4, <3>1 DEF SetDir, TypeOK
      <3>3. ~cli.keep => backup'[x] = latest[x]
        BY <2>0, <2>4, <3>1 DEF TypeOK
      <3> QED
        BY <3>2, <3>3
    <2>5. CASE At("copy") /\ UNCHANGED <<backup, upd>>
      <3>1. cli.op \in {"add", "update"}
        BY <2>5, StepTells DEF At
      <3> QED
        BY <2>1, <2>5, <3>1 DEF On, At
    <2>6. CASE At("commands") /\ UNCHANGED tree
      BY <1>1, <2>6 DEF tree
    <2>7. CASE At("rbdir") /\ upd[cli.e].has /\ UNCHANGED upd
      BY <2>0, <2>1, <2>7 DEF On, At
    <2> QED
      BY <2>2, <2>3, <2>4, <2>5, <2>6, <2>7 DEF Partly, Torn
  <1> QED
    BY <1>2, <1>3

\* Nor does any action, however the command ends.
LEMMA ConfigNext ==
  ASSUME TypeOK, TypeOK', EntryOK, EntryOK', [Next]_vars, NEW x \in Ext, DirOK(x), DirOK(x)',
         ConfigOK(x)
  PROVE  ConfigOK(x)'
  <1>1. CASE Opening
    <2>1. Begins
      BY <1>1, Openings
    <2>2. cli = Idle /\ cli' # Idle /\ UNCHANGED <<dir, backup, upd, damaged>>
      BY <2>1 DEF Begins, Started
    <2>3. latest'[x] = latest[x] \/ latest'[x] = 0
      BY <2>1 DEF Begins, TypeOK
    <2>4. ASSUME cli'.op \in {"add", "remove", "update", "rollback"}, cli'.e = x, x \in damaged
          PROVE  latest'[x] = 0
      BY <2>1, <2>4 DEF Begins, Started, TypeOK
    <2> QED
      BY <2>2, <2>3, <2>4 DEF ConfigOK, Writing, Runs
  <1>2. ASSUME NEW e \in Ext, EditConfig(e) PROVE ConfigOK(x)'
    <2>1. cli = Idle /\ cli' = cli /\ upd' = upd /\ backup' = backup
      BY <1>2 DEF EditConfig
    <2>2. IF x = e THEN dir'[x].conf = latest'[x]
          ELSE dir'[x].conf = dir[x].conf /\ latest'[x] = latest[x]
      BY <1>2 DEF EditConfig, TypeOK, DirState
    <2> QED
      BY <2>1, <2>2 DEF ConfigOK, Writing, Runs
  <1>3. CASE Step
    BY <1>3, ConfigStep
  <1>4. CASE Fail
    <2>1. cli # Idle /\ IsCommand(cli) /\ cli.e \in Ext /\ (Partly \/ Torn)
      BY <1>4, Fails DEF TypeOK, IsCommand
    <2>2. latest'[x] \in {0, latest[x]}
      BY <1>4, <2>1, Fails DEF TypeOK
    <2>3. latest'[x] # 0 =>
            latest'[x] \in {dir'[x].conf, backup'[x], upd'[x].copy.conf, upd'[x].conf}
      BY <2>1, <2>2, ConfigLeft
    <2>4. Writing(x)' /\ x \in damaged' => latest'[x] = 0
      <3>1. CASE ~Writing(x)
        BY <1>4, <3>1, FailedTree
      <3>2. CASE Writing(x) /\ x \in damaged
        BY <2>2, <3>2 DEF ConfigOK
      <3>3. CASE Writing(x) /\ x \notin damaged
        BY <1>4, <3>3, Fails DEF Writing, Runs, TypeOK
      <3> QED
        BY <3>1, <3>2, <3>3
    <2> QED
      BY <2>3, <2>4 DEF ConfigOK
  <1>5. CASE Interrupt
    <2>1. cli # Idle /\ cli' = Idle /\ latest' = latest /\ (Partly \/ Torn)
      BY <1>5 DEF Interrupt, Partly
    <2> QED
      BY <2>1, ConfigLeft DEF ConfigOK, Writing, Runs
  <1>6. CASE UNCHANGED vars
    BY <1>6 DEF vars, tree, history, ConfigOK, Writing, Runs
  <1> QED
    BY <1>1, <1>2, <1>3, <1>4, <1>5, <1>6 DEF Next, Opening

-----------------------------------------------------------------------------
(* The command files. *)

\* Once the saved files are back, no later step of the rollback touches them.
LEMMA SavedNext ==
  ASSUME TypeOK, TypeOK', SavedOK, [Next]_vars
  PROVE  SavedOK'
  <1>1. CASE Opening
    <2>1. cli'.op # "rollback"
      BY <1>1, Openings DEF Begins, Started
    <2> QED
      BY <2>1 DEF SavedOK, Runs
  <1>2. ASSUME NEW e \in Ext, EditConfig(e) PROVE SavedOK'
    BY <1>2 DEF EditConfig, SavedOK, Runs
  <1>3. CASE Step
    <2>0. cli # Idle /\ IsCommand(cli) /\ Itinerary /\ (Ended \/ Carried)
      BY <1>3, StepMoves
    <2>1. CASE cli' = Idle \/ cli.op # "rollback"
      BY <2>0, <2>1 DEF SavedOK, Runs, Ended, Carried
    <2>2. CASE cli' # Idle /\ cli.op = "rollback" /\ On({"rbfiles"})
      <3>1. files' = [k \in Key |->
              IF cli.saved[k] # NoFile THEN cli.saved[k]
              ELSE IF k \in registry[cli.e].cmds THEN NoFile ELSE files[k]]
        BY <1>3, <2>0, <2>2, Acts DEF On, At, RollbackFiles
      <3>2. cli'.saved = cli.saved
        BY <2>0, <2>2 DEF Ended, Carried, On, At
      <3> QED
        BY <3>1, <3>2 DEF SavedOK
    <2>3. CASE cli' # Idle /\ cli.op = "rollback" /\ ~On({"rbfiles"})
      <3>1. \E s \in StepName : At(s)
        BY <1>3, Acts
      <3>2. On({"rbdir", "rbhooks", "rbregistry"})
        BY <2>0, <2>3, <3>1 DEF Itinerary, Between, Last, On, At, StepName
      <3>3. files' = files /\ cli'.saved = cli.saved
        BY <1>3, <2>0, <2>3, <3>2, Touches DEF Untouched, Ended, Carried, On, At
      <3>4. On({"rbdir"}) => Head(cli'.todo) = "rbfiles"
        BY <2>0 DEF Itinerary, Between, On
      <3> QED
        BY <2>0, <2>3, <3>2, <3>3, <3>4 DEF SavedOK, Runs, On
    <2> QED
      BY <2>1, <2>2, <2>3
  <1>4. CASE Fail
    <2>1. cli # Idle /\ IsCommand(cli)
      BY <1>4, Fails DEF TypeOK
    <2>2. CASE cli.op = "update" /\ cli' = Rollback
      <3>1. Head(cli'.todo) = "rbdir"
        BY <2>1, <2>2, RollsBack
      <3> QED
        BY <3>1 DEF SavedOK, On
    <2>3. CASE cli.op = "switch" /\ Go
      BY <2>1, <2>3, Goes DEF SavedOK, Runs, Ended, Onward
    <2>4. CASE cli' = Idle
      BY <2>4 DEF SavedOK, Runs
    <2> QED
      BY <1>4, <2>2, <2>3, <2>4, Fails
  <1>5. CASE Interrupt
    BY <1>5 DEF Interrupt, SavedOK, Runs
  <1>6. CASE UNCHANGED vars
    BY <1>6 DEF vars, agents, SavedOK, Runs, On
  <1> QED
    BY <1>1, <1>2, <1>3, <1>4, <1>5, <1>6 DEF Next, Opening

\* _validate_install_conflicts reads the manifests on disk; while nothing is
\* damaged those are the ones of the registered versions.
LEMMA NoConflict ==
  ASSUME TypeOK, damaged = {}, NEW e \in Ext, NEW v \in Version, ~Conflicts(e, v),
         \A f \in Ext \ {e} : DirOK(f) /\ ~Writing(f)
  PROVE  Clear(e, Provides[e][v])
  <1> SUFFICES ASSUME NEW f \in Ext \ {e}, Installed(f)
               PROVE  Provides[e][v] \cap Provides[f][registry[f].ver] = {}
    BY DEF Clear, Provided, Installed
  <1>1. dir[f].ver = registry[f].ver
    BY DEF DirOK
  <1>2. registry[f].ver \in 1..MaxVersion
    BY InstalledVer DEF TypeOK, Installed, Version
  <1>3. dir[f].ver # 0
    BY <1>1, <1>2
  <1> QED
    BY <1>1, <1>3 DEF Conflicts

\* The steps that change what an extension provides.
LEMMA ProvidedKept ==
  ASSUME TypeOK, TypeOK', EntryOK, EntryOK', Step, NEW x \in Ext,
         x # cli.e \/ ~On({"unregistry", "registry", "rbregistry"})
  PROVE  /\ Provided(x, registry'[x]) = Provided(x, registry[x])
         /\ registry'[x].ver = registry[x].ver
  <1>0. cli # Idle /\ IsCommand(cli) /\ cli.e \in Ext /\ Itinerary
    BY StepMoves
  <1>1. IsEntry(registry[x]) /\ IsEntry(registry'[x]) /\ registry[x] \in Entry
        /\ registry \in [Ext -> Entry]
    BY DEF TypeOK
  <1>2. registry'[x].ver = registry[x].ver
    <2>1. CASE Aside(x)
      BY <2>1, EntryAside
    <2>2. CASE ~Aside(x)
      <3>1. x = cli.e /\ cli.op # "switch" /\ ~On({"unregistry", "registry", "rbregistry"})
        BY <2>2 DEF Aside
      <3>2. CASE On({"flag"})
        BY <1>0, <1>1, <3>1, <3>2, Acts DEF On, At, Flag, SetEntry, Entry
      <3>3. CASE On({"priority"})
        BY <1>0, <1>1, <3>1, <3>3, Acts DEF On, At, PriorityStep, SetEntry, Entry
      <3>4. CASE On({"meta"})
        BY <1>0, <1>1, <3>1, <3>4, Acts DEF On, At, Meta, SetEntry, Entry
      <3>5. CASE ~On({"flag", "priority", "meta"})
        BY <1>0, <3>1, <3>5, Touches DEF Untouched, On, WritesRegistry, Itinerary, Between, Last
      <3> QED
        BY <3>2, <3>3, <3>4, <3>5 DEF On
    <2> QED
      BY <2>1, <2>2
  <1>3. registry'[x] = NoEntry <=> registry[x] = NoEntry
    BY <1>1, <1>2, InstalledVer
  <1> QED
    BY <1>2, <1>3 DEF Provided

\* The command files RegisterAgent writes for an extension.
NewCmds(x) ==
  IF registry[x].enabled /\ active \notin SkillMode
  THEN {active} \X Provided(x, registry[x]) ELSE {}

\* While nothing is damaged the manifest on disk is the one of the registered version.
LEMMA UsableVer ==
  ASSUME TypeOK, damaged = {}, NEW x \in Ext, DirOK(x), ~Writing(x)
  PROVE  /\ Usable(x) <=> registry[x].enabled
         /\ registry[x].enabled =>
              /\ registry[x] # NoEntry /\ dir[x].ver = registry[x].ver
              /\ Provides[x][dir[x].ver] = Provided(x, registry[x])
  <1>1. registry[x].enabled => registry[x] # NoEntry
    BY DEF NoEntry
  <1>2. registry[x] # NoEntry => dir[x].ver = registry[x].ver
    BY DEF DirOK, Installed
  <1>3. registry[x] # NoEntry => registry[x].ver \in 1..MaxVersion
    BY InstalledVer DEF TypeOK, Version
  <1>4. registry[x] # NoEntry => dir[x].ver # 0
    BY <1>2, <1>3
  <1> QED
    BY <1>1, <1>2, <1>4 DEF Usable, Provided

\* What a step does to the commands an entry lists.
LEMMA CmdsStep ==
  ASSUME TypeOK, TypeOK', Step, damaged = {}, NEW x \in Ext, DirOK(x)
  PROVE  /\ x # cli.e /\ cli.op # "switch" => registry'[x] = registry[x]
         /\ On({"registry"}) => registry'[cli.e].cmds = cli.cmds /\ registry'[cli.e].ver = cli.v
         /\ On({"unregistry"}) => registry'[cli.e] = NoEntry
         /\ On({"rbregistry"}) => registry'[cli.e] = cli.entry
         /\ On({"unagent"}) =>
              registry'[x].cmds = registry[x].cmds \ OfAgent(registry[x].cmds, active)
         /\ On({"regagent"}) => registry'[x].cmds = registry[x].cmds \cup NewCmds(x)
         /\ ~On({"registry", "unregistry", "rbregistry", "unagent", "regagent"}) =>
              registry'[x].cmds = registry[x].cmds
  <1>0. cli # Idle /\ IsCommand(cli) /\ cli.e \in Ext /\ Itinerary
    BY StepMoves
  <1>1. registry[x] \in Entry /\ registry \in [Ext -> Entry] /\ registry[cli.e] \in Entry
    BY <1>0 DEF TypeOK
  <1>2. CASE On({"registry"})
    BY <1>0, <1>1, <1>2, Acts DEF On, At, Registry, SetEntry
  <1>3. CASE On({"unregistry"})
    BY <1>0, <1>1, <1>3, Acts DEF On, At, Unregistry, SetEntry
  <1>4. CASE On({"rbregistry"})
    BY <1>0, <1>1, <1>4, Acts DEF On, At, RollbackRegistry, SetEntry
  <1>5. CASE On({"unagent"})
    <2>1. UnregisterAgent /\ cli.op = "switch"
      BY <1>0, <1>5, Acts DEF On, At, Itinerary, Between
    <2>2. \E S : registry'[x] = [registry[x] EXCEPT
                   !.cmds = registry[x].cmds \ OfAgent(registry[x].cmds, active), !.skills = S]
      BY <1>1, <2>1 DEF UnregisterAgent
    <2>3. registry'[x].cmds = registry[x].cmds \ OfAgent(registry[x].cmds, active)
      BY <1>1, <2>2 DEF Entry
    <2> QED
      BY <1>5, <2>1, <2>3 DEF On
  <1>6. CASE On({"regagent"})
    <2>1. RegisterAgent /\ cli.op = "switch"
      BY <1>0, <1>6, Acts DEF On, At, Itinerary, Last
    <2>2. ~Writing(x)
      BY <2>1 DEF Writing, Runs
    <2>3. IF Usable(x)
          THEN \E S : registry'[x] = [registry[x] EXCEPT
                 !.cmds = registry[x].cmds \cup
                            (IF active \notin SkillMode THEN {active} \X Provides[x][dir[x].ver]
                             ELSE {}), !.skills = S]
          ELSE registry'[x] = registry[x]
      BY <1>1, <2>1 DEF RegisterAgent
    <2>4. registry'[x].cmds = registry[x].cmds \cup NewCmds(x)
      <3>1. CASE Usable(x)
        <4>1. registry[x].enabled /\ Provides[x][dir[x].ver] = Provided(x, registry[x])
          BY <2>2, <3>1, UsableVer
        <4>2. registry'[x].cmds = registry[x].cmds \cup
                (IF active \notin SkillMode THEN {active} \X Provides[x][dir[x].ver] ELSE {})
          BY <1>1, <2>3, <3>1 DEF Entry
        <4> QED
          BY <4>1, <4>2 DEF NewCmds
      <3>2. CASE ~Usable(x)
        BY <2>2, <2>3, <3>2, UsableVer DEF NewCmds
      <3> QED
        BY <3>1, <3>2
    <2> QED
      BY <1>6, <2>1, <2>4 DEF On
  <1>7. CASE On({"flag", "meta", "priority"})
    <2>1. \E p, b : \/ registry' = [registry EXCEPT ![cli.e] = [registry[cli.e] EXCEPT !.prio = p]]
                    \/ registry' = [registry EXCEPT ![cli.e] = [registry[cli.e] EXCEPT !.enabled = b]]
                    \/ registry' = [registry EXCEPT ![cli.e] =
                                      [registry[cli.e] EXCEPT !.prio = p, !.enabled = b]]
      BY <1>0, <1>7, Acts DEF On, At, Flag, Meta, PriorityStep, SetEntry
    <2>2. registry'[cli.e].cmds = registry[cli.e].cmds
      BY <1>0, <1>1, <2>1 DEF Entry
    <2>3. x # cli.e => registry'[x] = registry[x]
      BY <1>0, <1>1, <2>1
    <2> QED
      BY <1>7, <2>2, <2>3 DEF On
  <1>8. CASE ~On(WritesRegistry)
    BY <1>8, Touches DEF Untouched, On, WritesRegistry
  <1> QED
    BY <1>2, <1>3, <1>4, <1>5, <1>6, <1>7, <1>8 DEF On, WritesRegistry

\* The files an update saves are its own, or those of extensions whose files a
\* rollback or a failed switch left as they were.
LEMMA OwnersSaved ==
  ASSUME TypeOK, EntryOK, NamesOK, damaged = {}, cli # Idle, cli.op = "update", On({"backup"}),
         \A f \in Ext : FilesOK(f),
         NEW k \in Key, SavedFiles[k] # NoFile
  PROVE  /\ k[2] \in Provides[cli.e][cli.before.entry.ver]
         /\ SavedFiles[k][1] \in failed \cup {cli.e}
  <1>0. IsCommand(cli) /\ cli.e \in Ext
    BY DEF TypeOK, IsCommand
  <1>1. registry[cli.e] = cli.before.entry /\ registry[cli.e] # NoEntry
    BY DEF EntryOK, Runs, On
  <1>2. k \in registry[cli.e].cmds /\ SavedFiles[k] = files[k] /\ files[k] # NoFile
    BY DEF SavedFiles
  <1>3. k[2] \in Provided(cli.e, registry[cli.e])
    BY <1>0, <1>2 DEF NamesOK
  <1>4. Provided(cli.e, registry[cli.e]) = Provides[cli.e][cli.before.entry.ver]
    BY <1>1 DEF Provided
  <1>5. files[k] \in File
    BY DEF TypeOK
  <1>6. files[k][1] \in Ext
    BY <1>2, <1>5 DEF File
  <1>7. SUFFICES ASSUME files[k][1] \notin failed, files[k][1] # cli.e PROVE FALSE
    BY <1>2, <1>3, <1>4
  <1> PICK f \in Ext : f = files[k][1]
    BY <1>6
  <1>8. FilesOf(f) = registry[f].cmds
    BY <1>7 DEF FilesOK, Writing, FilesAre
  <1>9. k \in registry[f].cmds
    BY <1>2, <1>8 DEF FilesOf
  <1>10. k[2] \in Provided(f, registry[f])
    BY <1>9 DEF NamesOK
  <1> QED
    BY <1>0, <1>3, <1>7, <1>10 DEF NamesOK, Clear

\* Each step keeps the provided names apart, and the names each entry lists its own.
LEMMA NamesStep ==
  ASSUME TypeOK, TypeOK', EntryOK, EntryOK', Step, NamesOK,
         \A f \in Ext : DirOK(f) /\ FilesOK(f)
  PROVE  NamesOK'
  <1> PICK e : e = cli.e
    OBVIOUS
  <1>0. cli # Idle /\ IsCommand(cli) /\ e \in Ext /\ Itinerary /\ (Ended \/ Carried)
    BY StepMoves
  <1>1. damaged' = damaged /\ Untouched
    BY Touches DEF Untouched
  <1> SUFFICES ASSUME damaged = {} PROVE NamesOK'
    BY <1>1 DEF NamesOK
  <1>2. \E s \in StepName : At(s)
    BY Acts
  <1>3. cli' = Idle \/ (/\ cli'.op = cli.op /\ cli'.e = e /\ cli'.v = cli.v
                        /\ cli'.before = cli.before)
    BY <1>0 DEF Ended, Carried
  <1> DEFINE P(f) == Provided(f, registry[f])
             Q(f) == Provided(f, registry'[f])
  <1>4. /\ \A f \in Ext : Clear(f, P(f))
        /\ \A f \in Ext : registry[f].cmds \subseteq Agent \X P(f)
    BY DEF NamesOK
  <1>5. \A f \in Ext : f # e \/ ~On({"unregistry", "registry", "rbregistry"}) => Q(f) = P(f)
    BY ProvidedKept
  <1>6. \A N : Clear(e, N)' <=> Clear(e, N)
    BY <1>5 DEF Clear
  <1>7. On({"unregistry"}) => registry'[e] = NoEntry /\ Q(e) = {}
    BY <1>0, CmdsStep DEF Provided
  <1>8. /\ On({"registry"}) => /\ Q(e) = Provides[e][cli.v] /\ registry'[e].cmds = cli.cmds
                               /\ cli.cmds \subseteq Agent \X Provides[e][cli.v]
                               /\ Clear(e, Provides[e][cli.v])
    <2> SUFFICES ASSUME On({"registry"})
                 PROVE  /\ Q(e) = Provides[e][cli.v] /\ registry'[e].cmds = cli.cmds
                        /\ cli.cmds \subseteq Agent \X Provides[e][cli.v]
                        /\ Clear(e, Provides[e][cli.v])
      OBVIOUS
    <2>1. registry'[e].ver = cli.v /\ registry'[e].cmds = cli.cmds
      BY <1>0, CmdsStep
    <2>2. cli.op \in {"add", "update"}
      BY <1>0 DEF Itinerary, On
    <2>3. cli.v \in Version /\ cli.v # 0
      BY <1>0, <2>2 DEF IsCommand, Version
    <2>4. registry'[e] # NoEntry
      BY <2>1, <2>3 DEF NoEntry
    <2>5. cli.cmds \subseteq Agent \X Provides[e][cli.v] /\ Clear(e, Provides[e][cli.v])
      BY <1>0, <2>2 DEF NamesOK, Runs, On
    <2> QED
      BY <2>1, <2>4, <2>5 DEF Provided
  <1>9. On({"rbregistry"}) =>
          /\ Q(e) = Provides[e][cli.before.entry.ver]
          /\ registry'[e].cmds \subseteq Agent \X Q(e)
          /\ Clear(e, Provides[e][cli.before.entry.ver])
    <2> SUFFICES ASSUME On({"rbregistry"})
                 PROVE  /\ Q(e) = Provides[e][cli.before.entry.ver]
                        /\ registry'[e].cmds \subseteq Agent \X Q(e)
                        /\ Clear(e, Provides[e][cli.before.entry.ver])
      OBVIOUS
    <2>1. registry'[e] = cli.entry
      BY <1>0, CmdsStep
    <2>2. cli.op = "rollback"
      BY <1>0 DEF Itinerary, Between, On
    <2>3. cli.entry = cli.before.entry /\ cli.before.entry # NoEntry
      BY <1>0, <2>2 DEF EntryOK, Runs
    <2>4. /\ cli.before.entry.cmds \subseteq Agent \X Provides[e][cli.before.entry.ver]
          /\ Clear(e, Provides[e][cli.before.entry.ver])
      BY <1>0, <2>2 DEF NamesOK, Runs
    <2> QED
      BY <2>1, <2>3, <2>4 DEF Provided
  <1>10. Clear(e, Q(e))
    <2>1. CASE On({"unregistry"})
      BY <1>7, <2>1 DEF Clear
    <2>2. CASE ~On({"unregistry", "registry", "rbregistry"})
      BY <1>0, <1>4, <1>5, <2>2
    <2> QED
      BY <1>8, <1>9, <2>1, <2>2 DEF On
  <1>11. \A f \in Ext : Clear(f, Provided(f, registry[f]))'
    <2> SUFFICES ASSUME NEW f \in Ext, NEW g \in Ext, f # g
                 PROVE  Q(f) \cap Q(g) = {}
      BY DEF Clear
    <2>1. CASE f = e
      BY <1>5, <1>10, <2>1 DEF Clear
    <2>2. CASE g = e
      BY <1>5, <1>10, <2>2 DEF Clear
    <2>3. CASE f # e /\ g # e
      BY <1>4, <1>5, <2>3 DEF Clear
    <2> QED
      BY <2>1, <2>2, <2>3
  <1>12. \A f \in Ext : registry'[f].cmds \subseteq Agent \X Q(f)
    <2> SUFFICES ASSUME NEW f \in Ext PROVE registry'[f].cmds \subseteq Agent \X Q(f)
      OBVIOUS
    <2>1. CASE f = e /\ On({"unregistry"})
      BY <1>7, <2>1 DEF NoEntry
    <2>2. CASE f = e /\ On({"registry", "rbregistry"})
      BY <1>8, <1>9, <2>2 DEF On
    <2>3. CASE f # e \/ ~On({"unregistry", "registry", "rbregistry"})
      <3>1. Q(f) = P(f) /\ registry[f].cmds \subseteq Agent \X P(f)
        BY <1>4, <1>5, <2>3
      <3>2. CASE On({"unagent"})
        BY <3>1, <3>2, CmdsStep
      <3>3. CASE On({"regagent"})
        <4>1. registry'[f].cmds = registry[f].cmds \cup NewCmds(f)
          BY <3>3, CmdsStep
        <4>2. NewCmds(f) \subseteq Agent \X P(f)
          BY DEF NewCmds, TypeOK
        <4> QED
          BY <3>1, <4>1, <4>2
      <3>4. CASE f # e /\ cli.op # "switch"
        BY <3>1, <3>4, CmdsStep
      <3>5. CASE ~On({"registry", "unregistry", "rbregistry", "unagent", "regagent"})
        BY <3>1, <3>5, CmdsStep
      <3>6. cli.op = "switch" => ~On({"registry", "unregistry", "rbregistry"})
        BY <1>0 DEF Itinerary, Between, On
      <3> QED
        BY <2>3, <3>2, <3>3, <3>4, <3>5, <3>6 DEF On
    <2> QED
      BY <2>1, <2>2, <2>3 DEF On
  <1> HIDE DEF P, Q
  <1>13. ASSUME cli' # Idle, cli'.op \in {"update", "rollback"}
         PROVE  /\ Clear(e, Provides[e][cli.before.entry.ver])
                /\ cli.before.entry.cmds \subseteq Agent \X Provides[e][cli.before.entry.ver]
                /\ \A k \in Key : cli'.saved[k] # NoFile =>
                     /\ k[2] \in Provides[e][cli.before.entry.ver]
                     /\ cli'.saved[k][1] \in failed' \cup {e}
    <2>1. cli.op \in {"update", "rollback"} /\ Carried
      BY <1>0, <1>3, <1>13 DEF Ended
    <2>2. failed' = failed
      BY <1>0, <1>1, <1>13 DEF Untouched, On, Itinerary, Last
    <2>3. CASE On({"backup"})
      <3>1. cli'.saved = SavedFiles /\ cli.op = "update"
        BY <1>0, <2>1, <2>3 DEF Carried, On, At, Itinerary, Between
      <3>2. \A k \in Key : SavedFiles[k] # NoFile =>
                     /\ k[2] \in Provides[e][cli.before.entry.ver]
                     /\ SavedFiles[k][1] \in failed \cup {e}
        BY <1>0, <2>3, <3>1, OwnersSaved
      <3> QED
        BY <1>0, <2>1, <2>2, <3>1, <3>2 DEF NamesOK, Runs
    <2>4. CASE ~On({"backup"})
      <3>1. cli'.saved = cli.saved
        BY <1>0, <2>1, <2>4 DEF Carried, On, At
      <3> QED
        BY <1>0, <2>1, <2>2, <3>1 DEF NamesOK, Runs
    <2> QED
      BY <2>3, <2>4
  <1>14. ASSUME cli' # Idle, cli'.op \in {"add", "update"},
                cli'.op = "add" \/ Head(cli'.todo) \in {"copy", "commands", "skills", "hooks",
                   "registry", "restoreconf", "meta", "metahooks", "cleanup"}
         PROVE  Clear(e, Provides[e][cli.v])
    <2>1. CASE On({"validate"})
      <3>1. ~Conflicts(e, cli.v) /\ cli.op = "update"
        BY <1>0, <2>1, Acts DEF On, At, Validate, Itinerary, Between
      <3>2. cli.v \in Version
        BY <1>0, <3>1 DEF IsCommand
      <3> QED
        BY <1>0, <3>1, <3>2, NoConflict DEF Writing
    <2>2. CASE cli.op = "add" \/ On({"copy", "commands", "skills", "hooks", "registry",
                                 "restoreconf", "meta", "metahooks", "cleanup"})
      BY <1>0, <1>3, <1>14, <2>2 DEF NamesOK, Runs, On
    <2>3. cli.op = "add" \/ On({"validate", "copy", "commands", "skills", "hooks", "registry",
                                "restoreconf", "meta", "metahooks", "cleanup"})
      BY <1>0, <1>2, <1>3, <1>14 DEF On, At, StepName, Itinerary, Between, Last
    <2> QED
      BY <2>1, <2>2, <2>3 DEF On
  <1>15. ASSUME cli' # Idle, cli'.op \in {"add", "update"},
                Head(cli'.todo) \in {"skills", "hooks", "config", "registry"}
         PROVE  cli'.cmds \subseteq Agent \X Provides[e][cli.v]
    <2>1. Carried /\ cli.op \in {"add", "update"}
      BY <1>0, <1>3, <1>15 DEF Ended
    <2>2. On({"commands", "skills", "hooks", "config"})
      BY <1>0, <1>2, <1>3, <1>15 DEF On, At, StepName, Itinerary, Between, Last
    <2>3. CASE On({"commands"})
      <3>1. cli'.cmds = dirs \X Provides[e][cli.v]
        BY <1>0, <2>1, <2>3 DEF Carried, On, At, RegisteredForAll, Names
      <3> QED
        BY <3>1 DEF TypeOK
    <2>4. CASE On({"skills", "hooks", "config"})
      <3>1. cli'.cmds = cli.cmds
        BY <1>0, <2>1, <2>4 DEF Carried, On, At
      <3> QED
        BY <1>0, <2>1, <2>4, <3>1 DEF NamesOK, Runs, On
    <2> QED
      BY <2>2, <2>3, <2>4 DEF On
  <1>16. /\ Runs({"update", "rollback"})' =>
              /\ Clear(cli.e, Provides[cli.e][cli.before.entry.ver])'
              /\ cli'.before.entry.cmds \subseteq Agent \X Provides[cli'.e][cli'.before.entry.ver]
         /\ Runs({"add", "update"})'
            /\ (cli'.op = "add" \/ On({"copy", "commands", "skills", "hooks", "registry",
                                       "restoreconf", "meta", "metahooks", "cleanup"})') =>
              Clear(cli.e, Provides[cli.e][cli.v])'
    <2>1. ASSUME Runs({"update", "rollback"})'
          PROVE  /\ Clear(cli.e, Provides[cli.e][cli.before.entry.ver])'
                 /\ cli'.before.entry.cmds \subseteq Agent \X Provides[cli'.e][cli'.before.entry.ver]
      <3> PICK N : N = Provides[e][cli.before.entry.ver]
        OBVIOUS
      <3>1. Clear(e, N)'
        BY <1>6, <1>13, <2>1 DEF Runs
      <3>2. /\ cli'.e = e /\ Provides[cli'.e][cli'.before.entry.ver] = N
            /\ cli'.before.entry.cmds \subseteq Agent \X N
        BY <1>3, <1>13, <2>1 DEF Runs
      <3> QED
        BY <3>1, <3>2 DEF Clear
    <2>2. ASSUME Runs({"add", "update"})',
                 cli'.op = "add" \/ On({"copy", "commands", "skills", "hooks", "registry",
                                       "restoreconf", "meta", "metahooks", "cleanup"})'
          PROVE  Clear(cli.e, Provides[cli.e][cli.v])'
      <3> PICK N : N = Provides[e][cli.v]
        OBVIOUS
      <3>1. Clear(e, N)'
        BY <1>6, <1>14, <2>2 DEF Runs, On
      <3>2. cli'.e = e /\ Provides[cli'.e][cli'.v] = N
        BY <1>3, <2>2 DEF Runs
      <3> QED
        BY <3>1, <3>2 DEF Clear
    <2> QED
      BY <2>1, <2>2
  <1> QED
    BY <1>3, <1>11, <1>12, <1>13, <1>15, <1>16 DEF NamesOK, Runs, On, Q

\* An interrupted command marks what it worked on.
LEMMA InterruptMarks ==
  ASSUME TypeOK, Interrupt
  PROVE  damaged' # {} /\ cli' = Idle
  <1>1. cli.e \in Ext
    BY DEF Interrupt, TypeOK, IsCommand
  <1> QED
    BY <1>1, ExtensionsAssumption DEF Interrupt

\* So does every action: add validates before it begins, update after the removal.
LEMMA NamesNext ==
  ASSUME TypeOK, TypeOK', EntryOK, EntryOK', [Next]_vars, NamesOK,
         \A f \in Ext : DirOK(f) /\ FilesOK(f)
  PROVE  NamesOK'
  <1>1. CASE Opening
    <2>1. Begins
      BY <1>1, Openings
    <2>2. cli = Idle /\ cli' # Idle /\ UNCHANGED <<registry, damaged, failed>>
      BY <2>1 DEF Begins, Started
    <2> SUFFICES ASSUME damaged = {} PROVE NamesOK'
      BY <2>2 DEF NamesOK
    <2>3. /\ \A e \in Ext : Clear(e, Provided(e, registry[e]))
          /\ \A e \in Ext : registry[e].cmds \subseteq Agent \X Provided(e, registry[e])
      BY DEF NamesOK
    <2>4. ASSUME cli'.op \in {"update", "rollback"}
          PROVE  /\ Clear(cli'.e, Provides[cli'.e][cli'.before.entry.ver])
                 /\ cli'.before.entry.cmds \subseteq Agent \X Provides[cli'.e][cli'.before.entry.ver]
                 /\ \A k \in Key : cli'.saved[k] = NoFile
      <3>1. /\ cli'.e \in Ext /\ cli'.before.entry = registry[cli'.e] /\ cli'.saved = NoFiles
            /\ registry[cli'.e] # NoEntry
        BY <2>1, <2>4 DEF Begins, Started, Installed
      <3> QED
        BY <2>3, <3>1 DEF Provided, NoFiles
    <2>5. ASSUME cli'.op = "add" PROVE Clear(cli'.e, Provides[cli'.e][cli'.v])
      <3>1. cli'.e \in Ext /\ cli'.v \in Version /\ ~Conflicts(cli'.e, cli'.v)
        BY <2>1, <2>5 DEF Begins, Started
      <3>2. PICK g \in Ext, w \in Version : g = cli'.e /\ w = cli'.v /\ ~Conflicts(g, w)
        BY <3>1
      <3>3. Clear(g, Provides[g][w])
        BY <2>2, <3>2, NoConflict DEF Writing, Runs
      <3> QED
        BY <3>2, <3>3
    <2>6. /\ Head(cli'.todo) \in {"copy", "clearbackup", "unregister", "backup", "flag",
                                  "priority", "unagent"}
          /\ cli'.op = "update" => Head(cli'.todo) = "backup"
      BY <2>1 DEF Begins, Started
    <2> QED
      BY <2>2, <2>3, <2>4, <2>5, <2>6 DEF NamesOK, Runs, On, Clear
  <1>2. ASSUME NEW e \in Ext, EditConfig(e) PROVE NamesOK'
    BY <1>2 DEF EditConfig, NamesOK, Runs, Clear
  <1>3. CASE Step
    BY <1>3, NamesStep
  <1>4. CASE Fail
    <2>1. cli # Idle /\ IsCommand(cli) /\ UNCHANGED registry
      BY <1>4, Fails DEF TypeOK
    <2>2. CASE cli.op = "update" /\ cli' = Rollback /\ damaged' = damaged /\ failed' = failed
      <3>1. /\ cli'.op = "rollback" /\ cli'.e = cli.e /\ cli'.before = cli.before
            /\ cli'.saved = cli.saved
        BY <2>1, <2>2, RollsBack
      <3> QED
        BY <2>1, <2>2, <3>1 DEF NamesOK, Runs, Clear
    <2>3. CASE cli.op = "switch" /\ Go /\ damaged' = damaged
      <3>1. cli' = Idle \/ cli'.op = "switch"
        BY <2>1, <2>3, Goes DEF Ended, Onward
      <3> QED
        BY <2>1, <2>3, <3>1 DEF NamesOK, Runs, Clear
    <2>4. CASE damaged' = damaged \cup {cli.e}
      BY <2>4 DEF NamesOK
    <2> QED
      BY <1>4, <2>2, <2>3, <2>4, Fails
  <1>5. CASE Interrupt
    BY <1>5, InterruptMarks DEF NamesOK
  <1>6. CASE UNCHANGED vars
    BY <1>6 DEF vars, history, NamesOK, Runs, On, Clear
  <1> QED
    BY <1>1, <1>2, <1>3, <1>4, <1>5, <1>6 DEF Next, Opening

\* Files of other names, given or taken by others, do not matter to an extension.
LEMMA FilesKept ==
  ASSUME NEW x, NEW K, NEW v, FilesAre(x, K, v),
         \A k \in Key : \/ files'[k] = files[k]
                        \/ k \notin K /\ (files'[k] = NoFile \/ files'[k][1] # x)
  PROVE  FilesAre(x, K, v)'
  <1>1. K \subseteq Key
    BY DEF FilesAre, FilesOf
  <1>2. \A k \in K : files'[k] = files[k]
    BY <1>1
  <1>3. ASSUME NEW k \in Key
        PROVE  (files'[k] # NoFile /\ files'[k][1] = x) <=> k \in K
    BY <1>2 DEF FilesAre, FilesOf
  <1>4. {k \in Key : files'[k] # NoFile /\ files'[k][1] = x} = K
    BY <1>1, <1>3
  <1> QED
    BY <1>2, <1>4 DEF FilesAre, FilesOf, Content

\* The files of an extension the running command does not work on.
LEMMA FilesAside ==
  ASSUME TypeOK, EntryOK, NamesOK, Step, damaged = {}, NEW x \in Ext, x \notin failed,
         x # cli.e, cli.op # "switch",
         NEW K, NEW v, K = registry[x].cmds, FilesAre(x, K, v)
  PROVE  FilesAre(x, K, v)'
  <1> PICK e : e = cli.e
    OBVIOUS
  <1>0. cli # Idle /\ IsCommand(cli) /\ e \in Ext /\ Itinerary
    BY StepMoves
  <1>1. /\ \A k \in K : k[2] \in Provided(x, registry[x])
        /\ \A k \in registry[e].cmds : k[2] \in Provided(e, registry[e])
        /\ Provided(x, registry[x]) \cap Provided(e, registry[e]) = {}
    BY <1>0 DEF NamesOK, Clear
  <1>2. CASE On({"unregister"})
    <2>1. files' = UnregisterCommands(files, registry[e].cmds)
      BY <1>0, <1>2, Acts DEF On, At, Unregister
    <2>2. \A k \in Key : \/ files'[k] = files[k]
                         \/ k \notin K /\ files'[k] = NoFile
      BY <1>1, <2>1 DEF UnregisterCommands
    <2> QED
      BY <2>2, FilesKept
  <1>3. CASE On({"commands"})
    <2> PICK c : c = Content(e, cli.v)
      OBVIOUS
    <2>1. /\ files' = RegisterForAll(files, dirs, Provides[e][cli.v], c)
          /\ cli.op \in {"add", "update"}
      BY <1>0, <1>3, Acts DEF On, At, Commands, Names, Itinerary, Between
    <2>2. Provides[e][cli.v] \cap Provided(x, registry[x]) = {}
      BY <1>0, <1>3, <2>1 DEF NamesOK, Runs, On, Clear
    <2>3. c[1] = e
      BY DEF Content
    <2>4. \A k \in Key : \/ files'[k] = files[k]
                         \/ k \notin K /\ files'[k][1] # x
      BY <1>0, <1>1, <2>1, <2>2, <2>3 DEF RegisterForAll, RegisteredForAll
    <2> QED
      BY <2>4, FilesKept
  <1>4. CASE On({"rbfiles"})
    <2>1. /\ files' = [k \in Key |->
              IF cli.saved[k] # NoFile THEN cli.saved[k]
              ELSE IF k \in registry[e].cmds THEN NoFile ELSE files[k]]
          /\ cli.op = "rollback"
      BY <1>0, <1>4, Acts DEF On, At, RollbackFiles, Itinerary
    <2>2. /\ Provides[e][cli.before.entry.ver] \cap Provided(x, registry[x]) = {}
          /\ \A k \in Key : cli.saved[k] # NoFile =>
               /\ k[2] \in Provides[e][cli.before.entry.ver]
               /\ cli.saved[k][1] \in failed \cup {e}
      BY <1>0, <2>1 DEF NamesOK, Runs, Clear
    <2>3. \A k \in Key : \/ files'[k] = files[k]
                         \/ k \notin K /\ (files'[k] = NoFile \/ files'[k][1] # x)
      BY <1>0, <1>1, <2>1, <2>2
    <2> QED
      BY <2>3, FilesKept
  <1>5. CASE ~On({"unregister", "commands", "rbfiles"})
    <2>1. files' = files
      BY <1>0, <1>5, Touches DEF Untouched, On, Itinerary, Between, Last
    <2> QED
      BY <2>1 DEF FilesAre, FilesOf
  <1> QED
    BY <1>2, <1>3, <1>4, <1>5 DEF On

\* The extension part of integration switch.
LEMMA FilesSwitched ==
  ASSUME TypeOK, TypeOK', EntryOK, EntryOK', NamesOK, Step, damaged = {},
         NEW x \in Ext, x \notin failed, cli.op = "switch",
         \A f \in Ext : DirOK(f), FilesAre(x, registry[x].cmds, registry[x].ver)
  PROVE  FilesAre(x, registry[x].cmds, registry[x].ver)'
  <1>0. cli # Idle /\ IsCommand(cli) /\ Itinerary
    BY StepMoves
  <1> PICK v : v = registry[x].ver
    OBVIOUS
  <1> PICK K : K = registry[x].cmds
    OBVIOUS
  <1>1. registry'[x].ver = v
    BY EntryAside DEF Aside
  <1>2. K \subseteq Key /\ FilesOf(x) = K /\ \A k \in K : files[k] = <<x, v>>
    BY DEF FilesAre, FilesOf, Content
  <1>3. CASE On({"unagent"})
    <2>1. /\ files' = UnregisterCommands(files, UNION {OfAgent(registry[f].cmds, active) : f \in Ext})
          /\ registry'[x].cmds = K \ OfAgent(K, active)
      BY <1>0, <1>3, Acts, CmdsStep DEF On, At, UnregisterAgent
    <2>2. ASSUME NEW k \in Key
          PROVE  /\ k \in OfAgent(K, active) => files'[k] = NoFile
                 /\ k[1] # active => files'[k] = files[k]
      <3>1. k \in OfAgent(K, active) => k \in UNION {OfAgent(registry[f].cmds, active) : f \in Ext}
        OBVIOUS
      <3>2. k[1] # active => k \notin UNION {OfAgent(registry[f].cmds, active) : f \in Ext}
        BY DEF OfAgent
      <3> QED
        BY <2>1, <3>1, <3>2 DEF UnregisterCommands
    <2>3. ASSUME NEW k \in Key
          PROVE  files'[k] = files[k] \/ files'[k] = NoFile
      BY <2>1 DEF UnregisterCommands
    <2>4. \A k \in K \ OfAgent(K, active) : files'[k] = <<x, v>>
      BY <1>2, <2>2 DEF OfAgent
    <2>5. ASSUME NEW k \in Key
          PROVE  (files'[k] # NoFile /\ files'[k][1] = x) <=> k \in K \ OfAgent(K, active)
      <3>1. CASE k \in K \ OfAgent(K, active)
        BY <1>2, <2>4, <3>1 DEF FilesOf
      <3>2. CASE k \in OfAgent(K, active)
        BY <2>2, <3>2
      <3>3. CASE k \notin K
        BY <1>2, <2>3, <3>3 DEF FilesOf
      <3> QED
        BY <3>1, <3>2, <3>3
    <2>6. {k \in Key : files'[k] # NoFile /\ files'[k][1] = x} = K \ OfAgent(K, active)
      BY <1>2, <2>5
    <2> QED
      BY <1>1, <2>1, <2>4, <2>6 DEF FilesAre, FilesOf, Content
  <1>4. CASE On({"regagent"})
    <2> DEFINE cmds(e) == IF Usable(e) /\ active \notin SkillMode
                          THEN {active} \X Provides[e][dir[e].ver] ELSE {}
    <2>1. /\ files' = [k \in Key |->
               IF \E e \in Ext : k \in cmds(e)
               THEN LET e == CHOOSE f \in Ext : k \in cmds(f) IN Content(e, dir[e].ver)
               ELSE files[k]]
          /\ registry'[x].cmds = K \cup NewCmds(x)
      BY <1>0, <1>4, Acts, CmdsStep DEF On, At, RegisterAgent
    <2>2. ASSUME NEW f \in Ext
          PROVE  /\ cmds(f) = NewCmds(f)
                 /\ \A k \in cmds(f) : dir[f].ver = registry[f].ver
      <3>1. DirOK(f) /\ ~Writing(f)
        BY DEF Writing, Runs
      <3> QED
        BY <3>1, UsableVer DEF NewCmds
    <2> HIDE DEF cmds
    <2>3. ASSUME NEW f \in Ext, NEW k \in cmds(f)
          PROVE  k[2] \in Provided(f, registry[f])
      BY <2>2, <2>3 DEF NewCmds
    <2>4. ASSUME NEW f \in Ext, NEW g \in Ext, f # g
          PROVE  Provided(f, registry[f]) \cap Provided(g, registry[g]) = {}
      BY <2>4 DEF NamesOK, Clear
    <2>5. \A k \in K : k[2] \in Provided(x, registry[x])
      BY DEF NamesOK
    <2>6. ASSUME NEW k \in Key, k \in K \cup cmds(x), NEW f \in Ext, k \in cmds(f)
          PROVE  f = x
      BY <2>3, <2>4, <2>5, <2>6
    <2>7. ASSUME NEW k \in cmds(x), k \in Key
          PROVE  files'[k] = <<x, v>>
      <3>1. PICK f \in Ext : f = (CHOOSE g \in Ext : k \in cmds(g)) /\ k \in cmds(f)
        BY <2>7
      <3>2. f = x
        BY <2>6, <2>7, <3>1
      <3>3. files'[k] = Content(f, dir[f].ver)
        BY <2>1, <2>7, <3>1
      <3> QED
        BY <2>2, <2>7, <3>2, <3>3 DEF Content
    <2>8. ASSUME NEW k \in Key, k \in K, k \notin cmds(x)
          PROVE  files'[k] = <<x, v>>
      <3>1. ~ \E e \in Ext : k \in cmds(e)
        BY <2>6, <2>8
      <3> QED
        BY <1>2, <2>1, <2>8, <3>1
    <2>9. ASSUME NEW k \in Key, k \notin K, k \notin cmds(x)
          PROVE  files'[k] = NoFile \/ files'[k][1] # x
      <3>1. CASE \E e \in Ext : k \in cmds(e)
        <4>1. PICK f \in Ext : f = (CHOOSE g \in Ext : k \in cmds(g)) /\ k \in cmds(f)
          BY <3>1
        <4>2. files'[k] = Content(f, dir[f].ver) /\ f # x
          BY <2>1, <2>9, <3>1, <4>1
        <4> QED
          BY <4>2 DEF Content
      <3>2. CASE ~ \E e \in Ext : k \in cmds(e)
        BY <1>2, <2>1, <2>9, <3>2 DEF FilesOf
      <3> QED
        BY <3>1, <3>2
    <2>10. cmds(x) \subseteq Key /\ cmds(x) = NewCmds(x)
      <3>1. Provided(x, registry[x]) \subseteq Name
        BY ExtensionsAssumption, InstalledVer DEF Provided, TypeOK, Version
      <3> QED
        BY <2>2, <3>1 DEF NewCmds, Key, TypeOK
    <2>11. <<x, v>> # NoFile \/ K \cup cmds(x) = {}
      <3>1. v \in Version \/ K \cup cmds(x) = {}
        <4>1. CASE registry[x] = NoEntry
          BY <2>2, <4>1 DEF NoEntry, NewCmds
        <4>2. CASE registry[x] # NoEntry
          BY <4>2, InstalledVer DEF TypeOK
        <4> QED
          BY <4>1, <4>2
      <3> QED
        BY <3>1, ExtensionsAssumption DEF Version
    <2>12. {k \in Key : files'[k] # NoFile /\ files'[k][1] = x} = K \cup cmds(x)
      <3>1. ASSUME NEW k \in Key
            PROVE  (files'[k] # NoFile /\ files'[k][1] = x) <=> k \in K \cup cmds(x)
        BY <2>7, <2>8, <2>9, <2>11
      <3> QED
        BY <1>2, <2>10, <3>1
    <2>13. \A k \in K \cup cmds(x) : files'[k] = <<x, v>>
      BY <1>2, <2>7, <2>8, <2>10
    <2> QED
      BY <1>1, <2>1, <2>10, <2>12, <2>13 DEF FilesAre, FilesOf, Content
  <1>5. CASE ~On({"unagent", "regagent"})
    <2>1. files' = files /\ registry' = registry
      BY <1>0, <1>5, Touches DEF Untouched, On, Itinerary, Between, Last, WritesRegistry
    <2> QED
      BY <2>1 DEF FilesAre, FilesOf
  <1> QED
    BY <1>3, <1>4, <1>5 DEF On

\* Each step leaves the command files of an extension as the next one expects them.
LEMMA FilesStep ==
  ASSUME TypeOK, TypeOK', EntryOK, EntryOK', NamesOK, Step,
         \A f \in Ext : DirOK(f) /\ FilesOK(f), NEW x \in Ext
  PROVE  FilesOK(x)'
  <1>0. cli # Idle /\ IsCommand(cli) /\ cli.e \in Ext /\ Itinerary /\ (Ended \/ Carried)
    BY StepMoves
  <1>1. damaged' = damaged /\ Untouched
    BY Touches DEF Untouched
  <1>2. \E s \in StepName : At(s)
    BY Acts
  <1>3. cli' = Idle \/ (/\ cli'.op = cli.op /\ cli'.e = cli.e /\ cli'.v = cli.v
                        /\ cli'.before = cli.before)
    BY <1>0 DEF Ended, Carried
  <1>4. failed \subseteq failed' /\ (At("cleanup") /\ cli.op = "rollback" => cli.e \in failed')
    <2>1. CASE On({"cleanup"})
      BY <1>0, <2>1, Acts DEF On, At, Cleanup
    <2>2. CASE ~On({"cleanup"})
      BY <1>1, <2>2 DEF Untouched, On, At
    <2> QED
      BY <2>1, <2>2
  <1> SUFFICES ASSUME damaged = {}, x \notin failed' PROVE FilesOK(x)'
    BY <1>1 DEF FilesOK
  <1>5. x \notin failed /\ FilesOK(x) /\ DirOK(x)
    BY <1>4
  <1>6. CASE x # cli.e \/ cli.op = "switch"
    <2>1. ~Writing(x) /\ ~Writing(x)'
      BY <1>3, <1>6 DEF Writing, Runs
    <2>2. FilesAre(x, registry[x].cmds, registry[x].ver)
      BY <1>5, <2>1 DEF FilesOK
    <2>3. FilesAre(x, registry[x].cmds, registry[x].ver)'
      <3>1. CASE cli.op = "switch"
        BY <1>5, <2>2, <3>1, FilesSwitched
      <3>2. CASE cli.op # "switch"
        <4> PICK K, v : K = registry[x].cmds /\ v = registry[x].ver
          OBVIOUS
        <4>1. registry'[x] = registry[x]
          BY <1>5, <1>6, <3>2, CmdsStep
        <4>2. FilesAre(x, K, v)'
          BY <1>5, <1>6, <2>2, <3>2, FilesAside
        <4> QED
          BY <4>1, <4>2
      <3> QED
        BY <3>1, <3>2
    <2> QED
      BY <2>1, <2>3 DEF FilesOK
  <1>7. CASE x = cli.e /\ cli.op \in {"enable", "disable", "priority"}
    <2>1. ~Writing(x) /\ ~Writing(x)'
      BY <1>3, <1>7 DEF Writing, Runs
    <2>2. On({"flag", "flaghooks", "priority"})
      BY <1>0, <1>2, <1>7 DEF On, At, StepName, Itinerary, Between, Last
    <2>3. files' = files /\ registry'[x].cmds = registry[x].cmds /\ registry'[x].ver = registry[x].ver
      BY <1>1, <1>5, <2>2, CmdsStep, ProvidedKept DEF Untouched, On
    <2> QED
      BY <1>5, <2>1, <2>3 DEF FilesOK, FilesAre, FilesOf
  <1>8. CASE x = cli.e /\ cli.op = "rollback"
    <2>1. cli' # Idle
      BY <1>0, <1>2, <1>4, <1>8 DEF At, StepName, Itinerary, Between, Last
    <2> QED
      BY <1>3, <1>8, <2>1 DEF FilesOK, Writing, Runs
  <1>9. CASE x = cli.e /\ cli.op \in {"add", "remove", "update"}
    <2>0. /\ On({"clearbackup", "backup", "download", "unregister", "restoreconf", "meta",
                 "metahooks", "cleanup"}) => FilesAre(x, registry[x].cmds, registry[x].ver)
          /\ On({"unskill", "rmdir", "unhook", "unregistry", "validate", "copy", "commands"}) =>
               FilesOf(x) = {}
          /\ On({"skills", "hooks", "config", "registry"}) => FilesAre(x, cli.cmds, cli.v)
      BY <1>0, <1>5, <1>9 DEF FilesOK, Writing, Runs
    <2>a. \* It is enough to look at the next step.
          ASSUME \/ cli' = Idle /\ FilesAre(x, registry[x].cmds, registry[x].ver)'
                 \/ /\ cli' # Idle
                    /\ Head(cli'.todo) \in {"clearbackup", "backup", "download", "unregister",
                                            "restoreconf", "meta", "metahooks", "cleanup"}
                    /\ FilesAre(x, registry[x].cmds, registry[x].ver)'
                 \/ /\ cli' # Idle
                    /\ Head(cli'.todo) \in {"unskill", "rmdir", "unhook", "unregistry",
                                            "validate", "copy", "commands"}
                    /\ FilesOf(x)' = {}
                 \/ /\ cli' # Idle
                    /\ Head(cli'.todo) \in {"skills", "hooks", "config", "registry"}
                    /\ FilesAre(x, cli.cmds, cli.v)'
          PROVE  FilesOK(x)'
      <3>1. CASE cli' = Idle
        BY <2>a, <3>1 DEF FilesOK, Writing, Runs
      <3>2. CASE cli' # Idle
        BY <1>3, <1>9, <2>a, <3>2 DEF FilesOK, Writing, Runs, On
      <3> QED
        BY <3>1, <3>2
    <2>1. CASE On({"unregister"})
      <3>1. files' = UnregisterCommands(files, registry[x].cmds) /\ FilesOf(x) = registry[x].cmds
        BY <1>0, <1>9, <2>0, <2>1, Acts DEF On, At, Unregister, FilesAre
      <3>2. FilesOf(x)' = {}
        BY <3>1 DEF UnregisterCommands, FilesOf
      <3>3. cli' # Idle /\ Head(cli'.todo) = "unskill"
        BY <1>0, <2>1 DEF On, Itinerary, Between
      <3> QED
        BY <2>a, <3>2, <3>3
    <2>2. CASE On({"commands"})
      <3> PICK N : N = dirs \X Provides[x][cli.v]
        OBVIOUS
      <3> PICK v : v = cli.v
        OBVIOUS
      <3>1. /\ files' = RegisterForAll(files, dirs, Provides[x][v], Content(x, v))
            /\ FilesOf(x) = {} /\ v \in Version
        BY <1>0, <1>9, <2>0, <2>2, Acts DEF On, At, Commands, Names, IsCommand, Itinerary, Between
      <3>2. cli' # Idle /\ Head(cli'.todo) = "skills" /\ cli'.cmds = N /\ cli'.v = v
        BY <1>0, <1>9, <2>2 DEF On, At, Itinerary, Between, Ended, Carried, RegisteredForAll, Names
      <3>3. Content(x, v) # NoFile /\ Content(x, v)[1] = x /\ N \subseteq Key
        <4>1. Content(x, v) # NoFile /\ Provides[x][v] \subseteq Name
          BY <3>1, Written
        <4> QED
          BY <4>1 DEF Content, Key, TypeOK
      <3>4. \A k \in Key : files'[k] = IF k \in N THEN Content(x, v) ELSE files[k]
        BY <3>1 DEF RegisterForAll, RegisteredForAll
      <3>5. {k \in Key : files'[k] # NoFile /\ files'[k][1] = x} = N
        BY <3>1, <3>3, <3>4 DEF FilesOf
      <3>6. FilesAre(x, N, v)'
        BY <3>3, <3>4, <3>5 DEF FilesAre, FilesOf, Content
      <3> QED
        BY <2>a, <3>2, <3>6
    <2>3. CASE On({"registry"})
      <3>1. /\ files' = files /\ registry'[x].cmds = cli.cmds /\ registry'[x].ver = cli.v
            /\ FilesAre(x, cli.cmds, cli.v)
        BY <1>1, <1>5, <1>9, <2>0, <2>3, CmdsStep DEF Untouched, On
      <3>2. FilesAre(x, registry[x].cmds, registry[x].ver)'
        BY <3>1 DEF FilesAre, FilesOf, Content
      <3>3. cli' = Idle \/ (cli' # Idle /\ Head(cli'.todo) = "restoreconf")
        BY <1>0, <2>3 DEF On, Itinerary
      <3> QED
        BY <2>a, <3>2, <3>3
    <2>4. CASE On({"unregistry"})
      <3>1. files' = files /\ registry'[x] = NoEntry /\ FilesOf(x) = {}
        BY <1>1, <1>5, <1>9, <2>0, <2>4, CmdsStep DEF Untouched, On
      <3>2. FilesOf(x)' = {} /\ FilesAre(x, registry[x].cmds, registry[x].ver)'
        BY <3>1 DEF FilesAre, FilesOf, NoEntry
      <3>3. cli' = Idle \/ (cli' # Idle /\ Head(cli'.todo) \in {"copy", "validate"})
        BY <1>0, <2>4 DEF On, Itinerary
      <3> QED
        BY <2>a, <3>2, <3>3
    <2>5. CASE On({"skills", "hooks", "config"})
      <3>1. files' = files /\ FilesAre(x, cli.cmds, cli.v)
        BY <1>1, <2>0, <2>5 DEF Untouched, On
      <3>2. /\ cli' # Idle /\ cli'.cmds = cli.cmds /\ cli'.v = cli.v
            /\ Head(cli'.todo) \in {"hooks", "config", "registry"}
        BY <1>0, <2>5 DEF On, At, Itinerary, Between, Ended, Carried
      <3>3. FilesAre(x, cli.cmds, cli.v)'
        BY <3>1, <3>2 DEF FilesAre, FilesOf, Content
      <3> QED
        BY <2>a, <3>2, <3>3
    <2>6. CASE On({"unskill", "rmdir", "unhook", "validate", "copy"})
      <3>1. files' = files /\ FilesOf(x) = {}
        BY <1>1, <2>0, <2>6 DEF Untouched, On
      <3>2. /\ cli' # Idle
            /\ Head(cli'.todo) \in {"rmdir", "unhook", "unregistry", "copy", "commands"}
        BY <1>0, <2>6 DEF On, Itinerary, Between
      <3>3. FilesOf(x)' = {}
        BY <3>1 DEF FilesOf
      <3> QED
        BY <2>a, <3>2, <3>3
    <2>7. CASE On({"clearbackup", "backup", "download", "restoreconf", "meta", "metahooks",
                   "cleanup"})
      <3>1. /\ files' = files /\ FilesAre(x, registry[x].cmds, registry[x].ver)
            /\ registry'[x].cmds = registry[x].cmds /\ registry'[x].ver = registry[x].ver
        BY <1>1, <1>5, <2>0, <2>7, CmdsStep, ProvidedKept DEF Untouched, On
      <3>2. FilesAre(x, registry[x].cmds, registry[x].ver)'
        BY <3>1 DEF FilesAre, FilesOf, Content
      <3>3. cli' = Idle \/ (/\ cli' # Idle
                            /\ Head(cli'.todo) \in {"unregister", "download", "meta", "metahooks",
                                                    "cleanup"})
        BY <1>0, <2>7 DEF On, Itinerary, Between, Last
      <3> QED
        BY <2>a, <3>2, <3>3
    <2>8. On({"clearbackup", "backup", "download", "restoreconf", "meta", "metahooks", "cleanup",
              "unskill", "rmdir", "unhook", "validate", "copy", "skills", "hooks", "config",
              "unregistry", "registry", "commands", "unregister"})
      BY <1>0, <1>2, <1>9 DEF On, At, StepName, Itinerary, Between, Last
    <2> QED
      BY <2>1, <2>2, <2>3, <2>4, <2>5, <2>6, <2>7, <2>8 DEF On
  <1> QED
    BY <1>0, <1>6, <1>7, <1>8, <1>9 DEF IsCommand, Op

\* So does every action: a registration that raises half way writes its own names only.
LEMMA FilesNext ==
  ASSUME TypeOK, TypeOK', EntryOK, EntryOK', NamesOK, [Next]_vars,
         \A f \in Ext : DirOK(f) /\ FilesOK(f), NEW x \in Ext
  PROVE  FilesOK(x)'
  <1>1. CASE Opening
    <2>1. Begins
      BY <1>1, Openings
    <2>2. /\ cli = Idle /\ cli' # Idle /\ UNCHANGED <<registry, files, damaged, failed>>
      BY <2>1 DEF Begins, Started
    <2>3. /\ cli'.op # "rollback"
          /\ Head(cli'.todo) \in {"copy", "clearbackup", "unregister", "backup", "flag",
                                  "priority", "unagent"}
          /\ cli'.e = x /\ Head(cli'.todo) = "copy" => registry[x] = NoEntry
      BY <2>1 DEF Begins, Started, Installed
    <2> SUFFICES ASSUME damaged = {}, x \notin failed PROVE FilesOK(x)'
      BY <2>2 DEF FilesOK
    <2>4. FilesAre(x, registry[x].cmds, registry[x].ver)
      BY <2>2 DEF FilesOK, Writing, Runs
    <2>5. FilesAre(x, registry[x].cmds, registry[x].ver)' /\ FilesOf(x)' = FilesOf(x)
      BY <2>2, <2>4 DEF FilesAre, FilesOf, Content
    <2>6. cli'.e = x /\ Head(cli'.todo) = "copy" => FilesOf(x)' = {}
      BY <2>3, <2>4, <2>5 DEF FilesAre, NoEntry
    <2> QED
      BY <2>2, <2>3, <2>5, <2>6 DEF FilesOK, Writing, Runs, On
  <1>2. ASSUME NEW e \in Ext, EditConfig(e) PROVE FilesOK(x)'
    BY <1>2 DEF EditConfig, agents, FilesOK, Writing, Runs, FilesAre, FilesOf, Content
  <1>3. CASE Step
    BY <1>3, FilesStep
  <1>4. CASE Fail
    <2>1. cli # Idle /\ IsCommand(cli) /\ cli.e \in Ext /\ UNCHANGED registry
      BY <1>4, Fails DEF TypeOK, IsCommand
    <2>2. CASE /\ cli.op = "update" /\ cli' = Rollback /\ Partly
               /\ damaged' = damaged /\ failed' = failed
      <3>1. cli' # Idle /\ cli'.op = "rollback" /\ cli'.e = cli.e
        BY <2>1, <2>2, RollsBack
      <3>2. CASE x = cli.e
        BY <3>1, <3>2 DEF FilesOK, Writing, Runs
      <3>3. CASE x # cli.e
        <4> SUFFICES ASSUME damaged = {}, x \notin failed PROVE FilesOK(x)'
          BY <2>2 DEF FilesOK
        <4> PICK e : e = cli.e
          OBVIOUS
        <4> PICK K, v : K = registry[x].cmds /\ v = registry[x].ver
          OBVIOUS
        <4>1. FilesAre(x, K, v)
          BY <3>3 DEF FilesOK, Writing
        <4>2. FilesAre(x, K, v)'
          <5>1. CASE files' = files
            BY <4>1, <5>1 DEF FilesAre, FilesOf, Content
          <5>2. CASE /\ On({"commands"})
                     /\ \A k \in Key : \/ files'[k] = files[k]
                                       \/ /\ k[2] \in Provides[e][cli.v]
                                          /\ files'[k] = Content(e, cli.v)
            <6>1. Provides[e][cli.v] \cap Provided(x, registry[x]) = {}
              BY <2>1, <2>2, <3>3, <5>2 DEF NamesOK, Runs, On, Clear
            <6>2. \A k \in K : k[2] \in Provided(x, registry[x])
              BY DEF NamesOK
            <6>3. \A k \in Key : \/ files'[k] = files[k]
                                 \/ k \notin K /\ files'[k][1] # x
              BY <3>3, <5>2, <6>1, <6>2 DEF Content
            <6> QED
              BY <4>1, <6>3, FilesKept
          <5> QED
            BY <2>1, <2>2, <5>1, <5>2, PartlyDone DEF On, At
        <4> QED
          BY <2>1, <3>1, <3>3, <4>2 DEF FilesOK, Writing, Runs
      <3> QED
        BY <3>2, <3>3
    <2>3. CASE failed' = failed \cup Ext
      BY <2>3 DEF FilesOK
    <2>4. CASE damaged' = damaged \cup {cli.e}
      BY <2>4 DEF FilesOK
    <2> QED
      BY <1>4, <2>2, <2>3, <2>4, Fails
  <1>5. CASE Interrupt
    BY <1>5, InterruptMarks DEF FilesOK
  <1>6. CASE UNCHANGED vars
    BY <1>6 DEF vars, agents, history, FilesOK, Writing, Runs, On, FilesAre, FilesOf, Content
  <1> QED
    BY <1>1, <1>2, <1>3, <1>4, <1>5, <1>6 DEF Next, Opening

-----------------------------------------------------------------------------
(* The invariant and what follows from it. *)

\* The invariant holds of a project with no extension.
LEMMA Initially ==
  ASSUME Init
  PROVE  IInv
  <1>0. /\ cli = Idle /\ damaged = {} /\ hooks = {} /\ listed = {}
        /\ \A e \in Ext : /\ registry[e] = NoEntry /\ dir[e] = NoDir /\ backup[e] = 0
                          /\ upd[e] = NoUpd /\ latest[e] = 0
        /\ files = NoFiles
    BY DEF Init
  <1>1. TypeOK
    <2>1. active \in Agent
      BY ExtensionsAssumption DEF Init
    <2>2. /\ NoEntry \in Entry /\ IsEntry(NoEntry) /\ NoDir \in DirState /\ NoUpd \in UpdState
          /\ NoFiles \in [Key -> File]
      BY ExtensionsAssumption
         DEF NoEntry, Entry, IsEntry, NoDir, DirState, NoUpd, UpdState, NoFiles, File
    <2> QED
      BY <2>1, <2>2 DEF Init, TypeOK
  <1>2. EntryOK /\ YmlOK /\ SavedOK
    BY <1>0 DEF EntryOK, YmlOK, SavedOK, Runs
  <1>3. NamesOK
    BY <1>0 DEF NamesOK, Runs, Clear, Provided, NoEntry
  <1>4. ASSUME NEW e \in Ext
        PROVE  HooksOK(e) /\ DirOK(e) /\ ConfigOK(e) /\ FilesOK(e)
    <2>1. HooksOK(e)
      BY <1>0 DEF HooksOK, Runs, HooksMatch, NoHooks, HooksOf, Installed
    <2>2. DirOK(e) /\ ConfigOK(e)
      BY <1>0 DEF DirOK, ConfigOK, Writing, Runs, Installed
    <2>3. FilesOK(e)
      BY <1>0 DEF FilesOK, Writing, Runs, FilesAre, FilesOf, NoFiles, NoEntry
    <2> QED
      BY <2>1, <2>2, <2>3
  <1> QED
    BY <1>1, <1>2, <1>3, <1>4 DEF IInv

\* Every action preserves it.
LEMMA Preserved ==
  ASSUME IInv, [Next]_vars
  PROVE  IInv'
  <1>0. /\ TypeOK /\ EntryOK /\ YmlOK /\ NamesOK /\ SavedOK
        /\ \A e \in Ext : HooksOK(e) /\ DirOK(e) /\ ConfigOK(e) /\ FilesOK(e)
    BY DEF IInv
  <1>1. TypeOK' /\ EntryOK'
    BY <1>0, TypeNext, EntryNext
  <1>2. YmlOK' /\ SavedOK'
    BY <1>0, <1>1, YmlNext, SavedNext
  <1>3. NamesOK'
    BY <1>0, <1>1, NamesNext
  <1>4. ASSUME NEW e \in Ext
        PROVE  HooksOK(e)' /\ DirOK(e)' /\ ConfigOK(e)' /\ FilesOK(e)'
    <2>1. HooksOK(e)'
      BY <1>0, <1>1, <1>2, HooksNext
    <2>2. DirOK(e)'
      BY <1>0, <1>1, DirNext
    <2>3. ConfigOK(e)'
      BY <1>0, <1>1, <2>2, ConfigNext
    <2>4. FilesOK(e)'
      BY <1>0, <1>1, FilesNext
    <2> QED
      BY <2>1, <2>2, <2>3, <2>4
  <1> QED
    BY <1>1, <1>2, <1>3, <1>4 DEF IInv

\* At every step of every command, however commands fail or are interrupted, the
\* registry, the directories, the hooks and the command files are what the step
\* at the head of the command's plan says they are.
THEOREM Invariance == Spec => []IInv
  <1>1. Init => IInv
    BY Initially
  <1>2. IInv /\ [Next]_vars => IInv'
    BY Preserved
  <1> QED
    BY <1>1, <1>2, PTL DEF Spec

\* Between two commands every command file of an extension is one its entry lists, at
\* the registered version, and an enabled extension has all of them: what install
\* registers is what remove and update unregister.
THEOREM FilesRegistered == Spec => []CommandsFollowRegistry
  <1>1. IInv => CommandsFollowRegistry
    <2> SUFFICES ASSUME IInv, cli = Idle, damaged = {}, NEW e \in Ext \ failed
                 PROVE  /\ \A k \in Key : files[k] # NoFile /\ files[k][1] = e =>
                             k \in registry[e].cmds /\ files[k] = Content(e, registry[e].ver)
                        /\ \A k \in registry[e].cmds : files[k] = Content(e, registry[e].ver)
      BY DEF CommandsFollowRegistry
    <2>1. FilesAre(e, registry[e].cmds, registry[e].ver)
      BY DEF IInv, FilesOK, Writing, Runs
    <2> QED
      BY <2>1 DEF FilesAre, FilesOf
  <1> QED
    BY <1>1, Invariance, PTL

\* Between two commands the hooks of extensions.yml are those of the installed
\* versions, with the flag of the registry, also after a rollback.
THEOREM HooksRegistered == Spec => []HooksFollowExtensions
  <1>1. IInv => HooksFollowExtensions
    <2> SUFFICES ASSUME IInv, NEW e \in Ext, Settled(e)
                 PROVE  /\ e \in listed <=> Installed(e)
                        /\ HooksOf(e) = IF Installed(e)
                             THEN HookEvents[e][registry[e].ver] \X {e} \X {registry[e].enabled}
                             ELSE {}
      BY DEF HooksFollowExtensions
    <2>1. HooksMatch(e)
      BY DEF IInv, HooksOK, Settled, Runs
    <2> QED
      BY <2>1 DEF HooksMatch, FullHooks, NoHooks
  <1> QED
    BY <1>1, Invariance, PTL

\* The newest configuration of an extension is in its directory or in a backup at
\* every step of remove, forced add, update and rollback, also when the step is
\* half done, until a rollback is begun with a backup that was torn.
THEOREM ConfigKept == Spec => []ConfigNeverDestroyed
  <1>1. IInv => ConfigNeverDestroyed
    BY DEF IInv, ConfigOK, ConfigNeverDestroyed
  <1> QED
    BY <1>1, Invariance, PTL

\* A rollback that ends has put back the entry, the hooks, the installed list and
\* the saved files, whichever step failed, and the directory with its config
\* unless the extension had been damaged or the backup torn.
THEOREM UpdateUndone == Spec => RollbackRestores
  <1> DEFINE A == (cli # Idle /\ cli.op = "rollback" /\ At("cleanup") /\ failed' # failed)
                  => /\ View(cli.e) = [cli.before EXCEPT !.dir = dir[cli.e]]
                     /\ \A k \in Key : cli.saved[k] # NoFile => files[k] = cli.saved[k]
                     /\ cli.e \notin damaged => dir[cli.e] = cli.before.dir
  <1>1. IInv /\ [Next]_vars => [A]_vars
    <2> SUFFICES ASSUME IInv, cli # Idle, cli.op = "rollback", At("cleanup")
                 PROVE  /\ View(cli.e) = [cli.before EXCEPT !.dir = dir[cli.e]]
                        /\ \A k \in Key : cli.saved[k] # NoFile => files[k] = cli.saved[k]
                        /\ cli.e \notin damaged => dir[cli.e] = cli.before.dir
      OBVIOUS
    <2>1. /\ cli.e \in Ext
          /\ cli.before = [entry |-> cli.before.entry, dir |-> cli.before.dir,
                           listed |-> cli.before.listed, hooks |-> cli.before.hooks]
      BY DEF IInv, TypeOK, IsCommand
    <2>2. On({"cleanup"})
      BY DEF On, At
    <2>3. registry[cli.e] = cli.before.entry
      BY <2>2 DEF IInv, EntryOK, Runs
    <2>4. cli.e \notin damaged => dir[cli.e] = cli.before.dir
      BY <2>1, <2>2 DEF IInv, DirOK, Writing, Runs, On
    <2>5. HooksOf(cli.e) = cli.before.hooks /\ listed = cli.before.listed
      BY <2>2 DEF IInv, YmlOK, Runs, On, Restored
    <2>6. \A k \in Key : cli.saved[k] # NoFile => files[k] = cli.saved[k]
      BY <2>2 DEF IInv, SavedOK, Runs, On
    <2>7. View(cli.e) = [cli.before EXCEPT !.dir = dir[cli.e]]
      BY <2>1, <2>3, <2>5 DEF View
    <2> QED
      BY <2>4, <2>6, <2>7
  <1> HIDE DEF A
  <1>2. Spec => [][A]_vars
    BY <1>1, Invariance, PTL DEF Spec
  <1> QED
    BY <1>2 DEF RollbackRestores, A

-----------------------------------------------------------------------------
(* The abstract set of extensions. *)

\* What a user sees of an entry.
Seen(r) == [ver |-> r.ver, enabled |-> r.enabled, prio |-> r.prio]

\* What is shown of an extension, before and after a step.
LEMMA ShownIs ==
  ASSUME NEW x
  PROVE  /\ Shown(x) = IF InProgress(x) THEN Seen(cli.before.entry) ELSE Seen(registry[x])
         /\ Shown(x)' = IF InProgress(x)' THEN Seen(cli'.before.entry) ELSE Seen(registry'[x])
  BY DEF Shown, Seen

\* The extensions the running command does not work on look as before.
LEMMA ShownAside ==
  ASSUME TypeOK, TypeOK', Step, NEW x \in Ext, Aside(x)
  PROVE  Shown(x)' = Shown(x)
  <1>0. cli # Idle /\ (Ended \/ Carried)
    BY StepMoves
  <1>1. ~InProgress(x) /\ ~InProgress(x)'
    BY <1>0 DEF InProgress, Aside, Ended, Carried
  <1>2. Seen(registry'[x]) = Seen(registry[x])
    BY EntryAside DEF Seen
  <1> QED
    BY <1>1, <1>2, ShownIs

\* A step changes what is shown only at the end of a command, and as the abstract set
\* allows.
LEMMA StepRefines ==
  ASSUME TypeOK, TypeOK', EntryOK, EntryOK', Step
  PROVE  \/ Abstract!Next
         \/ UNCHANGED <<[e \in Ext |-> Shown(e)], damaged>>
  <1> PICK e : e = cli.e
    OBVIOUS
  <1>0. cli # Idle /\ IsCommand(cli) /\ e \in Ext /\ Itinerary /\ (Ended \/ Carried)
        /\ cli.op \in Op
    BY StepMoves DEF IsCommand
  <1>1. damaged' = damaged /\ Untouched
    BY Touches DEF Untouched
  <1>2. \E s \in StepName : At(s)
    BY Acts
  <1>3. cli' = Idle \/ (cli'.op = cli.op /\ cli'.e = e /\ cli'.before = cli.before)
    BY <1>0 DEF Ended, Carried
  <1>4. \A x \in Ext \ {e} : Shown(x)' = Shown(x)
    BY ShownAside DEF Aside
  <1>5. Shown(e)' = Shown(e) => UNCHANGED <<[x \in Ext |-> Shown(x)], damaged>>
    BY <1>1, <1>4
  <1>6. ASSUME NEW s, Shown(e)' = s PROVE Abstract!Becomes(e, s)
    BY <1>0, <1>1, <1>4, <1>6 DEF Abstract!Becomes
  <1>7. registry \in [Ext -> Entry] /\ registry[e] \in Entry /\ IsEntry(registry[e])
    BY <1>0 DEF TypeOK
  <1>8. CASE cli.op = "switch"
    BY <1>0, <1>5, <1>8, ShownAside DEF Aside
  <1>9. CASE cli.op \in {"add", "update", "rollback"}
    <2>1. Shown(e) = Seen(cli.before.entry)
      BY <1>0, <1>9, ShownIs DEF InProgress
    <2>2. CASE cli' # Idle
      <3>1. Shown(e)' = Seen(cli.before.entry)
        BY <1>3, <1>9, <2>2, ShownIs DEF InProgress
      <3> QED
        BY <1>5, <2>1, <3>1
    <2>3. CASE cli' = Idle
      <3>1. Shown(e)' = Seen(registry'[e])
        BY <2>3, ShownIs DEF InProgress
      <3>2. CASE cli.op = "add"
        <4>1. At("registry")
          BY <1>0, <1>2, <2>3, <3>2 DEF At, StepName, Itinerary, Between, Last
        <4>2. /\ registry'[e].ver = cli.v /\ registry'[e].enabled = TRUE
              /\ registry'[e].prio = cli.prio
          BY <1>0, <1>7, <4>1, Acts DEF Registry, SetEntry
        <4>3. cli.v \in 1..MaxVersion /\ cli.prio \in Priority \ {0}
          BY <1>0, <3>2 DEF IsCommand, Version
        <4>4. Abstract!Install(e, cli.v, cli.prio)
          BY <1>6, <3>1, <4>2 DEF Abstract!Install, Seen
        <4> QED
          BY <1>0, <4>3, <4>4 DEF Abstract!Next
      <3>3. CASE cli.op = "update"
        <4>1. At("cleanup")
          BY <1>0, <1>2, <2>3, <3>3 DEF At, StepName, Itinerary, Between, Last
        <4>2. registry' = registry
          BY <1>1, <4>1 DEF Untouched, On, At, WritesRegistry
        <4>3. /\ registry[e].ver = cli.v /\ registry[e].enabled = cli.before.entry.enabled
              /\ registry[e].prio = cli.before.entry.prio
              /\ cli.before.entry # NoEntry /\ cli.before.entry.ver < cli.v
          BY <1>0, <3>3, <4>1 DEF EntryOK, Runs, On, At
        <4>4. cli.before.entry.ver \in 1..MaxVersion /\ cli.v \in 1..MaxVersion
          BY <1>0, <3>3, <4>3, InstalledVer DEF IsCommand, Version
        <4>5. cli.before.entry.ver \in 1..(cli.v - 1)
          BY <4>3, <4>4, ExtensionsAssumption
        <4>6. Seen(registry[e]) = [Seen(cli.before.entry) EXCEPT !.ver = cli.v]
          BY <4>3 DEF Seen
        <4>7. [x \in Ext |-> Shown(x)][e] = Seen(cli.before.entry)
          BY <1>0, <2>1
        <4>8. Seen(cli.before.entry).ver = cli.before.entry.ver
          BY DEF Seen
        <4>9. Abstract!Update(e, cli.v)
          BY <1>6, <3>1, <4>2, <4>5, <4>6, <4>7, <4>8 DEF Abstract!Update
        <4> QED
          BY <1>0, <4>4, <4>9 DEF Abstract!Next
      <3>4. CASE cli.op = "rollback"
        <4>1. At("cleanup")
          BY <1>0, <1>2, <2>3, <3>4 DEF At, StepName, Itinerary, Between, Last
        <4>2. registry' = registry
          BY <1>1, <4>1 DEF Untouched, On, At, WritesRegistry
        <4>3. registry[e] = cli.before.entry
          BY <1>0, <3>4, <4>1 DEF EntryOK, Runs, On, At
        <4> QED
          BY <1>5, <2>1, <3>1, <4>2, <4>3
      <3> QED
        BY <1>9, <3>2, <3>3, <3>4
    <2> QED
      BY <2>2, <2>3
  <1>10. CASE cli.op \in {"remove", "enable", "disable", "priority"}
    <2>1. Shown(e) = Seen(registry[e]) /\ Shown(e)' = Seen(registry'[e])
      BY <1>3, <1>10, ShownIs DEF InProgress
    <2>2. registry[e] # NoEntry
      BY <1>0, <1>10 DEF EntryOK, Runs
    <2>3. [x \in Ext |-> Shown(x)][e] = Seen(registry[e])
      BY <1>0, <2>1
    <2>4. Seen(registry[e]) # Abstract!Absent
      <3>1. registry[e].ver # 0
        BY <1>7, <2>2, InstalledVer
      <3> QED
        BY <3>1 DEF Seen, Abstract!Absent
    <2>5. CASE On({"unregistry"})
      <3>1. registry'[e] = NoEntry
        BY <1>0, <1>7, <2>5, Acts DEF On, At, Unregistry, SetEntry
      <3>2. Abstract!Remove(e)
        BY <1>6, <2>1, <3>1 DEF Abstract!Remove, Abstract!Absent, Seen, NoEntry
      <3> QED
        BY <1>0, <3>2 DEF Abstract!Next
    <2>6. CASE On({"flag"})
      <3> PICK b \in BOOLEAN : b = (cli.op = "enable")
        OBVIOUS
      <3>1. registry'[e] = [registry[e] EXCEPT !.enabled = b]
        BY <1>0, <1>7, <2>6, Acts DEF On, At, Flag, SetEntry
      <3>2. Seen(registry'[e]) = [Seen(registry[e]) EXCEPT !.enabled = b]
        BY <1>7, <3>1 DEF Seen, Entry
      <3>3. Abstract!SetEnabled(e, b)
        BY <1>6, <2>1, <2>3, <2>4, <3>2 DEF Abstract!SetEnabled
      <3> QED
        BY <1>0, <3>3 DEF Abstract!Next
    <2>7. CASE On({"priority"})
      <3>1. registry'[e] = [registry[e] EXCEPT !.prio = cli.prio]
        BY <1>0, <1>7, <2>7, Acts DEF On, At, PriorityStep, SetEntry
      <3>2. Seen(registry'[e]) = [Seen(registry[e]) EXCEPT !.prio = cli.prio]
        BY <1>7, <3>1 DEF Seen, Entry
      <3>3. Abstract!SetPriority(e, cli.prio)
        BY <1>6, <2>1, <2>3, <2>4, <3>2 DEF Abstract!SetPriority
      <3>4. cli.prio \in Priority \ {0}
        BY <1>0, <2>7 DEF IsCommand, On, Itinerary, Last
      <3> QED
        BY <1>0, <3>3, <3>4 DEF Abstract!Next
    <2>8. CASE ~On({"unregistry", "flag", "priority"})
      <3>1. registry' = registry
        BY <1>0, <1>1, <1>10, <2>8 DEF Untouched, On, WritesRegistry, Itinerary, Between, Last
      <3> QED
        BY <1>5, <2>1, <3>1
    <2> QED
      BY <2>5, <2>6, <2>7, <2>8 DEF On
  <1> QED
    BY <1>0, <1>8, <1>9, <1>10 DEF Op

\* Every action is one of the abstract set, or changes nothing that is shown.
LEMMA NextRefines ==
  ASSUME TypeOK, TypeOK', EntryOK, EntryOK', [Next]_vars
  PROVE  \/ Abstract!Next
         \/ UNCHANGED <<[e \in Ext |-> Shown(e)], damaged>>
  <1>1. CASE Opening
    <2>1. Begins
      BY <1>1, Openings
    <2>2. /\ cli = Idle /\ cli' # Idle /\ UNCHANGED <<registry, damaged>>
          /\ cli'.before.entry = registry[cli'.e]
      BY <2>1 DEF Begins, Started
    <2>3. ASSUME NEW x \in Ext PROVE Shown(x)' = Shown(x)
      BY <2>2, ShownIs DEF InProgress
    <2> QED
      BY <2>2, <2>3
  <1>2. ASSUME NEW e \in Ext, EditConfig(e)
        PROVE  UNCHANGED <<[x \in Ext |-> Shown(x)], damaged>>
    BY <1>2 DEF EditConfig, Shown, InProgress
  <1>3. CASE Step
    BY <1>3, StepRefines
  <1>4. CASE Fail
    <2>1. cli # Idle /\ IsCommand(cli) /\ cli.e \in Ext /\ UNCHANGED registry
      BY <1>4, Fails DEF TypeOK, IsCommand
    <2>2. CASE cli.op = "update" /\ cli' = Rollback /\ damaged' = damaged
      <3>1. cli' # Idle /\ cli'.op = "rollback" /\ cli'.e = cli.e /\ cli'.before = cli.before
        BY <2>1, <2>2, RollsBack
      <3>2. ASSUME NEW x \in Ext PROVE Shown(x)' = Shown(x)
        BY <2>1, <2>2, <3>1, ShownIs DEF InProgress
      <3> QED
        BY <2>2, <3>2
    <2>3. CASE cli.op = "switch" /\ Go /\ damaged' = damaged
      <3>1. cli' = Idle \/ cli'.op = "switch"
        BY <2>1, <2>3, Goes DEF Ended, Onward
      <3>2. ASSUME NEW x \in Ext PROVE Shown(x)' = Shown(x)
        BY <2>1, <2>3, <3>1, ShownIs DEF InProgress
      <3> QED
        BY <2>3, <3>2
    <2>4. CASE cli' = Idle /\ damaged' = damaged \cup {cli.e}
      <3>1. ASSUME NEW x \in Ext \ {cli.e} PROVE Shown(x)' = Shown(x)
        BY <2>1, <2>4, ShownIs DEF InProgress
      <3>2. Abstract!Lose({cli.e})
        BY <2>4, <3>1 DEF Abstract!Lose
      <3> QED
        BY <2>1, <3>2 DEF Abstract!Next
    <2>5. CASE cli.op = "update" /\ cli' = Rollback /\ damaged' = damaged \cup {cli.e}
      <3>1. cli' # Idle /\ cli'.op = "rollback" /\ cli'.e = cli.e /\ cli'.before = cli.before
        BY <2>1, <2>5, RollsBack
      <3>2. ASSUME NEW x \in Ext PROVE Shown(x)' = Shown(x)
        BY <2>1, <2>5, <3>1, ShownIs DEF InProgress
      <3>3. Abstract!Lose({cli.e})
        BY <2>5, <3>2 DEF Abstract!Lose
      <3> QED
        BY <2>1, <3>3 DEF Abstract!Next
    <2> QED
      BY <1>4, <2>2, <2>3, <2>4, <2>5, Fails
  <1>5. CASE Interrupt
    <2>1. cli # Idle /\ cli.e \in Ext /\ cli' = Idle /\ damaged \subseteq Ext
      BY <1>5 DEF Interrupt, TypeOK, IsCommand
    <2>2. CASE damaged' = Ext \/ damaged' = damaged \cup Ext
      <3>1. Abstract!Lose(Ext)
        BY <2>1, <2>2 DEF Abstract!Lose
      <3> QED
        BY <3>1 DEF Abstract!Next
    <2>3. CASE damaged' = damaged \cup {cli.e} /\ UNCHANGED registry
      <3>1. ASSUME NEW x \in Ext \ {cli.e} PROVE Shown(x)' = Shown(x)
        BY <2>1, <2>3, ShownIs DEF InProgress
      <3>2. Abstract!Lose({cli.e})
        BY <2>3, <3>1 DEF Abstract!Lose
      <3> QED
        BY <2>1, <3>2 DEF Abstract!Next
    <2> QED
      BY <1>5, <2>2, <2>3 DEF Interrupt
  <1>6. CASE UNCHANGED vars
    BY <1>6 DEF vars, history, Shown, InProgress
  <1> QED
    BY <1>1, <1>2, <1>3, <1>4, <1>5, <1>6 DEF Next, Opening

\* The commands, with their steps, failures, rollbacks and interruptions,
\* implement the abstract set of extensions.
THEOREM ExtensionsRefine == Spec => ImplementsExtensionSet
  <1>1. Init => Abstract!Init
    <2> SUFFICES ASSUME Init PROVE Abstract!Init
      OBVIOUS
    <2>1. ASSUME NEW e \in Ext PROVE Shown(e) = Abstract!Absent
      BY <2>1, ShownIs DEF Init, InProgress, Seen, NoEntry, Abstract!Absent
    <2> QED
      BY <2>1 DEF Abstract!Init, Init
  <1>2. IInv /\ IInv' /\ [Next]_vars =>
          [Abstract!Next]_<<[e \in Ext |-> Shown(e)], damaged>>
    BY NextRefines DEF IInv
  <1> QED
    BY <1>1, <1>2, Invariance, PTL DEF Spec, ImplementsExtensionSet, Abstract!Spec
=============================================================================
