---------------------------- MODULE Integrations ----------------------------
(***************************************************************************)
(* `specify init` and `specify integration install | uninstall | switch |   *)
(* upgrade | use | status`: the command files of each coding agent, its     *)
(* manifest and context section, the shared scripts and templates,          *)
(* integration.json and init-options.json.  A command reads integration.json*)
(* once and runs a list of steps; it may fail inside its try block, or stop *)
(* for good between any two steps.                                          *)
(***************************************************************************)
EXTENDS SharedInfra, ContextSection

CONSTANTS
  Integration, Safe,       \* the integrations, and the multi_install_safe ones
  Option, Unset,           \* --integration-options an integration takes, and none
  MaxVersion, Provides,    \* command files of a version, integration and option
  Sep,                     \* invoke separator of an integration and option
  Context,                 \* the context files before Spec Kit comes
  Mdc,                     \* the integrations whose context file is an .mdc file
  None,                    \* no default integration
  MaxOps, MaxEdits         \* bounds on the commands, a stopped one counting twice, and on edits

Version == 1..MaxVersion
OptionOf(k) == Option[k] \cup {Unset}

ASSUME IntegrationsAssumption ==
  /\ Safe \subseteq Integration /\ Mdc \subseteq Integration /\ None \notin Integration /\ MaxVersion \in Nat \ {0}
  /\ MaxOps \in Nat /\ MaxEdits \in Nat /\ Context \in [Integration -> Seq(Text)]
  /\ \A k \in Integration : Unset \notin Option[k] /\ \A v \in Version :
       Provides[v][k] \in [OptionOf(k) -> SUBSET CommandFile]
  \* Command files and shared files lie in different directories, and what stands
  \* for no file, the user's text and no manifest is none that Spec Kit writes.
  /\ CommandFile \cap SharedFile = {} /\ NoFile # User
  /\ \A v \in Version, k \in Integration : \A o \in OptionOf(k) :
       {<<v, "command">>, <<v, Sep[k][o]>>} \cap {NoFile, User} = {}
  /\ \A v \in Version, w \in SUBSET CommandFile : [f \in w |-> <<v, "command">>] # NoManifest

VARIABLES
  files,     \* command files and shared files on disk
  manifest,  \* .specify/integrations/<key>.manifest.json
  shared,    \* .specify/integrations/speckit.manifest.json
  conf,      \* integration.json, NoConf if there is none
  initopt,   \* the integration of init-options.json
  ctx,       \* the context file of each integration
  version,   \* the Spec Kit release that runs
  cli, ops, edits,
  stopped,   \* history: a command stopped half way
  lost       \* history: integrations that init forgot or that an upgrade left without
             \* manifest, their files, and shared files that were not rewritten

vars == <<files, manifest, shared, conf, initopt, ctx, version, cli, ops, edits, stopped, lost>>

NoConf == [default |-> None, installed |-> <<>>, opt |-> [k \in Integration |-> Unset]]
Idle == [op |-> "idle", todo |-> <<>>]
InstalledKeys == ToSet(conf.installed)
Has(k) == manifest[k] # NoManifest
\* The state file lists a key once (dedupe_integration_keys).
Without(k) == RemoveFirst(conf.installed, k)

\* resolve_integration_options: what is given, else what is stored.
Chosen(k, o) == IF o # Unset THEN o ELSE conf.opt[k]
Files(k, o) == Provides[version][k][o]
CommandContent == <<version, "command">>
SharedContent(k, o) == <<version, Sep[k][o]>>

Init ==
  /\ files = [f \in File |-> NoFile]
  /\ manifest = [k \in Integration |-> NoManifest] /\ shared = NoShared
  /\ conf = NoConf /\ initopt = None
  /\ ctx = Context
  /\ version = 1 /\ cli = Idle /\ ops = 0 /\ edits = 0 /\ stopped = FALSE /\ lost = {}

-----------------------------------------------------------------------------
\* The steps a command is made of.
SharedStep(k, o, force, refresh) ==
  <<[do |-> "shared", key |-> k, opt |-> o, force |-> force, refresh |-> refresh],
    [do |-> "saveshared", key |-> k, opt |-> o, force |-> force, refresh |-> refresh]>>
Setup(k, o) == <<[do |-> "setup", key |-> k, opt |-> o]>>
Save(k) == <<[do |-> "manifest", key |-> k]>>
Teardown(k, force) == <<[do |-> "teardown", key |-> k, force |-> force]>>
Opts(k) == <<[do |-> "opts", key |-> k]>>
Clear(k) == <<[do |-> "clear", key |-> k]>>

\* write_integration_json: only the settings of installed integrations are kept.
Json(k, installed, opt) ==
  <<[do |-> "json", conf |->
      IF k = None THEN NoConf
      ELSE [default |-> k, installed |-> installed,
            opt |-> [i \in Integration |-> IF i \in ToSet(installed) THEN opt[i] ELSE Unset]]]>>

\* _set_default_integration
SetDefault(k, installed, opt, force) ==
  SharedStep(k, opt[k], force, TRUE) \o Json(k, installed, opt) \o Opts(k)

\* integration.json after k has gone: the first that remains takes over.
Remaining(k) ==
  CASE Without(k) = <<>> -> Json(None, <<>>, conf.opt)
    [] Without(k) # <<>> /\ conf.default = k ->
         SetDefault(Head(Without(k)), Without(k), conf.opt, FALSE)
    [] OTHER -> Json(conf.default, Without(k), conf.opt)

Begin(op, k, force, sforce, todo) ==
  /\ cli = Idle /\ ops < MaxOps /\ ops' = ops + 1
  /\ cli' = [op |-> op, key |-> k, force |-> force, sforce |-> sforce, todo |-> todo,
             mem |-> NoManifest, old |-> manifest[k], from |-> conf]
  /\ UNCHANGED <<files, manifest, shared, conf, initopt, ctx, version, edits, stopped, lost>>

\* Variant of Install: the shared files are written for the new integration.
InstallForItself(k, o, force) ==
  /\ k \notin InstalledKeys
  /\ conf = NoConf \/ force \/ (InstalledKeys \cup {k}) \subseteq Safe
  /\ LET opt == [conf.opt EXCEPT ![k] = Chosen(k, o)]
         default == IF conf = NoConf THEN k ELSE conf.default
     IN Begin("install", k, FALSE, FALSE,
          SharedStep(k, opt[k], FALSE, FALSE) \o Setup(k, opt[k]) \o Save(k)
          \o Json(default, Append(conf.installed, k), opt)
          \o IF default = k THEN Opts(k) ELSE <<>>)

\* integration_install: the shared files are written for the default integration.
Install(k, o, force) ==
  /\ k \notin InstalledKeys
  /\ conf = NoConf \/ force \/ (InstalledKeys \cup {k}) \subseteq Safe
  /\ LET opt == [conf.opt EXCEPT ![k] = Chosen(k, o)]
         default == IF conf = NoConf THEN k ELSE conf.default
     IN Begin("install", k, FALSE, FALSE,
          SharedStep(default, opt[default], FALSE, FALSE) \o Setup(k, opt[k]) \o Save(k)
          \o Json(default, Append(conf.installed, k), opt)
          \o IF default = k THEN Opts(k) ELSE <<>>)

\* integration_uninstall
Uninstalls(k, force) ==
  /\ k \in InstalledKeys
  /\ Begin("uninstall", k, force, FALSE,
       (IF Has(k) THEN Teardown(k, force) ELSE <<>>)
       \o Remaining(k) \o IF conf.default = k THEN Clear(k) ELSE <<>>)

\* integration_use
Use(k, force) ==
  /\ k \in InstalledKeys
  /\ Begin("use", k, FALSE, force, SetDefault(k, conf.installed, conf.opt, force))

\* integration_switch to an integration that is installed only sets the default.
SwitchInstalled(k, force) ==
  /\ k \in InstalledKeys /\ (k = conf.default => force)
  /\ Begin("use", k, FALSE, force, SetDefault(k, conf.installed, conf.opt, force))

\* integration_switch to another one replaces the default integration.
Switch(k, o, force, sforce) ==
  /\ k \notin InstalledKeys /\ (conf # NoConf => Has(conf.default))
  /\ LET old == conf.default
         rest == Without(old)
         opt == [conf.opt EXCEPT ![k] = Chosen(k, o)]
     IN Begin("switch", k, force, sforce,
          (IF conf = NoConf THEN <<>>
           ELSE Teardown(old, force) \o Clear(old) \o Remaining(old))
          \o SharedStep(k, opt[k], sforce, TRUE) \o Setup(k, opt[k]) \o Save(k)
          \o SetDefault(k, Append(rest, k), opt, FALSE))

UpgradeSteps(k, opt, force) ==
  SharedStep(conf.default, opt[conf.default], force, FALSE) \o Setup(k, opt[k])
  \o (IF conf.default = k THEN SharedStep(k, opt[k], force, TRUE) ELSE <<>>) \o Save(k)
  \o Json(conf.default, conf.installed, opt) \o (IF conf.default = k THEN Opts(k) ELSE <<>>)
  \o <<[do |-> "stale", key |-> k]>>

\* integration_upgrade
Upgrade(k, o, force) ==
  /\ k \in InstalledKeys /\ Has(k)
  /\ force \/ CheckModified(manifest[k], files) = {}
  /\ Begin("upgrade", k, force, force,
           UpgradeSteps(k, [conf.opt EXCEPT ![k] = Chosen(k, o)], force))

\* specify init: integration.json starts over with one integration.
SpecifyInit(k, o, force) ==
  LET opt == [NoConf.opt EXCEPT ![k] = o]
  IN Begin("init", k, TRUE, force,
       Setup(k, o) \o Save(k) \o Json(k, <<k>>, opt) \o SharedStep(k, o, force, FALSE) \o Opts(k))

-----------------------------------------------------------------------------
At(do) == cli # Idle /\ Head(cli.todo).do = do
Step == Head(cli.todo)
Advance(c) == IF Len(c.todo) = 1 THEN Idle ELSE [c EXCEPT !.todo = Tail(@)]

\* install_shared_infra: the files first, the manifest in one go at the end.
WriteSharedFiles ==
  /\ At("shared") /\ cli' = Advance([cli EXCEPT !.todo[2] = [do |-> "saveshared", sm |->
       RecordShared(shared, files, Step.force, Step.refresh, SharedContent(Step.key, Step.opt))]])
  /\ files' = WriteShared(shared, files, Step.force, Step.refresh, SharedContent(Step.key, Step.opt))
  /\ UNCHANGED <<manifest, shared, conf, initopt, ctx, version, ops, edits, stopped, lost>>
SaveShared ==
  /\ At("saveshared") /\ cli' = Advance(cli) /\ shared' = Step.sm
  /\ UNCHANGED <<files, manifest, conf, initopt, ctx, version, ops, edits, stopped, lost>>

\* setup: every command file is written over what is there, and recorded.
Written(w) == [f \in File |-> IF f \in w THEN CommandContent ELSE files[f]]
Record(w) == [f \in w |-> CommandContent]
SetUp ==
  /\ At("setup")
  /\ files' = Written(Files(Step.key, Step.opt))
  /\ cli' = Advance([cli EXCEPT !.mem = Record(Files(Step.key, Step.opt))])
  /\ ctx' = [ctx EXCEPT ![Step.key] = Upsert(Step.key \in Mdc, @)]
  /\ UNCHANGED <<manifest, shared, conf, initopt, version, ops, edits, stopped, lost>>

SaveManifest ==
  /\ At("manifest") /\ cli' = Advance(cli)
  /\ manifest' = [manifest EXCEPT ![Step.key] = cli.mem]
  /\ UNCHANGED <<files, shared, conf, initopt, ctx, version, ops, edits, stopped, lost>>

\* teardown: the context section, the files, and the manifest itself.
TearDown ==
  /\ At("teardown") /\ cli' = Advance(cli)
  /\ ctx' = [ctx EXCEPT ![Step.key] = RemoveSection(Step.key \in Mdc, @)]
  /\ files' = Uninstall(manifest[Step.key], files, Step.force)
  /\ manifest' = [manifest EXCEPT ![Step.key] = NoManifest]
  /\ UNCHANGED <<shared, conf, initopt, version, ops, edits, stopped, lost>>

\* History: init forgets the integrations that were there, and neither init nor a
\* first install rewrites the shared files it finds.
Forgotten ==
  (IF cli.op = "init" THEN {<<k, "init">> : k \in InstalledKeys} ELSE {})
  \cup (IF \/ cli.op = "init" /\ \E f \in SharedFile : files[f] # NoFile
           \/ cli.op = "install" /\ conf = NoConf /\ ops > 1
        THEN {<<"shared", cli.op>>} ELSE {})
WriteJson ==
  /\ At("json") /\ cli' = Advance(cli) /\ conf' = Step.conf /\ lost' = lost \cup Forgotten
  /\ UNCHANGED <<files, manifest, shared, initopt, ctx, version, ops, edits, stopped>>

\* _update_init_options_for_integration, _clear_init_options_for_integration
UpdateOpts ==
  /\ At("opts") /\ cli' = Advance(cli) /\ initopt' = Step.key
  /\ UNCHANGED <<files, manifest, shared, conf, ctx, version, ops, edits, stopped, lost>>
ClearOpts ==
  /\ At("clear") /\ cli' = Advance(cli)
  /\ initopt' = IF initopt = Step.key THEN None ELSE initopt
  /\ UNCHANGED <<files, manifest, shared, conf, ctx, version, ops, edits, stopped, lost>>

\* Variant of RemoveStale: the files stay.
KeepStale ==
  /\ At("stale") /\ cli' = Advance(cli)
  /\ UNCHANGED <<files, manifest, shared, conf, initopt, ctx, version, ops, edits, stopped, lost>>

\* The stale files of an upgrade are removed through a manifest of the same key,
\* and uninstall deletes the manifest file of its key.
StaleFiles == [f \in DOMAIN cli.old \ DOMAIN cli.mem |-> cli.old[f]]
RemoveStale ==
  /\ At("stale") /\ cli' = Advance(cli)
  /\ IF DOMAIN StaleFiles = {} THEN UNCHANGED <<files, manifest, lost>>
     ELSE /\ files' = Uninstall(StaleFiles, files, TRUE)
          /\ manifest' = [manifest EXCEPT ![cli.key] = NoManifest]
          /\ lost' = lost \cup {<<cli.key, "upgrade">>} \cup {<<f, "left">> : f \in DOMAIN cli.mem}
  /\ UNCHANGED <<shared, conf, initopt, ctx, version, ops, edits, stopped>>

-----------------------------------------------------------------------------
\* Variant of RollbackSteps: integration.json is restored as it was.
RollbackToStart ==
  IF cli.from = NoConf THEN Json(None, <<>>, cli.from.opt)
  ELSE Json(cli.from.default, cli.from.installed, cli.from.opt)

\* The except block of install and switch: what was set up is torn down by force
\* and integration.json goes back to what remains.
RollbackSteps ==
  LET rest == RemoveFirst(cli.from.installed, cli.from.default)
  IN CASE cli.from = NoConf \/ (cli.op = "switch" /\ rest = <<>>) -> Json(None, <<>>, cli.from.opt)
       [] cli.op = "switch" /\ rest # <<>> -> SetDefault(Head(rest), rest, cli.from.opt, FALSE)
       [] OTHER -> Json(cli.from.default, cli.from.installed, cli.from.opt)

Rollback(disk, mem) ==
  /\ cli' = [cli EXCEPT !.op = "rollback", !.todo = RollbackSteps, !.mem = NoManifest]
  /\ files' = Uninstall(mem, disk, TRUE)
  /\ ctx' = [ctx EXCEPT ![cli.key] = RemoveSection(cli.key \in Mdc, @)]
  /\ manifest' = [manifest EXCEPT ![cli.key] = NoManifest]
  /\ lost' = IF At("saveshared") THEN lost \cup {<<"shared", "rollback">>} ELSE lost
  /\ UNCHANGED <<shared, conf, initopt, version, ops, edits, stopped>>
Raise ==
  /\ cli # Idle /\ cli.op \in {"install", "switch"}
  /\ \/ At("setup") /\ \E w \in SUBSET Files(Step.key, Step.opt) : Rollback(Written(w), Record(w))
     \/ cli.mem # NoManifest /\ Rollback(files, cli.mem)

\* The process ends between two steps: it is killed, or it exits on an error for
\* which there is no rollback.
Stop ==
  /\ cli # Idle /\ cli' = Idle /\ stopped' = TRUE /\ ops < MaxOps /\ ops' = ops + 1
  /\ UNCHANGED <<files, manifest, shared, conf, initopt, ctx, version, edits, lost>>

-----------------------------------------------------------------------------
\* What the user does between two commands, edits and a Spec Kit upgrade together
\* at most MaxEdits times.
Edit == cli = Idle /\ edits < MaxEdits /\ edits' = edits + 1
EditFile(f, c) ==
  /\ Edit /\ files[f] # c /\ files' = [files EXCEPT ![f] = c]
  /\ UNCHANGED <<manifest, shared, conf, initopt, ctx, version, cli, ops, stopped, lost>>
EditContext(k) ==
  /\ Edit
  /\ \/ \E t \in Text : ctx' = [ctx EXCEPT ![k] = Append(@, t)]
     \/ \E i \in DOMAIN ctx[k] : ctx' = [ctx EXCEPT ![k] = RemoveAt(@, i)]
  /\ UNCHANGED <<files, manifest, shared, conf, initopt, version, cli, ops, stopped, lost>>
\* The shared manifest is deleted or becomes unreadable: the next command starts
\* a new one.
LoseSharedManifest ==
  /\ Edit /\ shared # NoShared /\ shared' = NoShared
  /\ UNCHANGED <<files, manifest, conf, initopt, ctx, version, cli, ops, stopped, lost>>
NewRelease ==
  /\ Edit /\ version < MaxVersion /\ version' = version + 1
  /\ UNCHANGED <<files, manifest, shared, conf, initopt, ctx, cli, ops, stopped, lost>>

Steps ==
  \/ WriteSharedFiles \/ SaveShared \/ SetUp \/ SaveManifest \/ TearDown
  \/ WriteJson \/ UpdateOpts \/ ClearOpts \/ RemoveStale \/ Raise \/ Stop
Commands ==
  \E k \in Integration, force \in BOOLEAN :
    \/ Uninstalls(k, force) \/ Use(k, force) \/ SwitchInstalled(k, force)
    \/ \E o \in OptionOf(k) :
         \/ Install(k, o, force) \/ Upgrade(k, o, force) \/ SpecifyInit(k, o, force)
         \/ \E sforce \in BOOLEAN : Switch(k, o, force, sforce)
Users ==
  \/ \E f \in File, c \in {User, NoFile} : EditFile(f, c)
  \/ \E k \in Integration : EditContext(k)
  \/ LoseSharedManifest \/ NewRelease

Next == Steps \/ Commands \/ Users
Spec == Init /\ [][Next]_vars

-----------------------------------------------------------------------------
Settled == cli = Idle /\ ~stopped
Owned(k) == UNION {Provides[v][k][o] : v \in Version, o \in OptionOf(k)}
\* Integrations that init forgot and that an upgrade left without manifest, the files
\* that were in such a manifest, and shared files that a command did not rewrite.
Dropped(k) == <<k, "init">> \in lost
Untold(k) == <<k, "upgrade">> \in lost
Left(f) == <<f, "left">> \in lost
SharedStale == \E why \in {"init", "install", "rollback"} : <<"shared", why>> \in lost

\* build_integration_status_report: what it reports as an error.
StatusErrors ==
  {<<"nomanifest", k>> : k \in {i \in InstalledKeys : ~Has(i)}}
  \cup {<<"nofiles", k>> :
         k \in {i \in InstalledKeys : Has(i) /\ \E f \in DOMAIN manifest[i] : files[f] = NoFile}}
  \cup (IF Cardinality(InstalledKeys) > 1 /\ ~(InstalledKeys \subseteq Safe)
        THEN {<<"unsafe", None>>} ELSE {})
  \cup (IF conf = NoConf THEN {<<"nostate", None>>} ELSE {})

\* After commands that ran to their end, or failed and rolled back, the files that
\* describe the project agree: init-options.json names the default of
\* integration.json, which it lists once among the installed ones; a manifest belongs
\* to an installed integration, unless init forgot it; an installed integration has
\* its manifest, unless an upgrade that removed stale files deleted it; and without
\* edits the files of every manifest are there.  Integrations that were forced
\* together are the one other thing of which the status report may complain.
DescriptionsAgree ==
  Settled =>
    /\ initopt = conf.default /\ IsInjective(conf.installed)
    /\ conf = NoConf \/ conf.default \in InstalledKeys
    /\ \A k \in Integration : Has(k) /\ ~Dropped(k) => k \in InstalledKeys
    /\ \A e \in StatusErrors : e[1] = "nomanifest" => Untold(e[2])
    /\ edits = 0 => \A e \in StatusErrors : e[1] # "nofiles"

\* No command file outlives its integration: one that the user did not write is in
\* the manifest of an integration that is installed.  Nor does a file that an upgrade
\* moved stay behind at its old place.  Two kinds of file have no manifest: those of
\* an integration that init forgot, and those that an upgrade had just written when
\* its removal of stale files deleted the manifest.
NoOrphans ==
  Settled => \A f \in CommandFile :
    files[f] \notin {NoFile, User} =>
      \E k \in Integration :
        /\ f \in Owned(k)
        /\ Dropped(k) \/ Left(f) \/ (k \in InstalledKeys /\ Has(k) /\ f \in DOMAIN manifest[k])

\* The shared files that Spec Kit manages speak the dialect of the default
\* integration, whatever was installed, switched, upgraded or rolled back.  Not claimed
\* once init or a first install has found shared files of an earlier time, which they
\* leave as they are, or a rollback came between the files and their manifest.
SharedFollowsDefault ==
  Settled /\ conf # NoConf /\ ~SharedStale =>
    \A f \in SharedFile : IsManaged(shared, files, f) =>
      files[f][2] = Sep[conf.default][conf.opt[conf.default]]

\* A command file that the user edited and an installed integration's manifest
\* records is overwritten or deleted only by force (init is documented to), and
\* a shared file that the user wrote or edited is overwritten only by the flag
\* that says so, also after its manifest was lost or a command was killed.
EditsKept ==
  [][cli # Idle =>
       \A f \in DOMAIN files :
         /\ files[f] = User
         /\ \/ ~cli.sforce /\ f \in SharedFile
            \/ ~cli.force /\ \E k \in InstalledKeys : Has(k) /\ f \in DOMAIN manifest[k]
         => files'[f] = User]_vars

\* Writing and removing the section leaves the user's text around it alone, also the
\* fences and the other settings of an .mdc file, above which frontmatter may be put
\* and in which alwaysApply may be set.  An .mdc file goes as a whole, whatever the
\* user wrote in it, if without the section it begins and ends with a fence.
UserPieces(k) == IF k \in Mdc THEN Text \ {Always, Never} ELSE Text
ContextTextKept ==
  [][cli # Idle => \A k \in Integration : WellFormed(ctx[k]) =>
       LET old == PiecesIn(ctx[k], UserPieces(k))
           new == PiecesIn(ctx'[k], UserPieces(k))
       IN  /\ WellFormed(ctx'[k])
           /\ \/ new = old
              \/ k \in Mdc /\ new = <<Fence, Fence>> \o old
              \/ k \in Mdc /\ ctx'[k] = <<>> /\ Framed(CutSection(ctx[k]))]_vars

\* Once an uninstall has run to its end no unmodified file of the integration is
\* left ("Unmodified files are removed automatically").
UninstallComplete ==
  [][cli # Idle /\ cli.op = "uninstall" /\ Len(cli.todo) = 1 /\ cli' = Idle /\ ~stopped'
       /\ <<cli.key, "init">> \notin lost =>
       \A f \in Owned(cli.key) : files'[f] \in {NoFile, User}]_vars
=============================================================================
