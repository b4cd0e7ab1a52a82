----------------------------- MODULE Extensions -----------------------------
(***************************************************************************)
(* The extension commands of Spec Kit (specify_cli/extensions.py and the    *)
(* `specify extension` commands of specify_cli/__init__.py): what they do   *)
(* to the registry, the extension directories, the agents' command files    *)
(* and skills, the hooks of extensions.yml and the users' configuration     *)
(* files.  A command is a sequence of steps, each of which is one call that *)
(* writes files; between two steps it may fail or be interrupted.           *)
(***************************************************************************)
EXTENDS Naturals, Sequences, CommandRegistrar

CONSTANTS
  Ext, MaxVersion,
  Priority,          \* the values given for --priority; 0 stands for an invalid one
  Provides,          \* [Ext -> [1..MaxVersion -> command names and aliases]]
  Primary,           \* [Ext -> [1..MaxVersion -> the names that are not aliases]]
  HookEvents,        \* [Ext -> [1..MaxVersion -> events with a hook]]
  SkillMode,         \* the agents whose commands are skills (ai_skills)
  MaxOps, MaxEdits   \* bounds: commands run, configuration edits

ASSUME ExtensionsAssumption ==
  /\ MaxVersion \in Nat \ {0} /\ MaxOps \in Nat /\ MaxEdits \in Nat
  /\ Priority \subseteq Nat
  /\ Ext # {} /\ SkillMode \subseteq Agent /\ Agent \ SkillMode # {}
  /\ Provides \in [Ext -> [1..MaxVersion -> SUBSET Name]]
  /\ Primary \in [Ext -> [1..MaxVersion -> SUBSET Name]]
  /\ NoFile \notin Ext \X (1..MaxVersion)

VARIABLES
  registry,  \* .specify/extensions/.registry
  dir,       \* .specify/extensions/<id>: manifest version and the user's config
  backup,    \* .specify/extensions/.backup/<id>: the config saved by remove
  upd,       \* .specify/extensions/.backup/<id>-update
  files,     \* the agents' command files
  skills,    \* <<agent, skill name, extension>> for each SKILL.md
  hooks,     \* hooks of extensions.yml: <<event, extension, enabled>>
  listed,    \* installed list of extensions.yml
  active,    \* the agent of init-options.json
  dirs,      \* the agents whose directory exists
  cli,       \* the running command
  ops,       \* commands run
  latest,    \* history: the newest config of each extension, 0 if none
  damaged,   \* history: interrupted, failed with no rollback, or its backup torn
  failed     \* history: an update failed and was rolled back

tree == <<dir, backup, upd>>
agents == <<files, skills, active, dirs>>
yml == <<hooks, listed>>
history == <<latest, damaged, failed>>
vars == <<registry, tree, agents, yml, cli, ops, history>>

Version == 1..MaxVersion
NoEntry == [ver |-> 0, enabled |-> FALSE, prio |-> 0, cmds |-> {}, skills |-> {}]
NoDir == [ver |-> 0, conf |-> 0]
NoUpd == [has |-> FALSE, copy |-> NoDir, conf |-> 0]
Idle == [op |-> "idle", todo |-> <<>>]
Content(e, v) == <<e, v>>

Init ==
  /\ registry = [e \in Ext |-> NoEntry]
  /\ dir = [e \in Ext |-> NoDir]
  /\ backup = [e \in Ext |-> 0]
  /\ upd = [e \in Ext |-> NoUpd]
  /\ files = NoFiles /\ skills = {}
  /\ hooks = {} /\ listed = {}
  /\ active = CHOOSE a \in Agent \ SkillMode : TRUE
  /\ dirs = {active}
  /\ cli = Idle /\ ops = 0
  /\ latest = [e \in Ext |-> 0] /\ damaged = {} /\ failed = {}

Installed(e) == registry[e] # NoEntry

\* _validate_install_conflicts: the names of the manifests found on disk for the
\* other registered extensions.
Conflicts(e, v) ==
  \E f \in Ext \ {e} :
    Installed(f) /\ dir[f].ver # 0 /\ Provides[e][v] \cap Provides[f][dir[f].ver] # {}

-----------------------------------------------------------------------------
(* Commands.  What a command checks before it writes anything is its guard. *)

RemoveSteps == <<"unregister", "unskill", "rmdir", "unhook", "unregistry">>
InstallSteps == <<"copy", "commands", "skills", "hooks">>
RollbackSteps == <<"rbdir", "rbfiles", "rbhooks", "rbregistry", "cleanup">>

\* What an update must restore when it fails.
HooksOf(e) == {h \in hooks : h[2] = e}
View(e) == [entry |-> registry[e], dir |-> dir[e], listed |-> listed, hooks |-> HooksOf(e)]

Begin(op, e, v, p, keep, todo) ==
  /\ cli = Idle /\ ops < MaxOps /\ ops' = ops + 1
  /\ cli' = [op |-> op, e |-> e, v |-> v, prio |-> p, keep |-> keep, todo |-> todo,
             before |-> View(e), entry |-> registry[e], saved |-> NoFiles,
             hooks |-> {}, listed |-> {}, cmds |-> {}, skills |-> {}]
  /\ UNCHANGED <<registry, tree, agents, yml, damaged, failed>>

\* extension_add and the checks of install_from_directory, all before any write.
AddGuard(e, v, p, force) ==
  /\ p >= 1
  /\ Installed(e) => force
  /\ ~Conflicts(e, v)

\* extension_add [--force]; a fresh installation deletes a kept directory, and
\* a forced one clears the old backup before it removes the installed version.
Add(e, v, p, force) ==
  /\ AddGuard(e, v, p, force)
  /\ Begin("add", e, v, p, FALSE,
           IF Installed(e)
           THEN <<"clearbackup">> \o RemoveSteps \o InstallSteps \o <<"config", "registry">>
           ELSE InstallSteps \o <<"registry">>)
  /\ latest' = [latest EXCEPT ![e] = IF Installed(e) /\ e \notin damaged THEN @ ELSE 0]

\* extension_remove [--keep-config].
Remove(e, keep) ==
  /\ Installed(e)
  /\ Begin("remove", e, 0, 0, keep, RemoveSteps)
  /\ latest' = [latest EXCEPT ![e] = IF e \in damaged THEN 0 ELSE @]

\* extension_update of one extension to a newer version of the catalog.
Update(e, v) ==
  /\ Installed(e) /\ v > registry[e].ver
  /\ Begin("update", e, v, 10, TRUE,
           <<"backup", "download">> \o RemoveSteps \o <<"validate">> \o InstallSteps
             \o <<"registry", "restoreconf", "meta", "metahooks", "cleanup">>)
  /\ latest' = [latest EXCEPT ![e] = IF e \in damaged THEN 0 ELSE @]

\* extension_enable, extension_disable.
SetEnabled(e, on) ==
  /\ Installed(e) /\ registry[e].enabled # on
  /\ Begin(IF on THEN "enable" ELSE "disable", e, 0, 0, FALSE, <<"flag", "flaghooks">>)
  /\ UNCHANGED latest

\* extension_set_priority.
SetPriority(e, p) ==
  /\ Installed(e) /\ p >= 1 /\ registry[e].prio # p
  /\ Begin("priority", e, 0, p, FALSE, <<"priority">>)
  /\ UNCHANGED latest

\* The extension part of integration_switch; the target is kept in "v".
SwitchAgent(a) ==
  /\ a # active
  /\ Begin("switch", CHOOSE e \in Ext : TRUE, a, 0, FALSE, <<"unagent", "setagent", "regagent">>)
  /\ UNCHANGED latest

\* The user writes <id>-config.yml.
EditConfig(e) ==
  /\ cli = Idle /\ dir[e].ver # 0 /\ latest[e] < MaxEdits
  /\ latest' = [latest EXCEPT ![e] = @ + 1]
  /\ dir' = [dir EXCEPT ![e].conf = latest'[e]]
  /\ UNCHANGED <<registry, backup, upd, agents, yml, cli, ops, damaged, failed>>

-----------------------------------------------------------------------------
(* Steps. *)

At(step) == cli # Idle /\ Head(cli.todo) = step
GoWith(c) == cli' = IF Len(cli.todo) = 1 THEN Idle ELSE [c EXCEPT !.todo = Tail(@)]
Go == GoWith(cli)
SetEntry(e, r) == registry' = [registry EXCEPT ![e] = r]
SetDir(e, d) == dir' = [dir EXCEPT ![e] = d]

\* --- remove ---------------------------------------------------------------

ClearBackup ==
  /\ At("clearbackup") /\ Go
  /\ backup' = [backup EXCEPT ![cli.e] = 0]
  /\ UNCHANGED <<registry, dir, upd, agents, yml, ops, history>>

Unregister ==
  /\ At("unregister") /\ Go
  /\ files' = UnregisterCommands(files, registry[cli.e].cmds)
  /\ UNCHANGED <<registry, tree, skills, active, dirs, yml, ops, history>>

\* _unregister_extension_skills: in the active agent's skills directory, or in
\* every agent's when skills are not active, and only skills of this extension.
SkillDirs == IF active \in SkillMode THEN {active} ELSE Agent
WithoutSkills(where, names, e) ==
  {s \in skills : ~(s[1] \in where /\ s[2] \in names /\ s[3] = e)}

Unskill ==
  /\ At("unskill") /\ Go
  /\ skills' = WithoutSkills(SkillDirs, registry[cli.e].skills, cli.e)
  /\ UNCHANGED <<registry, tree, files, active, dirs, yml, ops, history>>

\* Variant of RemoveDir: the directory goes without a backup of the config.
RemoveDirOnly ==
  /\ At("rmdir") /\ Go
  /\ SetDir(cli.e, NoDir)
  /\ UNCHANGED <<registry, backup, upd, agents, yml, ops, history>>

RemoveDir ==
  /\ At("rmdir") /\ Go
  /\ SetDir(cli.e, IF cli.keep THEN [dir[cli.e] EXCEPT !.ver = 0] ELSE NoDir)
  /\ backup' = IF cli.keep \/ dir[cli.e].conf = 0 THEN backup
               ELSE [backup EXCEPT ![cli.e] = dir[cli.e].conf]
  /\ UNCHANGED <<registry, upd, agents, yml, ops, history>>

\* unregister_hooks, which also takes the extension off the installed list.
Unhook ==
  /\ At("unhook") /\ Go
  /\ hooks' = hooks \ HooksOf(cli.e) /\ listed' = listed \ {cli.e}
  /\ UNCHANGED <<registry, tree, agents, ops, history>>

Unregistry ==
  /\ At("unregistry") /\ Go
  /\ SetEntry(cli.e, NoEntry)
  /\ UNCHANGED <<tree, agents, yml, ops, history>>

\* --- install --------------------------------------------------------------

Copy ==
  /\ At("copy") /\ Go
  /\ SetDir(cli.e, [ver |-> cli.v, conf |-> 0])
  /\ UNCHANGED <<registry, backup, upd, agents, yml, ops, history>>

Names == Provides[cli.e][cli.v]

\* Variant of Commands: a command's aliases are written but not recorded.
CommandsWithoutAliases ==
  /\ At("commands")
  /\ files' = RegisterForAll(files, dirs, Names, Content(cli.e, cli.v))
  /\ GoWith([cli EXCEPT !.cmds = RegisteredForAll(dirs, Primary[cli.e][cli.v])])
  /\ UNCHANGED <<registry, tree, skills, active, dirs, yml, ops, history>>

Commands ==
  /\ At("commands")
  /\ files' = RegisterForAll(files, dirs, Names, Content(cli.e, cli.v))
  /\ GoWith([cli EXCEPT !.cmds = RegisteredForAll(dirs, Names)])
  /\ UNCHANGED <<registry, tree, skills, active, dirs, yml, ops, history>>

\* _register_extension_skills: primary commands only, and never over an
\* existing skill; returns the names written.
NewSkills(e, v) ==
  IF active \in SkillMode
  THEN {n \in Primary[e][v] : \A s \in skills : ~(s[1] = active /\ s[2] = n)}
  ELSE {}

Skills ==
  /\ At("skills")
  /\ LET new == NewSkills(cli.e, cli.v)
     IN  /\ skills' = skills \cup ({active} \X new \X {cli.e})
         /\ GoWith([cli EXCEPT !.skills = new])
  /\ UNCHANGED <<registry, tree, files, active, dirs, yml, ops, history>>

\* register_hooks: the hooks of another version of the extension go.
Hooks ==
  /\ At("hooks") /\ Go
  /\ hooks' = (hooks \ HooksOf(cli.e)) \cup (HookEvents[cli.e][cli.v] \X {cli.e} \X {TRUE})
  /\ listed' = listed \cup {cli.e}
  /\ UNCHANGED <<registry, tree, agents, ops, history>>

\* The config that the remove of a forced installation saved.
Config ==
  /\ At("config") /\ Go
  /\ dir' = [dir EXCEPT ![cli.e].conf = IF backup[cli.e] # 0 THEN backup[cli.e] ELSE @]
  /\ backup' = [backup EXCEPT ![cli.e] = 0]
  /\ UNCHANGED <<registry, upd, agents, yml, ops, history>>

Registry ==
  /\ At("registry") /\ Go
  /\ SetEntry(cli.e, [ver |-> cli.v, enabled |-> TRUE, prio |-> cli.prio,
                      cmds |-> cli.cmds, skills |-> cli.skills])
  /\ UNCHANGED <<tree, agents, yml, ops, history>>

\* --- update ---------------------------------------------------------------

\* Steps 1 to 4: entry, directory and config, command files, hooks and list.
\* A config saved by an earlier, interrupted update is not cleared.
Backup ==
  /\ At("backup")
  /\ upd' = IF dir[cli.e] = NoDir THEN upd
            ELSE [upd EXCEPT ![cli.e] =
                    [has |-> TRUE, copy |-> dir[cli.e],
                     conf |-> IF dir[cli.e].conf # 0 THEN dir[cli.e].conf ELSE @.conf]]
  /\ GoWith([cli EXCEPT !.entry = registry[cli.e], !.hooks = HooksOf(cli.e), !.listed = listed,
               !.saved = [k \in Key |-> IF k \in registry[cli.e].cmds THEN files[k] ELSE NoFile]])
  /\ UNCHANGED <<registry, dir, backup, agents, yml, ops, history>>

Download ==
  /\ At("download") /\ Go
  /\ UNCHANGED <<registry, tree, agents, yml, ops, history>>

\* install_from_zip validates after the old version has been removed.
Validate ==
  /\ At("validate") /\ ~Conflicts(cli.e, cli.v) /\ Go
  /\ UNCHANGED <<registry, tree, agents, yml, ops, history>>

RestoreConf ==
  /\ At("restoreconf") /\ Go
  /\ dir' = [dir EXCEPT ![cli.e].conf = IF upd[cli.e].conf # 0 THEN upd[cli.e].conf ELSE @]
  /\ UNCHANGED <<registry, backup, upd, agents, yml, ops, history>>

\* Variant of Meta: the new entry keeps the priority install gave it.
MetaDefaultPriority ==
  /\ At("meta") /\ Go
  /\ SetEntry(cli.e, [registry[cli.e] EXCEPT !.enabled = cli.entry.enabled])
  /\ UNCHANGED <<tree, agents, yml, ops, history>>

\* Step 9: priority and enabled flag of the old entry.
Meta ==
  /\ At("meta") /\ Go
  /\ SetEntry(cli.e, [registry[cli.e] EXCEPT !.prio = cli.entry.prio,
                                             !.enabled = cli.entry.enabled])
  /\ UNCHANGED <<tree, agents, yml, ops, history>>

EnableHooks(e, on) ==
  hooks' = {h \in hooks : h[2] # e} \cup {<<h[1], e, on>> : h \in HooksOf(e)}

\* Variant of MetaHooks: the hooks register_hooks enabled stay enabled.
MetaHooksLeft == At("metahooks") /\ Go /\ UNCHANGED <<registry, tree, agents, yml, ops, history>>

MetaHooks ==
  /\ At("metahooks") /\ Go
  /\ IF cli.entry.enabled THEN UNCHANGED hooks ELSE EnableHooks(cli.e, FALSE)
  /\ UNCHANGED <<registry, tree, agents, listed, ops, history>>

\* Step 10, and the end of a rollback.
Cleanup ==
  /\ At("cleanup") /\ Go
  /\ upd' = [upd EXCEPT ![cli.e] = NoUpd]
  /\ failed' = IF cli.op = "rollback" THEN failed \cup {cli.e} ELSE failed
  /\ UNCHANGED <<registry, dir, backup, agents, yml, ops, latest, damaged>>

\* --- rollback of an update ------------------------------------------------

RollbackDir ==
  /\ At("rbdir") /\ Go
  /\ IF upd[cli.e].has THEN SetDir(cli.e, upd[cli.e].copy) ELSE UNCHANGED dir
  /\ UNCHANGED <<registry, backup, upd, agents, yml, ops, history>>

\* New files are found through the entry of the failed installation, if it
\* got that far; the saved ones are copied back.
RollbackFiles ==
  /\ At("rbfiles") /\ Go
  /\ files' = [k \in Key |->
       IF cli.saved[k] # NoFile THEN cli.saved[k]
       ELSE IF k \in registry[cli.e].cmds THEN NoFile ELSE files[k]]
  /\ UNCHANGED <<registry, tree, skills, active, dirs, yml, ops, history>>

\* Variant of RollbackHooks: only the installed list is restored.
RollbackList ==
  /\ At("rbhooks") /\ Go
  /\ listed' = cli.listed
  /\ UNCHANGED <<registry, tree, agents, hooks, ops, history>>

RollbackHooks ==
  /\ At("rbhooks") /\ Go
  /\ hooks' = (hooks \ HooksOf(cli.e)) \cup cli.hooks
  /\ listed' = cli.listed
  /\ UNCHANGED <<registry, tree, agents, ops, history>>

RollbackRegistry ==
  /\ At("rbregistry") /\ Go
  /\ SetEntry(cli.e, cli.entry)
  /\ UNCHANGED <<tree, agents, yml, ops, history>>

\* --- the small commands ---------------------------------------------------

Flag ==
  /\ At("flag") /\ Go
  /\ SetEntry(cli.e, [registry[cli.e] EXCEPT !.enabled = (cli.op = "enable")])
  /\ UNCHANGED <<tree, agents, yml, ops, history>>

FlagHooks ==
  /\ At("flaghooks") /\ Go
  /\ EnableHooks(cli.e, cli.op = "enable")
  /\ UNCHANGED <<registry, tree, agents, listed, ops, history>>

PriorityStep ==
  /\ At("priority") /\ Go
  /\ SetEntry(cli.e, [registry[cli.e] EXCEPT !.prio = cli.prio])
  /\ UNCHANGED <<tree, agents, yml, ops, history>>

\* --- the extension part of integration switch -------------------------------

OfAgent(keys, a) == {k \in keys : k[1] = a}

\* unregister_agent_artifacts(old): the names left in the entry are those whose
\* skill directory is still there, when the agent has a skills directory.
UnregisterAgent ==
  /\ At("unagent") /\ Go
  /\ files' = UnregisterCommands(files, UNION {OfAgent(registry[e].cmds, active) : e \in Ext})
  /\ skills' = {s \in skills : ~(s[1] \in SkillDirs /\ s[2] \in registry[s[3]].skills)}
  /\ registry' = [e \in Ext |->
       [registry[e] EXCEPT !.cmds = @ \ OfAgent(@, active),
          !.skills = IF active \in SkillMode
                     THEN {n \in @ : \E s \in skills' : s[1] = active /\ s[2] = n} ELSE @]]
  /\ UNCHANGED <<tree, active, dirs, yml, ops, history>>

\* The new agent is set up; the old one's directory goes if it is empty.
SetAgent ==
  /\ At("setagent") /\ Go
  /\ active' = cli.v
  /\ \E D \in {dirs, dirs \ {active}} :
       /\ active \in D \/ \A n \in Name : files[<<active, n>>] = NoFile
       /\ dirs' = D \cup {cli.v}
  /\ UNCHANGED <<registry, tree, files, skills, yml, ops, history>>

\* register_enabled_extensions_for_agent(new), which registers skills when the
\* agent uses them and command files otherwise.
Usable(e) == registry[e].enabled /\ dir[e].ver # 0
RegisterAgent ==
  /\ At("regagent") /\ Go
  /\ LET cmds(e) == IF Usable(e) /\ active \notin SkillMode
                    THEN {active} \X Provides[e][dir[e].ver] ELSE {}
         new(e) == IF Usable(e) THEN NewSkills(e, dir[e].ver) ELSE {}
     IN  /\ files' = [k \in Key |->
              IF \E e \in Ext : k \in cmds(e)
              THEN LET e == CHOOSE f \in Ext : k \in cmds(f) IN Content(e, dir[e].ver)
              ELSE files[k]]
         /\ skills' = skills \cup UNION {{active} \X new(e) \X {e} : e \in Ext}
         /\ registry' = [e \in Ext |->
              IF Usable(e) THEN [registry[e] EXCEPT !.cmds = @ \cup cmds(e), !.skills = @ \cup new(e)]
              ELSE registry[e]]
  /\ UNCHANGED <<tree, active, dirs, yml, ops, history>>

-----------------------------------------------------------------------------
(* A step that raises.  An update is rolled back, the extension part of a   *)
(* switch is skipped with a warning, and any other command stops.           *)

\* What may be left of a directory that was copied or deleted in part.
Part(d) == {[ver |-> v, conf |-> c] : v \in {0, d.ver}, c \in {0, d.conf}}

\* What a step that raises may already have done.  A backup may have its copy of
\* the directory and not yet the one of the config files.
Partly ==
  \/ UNCHANGED <<tree, files>>
  \/ /\ At("backup") /\ dir[cli.e] # NoDir /\ UNCHANGED <<dir, backup, files>>
     /\ \E conf \in {upd[cli.e].conf} \cup ({dir[cli.e].conf} \ {0}) :
          upd' = [upd EXCEPT ![cli.e] = [has |-> TRUE, copy |-> dir[cli.e], conf |-> conf]]
  \/ /\ At("rmdir") /\ UNCHANGED <<upd, files>>
     /\ \E d \in Part(dir[cli.e]) : SetDir(cli.e, d) /\ (cli.keep => d.conf = dir[cli.e].conf)
     /\ backup' = IF cli.keep \/ dir[cli.e].conf = 0 THEN backup
                  ELSE [backup EXCEPT ![cli.e] = dir[cli.e].conf]
  \/ /\ At("copy") /\ SetDir(cli.e, NoDir) /\ UNCHANGED <<backup, upd, files>>
  \/ /\ At("commands") /\ UNCHANGED tree
     /\ \E a \in dirs : files' = RegisterCommands(files, a, Names, Content(cli.e, cli.v))
  \/ /\ At("rbdir") /\ upd[cli.e].has /\ UNCHANGED <<backup, upd, files>>
     /\ \E d \in Part(upd[cli.e].copy) : SetDir(cli.e, d)

\* The copy of the directory that a backup leaves when its copytree fails half way,
\* or when the deletion of the backup does.
Torn ==
  /\ \/ /\ At("backup") /\ dir[cli.e] # NoDir
        /\ \E d \in Part(dir[cli.e]) \cup Part(upd[cli.e].copy) :
             upd' = [upd EXCEPT ![cli.e] = [has |-> TRUE, copy |-> d, conf |-> @.conf]]
     \/ /\ At("cleanup")
        /\ \E d \in Part(upd[cli.e].copy), conf \in {0, upd[cli.e].conf} :
             \/ upd' = [upd EXCEPT ![cli.e].copy = d, ![cli.e].conf = conf]
             \/ upd' = [upd EXCEPT ![cli.e] = [has |-> FALSE, copy |-> NoDir, conf |-> conf]]
  /\ UNCHANGED <<dir, backup, files>>

\* A backup that raised before its fourth step has captured no hooks.
Rollback ==
  [cli EXCEPT !.op = "rollback",
     !.todo = IF At("backup") THEN <<"rbdir", "rbfiles", "rbregistry", "cleanup">>
              ELSE RollbackSteps]

\* The rollback takes a torn copy for a backup, also when the directory itself is
\* still intact: from then on nothing is claimed of the directory and its config.
FailUpdate ==
  /\ cli.op = "update" /\ cli' = Rollback /\ UNCHANGED failed
  /\ \/ Partly /\ UNCHANGED <<damaged, latest>>
     \/ Torn /\ damaged' = damaged \cup {cli.e} /\ latest' = [latest EXCEPT ![cli.e] = 0]

FailSwitch ==
  /\ cli.op = "switch" /\ ~At("setagent") /\ Go
  /\ failed' = failed \cup Ext /\ UNCHANGED <<tree, files, damaged, latest>>

FailOther ==
  /\ cli.op \notin {"update", "switch"} /\ cli' = Idle
  /\ damaged' = damaged \cup {cli.e} /\ UNCHANGED <<failed, latest>>
  /\ Partly \/ Torn

Fail ==
  /\ cli # Idle
  /\ FailUpdate \/ FailSwitch \/ FailOther
  /\ UNCHANGED <<registry, skills, active, dirs, yml, ops>>

WritesRegistry ==
  {"unregistry", "registry", "meta", "rbregistry", "flag", "priority", "unagent", "regagent"}
WritesYml == {"unhook", "hooks", "metahooks", "rbhooks", "flaghooks"}

\* Ctrl-C or a kill, also in the middle of a copy or a deletion.  A registry or
\* extensions.yml that was being written is truncated, and reads as empty from then on.
Interrupt ==
  /\ cli # Idle /\ cli' = Idle
  /\ \/ /\ damaged' = damaged \cup (IF cli.op = "switch" THEN Ext ELSE {cli.e})
        /\ Partly \/ Torn
        /\ UNCHANGED <<registry, yml>>
     \/ /\ Head(cli.todo) \in WritesRegistry
        /\ registry' = [e \in Ext |-> NoEntry] /\ damaged' = Ext
        /\ UNCHANGED <<tree, files, yml>>
     \/ /\ Head(cli.todo) \in WritesYml
        /\ hooks' = {} /\ listed' = {} /\ damaged' = Ext
        /\ UNCHANGED <<registry, tree, files>>
  /\ UNCHANGED <<skills, active, dirs, ops, latest, failed>>

Step ==
  \/ ClearBackup \/ Unregister \/ Unskill \/ RemoveDir \/ Unhook \/ Unregistry
  \/ Copy \/ Commands \/ Skills \/ Hooks \/ Config \/ Registry
  \/ Backup \/ Download \/ Validate \/ RestoreConf \/ Meta \/ MetaHooks \/ Cleanup
  \/ RollbackDir \/ RollbackFiles \/ RollbackHooks \/ RollbackRegistry
  \/ Flag \/ FlagHooks \/ PriorityStep
  \/ UnregisterAgent \/ SetAgent \/ RegisterAgent

Next ==
  \/ \E e \in Ext, v \in Version, p \in Priority, force \in BOOLEAN : Add(e, v, p, force)
  \/ \E e \in Ext, keep \in BOOLEAN : Remove(e, keep)
  \/ \E e \in Ext, v \in Version : Update(e, v)
  \/ \E e \in Ext, on \in BOOLEAN : SetEnabled(e, on)
  \/ \E e \in Ext, p \in Priority : SetPriority(e, p)
  \/ \E a \in Agent : SwitchAgent(a)
  \/ \E e \in Ext : EditConfig(e)
  \/ Step \/ Fail \/ Interrupt

Spec == Init /\ [][Next]_vars

-----------------------------------------------------------------------------

Settled(e) == cli = Idle /\ e \notin damaged

\* Between two commands, every command file of an extension is one that its
\* registry entry lists, at the registered version, so that removing it leaves
\* nothing behind and takes nothing of another's, and an enabled extension has
\* all the files of its entry: extension_add, remove and update, and the
\* registrar they use.  A disabled one may have them (the code leaves them, the
\* documents say that its commands are not available).  Not claimed once any
\* extension was damaged, or this one rolled back.
CommandsFollowRegistry ==
  cli = Idle /\ damaged = {} =>
    \A e \in Ext \ failed :
      /\ \A k \in Key : files[k] # NoFile /\ files[k][1] = e =>
           k \in registry[e].cmds /\ files[k] = Content(e, registry[e].ver)
      /\ registry[e].enabled =>
           \A k \in registry[e].cmds : files[k] = Content(e, registry[e].ver)

\* Between two commands, an extension has exactly the hooks of its registered
\* version, enabled if and only if the extension is, and is listed in
\* extensions.yml if and only if it is registered, also after a failed update
\* was rolled back.
HooksFollowExtensions ==
  \A e \in Ext : Settled(e) =>
    /\ e \in listed <=> Installed(e)
    /\ HooksOf(e) = IF Installed(e)
                    THEN HookEvents[e][registry[e].ver] \X {e} \X {registry[e].enabled}
                    ELSE {}

\* The newest configuration the user wrote for an extension exists somewhere on
\* disk (its directory, the backup of a removal or the two copies of an update)
\* at every moment of every command, however the command ends; not claimed for a
\* fresh installation over a kept directory, nor for a command begun on a damaged
\* extension, nor once the backup of an update was torn.
ConfigNeverDestroyed ==
  \A e \in Ext :
    latest[e] # 0 => latest[e] \in {dir[e].conf, backup[e], upd[e].copy.conf, upd[e].conf}

\* When the rollback of a failed update is through, the registry entry, the
\* hooks and the installed list are what they were before the update, and so
\* are the command files that had been saved, whichever step failed, and so is
\* the directory with the user's config unless its backup is a torn one or one
\* that an interrupted command left (extension_update).
RollbackRestores ==
  [][(cli # Idle /\ cli.op = "rollback" /\ At("cleanup") /\ failed' # failed)
     => /\ View(cli.e) = [cli.before EXCEPT !.dir = dir[cli.e]]
        /\ \A k \in Key : cli.saved[k] # NoFile => files[k] = cli.saved[k]
        /\ cli.e \notin damaged => dir[cli.e] = cli.before.dir]_vars

\* The extension set as a user of the commands sees it: an operation that has
\* not finished shows what was there when it began.
InProgress(e) == cli # Idle /\ cli.e = e /\ cli.op \in {"add", "update", "rollback"}
Shown(e) ==
  LET r == IF InProgress(e) THEN cli.before.entry ELSE registry[e]
  IN  [ver |-> r.ver, enabled |-> r.enabled, prio |-> r.prio]

Abstract == INSTANCE ExtensionSet WITH
              installed <- [e \in Ext |-> Shown(e)], damaged <- damaged,
              Priority <- Priority \ {0}

\* The commands, step by step and with their failures and interruptions,
\* implement the abstract set of extensions.
ImplementsExtensionSet == Abstract!Spec
=============================================================================
