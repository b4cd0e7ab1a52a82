------------------------------ MODULE Presets ------------------------------
(***************************************************************************)
(* PresetManager and the `specify preset` commands: the registry of         *)
(* presets, their directories, and the command files and skills that are    *)
(* written when a preset is added or removed.  One agent has command files  *)
(* (CommandAgent); the other, the active one, has skills (SkillAgent).      *)
(***************************************************************************)
EXTENDS PresetResolver

CONSTANTS
  CommandAgent, SkillAgent,
  Priority,        \* values given for --priority; 0 stands for an invalid one
  EmptySkill,      \* a skill directory without SKILL.md
  MaxOps           \* bound on the commands run, one that stops half way counting twice

\* The texts a command file or skill may have.
Texts == [body : Seq(LayerId), fm : LayerId, scripts : LayerId \cup {NoLayer}]

ASSUME PresetsAssumption ==
  /\ Agent = {CommandAgent, SkillAgent} /\ CommandAgent # SkillAgent /\ MaxOps \in Nat
  /\ Priority \subseteq Nat
  /\ NoFile \notin Texts /\ EmptySkill \notin Texts /\ NoFile # EmptySkill

VARIABLES
  reg,       \* .specify/presets/.registry
  packs,     \* the preset directories
  composed,  \* .composed/<name>.md of each preset, NoContent if there is none
  files,     \* command files and skills of the agents
  override,  \* names with a project override
  ext,       \* "enabled", "disabled", "unregistered" or "absent"
  coreCopy,  \* is there a .specify/templates/commands? (no command creates it)
  cli, ops,
  stale,     \* history: names whose stack changed without reconciliation
  broken,    \* history: names of a preset whose command failed or was killed
  unskilled  \* history: names of the core or the extension whose skill was deleted

history == <<stale, broken, unskilled>>
vars == <<reg, packs, composed, files, override, ext, coreCopy, cli, ops, history>>
project == <<override, ext, coreCopy>>

NoEntry == [enabled |-> FALSE, prio |-> 0, cmds |-> {}, skills |-> {}]
Idle == [op |-> "idle", todo |-> <<>>]
Installed(p) == reg[p] # NoEntry
Names(p) == DOMAIN Provides[p]
Registered(p) == {k[2] : k \in reg[p].cmds}
Only(l) == Composed(<<l>>, l, l)

InStack == ext \in {"enabled", "unregistered"}
Layers(n) == CollectAllLayers(reg, override, InStack, n)
Content(n) == ResolveContent(Layers(n))

\* Commands of an extension that is not there are left out.
Applicable(p) == {n \in Names(p) : n \in ExtCommand => ext # "absent"}

Init ==
  /\ reg = [p \in Preset |-> NoEntry] /\ packs = {}
  /\ composed = [p \in Preset |-> [n \in Name |-> NoContent]]
  /\ override = {} /\ coreCopy \in BOOLEAN /\ ext \in {"enabled", "absent"}
  /\ files = [k \in Key |-> CASE k[2] \in CoreCommand -> Only(Core)
                              [] k[2] \in ExtCommand /\ ext = "enabled" -> Only(Extension)
                              [] OTHER -> NoFile]
  /\ cli = Idle /\ ops = 0 /\ stale = {} /\ broken = {} /\ unskilled = {}

-----------------------------------------------------------------------------

Begin(op, p, prio, names, todo) ==
  /\ cli = Idle /\ ops < MaxOps /\ ops' = ops + 1
  /\ cli' = [op |-> op, p |-> p, prio |-> prio, names |-> names, todo |-> todo]
  /\ UNCHANGED <<packs, composed, files, project, broken, unskilled>>

\* preset_add: the checks of install_from_directory.
Add(p, prio) ==
  /\ prio >= 1 /\ ~Installed(p)
  /\ Begin("add", p, prio, Applicable(p),
           <<"copy", "register", "commands", "skills", "reconcile", "reskill">>)
  /\ UNCHANGED <<reg, stale>>

\* preset_remove: the names to reconcile are those the registry entry lists.
Remove(p) ==
  /\ Installed(p)
  /\ Begin("remove", p, 0, Registered(p),
           <<"unskill", "unregister", "rmtree", "unregistry", "reconcile", "reskill">>)
  /\ UNCHANGED <<reg, stale>>

\* preset_set_priority, preset_enable and preset_disable only write the registry.
Configure(p, r) ==
  /\ Installed(p) /\ reg[p] # r
  /\ Begin("configure", p, 0, {}, <<"done">>)
  /\ reg' = [reg EXCEPT ![p] = r]
  /\ stale' = stale \cup Names(p)
SetPriority(p, prio) == prio >= 1 /\ Configure(p, [reg[p] EXCEPT !.prio = prio])
SetEnabled(p, on) == Configure(p, [reg[p] EXCEPT !.enabled = on])

\* The user adds or deletes an override.
EditOverride(n) ==
  /\ cli = Idle /\ ops < MaxOps /\ ops' = ops + 1
  /\ override' = IF n \in override THEN override \ {n} ELSE override \cup {n}
  /\ stale' = stale \cup {n}
  /\ UNCHANGED <<reg, packs, composed, files, ext, coreCopy, cli, broken, unskilled>>

\* An extension command: enable and disable leave the files, add writes them
\* and remove deletes them.
ExtensionChanges(s) ==
  /\ cli = Idle /\ s # ext /\ ops < MaxOps /\ ops' = ops + 1
  /\ ext' = s /\ stale' = stale \cup ExtCommand
  /\ files' = [k \in Key |-> CASE k[2] \in ExtCommand /\ s = "absent" -> NoFile
                               [] k[2] \in ExtCommand /\ ext = "absent" -> Only(Extension)
                               [] OTHER -> files[k]]
  /\ unskilled' = IF ext = "absent" THEN unskilled \ ExtCommand ELSE unskilled
  /\ UNCHANGED <<reg, packs, composed, override, coreCopy, cli, broken>>

-----------------------------------------------------------------------------

At(step) == cli # Idle /\ Head(cli.todo) = step
Go == cli' = IF Len(cli.todo) = 1 THEN Idle ELSE [cli EXCEPT !.todo = Tail(@)]

Done == At("done") /\ Go /\ UNCHANGED <<reg, packs, composed, files, project, ops, history>>

Copy ==
  /\ At("copy") /\ Go
  /\ packs' = packs \cup {cli.p}
  /\ composed' = [composed EXCEPT ![cli.p] = [n \in Name |-> NoContent]]
  /\ UNCHANGED <<reg, files, project, ops, history>>

\* The entry comes before the registration so that the resolver sees the preset.
Register ==
  /\ At("register") /\ Go
  /\ reg' = [reg EXCEPT ![cli.p] = [NoEntry EXCEPT !.enabled = TRUE, !.prio = cli.prio]]
  /\ UNCHANGED <<packs, composed, files, project, ops, history>>

\* _register_commands: a command that composes is composed here only if this
\* preset is the top layer; otherwise its own text is written for now.
Composes(p, n) == Provides[p][n] # "replace" /\ Head(Layers(n)).id = p
Unfounded(p) == \E n \in Applicable(p) : Composes(p, n) /\ Content(n) = NoContent

Commands ==
  /\ At("commands") /\ ~Unfounded(cli.p) /\ Go
  /\ composed' = [composed EXCEPT ![cli.p] = [n \in Name |->
       IF n \in Applicable(cli.p) /\ Composes(cli.p, n) THEN Content(n) ELSE @[n]]]
  /\ files' = [k \in Key |->
       IF k[2] \notin Applicable(cli.p) THEN files[k]
       ELSE IF Composes(cli.p, k[2]) THEN Content(k[2]) ELSE Only(cli.p)]
  /\ reg' = [reg EXCEPT ![cli.p].cmds = RegisteredForAll(Agent, Applicable(cli.p))]
  /\ unskilled' = unskilled \ Applicable(cli.p)
  /\ UNCHANGED <<packs, project, ops, stale, broken>>

\* _register_skills: only over a skill directory that exists, from the composed
\* file when the preset has one.
SkillText(p, n) == IF composed[p][n] # NoContent THEN composed[p][n] ELSE Only(p)
SkillExists(n) == files[<<SkillAgent, n>>] # NoFile

Skills ==
  /\ At("skills") /\ Go
  /\ LET written == {n \in Applicable(cli.p) : SkillExists(n)}
     IN  /\ files' = [k \in Key |->
              IF k[1] = SkillAgent /\ k[2] \in written THEN SkillText(cli.p, k[2]) ELSE files[k]]
         /\ reg' = [reg EXCEPT ![cli.p].skills = written]
  /\ UNCHANGED <<packs, composed, project, ops, history>>

\* Variant of Reconcile: nothing is recomputed after an installation.
ReconcileAfterRemoveOnly ==
  /\ At("reconcile") /\ cli.op = "add" /\ Go
  /\ UNCHANGED <<reg, packs, composed, files, project, ops, history>>

\* _reconcile_composed_commands, for the agents with command files.  A command
\* left without any layer keeps whatever file it has.
Reconcile ==
  /\ At("reconcile") /\ Go
  /\ files' = [k \in Key |->
       IF k[1] = SkillAgent \/ k[2] \notin cli.names \/ Layers(k[2]) = <<>> THEN files[k]
       ELSE IF Content(k[2]) = NoContent THEN NoFile ELSE Content(k[2])]
  /\ composed' = [p \in Preset |-> [n \in Name |->
       IF /\ n \in cli.names /\ Layers(n) # <<>> /\ Content(n) # NoContent
          /\ Layers(n)[1] = Layer(p, Layers(n)[1].strategy) /\ Layers(n)[1].strategy # "replace"
       THEN Content(n) ELSE composed[p][n]]]
  /\ UNCHANGED <<reg, packs, project, ops, history>>

\* _unregister_skills: back to the core's template, if the project has a copy,
\* or to the extension's command, and otherwise the skill is deleted.
Restored(n) ==
  CASE files[<<SkillAgent, n>>] \in {NoFile, EmptySkill} -> files[<<SkillAgent, n>>]
    [] n \in CoreCommand /\ coreCopy -> Only(Core)
    [] n \in ExtCommand /\ InStack -> Only(Extension)
    [] OTHER -> NoFile

\* History: the skills that a step deletes although the command is not a preset's own.
Deleted ==
  {n \in CoreCommand \cup ExtCommand : SkillExists(n) /\ files'[<<SkillAgent, n>>] = NoFile}

\* _reconcile_skills for one command: a skill some enabled preset had written is
\* created again; then the owner of the top layer decides.
Reskilled(n) ==
  LET top == Head(Layers(n)).id
      managed == \E p \in Preset : reg[p].enabled /\ n \in reg[p].skills
      there == SkillExists(n) \/ managed
  IN  CASE top = Override -> Only(Override)
        [] top \in Preset -> IF there THEN SkillText(top, n) ELSE NoFile
        [] OTHER -> IF ~SkillExists(n) /\ managed THEN EmptySkill ELSE Restored(n)

Reskill ==
  /\ At("reskill") /\ Go
  /\ files' = [k \in Key |->
       IF k[1] = SkillAgent /\ k[2] \in cli.names /\ Layers(k[2]) # <<>>
       THEN Reskilled(k[2]) ELSE files[k]]
  /\ stale' = stale \ cli.names /\ unskilled' = unskilled \cup Deleted
  /\ UNCHANGED <<reg, packs, composed, project, ops, broken>>

Unskill ==
  /\ At("unskill") /\ Go
  /\ files' = [k \in Key |-> IF k[1] = SkillAgent /\ k[2] \in reg[cli.p].skills
                             THEN Restored(k[2]) ELSE files[k]]
  /\ unskilled' = unskilled \cup Deleted
  /\ UNCHANGED <<reg, packs, composed, project, ops, stale, broken>>

\* The skill agent's files are left out when the preset had registered skills.
Unregister ==
  /\ At("unregister") /\ Go
  /\ files' = UnregisterCommands(files,
       {k \in reg[cli.p].cmds : reg[cli.p].skills = {} \/ k[1] # SkillAgent})
  /\ UNCHANGED <<reg, packs, composed, project, ops, history>>

Rmtree ==
  /\ At("rmtree") /\ Go
  /\ packs' = packs \ {cli.p}
  /\ composed' = [composed EXCEPT ![cli.p] = [n \in Name |-> NoContent]]
  /\ UNCHANGED <<reg, files, project, ops, history>>

Unregistry ==
  /\ At("unregistry") /\ Go
  /\ reg' = [reg EXCEPT ![cli.p] = NoEntry]
  /\ stale' = stale \cup (Names(cli.p) \ cli.names)
  /\ UNCHANGED <<packs, composed, files, project, ops, broken, unskilled>>

-----------------------------------------------------------------------------

\* A step raises.  A failed registration is undone, without reconciling; a
\* failed reconciliation is only a warning; elsewhere the command stops.
Fail ==
  /\ cli # Idle /\ ~At("done") /\ cli' = Idle /\ ops < MaxOps /\ ops' = ops + 1
  /\ broken' = broken \cup Names(cli.p) \cup cli.names
  /\ IF cli.op = "add" /\ (At("commands") \/ At("skills"))
     THEN /\ files' = UnregisterCommands(files, reg[cli.p].cmds)
          /\ packs' = packs \ {cli.p}
          /\ composed' = [composed EXCEPT ![cli.p] = [n \in Name |-> NoContent]]
          /\ reg' = [reg EXCEPT ![cli.p] = NoEntry]
     ELSE UNCHANGED <<files, packs, composed, reg>>
  /\ UNCHANGED <<project, stale, unskilled>>

\* The process is killed; a registry that was being written reads as empty.
Interrupt ==
  /\ cli # Idle /\ cli' = Idle /\ ops < MaxOps /\ ops' = ops + 1
  /\ \/ broken' = broken \cup Names(cli.p) \cup cli.names /\ UNCHANGED reg
     \/ /\ Head(cli.todo) \in {"register", "commands", "skills", "unregistry"}
        /\ reg' = [p \in Preset |-> NoEntry] /\ broken' = Name
  /\ UNCHANGED <<packs, composed, files, project, stale, unskilled>>

Step ==
  \/ Copy \/ Register \/ Commands \/ Skills \/ Reconcile \/ Reskill
  \/ Unskill \/ Unregister \/ Rmtree \/ Unregistry \/ Done

Next ==
  \/ \E p \in Preset, prio \in Priority : Add(p, prio) \/ SetPriority(p, prio)
  \/ \E p \in Preset : Remove(p)
  \/ \E p \in Preset, on \in BOOLEAN : SetEnabled(p, on)
  \/ \E n \in Name : EditOverride(n)
  \/ \E s \in {"enabled", "disabled", "unregistered", "absent"} : ExtensionChanges(s)
  \/ Step \/ Fail \/ Interrupt

Spec == Init /\ [][Next]_vars

-----------------------------------------------------------------------------

\* A preset left the command out, its extension not being there when it was added.
LeftOut(n) == \E p \in Preset : Installed(p) /\ n \in Names(p) \ Registered(p)

\* After a preset was added or removed, the command files and skills of every
\* command it touched are what the priority stack composes to, whatever the
\* order of installations and removals: the purpose of
\* _reconcile_composed_commands and _reconcile_skills.  Not claimed for a
\* command whose stack was changed by something that does not reconcile (the
\* removal of a preset that left it out is one), for an extension's command
\* while the extension is away or a preset left it out, nor for two skills: that
\* of a command that lost its base layer (its file goes, its skill does not), and
\* that of a command of the core or the extension once a removal has deleted it
\* (the project has no copy of the core's commands, or the extension is disabled).
FilesFollowStack ==
  cli = Idle =>
    \A n \in Name \ (stale \cup broken), a \in Agent :
      /\ ~LeftOut(n) /\ (n \in ExtCommand => ext # "absent")
      /\ Content(n) = NoContent \/ n \in unskilled => a = CommandAgent
      => files[<<a, n>>] = IF Content(n) = NoContent THEN NoFile ELSE Content(n)

\* The file of a layer is not where the name of the command says: a preset's
\* manifest gives another file or a missing one, an extension's another one.
Misplaced(l, n) ==
  \/ l \in Preset /\ (n \in ByName[l]) # (n \in DOMAIN Provides[l])
  \/ l = Extension /\ n \notin ExtByName
TopLayer(layers) == IF layers = <<>> THEN NoLayer ELSE Head(layers).id

\* resolve and collect_all_layers walk the sources separately, one by the names
\* of the files and one by the manifests.  For every stack they give the same
\* layer, unless one of the two layers has its file elsewhere than its name
\* says; a misplaced file that neither gives changes nothing.
ResolversAgree ==
  \A n \in Name :
    LET found == Resolve(reg, override, InStack, n)
        top == TopLayer(Layers(n))
    IN  found = top \/ Misplaced(found, n) \/ Misplaced(top, n)

\* The bottom-up composition of resolve_content is the nesting the strategies
\* describe: each layer surrounds the content of the layers below it.
CompositionNests == \A n \in Name : Content(n).body = Nested(Layers(n))
=============================================================================
