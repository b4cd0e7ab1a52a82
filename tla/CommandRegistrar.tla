-------------------------- MODULE CommandRegistrar --------------------------
(***************************************************************************)
(* The command files of the coding agents (specify_cli/agents.py).  A file  *)
(* is addressed by <<agent, command name>>; its content is told apart by    *)
(* where it came from.  Aliases are names like the others.                  *)
(***************************************************************************)
CONSTANTS
  Agent,    \* the agents of AGENT_CONFIGS
  Name,     \* command names and aliases
  NoFile

Key == Agent \X Name
NoFiles == [k \in Key |-> NoFile]

\* register_commands and _write_registered_output: every name is rendered for
\* the agent and written over whatever is there; the names written are returned.
RegisterCommands(files, a, names, content) ==
  [k \in Key |-> IF k[1] = a /\ k[2] \in names THEN content ELSE files[k]]

\* register_commands_for_all_agents: only agents whose directory exists.
RegisteredForAll(dirs, names) == dirs \X names
RegisterForAll(files, dirs, names, content) ==
  [k \in Key |-> IF k \in RegisteredForAll(dirs, names) THEN content ELSE files[k]]

\* unregister_commands: by name, whoever wrote the file.
UnregisterCommands(files, keys) ==
  [k \in Key |-> IF k \in keys THEN NoFile ELSE files[k]]
=============================================================================
