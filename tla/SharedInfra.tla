----------------------------- MODULE SharedInfra -----------------------------
(***************************************************************************)
(* Manifests of installed files, and the rules for the shared scripts and   *)
(* templates under .specify/.  A file's content stands for its hash.  A     *)
(* manifest maps the files it records to the content recorded.              *)
(***************************************************************************)
EXTENDS Naturals, Sequences

CONSTANTS
  CommandFile, SharedFile,
  NoFile,       \* the content of a path with no file
  User,         \* the content of a file the user wrote or edited
  NoManifest

File == CommandFile \cup SharedFile

\* IntegrationManifest.check_modified: a recorded file that is gone is not modified.
CheckModified(m, disk) == {f \in DOMAIN m : disk[f] \notin {NoFile, m[f]}}

\* IntegrationManifest.uninstall: modified files are skipped unless forced.
Uninstall(m, disk, force) ==
  [f \in File |-> IF f \in DOMAIN m /\ (force \/ disk[f] = m[f]) THEN NoFile ELSE disk[f]]

-----------------------------------------------------------------------------
\* The manifest speckit.manifest.json: what it records, and which of these files
\* it merely found there (recovered).
NoShared == [files |-> [f \in {} |-> NoFile], recovered |-> {}]

\* Variant of IsManaged: a recorded hash that still matches is enough.
IsManagedByHash(sm, disk, f) == f \in DOMAIN sm.files /\ sm.files[f] = disk[f]

\* _is_managed: installed by Spec Kit and not changed since.
IsManaged(sm, disk, f) ==
  f \in DOMAIN sm.files \ sm.recovered /\ sm.files[f] = disk[f]

\* _decide_overwrite
DecideOverwrite(sm, disk, f, force, refresh) ==
  \/ disk[f] = NoFile
  \/ force
  \/ refresh /\ IsManaged(sm, disk, f)

\* install_shared_infra: the files it writes, and the manifest it then saves; a
\* file that is skipped and in no manifest is recorded as recovered.
Planned(sm, disk, force, refresh) ==
  {f \in SharedFile : DecideOverwrite(sm, disk, f, force, refresh)}
WriteShared(sm, disk, force, refresh, content) ==
  [f \in File |-> IF f \in Planned(sm, disk, force, refresh) THEN content ELSE disk[f]]
RecordShared(sm, disk, force, refresh, content) ==
  LET written == Planned(sm, disk, force, refresh)
      found == SharedFile \ (written \cup DOMAIN sm.files)
  IN [files |-> [f \in SharedFile |->
                  IF f \in written THEN content
                  ELSE IF f \in found THEN disk[f] ELSE sm.files[f]],
      recovered |-> (sm.recovered \ written) \cup found]
=============================================================================
