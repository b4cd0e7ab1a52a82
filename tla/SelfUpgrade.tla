----------------------------- MODULE SelfUpgrade -----------------------------
(***************************************************************************)
(* specify self check and specify self upgrade.  Several commands run at    *)
(* once on one machine; uv and pipx may each hold an installation.  A       *)
(* version is a number; None stands for no installation, a version that     *)
(* cannot be read, and a release tag that does not validate.                *)
(***************************************************************************)
EXTENDS Naturals

CONSTANTS Procs, MaxVersion,
          Workload,       \* the commands that may be given
          InitialDisks    \* what is installed at first
ASSUME SelfUpgradeAssumption == /\ MaxVersion \in Nat \ {0}
                                /\ InitialDisks \subseteq [{"uv", "pipx"} -> 0..MaxVersion]

VARIABLES disk,      \* the version each installer has installed
          bin,       \* each installer on PATH: "ok", "absent" or "broken"
          released,  \* the latest release tag
          proc       \* the commands

vars == <<disk, bin, released, proc>>

None == 0
Versions == 0..MaxVersion
Owners == {"uv", "pipx"}

(* Where argv[0] resolves to: into an installation, into the uvx cache,     *)
(* nowhere (a path that no longer exists), or to another file, with or      *)
(* without the marker of an editable install.                               *)
Entries == Owners \cup {"uvx", "editable", "gone", "elsewhere"}

(* pinned: --tag was given (None when malformed); timed: the environment    *)
(* sets SPECIFY_UPGRADE_TIMEOUT_SECS to a usable value.                      *)
Commands == [kind : {"check", "upgrade"}, dry : BOOLEAN, pinned : BOOLEAN, tag : Versions,
             timed : BOOLEAN, entry : Entries]
ASSUME WorkloadAssumption == Workload \subseteq Commands
Given(kind) == {c \in Workload : c.kind = kind /\ (c.entry \in Owners => disk[c.entry] # None)}

NoCommand == [kind |-> "none"]
Nothing == [pc |-> "idle", out |-> "none", cmd |-> NoCommand, method |-> "unsupported",
            target |-> None, current |-> None]
------------------------------------------------------------------------------
machine == <<disk, bin, released>>
Go(p, pc) == proc' = [proc EXCEPT ![p].pc = pc]
Exit(p, out) == proc' = [proc EXCEPT ![p].pc = "done", ![p].out = out]
Pinned(p) == proc[p].cmd.pinned

(* importlib.metadata of the running interpreter: the installation it runs  *)
(* from, or whatever distribution the other entry points find, if any.      *)
InstalledVersions(entry) == IF entry \in Owners THEN {disk[entry]} ELSE Versions

(* self_check reads the installed version, then fetches.                    *)
SelfCheck(p) ==
    /\ proc[p].pc = "idle"
    /\ \E c \in Given("check") : \E v \in InstalledVersions(c.entry) :
         proc' = [proc EXCEPT ![p].pc = "check", ![p].cmd = c, ![p].current = v]
    /\ UNCHANGED machine

IsNewer(latest, current) == current # None /\ latest > current

CheckReport(latest, current) ==
    IF latest = None THEN "not validated"
    ELSE IF current = None THEN "current unknown"
    ELSE IF IsNewer(latest, current) THEN "update available" ELSE "up to date"

Report(p) ==
    /\ proc[p].pc = "check"
    /\ \/ Exit(p, "could not check")
       \/ proc' = [proc EXCEPT ![p].pc = "done", ![p].target = released,
                               ![p].out = CheckReport(released, proc[p].current)]
    /\ UNCHANGED machine
------------------------------------------------------------------------------
(* self_upgrade refuses a malformed --tag before it looks at anything.      *)
SelfUpgrade(p) ==
    /\ proc[p].pc = "idle"
    /\ \E c \in Given("upgrade") :
         proc' = IF c.pinned /\ c.tag = None
                 THEN [proc EXCEPT ![p].cmd = c, ![p].pc = "done", ![p].out = "invalid tag"]
                 ELSE [proc EXCEPT ![p].cmd = c, ![p].pc = "detect"]
    /\ UNCHANGED machine

(* The registries are asked only when the entry point is gone, and believed *)
(* only when exactly one of them claims the installation.  A registry that  *)
(* is not on PATH, fails or takes too long claims nothing.                  *)
\* Variant of DetectInstallMethod: the registries are asked for any other file.
DetectInstallMethodAnywhere(entry, claims) ==
    CASE entry \in Owners -> entry
      [] entry = "uvx" -> "uvx-ephemeral"
      [] entry = "editable" -> "source-checkout"
      [] claims \in {{o} : o \in Owners} -> CHOOSE o \in Owners : claims = {o}
      [] OTHER -> "unsupported"
DetectInstallMethod(entry, claims) ==
    CASE entry \in Owners -> entry
      [] entry = "uvx" -> "uvx-ephemeral"
      [] entry = "editable" -> "source-checkout"
      [] entry = "gone" /\ claims \in {{o} : o \in Owners} -> CHOOSE o \in Owners : claims = {o}
      [] OTHER -> "unsupported"

(* With --tag, or without an installation to upgrade, nothing is fetched.   *)
Detect(p) ==
    /\ proc[p].pc = "detect"
    /\ \E claims \in SUBSET {o \in Owners : bin[o] = "ok" /\ disk[o] # None} :
         LET method == DetectInstallMethod(proc[p].cmd.entry, claims)
         IN  proc' = [proc EXCEPT
               ![p].method = method,
               ![p].target = proc[p].cmd.tag,
               ![p].pc = IF method \in Owners /\ ~Pinned(p) THEN "resolve" ELSE "plan"]
    /\ UNCHANGED machine

(* One call for the latest tag: it fails, or the tag does not validate, or  *)
(* the tag becomes the target.                                              *)
Fetched(p) == IF released = None
              THEN Exit(p, "unparseable")
              ELSE proc' = [proc EXCEPT ![p].target = released, ![p].pc = "plan"]
Resolve(p) ==
    /\ proc[p].pc = "resolve"
    /\ Exit(p, "unresolved") \/ Fetched(p)
    /\ UNCHANGED machine

(* Without --tag only a newer release is installed, with --tag any other    *)
(* one; a version that is not known stops neither.                          *)
\* Variant of AlreadyThere: only the same version stops an upgrade.
AlreadyOnIt(p, current) == current # None /\ proc[p].target = current
AlreadyThere(p, current) ==
    /\ current # None
    /\ IF Pinned(p) THEN proc[p].target = current ELSE ~(proc[p].target > current)

(* The plan reads the installed version after the target was fetched, and   *)
(* looks the installer up; everything else follows from it.                 *)
Outcome(p, current) ==
    CASE proc[p].method \notin Owners -> "guidance"
      [] proc[p].method \in Owners /\ proc[p].cmd.dry -> "preview"
      [] OTHER -> IF bin[proc[p].method] # "ok" THEN "installer missing"
                  ELSE IF AlreadyThere(p, current) THEN "already there" ELSE "none"
Plan(p) ==
    /\ proc[p].pc = "plan"
    /\ \E v \in InstalledVersions(proc[p].cmd.entry) :
         proc' = [proc EXCEPT ![p].current = v, ![p].out = Outcome(p, v),
                              ![p].pc = IF Outcome(p, v) = "none" THEN "launch" ELSE "done"]
    /\ UNCHANGED machine

(* _run_installer looks at the planned path again before it spawns it.      *)
Launch(p) ==
    /\ proc[p].pc = "launch"
    /\ CASE bin[proc[p].method] = "absent" -> Exit(p, "installer missing")
         [] bin[proc[p].method] = "broken" -> Exit(p, "installer invalid")
         [] OTHER -> Go(p, "installing")
    /\ UNCHANGED machine

(* subprocess.run kills the installer when the time is up.                  *)
Timeout(p) ==
    /\ proc[p].pc = "installing"
    /\ proc[p].cmd.timed
    /\ Exit(p, "timeout")
    /\ UNCHANGED machine

(* A fresh specify --version: the entry point if it is still there, or what *)
(* PATH finds; nothing when that fails, takes too long or prints no version.*)
Live(p) ==
    LET entry == proc[p].cmd.entry
    IN  IF entry \in Owners /\ disk[entry] # None THEN {disk[entry], None}
        ELSE {disk[o] : o \in Owners} \cup {None}
\* Variant of Verify: the installer's exit code is believed.
VerifyByExitCode(p) ==
    /\ proc[p].pc = "verify"
    /\ Exit(p, "upgraded")
    /\ UNCHANGED machine
Verify(p) ==
    /\ proc[p].pc = "verify"
    /\ \E v \in Live(p) : Exit(p, IF v = proc[p].target THEN "upgraded" ELSE "mismatch")
    /\ UNCHANGED machine

\* Variant of Cli: the configured timeout is not passed on.
CliWithoutTimeout(p) == Report(p) \/ Detect(p) \/ Resolve(p) \/ Plan(p) \/ Launch(p) \/ Verify(p)
Cli(p) == \/ Report(p) \/ Detect(p) \/ Resolve(p) \/ Plan(p) \/ Launch(p)
          \/ Timeout(p) \/ Verify(p)
------------------------------------------------------------------------------
(* External: an installer run with --force removes the old installation and *)
(* writes the new one.  It may fail in between, or succeed without having   *)
(* done either, and it may hang.                                            *)
InstallerRemoves(p) ==
    /\ proc[p].pc = "installing"
    /\ disk[proc[p].method] # None
    /\ disk' = [disk EXCEPT ![proc[p].method] = None]
    /\ UNCHANGED <<bin, released, proc>>
InstallerWrites(p) ==
    /\ proc[p].pc = "installing"
    /\ disk[proc[p].method] = None
    /\ disk' = [disk EXCEPT ![proc[p].method] = proc[p].target]
    /\ Go(p, "verify")
    /\ UNCHANGED <<bin, released>>
InstallerExits(p) ==
    /\ proc[p].pc = "installing"
    /\ Exit(p, "installer failed") \/ Go(p, "verify")
    /\ UNCHANGED machine

(* External: Ctrl+C, the package manager, the releases page.                *)
Interrupt(p) ==
    /\ proc[p].pc \notin {"idle", "done"}
    /\ Exit(p, "interrupted")
    /\ UNCHANGED machine
BinChanges ==
    /\ \E o \in Owners, s \in {"absent", "broken"} : bin[o] = "ok" /\ bin' = [bin EXCEPT ![o] = s]
    /\ UNCHANGED <<disk, released, proc>>
Publish ==
    /\ released < MaxVersion
    /\ released' \in (released + 1)..MaxVersion
    /\ UNCHANGED <<disk, bin, proc>>

Init ==
    /\ disk \in InitialDisks
    /\ bin = [o \in Owners |-> "ok"]
    /\ released \in Versions
    /\ proc = [p \in Procs |-> Nothing]

Next ==
    \/ \E p \in Procs : SelfCheck(p) \/ SelfUpgrade(p) \/ Cli(p) \/ Interrupt(p)
    \/ \E p \in Procs : InstallerRemoves(p) \/ InstallerWrites(p) \/ InstallerExits(p)
    \/ BinChanges \/ Publish

(* The network call, the registries and the verification have timeouts of   *)
(* their own, so every step of a command but the wait for its installer is  *)
(* sure to come; the wait is bounded only by the user's timeout.            *)
Spec == Init /\ [][Next]_vars /\ \A p \in Procs : WF_vars(Cli(p))
------------------------------------------------------------------------------

(* docs/upgrade.md: an installation changes only through an upgrade that is *)
(* not a dry run and that was started from this very installation, or whose *)
(* entry point no longer exists.                                            *)
OnlyOwnInstallation ==
    [][\A o \in Owners : disk'[o] # disk[o] =>
         \E p \in Procs : /\ proc[p].pc = "installing"
                          /\ ~proc[p].cmd.dry
                          /\ proc[p].cmd.entry \in {o, "gone"}]_vars

(* Without --tag no installation is replaced by an older release, except    *)
(* when it is not the one the plan was made for: another command changed it *)
(* meanwhile, or its version could not be read.                             *)
NoUnaskedDowngrade ==
    [][\A p \in Procs, o \in Owners :
         (/\ disk'[o] = None /\ disk[o] # None
          /\ proc[p].pc = "installing" /\ proc[p].method = o /\ ~Pinned(p)
          /\ proc[p].current = disk[o]
          /\ \A q \in Procs \ {p} : proc[q].pc # "installing")
           => proc[p].target > disk[o]]_vars

(* A command reports an upgrade only when the target is what an             *)
(* installation on this machine runs at that moment, also when the          *)
(* installer reported success without doing anything, or another command    *)
(* replaced the installation before the verification.                       *)
ReportedIsLive ==
    [][\A p \in Procs : (proc[p].out # "upgraded" /\ proc'[p].out = "upgraded") =>
         \E o \in Owners : /\ disk[o] = proc[p].target
                           /\ proc[p].cmd.entry \in Owners => o = proc[p].cmd.entry
                                                       \/ disk[proc[p].cmd.entry] = None]_vars

(* Every command ends, or waits for an installer that nobody limited.       *)
Ends ==
    \A p \in Procs :
        []<>(proc[p].pc \in {"idle", "done"} \/ (proc[p].pc = "installing" /\ ~proc[p].cmd.timed))
==============================================================================
