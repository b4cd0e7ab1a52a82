-------------------------- MODULE SelfUpgradeProofs --------------------------
(***************************************************************************)
(* Safety of specify self upgrade for any number of commands at once, of    *)
(* releases and of ways to call it.                                         *)
(***************************************************************************)
EXTENDS SelfUpgrade, TLAPS

(* Places at which the method of installation is known; at which the plan   *)
(* has been made and asks for an installer.                                 *)
Detected == {"resolve", "plan", "launch", "installing", "verify"}
Planned  == {"launch", "installing", "verify"}

States == {"idle", "check", "detect", "done"} \cup Detected

Methods == Owners \cup {"uvx-ephemeral", "source-checkout", "unsupported"}

Outs == {"none", "could not check", "not validated", "current unknown", "update available",
         "up to date", "invalid tag", "unresolved", "unparseable", "guidance", "preview",
         "installer missing", "already there", "installer invalid", "timeout", "upgraded",
         "mismatch", "installer failed", "interrupted"}

Command == [pc : States, out : Outs, cmd : Commands \cup {NoCommand}, method : Methods,
            target : Versions, current : Versions]

Typed ==
    /\ disk \in [Owners -> Versions] /\ released \in Versions
    /\ bin \in [Owners -> {"ok", "absent", "broken"}]
    /\ proc \in [Procs -> Command]

(* What a command knows by the time it starts its installer: it was asked   *)
(* to install, its method is that of its own entry point or of the only     *)
(* installation there is for one that is gone, its target is a release, and *)
(* without --tag a newer one than it has read.                              *)
CommandOK(p) ==
    LET P == proc[p]
    IN  /\ P.pc \in {"detect"} \cup Detected =>
              P.cmd \in Commands /\ (P.cmd.pinned => P.cmd.tag # None)
        /\ P.pc \in Detected /\ P.method \in Owners => P.cmd.entry \in {P.method, "gone"}
        /\ P.pc = "resolve" => P.method \in Owners
        /\ P.pc \in {"plan"} \cup Planned /\ P.method \in Owners => P.target # None
        /\ P.pc \in Planned =>
              /\ P.method \in Owners /\ ~ P.cmd.dry
              /\ ~ P.cmd.pinned => P.current = None \/ P.target > P.current
        /\ P.pc \notin {"done"} => P.out # "upgraded"

IInv == Typed /\ \A p \in Procs : CommandOK(p)

------------------------------------------------------------------------------
(* The invariant holds at the start.                                        *)
LEMMA InitIInv == Init => IInv
  <1> SUFFICES ASSUME Init PROVE IInv
    OBVIOUS
  <1>1. Typed
    <2>1. disk \in [Owners -> Versions] /\ bin \in [Owners -> {"ok", "absent", "broken"}]
      BY SelfUpgradeAssumption DEF Init, Owners, Versions
    <2>2. None \in Versions
      BY SelfUpgradeAssumption DEF None, Versions
    <2>3. Nothing \in Command
      BY <2>2 DEF Nothing, Command, States, Methods, Outs
    <2> QED
      BY <2>1, <2>3 DEF Init, Typed, Command
  <1>2. ASSUME NEW p \in Procs PROVE CommandOK(p)
    BY DEF Init, CommandOK, Nothing, Detected, Planned
  <1> QED
    BY <1>1, <1>2 DEF IInv

(* A step of one command leaves the others alone.                           *)
LEMMA OneMoves ==
  ASSUME IInv, Typed', NEW p \in Procs, CommandOK(p)',
         \A q \in Procs \ {p} : proc'[q] = proc[q]
  PROVE  IInv'
  <1>1. ASSUME NEW q \in Procs \ {p} PROVE CommandOK(q)'
    BY DEF IInv, CommandOK
  <1> QED
    BY <1>1 DEF IInv

(* A command that ends with a message of its own.                           *)
LEMMA ExitIInv ==
  ASSUME IInv, NEW p \in Procs, NEW out \in Outs, Exit(p, out),
         disk' \in [Owners -> Versions], UNCHANGED <<bin, released>>
  PROVE  IInv'
  <1>1. Typed'
    BY DEF Exit, IInv, Typed, Command, States
  <1>2. CommandOK(p)' /\ \A q \in Procs \ {p} : proc'[q] = proc[q]
    BY DEF Exit, IInv, Typed, Command, CommandOK, Detected, Planned
  <1> QED
    BY <1>1, <1>2, OneMoves

(* A command that goes on to another of the places of Planned.              *)
LEMMA GoIInv ==
  ASSUME IInv, NEW p \in Procs, proc[p].pc \in Planned, NEW next \in Planned, Go(p, next),
         disk' \in [Owners -> Versions], UNCHANGED <<bin, released>>
  PROVE  IInv'
  <1>1. Typed'
    BY DEF Go, IInv, Typed, Command, States, Detected, Planned
  <1>2. CommandOK(p)' /\ \A q \in Procs \ {p} : proc'[q] = proc[q]
    BY DEF Go, IInv, Typed, Command, CommandOK, Detected, Planned
  <1> QED
    BY <1>1, <1>2, OneMoves

(* The two commands begin; a malformed --tag ends at once.                  *)
LEMMA BeginIInv ==
  ASSUME IInv, NEW p \in Procs, SelfCheck(p) \/ SelfUpgrade(p)
  PROVE  IInv'
  <1>1. UNCHANGED <<disk, bin, released>>
    BY DEF SelfCheck, SelfUpgrade, machine
  <1>2. CASE SelfCheck(p)
    <2>0. PICK c \in Given("check") : \E v \in InstalledVersions(c.entry) :
             proc' = [proc EXCEPT ![p].pc = "check", ![p].cmd = c, ![p].current = v]
      BY <1>2 DEF SelfCheck
    <2>1. PICK v \in InstalledVersions(c.entry) :
             proc' = [proc EXCEPT ![p].pc = "check", ![p].cmd = c, ![p].current = v]
      BY <2>0
    <2>2. c \in Commands /\ v \in Versions /\ proc[p].out # "upgraded"
      <3>1. c \in Commands
        BY <2>0, WorkloadAssumption DEF Given
      <3>2. v \in Versions
        BY <2>1 DEF InstalledVersions, IInv, Typed, Command
      <3>3. proc[p].out # "upgraded"
        BY <1>2 DEF IInv, SelfCheck, CommandOK
      <3> QED
        BY <3>1, <3>2, <3>3
    <2>3. Typed'
      <3>1. [proc[p] EXCEPT !.pc = "check", !.cmd = c, !.current = v] \in Command
        BY <2>2 DEF IInv, Typed, Command, States
      <3> QED
        BY <1>1, <2>1, <3>1 DEF IInv, Typed, Command
    <2>4. CommandOK(p)' /\ \A q \in Procs \ {p} : proc'[q] = proc[q]
      BY <2>1, <2>2 DEF IInv, Typed, Command, CommandOK, Detected, Planned
    <2> QED
      BY <2>3, <2>4, OneMoves
  <1>3. CASE SelfUpgrade(p)
    <2>1. PICK c \in Given("upgrade") :
             proc' = IF c.pinned /\ c.tag = None
                     THEN [proc EXCEPT ![p].cmd = c, ![p].pc = "done", ![p].out = "invalid tag"]
                     ELSE [proc EXCEPT ![p].cmd = c, ![p].pc = "detect"]
      BY <1>3 DEF SelfUpgrade
    <2>2. c \in Commands /\ proc[p].pc = "idle" /\ proc[p].out # "upgraded"
      BY <1>3, <2>1, WorkloadAssumption DEF Given, SelfUpgrade, IInv, CommandOK
    <2>3. Typed'
      <3>1. CASE c.pinned /\ c.tag = None
        <4>1. [proc[p] EXCEPT !.cmd = c, !.pc = "done", !.out = "invalid tag"] \in Command
          BY <2>2 DEF IInv, Typed, Command, States, Outs
        <4> QED
          BY <1>1, <2>1, <3>1, <4>1 DEF IInv, Typed, Command
      <3>2. CASE ~ (c.pinned /\ c.tag = None)
        BY <1>1, <2>1, <2>2, <3>2 DEF IInv, Typed, Command, States
      <3> QED
        BY <3>1, <3>2
    <2>4. CommandOK(p)' /\ \A q \in Procs \ {p} : proc'[q] = proc[q]
      BY <2>1, <2>2 DEF IInv, Typed, Command, CommandOK, Detected, Planned
    <2> QED
      BY <2>3, <2>4, OneMoves
  <1> QED
    BY <1>2, <1>3

(* The method found for an entry point is the installation it lies in, or   *)
(* the only one a registry claims when it is gone.                          *)
LEMMA DetectedMethod ==
  ASSUME NEW entry \in Entries, NEW claims \in SUBSET Owners
  PROVE  LET m == DetectInstallMethod(entry, claims)
         IN  m \in Methods /\ (m \in Owners => entry \in {m, "gone"})
  <1>1. CASE entry \in Owners
    BY <1>1 DEF DetectInstallMethod, Methods, Owners
  <1>2. CASE entry \notin Owners /\ entry # "gone"
    BY <1>2 DEF DetectInstallMethod, Methods, Owners
  <1>3. CASE entry = "gone"
    <2>1. CASE claims \in {{o} : o \in Owners}
      <3>1. \E o \in Owners : claims = {o}
        BY <2>1
      <3>2. (CHOOSE o \in Owners : claims = {o}) \in Owners
        BY <3>1
      <3>3. DetectInstallMethod(entry, claims) = CHOOSE o \in Owners : claims = {o}
        BY <1>3, <2>1 DEF DetectInstallMethod, Owners
      <3> QED
        BY <1>3, <3>2, <3>3 DEF Methods
    <2>2. CASE claims \notin {{o} : o \in Owners}
      BY <1>3, <2>2 DEF DetectInstallMethod, Methods, Owners
    <2> QED
      BY <2>1, <2>2
  <1> QED
    BY <1>1, <1>2, <1>3

(* What the detection finds, and what --tag asks for.                       *)
LEMMA DetectIInv ==
  ASSUME IInv, NEW p \in Procs, Detect(p)
  PROVE  IInv'
  <1> DEFINE c == proc[p].cmd
  <1>1. /\ proc[p].pc = "detect" /\ UNCHANGED <<disk, bin, released>>
        /\ c \in Commands /\ (c.pinned => c.tag # None)
    BY DEF Detect, machine, IInv, CommandOK
  <1>2. c.entry \in Entries /\ c.tag \in Versions
    BY <1>1 DEF Commands
  <1>3. PICK m \in Methods :
           /\ m \in Owners => c.entry \in {m, "gone"}
           /\ proc' = [proc EXCEPT
                ![p].method = m, ![p].target = c.tag,
                ![p].pc = IF m \in Owners /\ ~ c.pinned THEN "resolve" ELSE "plan"]
    <2>1. PICK claims \in SUBSET Owners :
             LET m == DetectInstallMethod(c.entry, claims)
             IN  proc' = [proc EXCEPT
                   ![p].method = m, ![p].target = c.tag,
                   ![p].pc = IF m \in Owners /\ ~ c.pinned THEN "resolve" ELSE "plan"]
      BY DEF Detect, Pinned
    <2> QED
      BY <1>2, <2>1, DetectedMethod
  <1> DEFINE next == IF m \in Owners /\ ~ c.pinned THEN "resolve" ELSE "plan"
  <1>4. [proc[p] EXCEPT !.method = m, !.target = c.tag, !.pc = next] \in Command
    BY <1>2 DEF IInv, Typed, Command, States, Detected
  <1>5. Typed'
    BY <1>1, <1>3, <1>4 DEF IInv, Typed
  <1>6. CommandOK(p)' /\ \A q \in Procs \ {p} : proc'[q] = proc[q]
    BY <1>1, <1>3 DEF IInv, Typed, Command, CommandOK, Detected, Planned
  <1> QED
    BY <1>5, <1>6, OneMoves

(* The latest release becomes the target.                                   *)
LEMMA ResolveIInv ==
  ASSUME IInv, NEW p \in Procs, Resolve(p)
  PROVE  IInv'
  <1>1. proc[p].pc = "resolve" /\ UNCHANGED <<disk, bin, released>> /\ disk \in [Owners -> Versions]
    BY DEF Resolve, machine, IInv, Typed
  <1>2. CASE Exit(p, "unresolved") \/ Exit(p, "unparseable")
    BY <1>1, <1>2, ExitIInv DEF Outs
  <1>3. CASE released # None /\ proc' = [proc EXCEPT ![p].target = released, ![p].pc = "plan"]
    <2>1. Typed'
      BY <1>1, <1>3 DEF IInv, Typed, Command, States, Detected
    <2>2. CommandOK(p)' /\ \A q \in Procs \ {p} : proc'[q] = proc[q]
      BY <1>1, <1>3 DEF IInv, Typed, Command, CommandOK, Detected, Planned
    <2> QED
      BY <2>1, <2>2, OneMoves
  <1> QED
    BY <1>2, <1>3 DEF Resolve, Fetched

(* The plan asks for the installer only for a version that is wanted.       *)
LEMMA PlanIInv ==
  ASSUME IInv, NEW p \in Procs, Plan(p)
  PROVE  IInv'
  <1> DEFINE c == proc[p].cmd
  <1>1. proc[p].pc = "plan" /\ UNCHANGED <<disk, bin, released>>
    BY DEF Plan, machine
  <1>2. PICK v \in InstalledVersions(c.entry) :
           proc' = [proc EXCEPT ![p].current = v, ![p].out = Outcome(p, v),
                                ![p].pc = IF Outcome(p, v) = "none" THEN "launch" ELSE "done"]
    BY DEF Plan
  <1>3. v \in Versions
    BY <1>2 DEF InstalledVersions, IInv, Typed
  <1>4. /\ Outcome(p, v) \in Outs \ {"upgraded"}
        /\ Outcome(p, v) = "none" => /\ proc[p].method \in Owners /\ ~ c.dry
                                     /\ ~ AlreadyThere(p, v)
    BY DEF Outcome, Outs
  <1>5. ~ AlreadyThere(p, v) /\ ~ c.pinned => v = None \/ proc[p].target > v
    BY DEF AlreadyThere, Pinned
  <1> DEFINE next == IF Outcome(p, v) = "none" THEN "launch" ELSE "done"
  <1>6. [proc[p] EXCEPT !.current = v, !.out = Outcome(p, v), !.pc = next] \in Command
    BY <1>3, <1>4 DEF IInv, Typed, Command, States, Detected
  <1>7. Typed'
    BY <1>1, <1>2, <1>6 DEF IInv, Typed
  <1>8. CommandOK(p)' /\ \A q \in Procs \ {p} : proc'[q] = proc[q]
    <2>1. CASE Outcome(p, v) = "none"
      BY <1>1, <1>2, <1>3, <1>4, <1>5, <2>1 DEF IInv, Typed, Command, CommandOK, Detected, Planned
    <2>2. CASE Outcome(p, v) # "none"
      BY <1>1, <1>2, <1>3, <1>4, <2>2 DEF IInv, Typed, Command, CommandOK, Detected, Planned
    <2> QED
      BY <2>1, <2>2
  <1> QED
    BY <1>7, <1>8, OneMoves

(* The remaining steps of a command.                                        *)
LEMMA CliIInv ==
  ASSUME IInv, NEW p \in Procs, Cli(p)
  PROVE  IInv'
  <1>0. disk \in [Owners -> Versions]
    BY DEF IInv, Typed
  <1>1. CASE Report(p)
    <2>1. proc[p].pc = "check" /\ UNCHANGED <<disk, bin, released>>
      BY <1>1 DEF Report, machine
    <2>2. CASE Exit(p, "could not check")
      BY <1>0, <2>1, <2>2, ExitIInv DEF Outs
    <2>3. CASE ~ Exit(p, "could not check")
      <3> DEFINE out == CheckReport(released, proc[p].current)
      <3>1. proc' = [proc EXCEPT ![p].pc = "done", ![p].target = released, ![p].out = out]
        BY <1>1, <2>3 DEF Report
      <3>2. out \in Outs
        BY DEF CheckReport, Outs
      <3> HIDE DEF out
      <3>3. [proc[p] EXCEPT !.pc = "done", !.target = released, !.out = out] \in Command
        BY <3>2 DEF IInv, Typed, Command, States
      <3>4. Typed'
        BY <2>1, <3>1, <3>3 DEF IInv, Typed
      <3>5. CommandOK(p)' /\ \A q \in Procs \ {p} : proc'[q] = proc[q]
        BY <3>1 DEF IInv, Typed, Command, CommandOK, Detected, Planned
      <3> QED
        BY <3>4, <3>5, OneMoves
    <2> QED
      BY <2>2, <2>3
  <1>2. CASE Launch(p)
    <2>1. proc[p].pc = "launch" /\ UNCHANGED <<disk, bin, released>>
      BY <1>2 DEF Launch, machine
    <2>2. \/ Exit(p, "installer missing") \/ Exit(p, "installer invalid")
          \/ Go(p, "installing")
      BY <1>2 DEF Launch
    <2> QED
      BY <1>0, <2>1, <2>2, ExitIInv, GoIInv DEF Outs, Planned
  <1>3. CASE Timeout(p)
    BY <1>0, <1>3, ExitIInv DEF Timeout, machine, Outs
  <1>4. CASE Verify(p)
    <2>1. (Exit(p, "upgraded") \/ Exit(p, "mismatch")) /\ UNCHANGED <<disk, bin, released>>
      BY <1>4 DEF Verify, machine
    <2> QED
      BY <1>0, <2>1, ExitIInv DEF Outs
  <1> QED
    BY <1>1, <1>2, <1>3, <1>4, DetectIInv, ResolveIInv, PlanIInv DEF Cli

(* The installers write the target or nothing.                              *)
LEMMA InstallerIInv ==
  ASSUME IInv, NEW p \in Procs,
         InstallerRemoves(p) \/ InstallerWrites(p) \/ InstallerExits(p) \/ Interrupt(p)
  PROVE  IInv'
  <1>0. disk \in [Owners -> Versions] /\ None \in Versions /\ proc[p].target \in Versions
    BY SelfUpgradeAssumption DEF IInv, Typed, Command, None, Versions
  <1>1. CASE InstallerRemoves(p)
    <2>1. Typed'
      BY <1>0, <1>1 DEF InstallerRemoves, IInv, Typed
    <2> QED
      BY <1>1, <2>1 DEF InstallerRemoves, IInv, CommandOK
  <1>2. CASE InstallerWrites(p)
    <2>1. proc[p].pc \in Planned /\ Go(p, "verify") /\ UNCHANGED <<bin, released>>
      BY <1>2 DEF InstallerWrites, Planned
    <2>2. disk' \in [Owners -> Versions]
      BY <1>0, <1>2 DEF InstallerWrites
    <2> QED
      BY <2>1, <2>2, GoIInv DEF Planned
  <1>3. CASE InstallerExits(p)
    <2>1. /\ proc[p].pc \in Planned /\ UNCHANGED <<disk, bin, released>>
          /\ Exit(p, "installer failed") \/ Go(p, "verify")
      BY <1>3 DEF InstallerExits, machine, Planned
    <2> QED
      BY <1>0, <2>1, ExitIInv, GoIInv DEF Outs, Planned
  <1>4. CASE Interrupt(p)
    BY <1>0, <1>4, ExitIInv DEF Interrupt, machine, Outs
  <1> QED
    BY <1>1, <1>2, <1>3, <1>4

(* The invariant is inductive.                                              *)
LEMMA NextIInv == IInv /\ [Next]_vars => IInv'
  <1> SUFFICES ASSUME IInv, [Next]_vars PROVE IInv'
    OBVIOUS
  <1>1. CASE UNCHANGED vars
    BY <1>1 DEF vars, IInv, Typed, CommandOK
  <1>2. CASE BinChanges
    BY <1>2 DEF BinChanges, IInv, Typed, CommandOK
  <1>3. CASE Publish
    <2>1. released' \in Versions /\ UNCHANGED <<disk, bin, proc>>
      BY <1>3, SelfUpgradeAssumption DEF Publish, IInv, Typed, Versions
    <2> QED
      BY <2>1 DEF IInv, Typed, CommandOK
  <1> QED
    BY <1>1, <1>2, <1>3, BeginIInv, CliIInv, InstallerIInv DEF Next

(* The invariant holds throughout every behaviour.                          *)
THEOREM Invariance == Spec => []IInv
  BY InitIInv, NextIInv, PTL DEF Spec

------------------------------------------------------------------------------
(* Only an installer writes, and only the installation of its command.      *)
LEMMA Written ==
  ASSUME IInv, [Next]_vars, NEW o \in Owners, disk'[o] # disk[o]
  PROVE  \E p \in Procs : /\ InstallerRemoves(p) \/ InstallerWrites(p)
                          /\ proc[p].pc = "installing" /\ proc[p].method = o
  <1>1. disk' # disk
    OBVIOUS
  <1>2. ~ UNCHANGED vars /\ ~ BinChanges /\ ~ Publish
    BY <1>1 DEF vars, BinChanges, Publish
  <1>3. ASSUME NEW p \in Procs
        PROVE  ~ SelfCheck(p) /\ ~ SelfUpgrade(p) /\ ~ Cli(p) /\ ~ Interrupt(p) /\ ~ InstallerExits(p)
    BY <1>1 DEF SelfCheck, SelfUpgrade, Cli, Report, Detect, Resolve, Plan, Launch, Timeout,
                Verify, Interrupt, InstallerExits, machine
  <1>4. PICK p \in Procs : InstallerRemoves(p) \/ InstallerWrites(p)
    BY <1>2, <1>3 DEF Next
  <1>5. proc[p].pc = "installing" /\ proc[p].method = o
    BY <1>4 DEF InstallerRemoves, InstallerWrites, IInv, Typed
  <1> QED
    BY <1>4, <1>5

(* An installation is changed only by an upgrade that was started from it,  *)
(* or whose entry point is gone (_detect_install_method, _run_installer).   *)
THEOREM OwnInstallationOnly == Spec => OnlyOwnInstallation
  <1>1. IInv /\ [Next]_vars =>
           [\A o \in Owners : disk'[o] # disk[o] =>
              \E p \in Procs : /\ proc[p].pc = "installing"
                               /\ ~proc[p].cmd.dry
                               /\ proc[p].cmd.entry \in {o, "gone"}]_vars
    <2> SUFFICES ASSUME IInv, [Next]_vars, NEW o \in Owners, disk'[o] # disk[o]
                 PROVE  \E p \in Procs : /\ proc[p].pc = "installing"
                                         /\ ~proc[p].cmd.dry
                                         /\ proc[p].cmd.entry \in {o, "gone"}
      OBVIOUS
    <2>1. PICK p \in Procs : proc[p].pc = "installing" /\ proc[p].method = o
      BY Written
    <2>2. ~ proc[p].cmd.dry /\ proc[p].cmd.entry \in {o, "gone"}
      BY <2>1 DEF IInv, CommandOK, Detected, Planned
    <2> QED
      BY <2>1, <2>2
  <1> QED
    BY <1>1, Invariance, PTL DEF Spec, OnlyOwnInstallation

(* Without --tag, an installation that is still as the plan read it is      *)
(* removed only for a newer release, also when the feed of releases has     *)
(* changed between the call and the plan.                                   *)
THEOREM NoDowngrade == Spec => NoUnaskedDowngrade
  <1>1. IInv /\ [Next]_vars =>
           [\A p \in Procs, o \in Owners :
              (/\ disk'[o] = None /\ disk[o] # None
               /\ proc[p].pc = "installing" /\ proc[p].method = o /\ ~Pinned(p)
               /\ proc[p].current = disk[o]
               /\ \A q \in Procs \ {p} : proc[q].pc # "installing")
                => proc[p].target > disk[o]]_vars
    BY DEF IInv, CommandOK, Detected, Planned, Pinned
  <1> QED
    BY <1>1, Invariance, PTL DEF Spec, NoUnaskedDowngrade

(* An upgrade is reported only when the target runs at that moment: from    *)
(* the command's own installation, or from another one when its own is not  *)
(* there (_verify_upgrade).                                                 *)
THEOREM ReportIsLive == Spec => ReportedIsLive
  <1>1. IInv /\ [Next]_vars =>
           [\A p \in Procs : (proc[p].out # "upgraded" /\ proc'[p].out = "upgraded") =>
              \E o \in Owners : /\ disk[o] = proc[p].target
                                /\ proc[p].cmd.entry \in Owners => o = proc[p].cmd.entry
                                     \/ disk[proc[p].cmd.entry] = None]_vars
    <2> SUFFICES ASSUME IInv, [Next]_vars, NEW p \in Procs,
                        proc[p].out # "upgraded", proc'[p].out = "upgraded"
                 PROVE  \E o \in Owners : /\ disk[o] = proc[p].target
                                          /\ proc[p].cmd.entry \in Owners => o = proc[p].cmd.entry
                                               \/ disk[proc[p].cmd.entry] = None
      OBVIOUS
    <2>1. Verify(p)
      <3>1. proc'[p] # proc[p]
        OBVIOUS
      <3>2. ~ UNCHANGED vars /\ ~ BinChanges /\ ~ Publish
        BY <3>1 DEF vars, BinChanges, Publish
      <3>3. ASSUME NEW q \in Procs, q # p
            PROVE  /\ ~ SelfCheck(q) /\ ~ SelfUpgrade(q) /\ ~ Cli(q) /\ ~ Interrupt(q)
                   /\ ~ InstallerRemoves(q) /\ ~ InstallerWrites(q) /\ ~ InstallerExits(q)
        BY <3>1, <3>3 DEF SelfCheck, SelfUpgrade, Cli, Report, Detect, Resolve, Fetched, Plan,
                          Launch, Timeout, Verify, Interrupt, InstallerRemoves, InstallerWrites,
                          InstallerExits, Exit, Go, IInv, Typed
      <3>4. proc[p] \in Command /\ proc \in [Procs -> Command]
        BY DEF IInv, Typed
      <3>5. /\ \A out : Exit(p, out) => out = "upgraded"
            /\ \A next : ~ Go(p, next)
        BY <3>4 DEF Exit, Go, Command
      <3>6. ~ SelfCheck(p) /\ ~ SelfUpgrade(p)
        <4>1. ASSUME SelfCheck(p) PROVE FALSE
          <5>1. PICK c, v :
                   proc' = [proc EXCEPT ![p].pc = "check", ![p].cmd = c, ![p].current = v]
            BY <4>1 DEF SelfCheck
          <5> QED
            BY <3>4, <5>1 DEF Command
        <4>2. ASSUME SelfUpgrade(p) PROVE FALSE
          <5>1. PICK c :
                   \/ proc' = [proc EXCEPT ![p].cmd = c, ![p].pc = "done", ![p].out = "invalid tag"]
                   \/ proc' = [proc EXCEPT ![p].cmd = c, ![p].pc = "detect"]
            BY <4>2 DEF SelfUpgrade
          <5> QED
            BY <3>4, <5>1 DEF Command
        <4> QED
          BY <4>1, <4>2
      <3>7. ~ Interrupt(p) /\ ~ InstallerRemoves(p) /\ ~ InstallerWrites(p) /\ ~ InstallerExits(p)
        BY <3>5 DEF Interrupt, InstallerRemoves, InstallerWrites, InstallerExits
      <3>8. ~ Report(p)
        <4>1. CheckReport(released, proc[p].current) # "upgraded"
          BY DEF CheckReport
        <4>2. ASSUME NEW out, proc' = [proc EXCEPT ![p].pc = "done", ![p].target = released, ![p].out = out]
              PROVE  out = "upgraded"
          BY <3>4, <4>2 DEF Command
        <4> QED
          BY <3>5, <4>1, <4>2 DEF Report
      <3>9. ~ Detect(p)
        <4>1. ASSUME NEW m, NEW t, NEW next,
                     proc' = [proc EXCEPT ![p].method = m, ![p].target = t, ![p].pc = next]
              PROVE  FALSE
          BY <3>4, <4>1 DEF Command
        <4>2. ASSUME Detect(p) PROVE FALSE
          <5> DEFINE m(claims) == DetectInstallMethod(proc[p].cmd.entry, claims)
          <5>1. PICK claims :
                   proc' = [proc EXCEPT
                     ![p].method = m(claims), ![p].target = proc[p].cmd.tag,
                     ![p].pc = IF m(claims) \in Owners /\ ~ Pinned(p) THEN "resolve" ELSE "plan"]
            BY <4>2 DEF Detect
          <5> HIDE DEF m
          <5> QED
            BY <4>1, <5>1
        <4> QED
          BY <4>2
      <3>10. ~ Resolve(p) /\ ~ Launch(p) /\ ~ Timeout(p)
        BY <3>4, <3>5 DEF Resolve, Fetched, Launch, Timeout, Command
      <3>11. ~ Plan(p)
        <4>1. \A v : Outcome(p, v) # "upgraded"
          BY DEF Outcome
        <4> QED
          <5>1. ASSUME NEW v, NEW out, NEW next,
                       proc' = [proc EXCEPT ![p].current = v, ![p].out = out, ![p].pc = next]
                PROVE  out = "upgraded"
            BY <3>4, <5>1 DEF Command
          <5>2. ASSUME Plan(p) PROVE FALSE
            <6>1. PICK v :
                     proc' = [proc EXCEPT ![p].current = v, ![p].out = Outcome(p, v),
                                ![p].pc = IF Outcome(p, v) = "none" THEN "launch" ELSE "done"]
              BY <5>2 DEF Plan
            <6> QED
              BY <4>1, <5>1, <6>1
          <5> QED
            BY <5>2
      <3> QED
        BY <3>2, <3>3, <3>6, <3>7, <3>8, <3>9, <3>10, <3>11 DEF Next, Cli
    <2>2. PICK v \in Live(p) : Exit(p, IF v = proc[p].target THEN "upgraded" ELSE "mismatch")
      BY <2>1 DEF Verify
    <2>3. v = proc[p].target
      BY <2>2 DEF Exit, IInv, Typed, Command
    <2>4. proc[p].target # None
      BY <2>1 DEF Verify, IInv, CommandOK, Planned
    <2> QED
      BY <2>2, <2>3, <2>4 DEF Live
  <1> QED
    BY <1>1, Invariance, PTL DEF Spec, ReportedIsLive
==============================================================================
