---------------------------- MODULE MCSelfUpgrade ----------------------------
(* Two commands on one machine with two releases: from either installation, *)
(* from an entry point that is gone, and from places that are not upgraded. *)
EXTENDS SelfUpgrade, TLC

CONSTANTS p1, p2

Command(kind, dry, pinned, tag, timed, entry) ==
    [kind |-> kind, dry |-> dry, pinned |-> pinned, tag |-> tag, timed |-> timed, entry |-> entry]
Upgrade(timed, entry) == Command("upgrade", FALSE, FALSE, None, timed, entry)
Pin(tag, entry) == Command("upgrade", FALSE, TRUE, tag, FALSE, entry)
DryRun(entry) == Command("upgrade", TRUE, FALSE, None, FALSE, entry)

MCWorkload ==
    {Command("check", FALSE, FALSE, None, FALSE, "uv")}
    \cup {Upgrade(TRUE, e) : e \in {"uv", "gone"}}
    \cup {Upgrade(FALSE, e) : e \in {"uv", "pipx", "editable", "elsewhere"}}
    \cup {Pin(1, "uv"), Pin(None, "uv"), DryRun("uv"), DryRun("uvx")}
MCDisks == {[uv |-> 1, pipx |-> None], [uv |-> 2, pipx |-> 1]}
MCSymmetry == Permutations(Procs)
==============================================================================
