---------------------------- MODULE ExtensionSet ----------------------------
(***************************************************************************)
(* What the extension commands promise about the set of installed           *)
(* extensions: each command changes one extension in one step.  An update   *)
(* keeps the enabled flag and the priority, and one that fails changes       *)
(* nothing.  Only an interruption, or a failure that no rollback follows,   *)
(* may leave an extension in another state, and it is then marked damaged.  *)
(***************************************************************************)
EXTENDS Naturals

CONSTANTS Ext, MaxVersion, Priority
VARIABLES installed, damaged

Absent == [ver |-> 0, enabled |-> FALSE, prio |-> 0]

Becomes(e, s) == installed' = [installed EXCEPT ![e] = s] /\ UNCHANGED damaged

Install(e, v, p) == Becomes(e, [ver |-> v, enabled |-> TRUE, prio |-> p])
Remove(e) == Becomes(e, Absent)
Update(e, v) ==
  /\ installed[e].ver \in 1..(v - 1)
  /\ Becomes(e, [installed[e] EXCEPT !.ver = v])
SetEnabled(e, b) == installed[e] # Absent /\ Becomes(e, [installed[e] EXCEPT !.enabled = b])
SetPriority(e, p) == installed[e] # Absent /\ Becomes(e, [installed[e] EXCEPT !.prio = p])
Lose(D) ==
  /\ damaged' = damaged \cup D
  /\ \A e \in Ext \ D : installed'[e] = installed[e]

Init == installed = [e \in Ext |-> Absent] /\ damaged = {}
Next ==
  \/ \E e \in Ext, v \in 1..MaxVersion, p \in Priority : Install(e, v, p)
  \/ \E e \in Ext : Remove(e)
  \/ \E e \in Ext, v \in 1..MaxVersion : Update(e, v)
  \/ \E e \in Ext, b \in BOOLEAN : SetEnabled(e, b)
  \/ \E e \in Ext, p \in Priority : SetPriority(e, p)
  \/ \E D \in SUBSET Ext : Lose(D)
Spec == Init /\ [][Next]_<<installed, damaged>>
=============================================================================
