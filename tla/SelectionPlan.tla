---------------------------- MODULE SelectionPlan ----------------------------
(***************************************************************************)
(* The user edits the policies of rows and the switches of the rules; the  *)
(* properties compare what the window shows as selected with the snapshot  *)
(* a backup would make.  The file system does not change here (that is     *)
(* SelectionReview), and the rendering of a row may lag behind the         *)
(* policies, so a click may find either state of a checkbox.               *)
(***************************************************************************)
EXTENDS SelectionRules

CONSTANT Touched   \* the rows the user works on: a bound

ASSUME TouchedAssumption == Touched \subseteq Paths /\ Dirs \subseteq Paths

(* Only a directory has anything below it. *)
ASSUME DirsAssumption == \A p, q \in Paths : p \in Above[q] /\ p # q => p \in Dirs

VARIABLES
  policy,   \* cache.path_policies
  on        \* the rules whose switch is on
vars == <<policy, on>>

RuleSet == {Rules[i] : i \in DOMAIN Rules}

Init == policy = [p \in Paths |-> "DEFAULT"] /\ on = RuleSet

(* _has_persisted_selected_descendant *)
SelectedBelow(p) ==
  \E q \in Below[p] \ {p} : policy[q] # "DEFAULT" /\ Selected(policy, on, q)

(* _fs_changed: the policies after a click on the checkbox of a row *)
Clicked(p, checked) ==
  LET selected == Selected(policy, on, p)
      subtree == ~ checked /\ p \in Dirs /\ ~ selected /\ SelectedBelow(p)
  IN  [policy EXCEPT ![p] = CheckboxPolicy(checked, p \in Dirs, selected, subtree, @)]

Click(p, checked) ==
  /\ p \notin HardPaths
  /\ policy' = Clicked(p, checked)
  /\ UNCHANGED on

Check(p) == Click(p, TRUE)
Uncheck(p) == Click(p, FALSE)

(* _set_current_fs_policy: the buttons "Exclude manually" and "Clear policy" *)
SetPolicy(p, value) ==
  /\ p \notin HardPaths
  /\ policy' = [policy EXCEPT ![p] = value]
  /\ UNCHANGED on

(* _exclude_changed *)
Switch(rule) ==
  /\ on' = IF rule \in on THEN on \ {rule} ELSE on \cup {rule}
  /\ UNCHANGED policy

Next ==
  \/ \E p \in Touched : Check(p)
  \/ \E p \in Touched : Uncheck(p)
  \/ \E p \in Touched, value \in {"EXCLUDE", "DEFAULT"} : SetPolicy(p, value)
  \/ \E rule \in RuleSet : Switch(rule)

Spec == Init /\ [][Next]_vars

-----------------------------------------------------------------------------
(* Every variable has its type; a recursive policy is on a directory and no
   hard excluded path ever has a policy (selection.py, main_window.py). *)
TypeOK ==
  /\ policy \in [Paths -> Policies]
  /\ on \subseteq RuleSet
  /\ \A p \in Paths : policy[p] # "DEFAULT" => p \notin HardPaths
  /\ \A p \in Paths : policy[p] = "INCLUDE_RECURSIVE" => p \in Dirs

(* what a backup of now would save *)
Backup == Saved(Request(policy, on))

(* Whatever the inclusions around it and the overrides they add to the exclude
   list, a path at or below a manual exclusion is in no snapshot, if the text of
   the exclusion is plain: "$", a backslash or a blank at its end changes the line
   it makes (selection.py:246-250, manifest.py:64-67). The metadata files of the
   snapshot are the helper's own. *)
ManualStaysOut ==
  \A p \in Backup \ Metadata : \A q \in Above[p] \cap Plain : policy[q] # "EXCLUDE"

(* The metadata files are all a snapshot holds of the backup root, of which no
   pattern speaks: the sources are split around it (backup.py:192-255,
   manifest.py:84-98); of a hard root it holds nothing. *)
HardStaysOut == \A p \in Backup : p \in HardPaths => p \in Metadata

(* The helper refuses a request of the window for one of two reasons, which the
   window does not look for: the text or the target of one of its paths, or the
   length of a list. Its sources and exclusions are never in a hard root, and every
   exclusion lies below a source (main_window.py:2689-2709, backup.py:168-189). *)
RefusedForNameOrSize ==
  LET request == Request(policy, on)
  IN  \/ Accepts(request)
      \/ ~ Fits(request)
      \/ \E p \in request.sources \cup request.exclusions : Refused(p)

(* Unchecking a row leaves nothing selected at it or below it, in whatever way
   it came to be selected, so no such click is without effect
   (main_window.py:2345-2392, selection.py:127-157). *)
UncheckTakesEffect ==
  \A p \in Touched \ HardPaths : \A q \in Below[p] : ~ Selected(Clicked(p, FALSE), on, q)

(* What the window shows as an explicit, selected inclusion is in the snapshot:
   README.md:95 "An explicit inclusion can therefore override a preconfigured
   convenience rule" (violated: the exclude list is deduplicated by first
   occurrence, manifest.py:67). *)
ExplicitInclusionIsBackedUp ==
  \A p \in Paths : policy[p] \in Included /\ Selected(policy, on, p) => p \in Backup

(* An overridden rule takes no other rule with it: selection.py:235-236 "It does
   not suppress unrelated nested rules" (violated: the override comes after every
   earlier rule, selection.py:77-99). *)
OverrideSparesOtherRules == \A p \in Backup : Origin(policy, on, p) # "PRECONFIGURED"
=============================================================================
