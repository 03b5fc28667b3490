--------------------------- MODULE SelectionRules ---------------------------
(***************************************************************************)
(* The policy resolver of selection.py, the rules of profiles.py and the   *)
(* plan that the GUI (main_window.py) and the backup helper (backup.py,    *)
(* manifest.py) make of them.  All operators are pure: the state they are  *)
(* about is an argument.                                                   *)
(*                                                                         *)
(* A path is a member of Paths.  Above[p] holds p and its ancestors.  A    *)
(* pattern covers a subtree ("/x/**"), one path ("/x"), or every subtree   *)
(* at a component of some name ("**/x/**").                                *)
(***************************************************************************)
EXTENDS Integers, Sequences, FiniteSets

CONSTANTS
  Paths,       \* the paths of the file system
  Above,       \* Above[p]: the path p and its ancestors
  Dirs,        \* the paths that are directories
  Names,       \* the names that a "**/name/**" rule may mention
  Named,       \* Named[n]: the paths at or below a component named n
  Rules,       \* DEFAULT_RULES: a sequence of patterns
  BackupRoot,  \* the backup root
  HardRoots,   \* /proc, /sys, /dev, /run, /swapfile and the compatibility links
  Etc,         \* /etc
  Metadata,    \* the manifest and the other files of the state, below the backup root
  Admitted,    \* the paths whose text absolute_path takes: no *?[]{}, no control character
  Resolved,    \* Resolved[p]: what realpath makes of p
  ReadAs,      \* ReadAs[p]: the paths Restic takes a line with the text of p for
  MaxItems     \* MAX_LIST_ITEMS: a bound

Policies == {"DEFAULT", "INCLUDE", "INCLUDE_RECURSIVE", "EXCLUDE"}
Included == {"INCLUDE", "INCLUDE_RECURSIVE"}

TreePattern(at) == [kind |-> "tree", at |-> at, neg |-> FALSE]
NamePattern(at) == [kind |-> "name", at |-> at, neg |-> FALSE]
PathPattern(at) == [kind |-> "path", at |-> at, neg |-> FALSE]
Negated(pattern) == [pattern EXCEPT !.neg = TRUE]

ASSUME TreeAssumption ==
  /\ Above \in [Paths -> SUBSET Paths]
  /\ \A p \in Paths : p \in Above[p]
  /\ \A p \in Paths : \A q \in Above[p] : Above[q] \subseteq Above[p]
  /\ \A p \in Paths : \A q, r \in Above[p] : q \in Above[r] \/ r \in Above[q]
  /\ \A p, q \in Paths : p \in Above[q] /\ q \in Above[p] => p = q

ASSUME RuleAssumption ==
  /\ Named \in [Names -> SUBSET Paths]
  /\ Rules \in Seq({TreePattern(p) : p \in Paths} \cup {NamePattern(n) : n \in Names})
  /\ BackupRoot \in Paths /\ Etc \in Paths /\ HardRoots \subseteq Paths

(* A component of a path is a component of what is below it. *)
ASSUME NameAssumption ==
  \A n \in Names : \A p \in Named[n] : \A q \in Paths : p \in Above[q] => q \in Named[n]

Below == [root \in Paths |-> {p \in Paths : root \in Above[p]}]

ASSUME RequestAssumption ==
  /\ \A m \in Metadata : m \in Below[BackupRoot] /\ Below[m] = {m}
  /\ Admitted \subseteq Paths /\ Resolved \in [Paths -> Paths] /\ MaxItems \in Nat

-----------------------------------------------------------------------------
(* selection.py and profiles.py; on is the set of rules that are enabled   *)

(* matches_resticish: the GUI's reading of a pattern, sign aside *)
Matches(p, pattern) ==
  \/ pattern.kind = "tree" /\ p \in Below[pattern.at]
  \/ pattern.kind = "name" /\ p \in Named[pattern.at]
  \/ pattern.kind = "path" /\ p = pattern.at

(* The hard roots are entries of "/", which no rule matches (profiles.py:21-47,
   99-105): rules only match beside them, at them or below them. *)
ASSUME HardRootAssumption ==
  \A r \in HardRoots : \A p \in Above[r] \ {r} : \A i \in DOMAIN Rules : ~ Matches(p, Rules[i])

HardPaths == UNION {Below[r] : r \in HardRoots \cup {BackupRoot}}

(* In a line of an exclude file Restic expands $NAME, trims blanks and takes a
   backslash for an escape: a path with none of these is read as it is written. *)
Plain == {p \in Paths : ReadAs[p] = {p}}

(* The roots of the hard lines are plain, and what a rule matches keeps the
   component that the rule names, so that it is not read as an entry of "/". *)
ASSUME ReadAssumption ==
  /\ ReadAs \in [Paths -> SUBSET Paths]
  /\ HardRoots \subseteq Plain
  /\ \A p \in Paths \ HardPaths : \A i \in DOMAIN Rules :
       Matches(p, Rules[i]) => \A r \in HardRoots : ReadAs[p] \cap Above[r] = {}

ManualExclusion(policy, p) == \E q \in Above[p] : policy[q] = "EXCLUDE"

(* the nearest recursive inclusion at or above p, or none *)
RecursiveInclusion(policy, p) ==
  LET roots == {q \in Above[p] : policy[q] = "INCLUDE_RECURSIVE"}
  IN  {q \in roots : roots \subseteq Above[q]}

(* a rule matches p and does not also match the root whose inclusion
   overrides it *)
Preconfigured(on, p, overriding) ==
  \E rule \in on : Matches(p, rule) /\ \A r \in overriding : ~ Matches(r, rule)

(* SelectionResolver.resolve: origin of an exclusion, or "NONE" *)
Origin(policy, on, p) ==
  LET root == RecursiveInclusion(policy, p)
      overriding == {r \in root : Preconfigured(on, r, {})}
  IN  IF p \in HardPaths THEN "HARD"
      ELSE IF ManualExclusion(policy, p) THEN "MANUAL"
      ELSE IF policy[p] \notin Included /\ Preconfigured(on, p, overriding)
           THEN "PRECONFIGURED"
      ELSE "NONE"

Selected(policy, on, p) ==
  /\ Origin(policy, on, p) = "NONE"
  /\ policy[p] \in Included \/ RecursiveInclusion(policy, p) # {}

(* the state shown for p; context has the previous snapshot's inventory *)
BackupState(policy, on, context, p) ==
  LET origin == Origin(policy, on, p)
      selected == Selected(policy, on, p)
      unknown == context.has /\ p \notin context.known
  IN  CASE origin = "HARD" -> "SYSTEM_EXCLUDED"
        [] origin = "MANUAL" -> "MANUALLY_EXCLUDED"
        [] origin = "PRECONFIGURED" -> "PRECONFIGURED_EXCLUDED"
        [] origin = "NONE" /\ ~ selected ->
             IF unknown THEN "REVIEW_REQUIRED" ELSE "NOT_SELECTED"
        [] OTHER ->
             IF ~ unknown /\ \E s \in context.sources : p \in Below[s]
             THEN "BACKED_UP" ELSE "PENDING"

\* Fault: a checked file becomes recursive
CheckboxPolicyAlwaysRecursive(checked, isDir, selected, subtreeSelected, existing) ==
  IF checked THEN "INCLUDE_RECURSIVE"
  ELSE IF existing = "EXCLUDE" \/ selected \/ subtreeSelected THEN "EXCLUDE"
  ELSE "DEFAULT"

\* Fault: the selected islands below an unchecked directory are forgotten
CheckboxPolicyNoIslands(checked, isDir, selected, subtreeSelected, existing) ==
  IF checked THEN IF isDir THEN "INCLUDE_RECURSIVE" ELSE "INCLUDE"
  ELSE IF existing = "EXCLUDE" \/ selected THEN "EXCLUDE" ELSE "DEFAULT"

(* checkbox_selection_policy *)
CheckboxPolicy(checked, isDir, selected, subtreeSelected, existing) ==
  IF checked THEN IF isDir THEN "INCLUDE_RECURSIVE" ELSE "INCLUDE"
  ELSE IF existing = "EXCLUDE" \/ selected \/ subtreeSelected THEN "EXCLUDE"
  ELSE "DEFAULT"

(* review_watch_directories: proper ancestors of the included paths *)
WatchDirectories(policy) ==
  {q \in Paths : /\ q \notin HardPaths
                 /\ \E p \in Below[q] \ {q} : policy[p] \in Included}

(* review_ancestor_paths *)
ReviewAncestors(new) == UNION {Above[p] : p \in new}

-----------------------------------------------------------------------------
(* main_window.py: what a backup request carries                           *)

SelectedSources(policy, on) ==
  {p \in Paths : policy[p] \in Included /\ Selected(policy, on, p)}

\* Fault: exclusions outside the sources are sent too
SourceExclusionsAll(policy, on) == {p \in Paths : policy[p] = "EXCLUDE"}

SourceExclusions(policy, on) ==
  LET selected == SelectedSources(policy, on)
  IN  {p \in Paths : policy[p] = "EXCLUDE" /\ Above[p] \cap selected # {}}

(* apply_rule_overrides for one rule: a negative pattern for every selected
   root and every selected path that the rule matches *)
Overrides(policy, selected, rule) ==
  LET matched == {p \in selected : Matches(p, rule)}
  IN  {Negated(TreePattern(p)) : p \in {q \in matched : policy[q] = "INCLUDE_RECURSIVE"}}
      \cup {Negated(PathPattern(p)) : p \in {q \in matched : policy[q] = "INCLUDE"}}

(* _effective_rules: every enabled rule in its order, and after it the
   overrides of the rules it belongs to.  The list is kept in groups of lines
   of one sign, whose order among themselves makes no difference. *)
EffectiveRules(policy, on) ==
  LET selected == SelectedSources(policy, on)
  IN  [g \in 1 .. 2 * Len(Rules) |->
         LET rule == Rules[(g + 1) \div 2]
         IN  IF rule \notin on THEN {}
             ELSE IF g % 2 = 1 THEN {rule} ELSE Overrides(policy, selected, rule)]

(* _ensure_state, the filesystem domain *)
Request(policy, on) ==
  [sources |-> SelectedSources(policy, on),
   exclusions |-> SourceExclusions(policy, on),
   rules |-> EffectiveRules(policy, on)]

-----------------------------------------------------------------------------
(* backup.py and manifest.py: the plan of the helper                       *)

(* bounded_list: the lists of a request have their limit *)
Fits(request) ==
  /\ Cardinality(request.sources) <= MaxItems
  /\ Cardinality(request.exclusions) <= MaxItems
  /\ Cardinality(UNION {{g} \X request.rules[g] : g \in DOMAIN request.rules}) <= MaxItems

(* absolute_path and the realpath check: the text of p is refused, or p is a
   link into the backup root *)
Refused(p) == p \notin Admitted \/ Resolved[p] \in Below[BackupRoot]

(* validate_backup_payload_for_root *)
Accepts(request) ==
  /\ Fits(request)
  /\ \A p \in request.sources \cup request.exclusions : p \notin HardPaths /\ ~ Refused(p)
  /\ \A p \in request.exclusions : \E s \in request.sources : p \in Below[s] \ {s}

\* Fault: the source is kept whole
SplitAroundNothing(source, root) == {source}

(* _split_source_around_excluded_root: the source, or the entries beside the
   way down to root *)
SplitAround(source, root) ==
  IF source \notin Above[root] THEN {source}
  ELSE {p \in Below[source] \ {source} :
          /\ source # root /\ p \notin Above[root] /\ p \notin HardPaths
          /\ Resolved[p] \notin Below[root]
          /\ Above[p] \cap Below[source] \subseteq Above[root] \cup {p}}

(* _rules_exclude_directory: the last matching rule decides *)
RulesExclude(rules, directory) ==
  \E g \in DOMAIN rules :
    /\ \E r \in rules[g] : Matches(directory, r) /\ ~ r.neg
    /\ \A h \in DOMAIN rules : \A r \in rules[h] :
         h > g /\ Matches(directory, r) => ~ r.neg

(* _effective_filesystem_sources: around the backup root, and around /etc if
   the rules exclude it *)
PlanSources(request) ==
  LET besideRoot == UNION {SplitAround(s, BackupRoot) : s \in request.sources}
  IN  IF RulesExclude(request.rules, Etc)
      THEN UNION {SplitAround(s, Etc) : s \in besideRoot}
      ELSE besideRoot

(* build_state: the metadata files are sources of every snapshot *)
AllSources(request) == PlanSources(request) \cup Metadata

(* build_plan: with /etc left out by structure, the rules that would exclude
   it are dropped *)
PlanRules(request) ==
  LET structural == RulesExclude(request.rules, Etc)
  IN  [g \in DOMAIN request.rules |->
         {r \in request.rules[g] : ~ structural \/ r.neg \/ ~ Matches(Etc, r)}]

\* Fault: the manual exclusions come before the rules
ExcludeLinesManualFirst(request) ==
  LET last == 2 * Len(Rules) + 1
      rules == PlanRules(request)
  IN  [g \in 0 .. last |->
         CASE g = last -> {TreePattern(r) : r \in HardRoots}
           [] g = 0 -> {PathPattern(p) : p \in request.exclusions}
                       \cup {TreePattern(p) : p \in request.exclusions}
           [] OTHER -> rules[g]]

(* build_state: the groups of lines of the exclude file *)
ExcludeLines(request) ==
  LET last == 2 * Len(Rules) + 1
      rules == PlanRules(request)
  IN  [g \in 0 .. last |->
         IF g = 0 THEN {TreePattern(r) : r \in HardRoots}
         ELSE IF g = last THEN {PathPattern(p) : p \in request.exclusions}
                               \cup {TreePattern(p) : p \in request.exclusions}
         ELSE rules[g]]

(* dict.fromkeys: of equal lines the first is kept *)
Kept(lines) ==
  [g \in DOMAIN lines |->
     {line \in lines[g] : \A h \in DOMAIN lines : h < g => line \notin lines[h]}]

-----------------------------------------------------------------------------
(* restic: the last matching pattern decides, a pattern for a path, as Restic
   reads it, also matches what is below it, and an excluded directory is not
   entered                                                                 *)

ResticMatches(p, pattern) ==
  IF pattern.kind = "name" THEN p \in Named[pattern.at]
  ELSE ReadAs[pattern.at] \cap Above[p] # {}

Rejects(lines, p) ==
  \E g \in DOMAIN lines :
    /\ \E x \in lines[g] : ResticMatches(p, x) /\ ~ x.neg
    /\ \A h \in DOMAIN lines : h > g =>
         \A y \in lines[h] : ResticMatches(p, y) => ~ y.neg

(* the paths of the snapshot made from a request; --exclude-caches, which only
   takes more away, is left out *)
Snapshot(request) ==
  LET lines == Kept(ExcludeLines(request))
      rejected == {p \in Paths : Rejects(lines, p)}
  IN  {p \in Paths : \E s \in AllSources(request) :
         p \in Below[s] /\ Above[p] \cap Below[s] \cap rejected = {}}
(* what the helper saves for a request: nothing if it refuses it *)
Saved(request) == IF Accepts(request) THEN Snapshot(request) ELSE {}
=============================================================================
