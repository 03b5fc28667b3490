------------------------ MODULE SelectionPlanProofs ------------------------
(***************************************************************************)
(* The properties of SelectionPlan, for every tree of paths, every list of *)
(* rules and whatever rows the user works on.  Only the types need an      *)
(* induction: the other invariants follow from them, by lemmas about the   *)
(* resolver, the request and the exclude list of SelectionRules.           *)
(***************************************************************************)
EXTENDS SelectionPlan, TLAPS

(* Rules are patterns of a subtree or of a name, and none is negated. *)
RulePatterns == {TreePattern(p) : p \in Paths} \cup {NamePattern(n) : n \in Names}

LEMMA RulesArePatterns ==
  /\ \A i \in 1 .. Len(Rules) : Rules[i] \in RulePatterns
  /\ DOMAIN Rules = 1 .. Len(Rules) /\ Len(Rules) \in Nat
  /\ RuleSet \subseteq RulePatterns
BY RuleAssumption DEF RulePatterns, RuleSet

(* Of two ancestors of a path one is above the other. *)
LEMMA Chain ==
  ASSUME NEW p \in Paths, NEW q \in Above[p], NEW r \in Above[p]
  PROVE  /\ q \in Paths /\ r \in Paths
         /\ q \in Above[r] \/ r \in Above[q]
BY TreeAssumption

(* Above and Below in one fact. *)
LEMMA BelowIsAbove ==
  ASSUME NEW p \in Paths
  PROVE  \A q : q \in Below[p] <=> q \in Paths /\ p \in Above[q]
BY DEF Below

LEMMA BelowInBelow ==
  ASSUME NEW p \in Paths, NEW q \in Below[p]
  PROVE  q \in Paths /\ Below[q] \subseteq Below[p] /\ Above[p] \subseteq Above[q]
BY BelowIsAbove, TreeAssumption

(* What is below a hard path is hard. *)
LEMMA HardBelow ==
  ASSUME NEW p \in HardPaths
  PROVE  p \in Paths /\ Below[p] \subseteq HardPaths
<1>1. PICK r \in HardRoots \cup {BackupRoot} : p \in Below[r]
  BY DEF HardPaths
<1>2. r \in Paths
  BY RuleAssumption
<1> QED
  BY <1>1, <1>2, BelowInBelow DEF HardPaths

(* A rule that matches a path matches everything below it. *)
LEMMA RuleCovers ==
  ASSUME NEW rule \in RulePatterns, NEW p \in Paths, NEW q \in Below[p], Matches(p, rule)
  PROVE  Matches(q, rule)
<1>1. CASE \E at \in Paths : rule = TreePattern(at)
  <2>1. PICK at \in Paths : rule = TreePattern(at)
    BY <1>1
  <2>2. p \in Below[at]
    BY <2>1 DEF Matches, TreePattern
  <2>3. q \in Below[at]
    BY <2>2, BelowInBelow
  <2> QED
    BY <2>1, <2>3 DEF Matches, TreePattern
<1>2. CASE \E n \in Names : rule = NamePattern(n)
  <2>1. PICK n \in Names : rule = NamePattern(n)
    BY <1>2
  <2>2. p \in Named[n]
    BY <2>1 DEF Matches, NamePattern
  <2>3. q \in Named[n]
    BY <2>2, BelowIsAbove, NameAssumption
  <2> QED
    BY <2>1, <2>3 DEF Matches, NamePattern
<1> QED
  BY <1>1, <1>2 DEF RulePatterns

-----------------------------------------------------------------------------
(* The resolver *)

LEMMA OriginNone ==
  ASSUME NEW pol, NEW rules, NEW p
  PROVE  Selected(pol, rules, p) => /\ p \notin HardPaths
                                    /\ ~ ManualExclusion(pol, p)
BY DEF Selected, Origin

(* An included path is selected unless it is hard or excluded by hand. *)
LEMMA IncludedIsSelected ==
  ASSUME NEW pol, NEW rules, NEW p, pol[p] \in Included,
         p \notin HardPaths, ~ ManualExclusion(pol, p)
  PROVE  Selected(pol, rules, p)
BY DEF Selected, Origin

(* The root of a recursive inclusion is the only nearest one. *)
LEMMA OneRoot ==
  ASSUME NEW pol, NEW p \in Paths, NEW n \in RecursiveInclusion(pol, p)
  PROVE  RecursiveInclusion(pol, p) = {n}
<1>1. SUFFICES ASSUME NEW m \in RecursiveInclusion(pol, p) PROVE m = n
  OBVIOUS
<1>2. m \in Above[p] /\ n \in Above[p] /\ m \in Above[n] /\ n \in Above[m]
  BY DEF RecursiveInclusion
<1> QED
  BY <1>2, TreeAssumption

(* Below a path, the selected path without a policy of its own owes its
   selection to a root above the path or to a selected path in between. *)
LEMMA UnselectedAbove ==
  ASSUME NEW pol \in [Paths -> Policies], NEW rules \in SUBSET RuleSet,
         \A x \in Paths : pol[x] # "DEFAULT" => x \notin HardPaths,
         NEW p \in Paths, NEW q \in Below[p],
         Selected(pol, rules, q), pol[q] = "DEFAULT", pol[p] = "DEFAULT"
  PROVE  \/ Selected(pol, rules, p)
         \/ \E n \in Below[p] \ {p} : pol[n] # "DEFAULT" /\ Selected(pol, rules, n)
<1>1. q \in Paths /\ p \in Above[q] /\ Above[p] \subseteq Above[q]
  BY BelowInBelow, BelowIsAbove
<1>2. PICK n \in RecursiveInclusion(pol, q) : TRUE
  BY DEF Selected, Included
<1>3. /\ n \in Above[q] /\ pol[n] = "INCLUDE_RECURSIVE"
      /\ \A m \in Above[q] : pol[m] = "INCLUDE_RECURSIVE" => m \in Above[n]
  BY <1>2 DEF RecursiveInclusion
<1>4. n \in Paths /\ (n \in Above[p] \/ p \in Above[n]) /\ n # p
  BY <1>1, <1>3, Chain
<1>5. q \notin HardPaths /\ ~ ManualExclusion(pol, q)
  BY OriginNone
<1>6. \A x \in Above[q] : ~ ManualExclusion(pol, x)
  BY <1>1, <1>5, TreeAssumption DEF ManualExclusion
<1>7. CASE p \in Above[n]
  <2>1. Selected(pol, rules, n)
    BY <1>3, <1>4, <1>6, IncludedIsSelected DEF Included
  <2> QED
    BY <1>3, <1>4, <1>7, <2>1, BelowIsAbove
<1>8. CASE n \in Above[p]
  <2>1. n \in RecursiveInclusion(pol, p)
    BY <1>1, <1>3, <1>8 DEF RecursiveInclusion
  <2>2. RecursiveInclusion(pol, p) = {n} /\ RecursiveInclusion(pol, q) = {n}
    BY <1>1, <1>2, <2>1, OneRoot
  <2>3. p \notin HardPaths
    BY <1>5, HardBelow
  <2>4. SUFFICES ASSUME ~ Selected(pol, rules, p) PROVE FALSE
    OBVIOUS
  <2> DEFINE overriding == {r \in {n} : Preconfigured(rules, r, {})}
  <2>5. Preconfigured(rules, p, overriding)
    BY <1>1, <1>6, <2>2, <2>3, <2>4 DEF Selected, Origin
  <2>6. PICK rule \in rules : Matches(p, rule) /\ \A r \in overriding : ~ Matches(r, rule)
    BY <2>5 DEF Preconfigured
  <2>7. Matches(q, rule)
    BY <2>6, RulesArePatterns, RuleCovers
  <2>8. Preconfigured(rules, q, overriding)
    BY <2>6, <2>7 DEF Preconfigured
  <2>9. pol[q] \notin Included
    BY DEF Included
  <2> QED
    BY <1>5, <2>2, <2>8, <2>9 DEF Selected, Origin
<1> QED
  BY <1>4, <1>7, <1>8

-----------------------------------------------------------------------------
(* The types *)

LEMMA SetKeepsTypes ==
  ASSUME TypeOK, NEW p \in Paths, p \notin HardPaths, NEW value \in Policies,
         value = "INCLUDE_RECURSIVE" => p \in Dirs,
         policy' = [policy EXCEPT ![p] = value], on' = on
  PROVE  TypeOK'
BY DEF TypeOK, RuleSet, HardPaths, Below

LEMMA ClickKeepsTypes ==
  ASSUME TypeOK, NEW p \in Paths, NEW checked \in BOOLEAN, Click(p, checked)
  PROVE  TypeOK'
<1> DEFINE value == CheckboxPolicy(checked, p \in Dirs, Selected(policy, on, p),
                      ~ checked /\ p \in Dirs /\ ~ Selected(policy, on, p) /\ SelectedBelow(p),
                      policy[p])
<1>1. value \in Policies /\ (value = "INCLUDE_RECURSIVE" => p \in Dirs)
  BY DEF CheckboxPolicy, Policies
<1>2. policy' = [policy EXCEPT ![p] = value] /\ on' = on /\ p \notin HardPaths
  BY DEF Click, Clicked
<1> HIDE DEF value
<1> QED
  BY <1>1, <1>2, SetKeepsTypes

(* Every variable has its type; a recursive policy is on a directory and no
   hard excluded path ever has a policy, whatever the user clicks. *)
THEOREM SelectionTypeCorrect == Spec => []TypeOK
<1>1. Init => TypeOK
  BY DEF Init, TypeOK, Policies
<1>2. TypeOK /\ [Next]_vars => TypeOK'
  <2> SUFFICES ASSUME TypeOK, [Next]_vars PROVE TypeOK'
    OBVIOUS
  <2>1. ASSUME NEW p \in Touched, Check(p) \/ Uncheck(p) PROVE TypeOK'
    BY <2>1, TouchedAssumption, ClickKeepsTypes DEF Check, Uncheck
  <2>2. ASSUME NEW p \in Touched, NEW value \in {"EXCLUDE", "DEFAULT"}, SetPolicy(p, value)
        PROVE  TypeOK'
    <3>1. p \in Paths /\ value \in Policies /\ value # "INCLUDE_RECURSIVE"
      BY TouchedAssumption DEF Policies
    <3> QED
      BY <2>2, <3>1, SetKeepsTypes DEF SetPolicy
  <2>3. ASSUME NEW rule \in RuleSet, Switch(rule) PROVE TypeOK'
    BY <2>3 DEF TypeOK, Switch
  <2>4. CASE UNCHANGED vars
    BY <2>4 DEF TypeOK, vars
  <2> QED
    BY <2>1, <2>2, <2>3, <2>4 DEF Next
<1> QED
  BY <1>1, <1>2, PTL DEF Spec

-----------------------------------------------------------------------------
(* The request and the plan *)

LEMMA SourceFacts ==
  ASSUME TypeOK, NEW s \in SelectedSources(policy, on)
  PROVE  s \in Paths /\ s \notin HardPaths /\ ~ ManualExclusion(policy, s)
BY OriginNone DEF SelectedSources

LEMMA RequestAccepted == TypeOK => RefusedForNameOrSize
<1> DEFINE request == Request(policy, on)
<1> SUFFICES ASSUME TypeOK, Fits(request),
                    \A p \in request.sources \cup request.exclusions : ~ Refused(p)
             PROVE  Accepts(request)
  BY DEF RefusedForNameOrSize
<1>1. \A p \in SelectedSources(policy, on) : p \notin HardPaths
  BY SourceFacts
<1>2. ASSUME NEW p \in SourceExclusions(policy, on)
      PROVE  p \notin HardPaths /\ \E s \in SelectedSources(policy, on) : p \in Below[s] \ {s}
  <2>1. PICK s \in SelectedSources(policy, on) : s \in Above[p]
    BY DEF SourceExclusions
  <2>2. p \in Paths /\ policy[p] = "EXCLUDE"
    BY DEF SourceExclusions
  <2>3. p # s
    BY <2>2 DEF SelectedSources, Included
  <2>4. s \in Paths
    BY DEF SelectedSources
  <2> QED
    BY <2>1, <2>2, <2>3, <2>4, BelowIsAbove DEF TypeOK
<1>3. request.sources = SelectedSources(policy, on) /\ request.exclusions = SourceExclusions(policy, on)
  BY DEF Request
<1> HIDE DEF request
<1> QED
  BY <1>1, <1>2, <1>3 DEF Accepts

(* A piece of a split source lies at or below the source. *)
LEMMA SplitBelow ==
  ASSUME NEW source \in Paths, NEW root \in Paths, NEW t \in SplitAround(source, root)
  PROVE  t \in Below[source] /\ t \in Paths
BY BelowIsAbove, TreeAssumption DEF SplitAround

(* No piece of an admissible source split around a root reaches into the root. *)
LEMMA SplitAvoids ==
  ASSUME NEW source \in Paths, NEW root \in Paths, root \notin Above[source],
         NEW t \in SplitAround(source, root), NEW p \in Below[t], root \in HardPaths
  PROVE  p \notin Below[root]
<1> SUFFICES ASSUME p \in Below[root] PROVE FALSE
  OBVIOUS
<1>1. t \in Paths /\ p \in Paths /\ t \in Above[p] /\ root \in Above[p]
  BY SplitBelow, BelowIsAbove
<1>2. t \in Above[root] \/ root \in Above[t]
  BY <1>1, Chain
<1>3. CASE source \notin Above[root]
  BY <1>2, <1>3 DEF SplitAround
<1>4. CASE source \in Above[root]
  <2>1. t \notin Above[root] /\ t \notin HardPaths
    BY <1>4 DEF SplitAround
  <2>2. t \in Below[root]
    BY <1>1, <1>2, <2>1, BelowIsAbove
  <2> QED
    BY <2>1, <2>2, HardBelow
<1> QED
  BY <1>3, <1>4

(* Every piece of the plan lies at or below a selected source, outside the hard
   roots, and no piece reaches into the backup root. *)
LEMMA PieceFacts ==
  ASSUME TypeOK, NEW u \in PlanSources(Request(policy, on))
  PROVE  /\ u \in Paths /\ u \notin HardPaths
         /\ \E s \in SelectedSources(policy, on) : u \in Below[s]
         /\ \A p \in Below[u] : p \notin Below[BackupRoot]
<1> DEFINE sources == SelectedSources(policy, on)
<1> DEFINE besideRoot == UNION {SplitAround(s, BackupRoot) : s \in sources}
<1>1. BackupRoot \in Paths /\ BackupRoot \in HardPaths /\ Etc \in Paths
  BY RuleAssumption, TreeAssumption, BelowIsAbove DEF HardPaths
<1>2. ASSUME NEW t \in besideRoot
      PROVE  /\ t \in Paths /\ t \notin HardPaths /\ \E s \in sources : t \in Below[s]
             /\ \A p \in Below[t] : p \notin Below[BackupRoot]
  <2>1. PICK s \in sources : t \in SplitAround(s, BackupRoot)
    OBVIOUS
  <2>2. s \in Paths /\ s \notin HardPaths
    BY SourceFacts
  <2>3. BackupRoot \notin Above[s]
    BY <1>1, <2>2, HardBelow, BelowIsAbove
  <2>4. t \notin HardPaths
    BY <2>1, <2>2 DEF SplitAround
  <2> QED
    BY <1>1, <2>1, <2>2, <2>3, <2>4, SplitBelow, SplitAvoids
<1>3. u \in besideRoot \/ \E t \in besideRoot : u \in SplitAround(t, Etc)
  BY DEF PlanSources, Request
<1>4. CASE u \in besideRoot
  BY <1>2, <1>4
<1>5. ASSUME NEW t \in besideRoot, u \in SplitAround(t, Etc)
      PROVE  /\ u \in Paths /\ u \notin HardPaths /\ \E s \in sources : u \in Below[s]
             /\ \A p \in Below[u] : p \notin Below[BackupRoot]
  <2>1. t \in Paths
    BY <1>2
  <2>2. u \in Below[t] /\ u \in Paths
    BY <1>1, <1>5, <2>1, SplitBelow
  <2>3. Below[u] \subseteq Below[t]
    BY <2>1, <2>2, BelowInBelow
  <2>4. PICK s \in sources : t \in Below[s]
    BY <1>2
  <2>5. s \in Paths
    BY SourceFacts
  <2>6. u \in Below[s]
    BY <2>2, <2>4, <2>5, BelowInBelow
  <2>7. u \notin HardPaths
    BY <1>2, <1>5 DEF SplitAround
  <2> QED
    BY <1>2, <2>2, <2>3, <2>6, <2>7
<1> QED
  BY <1>3, <1>4, <1>5

-----------------------------------------------------------------------------
(* The exclude list *)

LastGroup == 2 * Len(Rules) + 1
Lines == ExcludeLines(Request(policy, on))

(* A line that brings back a selected path that some rule matches. *)
OverrideLine(line) ==
  \E x \in SelectedSources(policy, on) : \E i \in DOMAIN Rules :
    line.at = x /\ line.kind # "name" /\ Matches(x, Rules[i])

(* The middle groups hold rules and overrides only. *)
LEMMA RuleLines ==
  ASSUME NEW g \in 1 .. 2 * Len(Rules), NEW line \in EffectiveRules(policy, on)[g]
  PROVE  line \in RulePatterns \/ (line.neg /\ OverrideLine(line))
<1> DEFINE i == (g + 1) \div 2
           selected == SelectedSources(policy, on)
<1>1. i \in DOMAIN Rules /\ Rules[i] \in RulePatterns
  BY RulesArePatterns
<1>2. line = Rules[i] \/ line \in Overrides(policy, selected, Rules[i])
  BY DEF EffectiveRules
<1>3. ASSUME line \in Overrides(policy, selected, Rules[i])
      PROVE  \E x \in selected :
               Matches(x, Rules[i]) /\ line \in {Negated(TreePattern(x)), Negated(PathPattern(x))}
  BY <1>3 DEF Overrides
<1>4. \A x : \A l \in {Negated(TreePattern(x)), Negated(PathPattern(x))} :
        l.at = x /\ l.kind # "name" /\ l.neg
  BY DEF Negated, TreePattern, PathPattern
<1> QED
  BY <1>1, <1>2, <1>3, <1>4 DEF OverrideLine

LEMMA LineGroups ==
  /\ DOMAIN Lines = 0 .. LastGroup
  /\ Lines[0] = {TreePattern(r) : r \in HardRoots}
  /\ Lines[LastGroup] = {PathPattern(p) : p \in SourceExclusions(policy, on)}
                         \cup {TreePattern(p) : p \in SourceExclusions(policy, on)}
  /\ \A g \in 1 .. 2 * Len(Rules) : Lines[g] \subseteq EffectiveRules(policy, on)[g]
<1>1. Len(Rules) \in Nat
  BY RulesArePatterns
<1>2. \A g \in 1 .. 2 * Len(Rules) :
        PlanRules(Request(policy, on))[g] \subseteq EffectiveRules(policy, on)[g]
  BY <1>1 DEF PlanRules, Request, EffectiveRules
<1> QED
  BY <1>1, <1>2 DEF Lines, LastGroup, ExcludeLines, Request

LEMMA KeptLines ==
  /\ DOMAIN Kept(Lines) = 0 .. LastGroup
  /\ \A g \in 0 .. LastGroup : Kept(Lines)[g] \subseteq Lines[g]
  /\ Kept(Lines)[0] = Lines[0]
<1>1. Len(Rules) \in Nat /\ 0 \in 0 .. LastGroup
  BY RulesArePatterns DEF LastGroup
<1> HIDE DEF LastGroup
<1>2. \A h \in 0 .. LastGroup : ~ (h < 0)
  OBVIOUS
<1> QED
  BY <1>1, <1>2, LineGroups DEF Kept

(* Of the lines of the list only an override is negated. *)
LEMMA NegatedLines ==
  ASSUME NEW g \in 0 .. LastGroup, NEW line \in Lines[g], line.neg
  PROVE  OverrideLine(line)
<1>1. Len(Rules) \in Nat
  BY RulesArePatterns
<1>2. CASE g = 0 \/ g = LastGroup
  BY <1>2, LineGroups DEF TreePattern, PathPattern
<1>3. CASE g \in 1 .. 2 * Len(Rules)
  <2>1. line \in RulePatterns \/ OverrideLine(line)
    BY <1>3, LineGroups, RuleLines
  <2> QED
    BY <2>1 DEF RulePatterns, TreePattern, NamePattern
<1> QED
  BY <1>1, <1>2, <1>3 DEF LastGroup

(* A path that a line of a group rejects is rejected by the list if no override
   of a later group brings it back. *)
LEMMA RejectedUnlessOverridden ==
  ASSUME NEW g \in 0 .. LastGroup, NEW line \in Kept(Lines)[g], NEW p \in Paths,
         ResticMatches(p, line), ~ line.neg,
         \/ g = LastGroup
         \/ \A x \in SelectedSources(policy, on), i \in DOMAIN Rules :
              Matches(x, Rules[i]) => ReadAs[x] \cap Above[p] = {}
  PROVE  Rejects(Kept(Lines), p)
<1>1. SUFFICES ASSUME NEW h \in 0 .. LastGroup, h > g, NEW y \in Kept(Lines)[h],
                      ResticMatches(p, y), y.neg
               PROVE  FALSE
  BY KeptLines DEF Rejects
<1>2. g # LastGroup
  BY <1>1, RulesArePatterns DEF LastGroup
<1>3. y \in Lines[h]
  BY <1>1, KeptLines
<1>4. OverrideLine(y)
  BY <1>1, <1>3, NegatedLines
<1>5. PICK x \in SelectedSources(policy, on), i \in DOMAIN Rules :
        y.at = x /\ y.kind # "name" /\ Matches(x, Rules[i])
  BY <1>4 DEF OverrideLine
<1>6. ReadAs[x] \cap Above[p] # {}
  BY <1>1, <1>5 DEF ResticMatches
<1> QED
  BY <1>2, <1>5, <1>6

-----------------------------------------------------------------------------
(* What is in a backup *)

(* What a backup holds is a metadata file or lies in a piece of the plan, and
   nothing on its way from the piece is rejected. *)
LEMMA BackupFacts ==
  ASSUME TypeOK, NEW p \in Backup \ Metadata
  PROVE  /\ p \in Paths /\ p \notin Below[BackupRoot]
         /\ \E s \in SelectedSources(policy, on) : s \in Above[p]
         /\ \E u \in Paths \ HardPaths :
              /\ p \in Below[u]
              /\ \A x \in Above[p] \cap Below[u] : ~ Rejects(Kept(Lines), x)
<1>1. p \in Snapshot(Request(policy, on))
  BY DEF Backup, Saved
<1>2. PICK u \in AllSources(Request(policy, on)) :
        /\ p \in Paths /\ p \in Below[u]
        /\ Above[p] \cap Below[u] \cap {x \in Paths : Rejects(Kept(Lines), x)} = {}
  BY <1>1 DEF Snapshot, Lines
<1>3. u \in PlanSources(Request(policy, on))
  BY <1>2, RequestAssumption DEF AllSources
<1>4. PICK s \in SelectedSources(policy, on) : u \in Below[s]
  BY <1>3, PieceFacts
<1>5. s \in Paths /\ u \in Paths \ HardPaths /\ p \in Below[s] /\ p \notin Below[BackupRoot]
  BY <1>2, <1>3, <1>4, SourceFacts, PieceFacts, BelowInBelow
<1>6. Above[p] \subseteq Paths
  BY <1>2, TreeAssumption
<1> QED
  BY <1>2, <1>4, <1>5, <1>6, BelowIsAbove

(* The exclusions the user made come last in the list, and none of them is
   lost to an equal line before it. *)
LEMMA ManualLinesKept ==
  ASSUME TypeOK, NEW q \in SourceExclusions(policy, on)
  PROVE  PathPattern(q) \in Kept(Lines)[LastGroup]
<1>1. Len(Rules) \in Nat /\ LastGroup \in 0 .. LastGroup
  BY RulesArePatterns DEF LastGroup
<1>2. PathPattern(q) \in Lines[LastGroup]
  BY LineGroups
<1>3. ASSUME NEW h \in 0 .. LastGroup, h < LastGroup PROVE PathPattern(q) \notin Lines[h]
  <2>1. CASE h = 0
    BY <2>1, LineGroups DEF PathPattern, TreePattern
  <2>2. CASE h \in 1 .. 2 * Len(Rules)
    <3>1. PathPattern(q) \notin RulePatterns /\ ~ PathPattern(q).neg
      BY DEF RulePatterns, PathPattern, TreePattern, NamePattern
    <3> QED
      BY <2>2, <3>1, LineGroups, RuleLines
  <2> QED
    BY <1>1, <1>3, <2>1, <2>2 DEF LastGroup
<1> QED
  BY <1>1, <1>2, <1>3, LineGroups DEF Kept

LEMMA ManualOut == TypeOK => ManualStaysOut
<1> SUFFICES ASSUME TypeOK, NEW p \in Backup \ Metadata, NEW q \in Above[p],
                    ReadAs[q] = {q}, policy[q] = "EXCLUDE"
             PROVE  FALSE
  BY DEF ManualStaysOut, Plain
<1>1. /\ p \in Paths /\ q \in Paths /\ p \in Above[p] /\ ~ Rejects(Kept(Lines), p)
  BY BackupFacts, Chain, BelowIsAbove, TreeAssumption
<1>2. PICK s \in SelectedSources(policy, on) : s \in Above[p]
  BY BackupFacts
<1>3. q \notin Above[s]
  BY SourceFacts DEF ManualExclusion
<1>4. s \in Above[q]
  BY <1>1, <1>2, <1>3, Chain
<1>5. q \in SourceExclusions(policy, on)
  BY <1>1, <1>4 DEF SourceExclusions
<1>6. PathPattern(q) \in Kept(Lines)[LastGroup] /\ LastGroup \in 0 .. LastGroup
  BY <1>5, ManualLinesKept, RulesArePatterns DEF LastGroup
<1>7. ResticMatches(p, PathPattern(q)) /\ ~ PathPattern(q).neg
  BY <1>1 DEF ResticMatches, PathPattern
<1> QED
  BY <1>1, <1>6, <1>7, RejectedUnlessOverridden

LEMMA HardOut == TypeOK => HardStaysOut
<1> SUFFICES ASSUME TypeOK, NEW p \in Backup \ Metadata, p \in HardPaths
             PROVE  FALSE
  BY DEF HardStaysOut
<1>1. p \in Paths /\ p \notin Below[BackupRoot]
  BY BackupFacts
<1>2. PICK r \in HardRoots : p \in Below[r]
  BY <1>1 DEF HardPaths
<1>3. r \in Paths /\ r \in Above[p] /\ r \in Above[r] /\ ReadAs[r] = {r}
  BY <1>2, RuleAssumption, ReadAssumption, TreeAssumption, BelowIsAbove DEF Plain
<1>4. TreePattern(r) \in Kept(Lines)[0] /\ 0 \in 0 .. LastGroup
  BY KeptLines, LineGroups, RulesArePatterns DEF LastGroup
<1>5. ResticMatches(r, TreePattern(r)) /\ ~ TreePattern(r).neg
  BY <1>3 DEF ResticMatches, TreePattern
<1>6. \A x \in SelectedSources(policy, on), i \in DOMAIN Rules :
        Matches(x, Rules[i]) => ReadAs[x] \cap Above[r] = {}
  BY SourceFacts, ReadAssumption
<1>7. Rejects(Kept(Lines), r)
  BY <1>3, <1>4, <1>5, <1>6, RejectedUnlessOverridden
<1>8. PICK u \in Paths \ HardPaths :
        p \in Below[u] /\ \A x \in Above[p] \cap Below[u] : ~ Rejects(Kept(Lines), x)
  BY BackupFacts
<1>9. r \notin Above[u]
  BY <1>3, <1>8, BelowIsAbove DEF HardPaths
<1>10. r \in Below[u]
  BY <1>1, <1>3, <1>8, <1>9, Chain, BelowIsAbove
<1> QED
  BY <1>3, <1>7, <1>8, <1>10

-----------------------------------------------------------------------------
(* The checkbox *)

LEMMA UncheckWorks == TypeOK => UncheckTakesEffect
<1> SUFFICES ASSUME TypeOK, NEW p \in Touched \ HardPaths, NEW q \in Below[p],
                    Selected(Clicked(p, FALSE), on, q)
             PROVE  FALSE
  BY DEF UncheckTakesEffect
<1>1. p \in Paths /\ q \in Paths /\ p \in Above[q]
  BY TouchedAssumption, BelowIsAbove
<1>2. policy \in [Paths -> Policies] /\ on \in SUBSET RuleSet
  BY DEF TypeOK
<1> DEFINE old == Selected(policy, on, p)
           new == Clicked(p, FALSE)
           islands == p \in Dirs /\ ~ old /\ SelectedBelow(p)
<1>3. new = [policy EXCEPT ![p] =
               IF policy[p] = "EXCLUDE" \/ old \/ islands THEN "EXCLUDE" ELSE "DEFAULT"]
  BY DEF Clicked, CheckboxPolicy
<1>4. ~ ManualExclusion(new, q) /\ q \notin HardPaths
  BY OriginNone
<1>5. policy[p] # "EXCLUDE" /\ ~ old /\ ~ islands /\ new = [policy EXCEPT ![p] = "DEFAULT"]
  <2>1. new[p] # "EXCLUDE"
    BY <1>1, <1>4 DEF ManualExclusion
  <2> QED
    BY <1>1, <1>2, <1>3, <2>1
<1>6. ~ ManualExclusion(policy, p)
  <2>1. \A x \in Above[p] : x \in Above[q] /\ x \in Paths
    BY <1>1, TreeAssumption
  <2> HIDE DEF new
  <2> QED
    BY <1>2, <1>4, <1>5, <2>1 DEF ManualExclusion
<1>7. policy[p] = "DEFAULT"
  <2>1. policy[p] \notin Included
    BY <1>5, <1>6, IncludedIsSelected
  <2> QED
    BY <1>1, <1>2, <1>5, <2>1 DEF Policies, Included
<1>8. new = policy
  BY <1>2, <1>5, <1>7
<1>9. p # q /\ p \in Dirs /\ ~ SelectedBelow(p)
  BY <1>1, <1>5, <1>8, DirsAssumption
<1>10. policy[q] = "DEFAULT"
  BY <1>8, <1>9 DEF SelectedBelow
<1>11. \A x \in Paths : policy[x] # "DEFAULT" => x \notin HardPaths
  BY DEF TypeOK
<1> QED
  BY <1>1, <1>2, <1>5, <1>7, <1>8, <1>9, <1>10, <1>11, UnselectedAbove DEF SelectedBelow

-----------------------------------------------------------------------------
(* The helper refuses a request of the window only for the text or the target of
   one of its paths or for the length of a list. *)
THEOREM RefusedForNameOrSizeAlways == Spec => []RefusedForNameOrSize
<1>1. TypeOK => RefusedForNameOrSize
  BY RequestAccepted
<1> QED
  BY <1>1, SelectionTypeCorrect, PTL

(* But for the metadata files, no snapshot holds a path at or below a manual
   exclusion with a plain text, whatever overrides the inclusions around it add to
   the exclude list, and whatever Restic takes their texts for. *)
THEOREM ManualStaysOutAlways == Spec => []ManualStaysOut
<1>1. TypeOK => ManualStaysOut
  BY ManualOut
<1> QED
  BY <1>1, SelectionTypeCorrect, PTL

(* No snapshot holds anything of the backup root or of a hard root but the
   metadata files. *)
THEOREM HardStaysOutAlways == Spec => []HardStaysOut
<1>1. TypeOK => HardStaysOut
  BY HardOut
<1> QED
  BY <1>1, SelectionTypeCorrect, PTL

(* Unchecking a row leaves nothing selected at it or below it. *)
THEOREM UncheckTakesEffectAlways == Spec => []UncheckTakesEffect
<1>1. TypeOK => UncheckTakesEffect
  BY UncheckWorks
<1> QED
  BY <1>1, SelectionTypeCorrect, PTL
=============================================================================
