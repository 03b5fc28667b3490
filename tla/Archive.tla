-------------------------------- MODULE Archive --------------------------------
(***************************************************************************)
(* What the repositories of a backup root promise, without helpers, locks, *)
(* files or Restic: a backup adds at most one snapshot, made of the plan   *)
(* of that very request; a preview adds none; a maintenance request only   *)
(* removes while it is unanswered, the snapshot it names or all but that   *)
(* one; and who is told of success has a snapshot made.                    *)
(***************************************************************************)
EXTENDS Naturals

CONSTANTS Ids, Components, Fields  \* requests, domains, the parts of a plan

VARIABLES asked,  \* the requests, by id
          holds,  \* the plans of the snapshots in each repository
          made,   \* the requests whose snapshot was made
          told    \* what each caller was told

archiveVars == <<asked, holds, made, told>>

Requests == [kind : {"backup", "preview", "delete", "consolidate"}, comp : Components, named : Ids]
NotAsked == [kind |-> "none"]
PlanOf(r) == [f \in Fields |-> r]

Init == /\ asked = [r \in Ids |-> NotAsked]
        /\ holds = [c \in Components |-> {}]
        /\ made = {}
        /\ told = [r \in Ids |-> "none"]

Open(r) == asked[r] # NotAsked /\ told[r] = "none"

Ask(r) == /\ asked[r] = NotAsked
          /\ \E request \in Requests : asked' = [asked EXCEPT ![r] = request]
          /\ UNCHANGED <<holds, made, told>>

Save(r) == /\ Open(r) /\ asked[r].kind = "backup" /\ r \notin made
           /\ made' = made \cup {r}
           /\ holds' = [holds EXCEPT ![asked[r].comp] = @ \cup {PlanOf(r)}]
           /\ UNCHANGED <<asked, told>>

Remove(r, s) == /\ Open(r)
                /\ \/ asked[r].kind = "delete" /\ s = asked[r].named
                   \/ asked[r].kind = "consolidate" /\ s # asked[r].named
                /\ holds' = [holds EXCEPT ![asked[r].comp] = @ \ {PlanOf(s)}]
                /\ UNCHANGED <<asked, made, told>>

Tell(r) == /\ Open(r)
           /\ \/ told' = [told EXCEPT ![r] = "failed"]
              \/ /\ asked[r].kind = "backup" => r \in made
                 /\ told' = [told EXCEPT ![r] = "ok"]
           /\ UNCHANGED <<asked, holds, made>>

Next == \E r \in Ids : Ask(r) \/ Save(r) \/ Tell(r) \/ \E s \in Ids : Remove(r, s)

Spec == Init /\ [][Next]_archiveVars
=============================================================================
