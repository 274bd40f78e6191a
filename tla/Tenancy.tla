------------------------------- MODULE Tenancy -------------------------------
(***************************************************************************)
(* One restaurant on the platform: its subscription, branches, the branch  *)
(* each person works in, and the branches' public sites.  Translated from  *)
(* src/super-admin/super-admin.service.ts, src/branches/branches.service.ts*)
(* and src/site/site.service.ts; requests come one at a time.  Branches    *)
(* are numbered in the order of their creation; the manager hired with     *)
(* branch b is called b.                                                   *)
(***************************************************************************)
EXTENDS Naturals, FiniteSets

CONSTANTS Plans,        \* ids of subscription_plans
          MaxBranches,  \* bound: no restaurant grows past it
          Names,        \* what sites are named after
          Data,         \* contents of a site
          OWNER, NULL

(* What the constants are.                                                 *)
TenancyAssumption == MaxBranches \in Nat \ {0} /\ OWNER \notin Nat

VARIABLES
  plan,    \* branch.max_count of each plan, 0 where there is no plan
  tenant,  \* whether there is a tenant, and whether it ever had stores
  sub,     \* its tenant_subscriptions
  branch,  \* its branches with settings, stations and tables
  person,  \* app_users.preferred_branch_id of its owner and managers
  site     \* tenant_sites: one per branch, the slug unique

vars == <<plan, tenant, sub, branch, person, site>>
-----------------------------------------------------------------------------
Branches == 1..MaxBranches
People == {OWNER} \cup Branches
Slugs == Names \X (1..MaxBranches)
NoRow == [status |-> "NONE"]
(* counter: an active COUNTER station; tables: a table of the branch that  *)
(* is on the floor, or only ones that floor-layout archived, or none.      *)
Branch == {NoRow} \cup
  [status : {"ACTIVE", "INACTIVE"}, mode : {"RESTAURANT", "BAKERY"}, code : 1..(MaxBranches + 1),
   counter : BOOLEAN, tables : {"LISTED", "ARCHIVED", "NONE"}, rush : BOOLEAN]
Site == {NoRow} \cup
  [status : {"DRAFT", "PUBLISHED"}, slug : Slugs, draft : Data, published : Data \cup {NULL}]

(* The tables hold rows of their types.                                    *)
TypeOK ==
  /\ plan \in [Plans -> 0..MaxBranches] /\ tenant \in {"NONE", "OLD", "STOCKED"}
  /\ sub \subseteq Plans \X {"ACTIVE", "CANCELLED"}
  /\ branch \in [Branches -> Branch] /\ person \in [People -> Branches \cup {NULL}]
  /\ site \in [Branches -> Site]

Opened(mode, code, tables) ==
  [status |-> "ACTIVE", mode |-> mode, code |-> code, counter |-> mode = "BAKERY",
   tables |-> IF mode = "BAKERY" THEN "LISTED" ELSE tables, rush |-> FALSE]
(* No restaurant, or one from before restaurants were given materials.     *)
Init ==
  /\ plan \in [Plans -> {0, 1}]
  /\ site = [b \in Branches |-> NoRow]
  /\ \/ tenant = "NONE" /\ sub = {} /\ branch = [b \in Branches |-> NoRow]
        /\ person = [w \in People |-> NULL]
     \/ tenant = "OLD" /\ (\E p \in Plans : plan[p] # 0 /\ sub = {<<p, "ACTIVE">>})
        /\ branch = [b \in Branches |-> IF b = 1 THEN Opened("RESTAURANT", 1, "LISTED") ELSE NoRow]
        /\ person = [w \in People |-> IF w = OWNER THEN 1 ELSE NULL]

There(b) == branch[b] # NoRow
Active == {b \in Branches : branch[b].status = "ACTIVE"}
Least(S) == CHOOSE b \in S : \A c \in S : b <= c
(* getBranchMaxCount: of the subscription that is active, 1 without one.   *)
BranchMax == IF \E p \in Plans : <<p, "ACTIVE">> \in sub
             THEN plan[CHOOSE p \in Plans : <<p, "ACTIVE">> \in sub] ELSE 1
(* IdentityContextService.getByUserId: the branch somebody works in.       *)
(* Mutant: a preferred branch may have been closed since.                  *)
PreferredAnyhow(w) == person[w] # NULL
PreferredOk(w) ==
  /\ person[w] # NULL
  /\ IF w = OWNER THEN branch[person[w]].status = "ACTIVE" ELSE w = person[w]
ContextBranch(w) ==
  IF PreferredOk(w) THEN person[w]
  ELSE IF w # OWNER THEN w
  ELSE IF Active # {} THEN Least(Active) ELSE NULL
Works(w) == tenant # "NONE" /\ (w # OWNER => There(w))
-----------------------------------------------------------------------------
CreatePlan(p, max) ==
  plan[p] = 0 /\ plan' = [plan EXCEPT ![p] = max] /\ UNCHANGED <<tenant, sub, branch, person, site>>
UpdatePlan(p, max) ==
  plan[p] # 0 /\ plan' = [plan EXCEPT ![p] = max] /\ UNCHANGED <<tenant, sub, branch, person, site>>
(* deletePlan counts every subscription, the cancelled ones too.           *)
DeletePlan(p) ==
  /\ plan[p] # 0 /\ \A s \in sub : s[1] # p
  /\ plan' = [plan EXCEPT ![p] = 0] /\ UNCHANGED <<tenant, sub, branch, person, site>>

(* createTenant: the first branch with stations, tables and a manager, the *)
(* owner who prefers it, the subscription and the default materials.       *)
CreateTenant(p, mode) ==
  /\ tenant = "NONE" /\ plan[p] # 0
  /\ tenant' = "STOCKED" /\ sub' = {<<p, "ACTIVE">>}
  /\ branch' = [branch EXCEPT ![1] = Opened(mode, 1, "LISTED")]
  /\ person' = [person EXCEPT ![OWNER] = 1]
  /\ UNCHANGED <<plan, site>>

(* Mutant: the subscription that is replaced stays active.                 *)
Resubscribe(p) == sub' = sub \cup {<<p, "ACTIVE">>}
SwitchPlan(p) ==
  sub' = IF <<p, "ACTIVE">> \in sub THEN sub
         ELSE {<<s[1], "CANCELLED">> : s \in sub} \cup {<<p, "ACTIVE">>}
(* updateTenant: a smaller plan archives no branch.                        *)
UpdateTenant(p, code) ==
  /\ tenant # "NONE"
  /\ \A b \in Branches \ {1} : There(b) => branch[b].code # code
  /\ branch' = [branch EXCEPT ![1].code = code]
  /\ IF p = NULL THEN UNCHANGED sub ELSE plan[p] # 0 /\ SwitchPlan(p)
  /\ UNCHANGED <<plan, tenant, person, site>>

(* deleteTenant deletes neither materials nor stores, whose rows name the  *)
(* tenant and its branches (ON DELETE RESTRICT): it fails where there are. *)
DeleteTenant ==
  /\ tenant = "OLD"
  /\ tenant' = "NONE" /\ sub' = {}
  /\ branch' = [b \in Branches |-> NoRow] /\ site' = [b \in Branches |-> NoRow]
  /\ person' = [w \in People |-> NULL]
  /\ UNCHANGED plan
-----------------------------------------------------------------------------
(* createBranch, its code given or made from the number of active ones.    *)
CreateBranch(mode, given, tables) ==
  LET b == Cardinality({c \in Branches : There(c)}) + 1
      code == IF given # NULL THEN given ELSE Cardinality(Active) + 1
  IN /\ tenant # "NONE" /\ b \in Branches
     /\ Cardinality(Active) < BranchMax
     /\ \A c \in Branches : There(c) => branch[c].code # code
     /\ branch' = [branch EXCEPT ![b] = Opened(mode, code, tables)]
     /\ tenant' = "STOCKED"
     /\ UNCHANGED <<plan, sub, person, site>>

(* ck_branches__status.                                                    *)
Admitted == {"ACTIVE", "INACTIVE"}
(* updateBranch: no limit asked on becoming active again, no work in       *)
(* progress on ceasing to be.  Of the states the request documents the     *)
(* table admits ACTIVE alone.  ensureBakeryCounter takes an archived table *)
(* for a table (status <> 'RETIRED').                                      *)
UpdateBranch(b, status, mode) ==
  /\ There(b) /\ status \in Admitted
  /\ branch' = [branch EXCEPT ![b].status = status, ![b].mode = mode,
                  ![b].counter = @ \/ mode = "BAKERY",
                  ![b].tables = IF mode = "BAKERY" /\ @ = "NONE" THEN "LISTED" ELSE @]
  /\ UNCHANGED <<plan, tenant, sub, person, site>>
(* FloorLayoutService.deleteLocation, of every place of the branch.        *)
ArchiveTables(b) ==
  /\ There(b) /\ branch[b].tables = "LISTED"
  /\ branch' = [branch EXCEPT ![b].tables = "ARCHIVED"]
  /\ UNCHANGED <<plan, tenant, sub, person, site>>
(* updateBranchSettings, toggleRushMode.                                   *)
ToggleRushMode(b) ==
  /\ There(b) /\ branch' = [branch EXCEPT ![b].rush = ~@]
  /\ UNCHANGED <<plan, tenant, sub, person, site>>
(* switchBranch; an owner may go anywhere, a manager where assigned.       *)
SwitchBranch(w, b) ==
  /\ Works(w) /\ b \in Active /\ w \in {OWNER, b}
  /\ person' = [person EXCEPT ![w] = b]
  /\ UNCHANGED <<plan, tenant, sub, branch, site>>
-----------------------------------------------------------------------------
(* uniqueSlug: the name, or the name with the first number that is free.   *)
(* Mutant: the slug is not looked up.                                      *)
SlugAsIs(name, b) == <<name, 1>>
UniqueSlug(name, b) ==
  <<name, Least({k \in 1..MaxBranches :
            \A c \in Branches \ {b} : site[c] # NoRow => site[c].slug # <<name, k>>})>>
(* ensureSite: the site there is, or a draft named after the branch.       *)
EnsureSite(name, b) ==
  IF site[b] # NoRow THEN site[b]
  ELSE [status |-> "DRAFT", slug |-> UniqueSlug(name, b), draft |-> CHOOSE d \in Data : TRUE,
        published |-> NULL]
SaveSite(b, row) == site' = [site EXCEPT ![b] = row] /\ UNCHANGED <<plan, tenant, sub, branch, person>>
GetMine(b, name) == SaveSite(b, EnsureSite(name, b))
UpdatePublicSlug(b, name) == SaveSite(b, [EnsureSite(name, b) EXCEPT !.slug = UniqueSlug(name, b)])
UpdateSite(b, name, data) ==
  SaveSite(b, [EnsureSite(name, b) EXCEPT !.slug = UniqueSlug(name, b), !.draft = data])
PublishMine(b, name) ==
  LET s == EnsureSite(name, b)
  IN SaveSite(b, [s EXCEPT !.status = "PUBLISHED", !.published = s.draft])
UnpublishMine(b, name) == SaveSite(b, [EnsureSite(name, b) EXCEPT !.status = "DRAFT"])
(* getPublicBySlug: what guests see, whatever the branch has become.       *)
GetPublicBySlug(slug) ==
  {b \in Branches : site[b] # NoRow /\ site[b].slug = slug /\ site[b].status = "PUBLISHED"}
-----------------------------------------------------------------------------
Platform ==
  \/ \E p \in Plans :
       \/ \E max \in Branches : CreatePlan(p, max) \/ UpdatePlan(p, max)
       \/ DeletePlan(p) \/ \E mode \in {"RESTAURANT", "BAKERY"} : CreateTenant(p, mode)
  \/ \E p \in Plans \cup {NULL}, code \in Branches : UpdateTenant(p, code)
  \/ DeleteTenant
Owner ==
  \/ \E mode \in {"RESTAURANT", "BAKERY"}, given \in Branches \cup {NULL},
        tables \in {"LISTED", "NONE"} : CreateBranch(mode, given, tables)
  \/ \E b \in Branches :
       \/ \E status \in {"ACTIVE", "INACTIVE", "SUSPENDED", "ARCHIVED"}, mode \in {"RESTAURANT", "BAKERY"} :
            UpdateBranch(b, status, mode)
       \/ ArchiveTables(b) \/ ToggleRushMode(b) \/ \E w \in People : SwitchBranch(w, b)
(* Every change is to the site of the branch one works in.                 *)
Web ==
  \E w \in People, b \in Branches, name \in Names :
    /\ Works(w) /\ b = ContextBranch(w)
    /\ \/ GetMine(b, name) \/ UpdatePublicSlug(b, name)
       \/ PublishMine(b, name) \/ UnpublishMine(b, name)
       \/ \E data \in Data : UpdateSite(b, name, data)
Next == Platform \/ Owner \/ Web
Spec == Init /\ [][Next]_vars
-----------------------------------------------------------------------------
(* A restaurant has one active subscription, of a plan there is; the owner *)
(* works in an active branch while there is one, and everyone in a branch  *)
(* of the restaurant; a slug leads guests to one branch, and what they see *)
(* was published (updateTenant, deletePlan, updateBranch, switchBranch,    *)
(* getByUserId, uniqueSlug, publishMine).                                  *)
TenancyHolds ==
  /\ tenant # "NONE" => \E p \in Plans : {s \in sub : s[2] = "ACTIVE"} = {<<p, "ACTIVE">>}
  /\ \A s \in sub : plan[s[1]] # 0
  /\ tenant # "NONE" /\ Active # {} => ContextBranch(OWNER) \in Active
  /\ \A w \in People : Works(w) /\ ContextBranch(w) # NULL => There(ContextBranch(w))
  /\ \A slug \in Slugs : Cardinality(GetPublicBySlug(slug)) <= 1
  /\ \A b \in Branches : site[b] # NoRow /\ site[b].status = "PUBLISHED" => site[b].published # NULL

(* The plan allows so many active branches (createBranch: "Plan allows N   *)
(* active branch(es). Upgrade or archive a branch first.").                *)
WithinPlan == tenant # "NONE" => Cardinality(Active) <= BranchMax

(* A restaurant can be deleted (deleteTenant answers ok: true).            *)
TenantErasable == tenant # "NONE" => tenant = "OLD"

(* A bakery has a counter to order at (ensureBakeryCounter).               *)
BakeryServes ==
  [][\A b \in Branches, status \in Admitted :
       UpdateBranch(b, status, "BAKERY") => branch'[b].counter /\ branch'[b].tables = "LISTED"]_vars

(* Guests are not sent to a branch that is closed.                         *)
ClosedIsOffline ==
  \A slug \in Slugs : \A b \in GetPublicBySlug(slug) : branch[b].status = "ACTIVE"
=============================================================================
