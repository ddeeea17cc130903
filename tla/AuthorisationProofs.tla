------------------------- MODULE AuthorisationProofs -------------------------
(***************************************************************************)
(* Proofs about what the platform takes as allowed.                         *)
(*                                                                          *)
(* AccessControl: a permission check is right about some moment while it    *)
(* ran, for any users, organizations, resources, roles and policies, and    *)
(* any number of grants, revocations and group changes between its reads.   *)
(* GitOpsWorkflow: the approved state of a resource is the newest one that  *)
(* was recorded, for any commits, resources and order of delivery.          *)
(***************************************************************************)
EXTENDS AccessControl, GitOpsWorkflow, TLAPS

-----------------------------------------------------------------------------
(* The permission check. *)


\* What the check asks of a role, and the row it asks about.
Permits(r) == check.permission \in get_role_permissions(check.org, r)
CheckedRow == roles[<<check.org, check.resource, check.user>>]
Assignment == assigned[<<check.org, check.resource>>]

RowType == [role : Role \cup {"none"}, active : BOOLEAN]

TableType ==
    /\ roles \in [Organization \X Resource \X User -> RowType]
    /\ assigned \in [Organization \X Resource -> Group \cup {Unassigned}]
    /\ held \in BOOLEAN

Question == [step : {"none", "admin", "member", "assignment", "group", "role", "permission",
                     "allowed", "denied"},
             user : User, org : Organization, resource : Resource, permission : Permission,
             group : Group \cup {Unassigned}, role : Role \cup {"none"}]

CheckType == check = NoCheck \/ (check \in Question /\ check.step # "none")

\* No caller of grant_resource_access names a group, so a resource that is
\* assigned stays assigned to its organization's default group.
DefaultGroupOnly ==
    \A o \in Organization, x \in Resource :
        assigned[<<o, x>>] \in {default_group_id(o), Unassigned}

\* What each later read may rely on.  The group read found a member: had the
\* role been active at that moment the listing would have shown it, and a
\* role granted since then was granted together with the membership.
CheckRemembers ==
    /\ check.step \in {"group", "role", "permission"} =>
          check.group = default_group_id(check.org) /\ check.group = Assignment
    /\ check.step = "role" /\ CheckedRow.active /\ Permits(CheckedRow.role) => held
    /\ check.step = "permission" /\ Permits(check.role) => held

AccessInv ==
    /\ TableType
    /\ CheckType
    /\ DefaultGroupOnly
    /\ Listed => held
    /\ CheckRemembers
    /\ AllowedWasListed

\* The listing's join, spelled out for the check under way.
ListedJoin ==
    \/ is_service_admin(check.user)
    \/ /\ <<Assignment, check.user>> \in groupMember
       /\ CheckedRow.active
       /\ Permits(CheckedRow.role)

LEMMA ListedMeans ==
    check.step # "none" /\ check.resource \in Resource => (Listed <=> ListedJoin)
  BY DEF Listed, ListedJoin, accessible_resource_ids, get_member_resource_role, Permits, CheckedRow, Assignment

LEMMA ListedMeansNext ==
    (check.step # "none" /\ check.resource \in Resource => (Listed <=> ListedJoin))'
  BY ListedMeans, PTL

LEMMA AccessStarts == AccessInit => AccessInv
  <1> SUFFICES ASSUME AccessInit PROVE AccessInv
    OBVIOUS
  <1>1. TableType /\ DefaultGroupOnly
    BY DEF AccessInit, TableType, DefaultGroupOnly, RowType
  <1>2. check = NoCheck /\ check.step = "none"
    BY DEF AccessInit, NoCheck
  <1> QED
    BY <1>1, <1>2 DEF AccessInv, CheckType, Listed, CheckRemembers, AllowedWasListed

\* The administrator's operations leave the check alone; the tables the check
\* reads after the membership change by a revocation or by a grant.
LEMMA AdministrationMeans ==
    ASSUME Administration
    PROVE  /\ check' = check
           /\ \/ roles' = roles /\ assigned' = assigned
              \/ \E o \in Organization, x \in Resource, u \in User : revoke_access(u, o, x)
              \/ \E o \in Organization, x \in Resource, u \in User, r \in Role :
                    grant_resource_access(u, o, x, r)
  <1>1. check' = check
    BY DEF Administration
  <1>2. PICK u \in User, o \in Organization :
          \/ create_user(u) \/ complete_email_verification(u, o) \/ approve_user(u, o)
          \/ upsert_admin_account(u, o) \/ create_group(o) \/ delete_organization(o)
          \/ \E x \in Resource :
                \/ register_target_cluster(u, o, x) \/ revoke_access(u, o, x)
                \/ \E r \in Role : grant_resource_access(u, o, x, r)
          \/ \E g \in Group : add_group_member(g, u) \/ remove_group_member(g, u)
    BY DEF Administration
  <1>3. CASE create_user(u) \/ approve_user(u, o) \/ upsert_admin_account(u, o)
             \/ create_group(o) \/ delete_organization(o)
    BY <1>1, <1>3 DEF create_user, approve_user, upsert_admin_account, create_group,
                      delete_organization
  <1>4. CASE complete_email_verification(u, o)
    BY <1>1, <1>4 DEF complete_email_verification
  <1>5. CASE \E x \in Resource :
                \/ register_target_cluster(u, o, x) \/ revoke_access(u, o, x)
                \/ \E r \in Role : grant_resource_access(u, o, x, r)
    BY <1>1, <1>5, AccessAssumption DEF register_target_cluster
  <1>6. CASE \E g \in Group : add_group_member(g, u) \/ remove_group_member(g, u)
    BY <1>1, <1>6 DEF add_group_member, remove_group_member
  <1> QED
    BY <1>2, <1>3, <1>4, <1>5, <1>6

\* An administrator's operation between two reads of the check.
LEMMA AdministrationStep ==
    ASSUME AccessInv, Administration,
           held' = (Listed' \/ (held /\ check'.step # "admin"))
    PROVE  AccessInv'
  <1>0. check'.step # "none" /\ check'.resource \in Resource => (Listed' <=> ListedJoin')
    BY ListedMeansNext
  <1>1. check' = check
    BY AdministrationMeans
  <1>2. held' \in BOOLEAN /\ (Listed' => held') /\ (held /\ check.step # "admin" => held')
    BY <1>1 DEF AccessInv, TableType
  <1>3. CheckType' /\ AllowedWasListed'
    BY <1>1, <1>2 DEF AccessInv, CheckType, AllowedWasListed
  <1>4. CASE roles' = roles /\ assigned' = assigned
    BY <1>1, <1>2, <1>3, <1>4
       DEF AccessInv, TableType, DefaultGroupOnly, CheckRemembers, Permits, CheckedRow, Assignment
  <1>5. ASSUME NEW o \in Organization, NEW x \in Resource, NEW u \in User, revoke_access(u, o, x)
        PROVE  AccessInv'
    <2>1. /\ assigned' = assigned
          /\ roles' = [roles EXCEPT ![<<o, x, u>>].active = FALSE]
      BY <1>5 DEF revoke_access
    <2>2. roles' \in [Organization \X Resource \X User -> RowType]
      BY <2>1 DEF AccessInv, TableType, RowType
    <2>3. TableType' /\ DefaultGroupOnly'
      BY <1>2, <2>1, <2>2 DEF AccessInv, TableType, DefaultGroupOnly
    <2>4. check.step = "role" /\ (CheckedRow').active => CheckedRow' = CheckedRow
      BY <1>1, <2>1 DEF AccessInv, TableType, CheckType, Question, NoCheck, RowType, CheckedRow
    <2>5. CheckRemembers'
      BY <1>1, <1>2, <2>1, <2>4 DEF AccessInv, CheckRemembers, Permits, Assignment
    <2> QED
      BY <1>2, <1>3, <2>3, <2>5 DEF AccessInv
  <1>6. ASSUME NEW o \in Organization, NEW x \in Resource, NEW u \in User, NEW r \in Role,
               grant_resource_access(u, o, x, r)
        PROVE  AccessInv'
    <2>1. /\ assigned' = [assigned EXCEPT ![<<o, x>>] = default_group_id(o)]
          /\ \E s \in Role : roles' = [roles EXCEPT ![<<o, x, u>>] = [role |-> s, active |-> TRUE]]
          /\ <<default_group_id(o), u>> \in groupMember'
      BY <1>6, AccessAssumption
         DEF grant_resource_access, member_resource_role_upsert, membership_upsert
    <2>2. default_group_id(o) \in Group
      BY DEF Group, default_group_id
    <2>3. TableType'
      BY <1>2, <2>1, <2>2 DEF AccessInv, TableType, RowType
    <2>4. DefaultGroupOnly'
      BY <2>1 DEF AccessInv, TableType, DefaultGroupOnly
    <2>5. ASSUME check.step \in {"group", "role", "permission"}
          PROVE  check.group = default_group_id(check.org) /\ check.group = Assignment'
      BY <1>1, <2>1, <2>5
         DEF AccessInv, TableType, CheckType, Question, NoCheck, CheckRemembers, Assignment
    <2>6. ASSUME check.step = "role", (CheckedRow').active, Permits(CheckedRow.role)'
          PROVE  held'
      <3>0. check.org \in Organization /\ check.resource \in Resource /\ check.user \in User
        BY <2>6 DEF AccessInv, CheckType, Question, NoCheck
      <3>1. CASE <<check.org, check.resource, check.user>> = <<o, x, u>>
        <4>1. <<Assignment', check.user>> \in groupMember'
          BY <1>1, <2>1, <3>0, <3>1 DEF AccessInv, TableType, Assignment
        <4>2. Listed'
          BY <1>1, <1>0, <2>6, <3>0, <4>1 DEF ListedJoin
        <4> QED
          BY <1>2, <4>2
      <3>2. CASE <<check.org, check.resource, check.user>> # <<o, x, u>>
        <4>1. CheckedRow' = CheckedRow
          BY <1>1, <2>1, <3>0, <3>2 DEF AccessInv, TableType, CheckedRow
        <4> QED
          BY <1>1, <1>2, <2>6, <4>1 DEF AccessInv, CheckRemembers, Permits
      <3> QED
        BY <3>1, <3>2
    <2>7. CheckRemembers'
      BY <1>1, <1>2, <2>5, <2>6 DEF AccessInv, CheckRemembers, Permits
    <2> QED
      BY <1>2, <1>3, <2>3, <2>4, <2>7 DEF AccessInv
  <1> QED
    BY <1>4, <1>5, <1>6, AdministrationMeans

\* A read of the check.
LEMMA ReadStep ==
    ASSUME AccessInv, Checks,
           held' = (Listed' \/ (held /\ check'.step # "admin"))
    PROVE  AccessInv'
  <1>0. check'.step # "none" /\ check'.resource \in Resource => (Listed' <=> ListedJoin')
    BY ListedMeansNext
  <1>1. UNCHANGED accessTables
    BY DEF Checks
  <1>2. held' \in BOOLEAN /\ (Listed' => held') /\ (held /\ check'.step # "admin" => held')
    BY DEF AccessInv, TableType
  <1>3. TableType' /\ DefaultGroupOnly'
    BY <1>1, <1>2 DEF AccessInv, TableType, DefaultGroupOnly, accessTables
  <1>4. ASSUME NEW u \in User, NEW o \in Organization, NEW x \in Resource, NEW p \in Permission,
               require_resource_access(u, o, x, p)
        PROVE  AccessInv'
    <2>1. /\ check' \in Question /\ check'.step = "admin"
      BY <1>4 DEF require_resource_access, Question, NoCheck
    <2> QED
      BY <1>2, <1>3, <2>1 DEF AccessInv, CheckType, CheckRemembers, AllowedWasListed
  <1>5. ASSUME can_access PROVE AccessInv'
    <2>0. check.step \in {"admin", "member", "assignment", "group", "role", "permission"}
      BY <1>5 DEF can_access
    <2>1. check \in Question /\ check.step # "none"
      BY <2>0 DEF AccessInv, CheckType, NoCheck
    <2>2. CASE check.step = "admin"
      <3>1. /\ check' = [check EXCEPT !.step = IF is_service_admin(check.user) THEN "allowed"
                                                ELSE "member"]
        BY <1>5, <2>2 DEF can_access, Answer, AccessReads
      <3>2. check' \in Question /\ check'.user = check.user /\ check'.step \in {"allowed", "member"}
            /\ check'.resource \in Resource
        BY <2>1, <3>1 DEF Question
      <3>3. check'.step = "allowed" => is_service_admin(check.user)'
        BY <1>1, <2>1, <3>1, <3>2 DEF Question, is_service_admin, accessTables
      <3>4. check'.step = "allowed" => Listed'
        BY <1>0, <3>2, <3>3 DEF ListedJoin
      <3> QED
        BY <1>2, <1>3, <3>2, <3>4 DEF AccessInv, CheckType, CheckRemembers, AllowedWasListed
    <2>3. CASE check.step = "member"
      <3>1. check' = [check EXCEPT !.step = "assignment"] \/ check' = [check EXCEPT !.step = "denied"]
        BY <1>5, <2>3 DEF can_access, Answer, AccessReads
      <3>2. check' \in Question /\ check'.step \in {"assignment", "denied"}
        BY <2>1, <3>1 DEF Question
      <3> QED
        BY <1>2, <1>3, <3>2 DEF AccessInv, CheckType, CheckRemembers, AllowedWasListed
    <2>4. CASE check.step = "assignment"
      <3>1. \/ check' = [check EXCEPT !.step = "denied"]
            \/ Assignment # Unassigned /\ check' = [check EXCEPT !.step = "group", !.group = Assignment]
        BY <1>5, <2>4 DEF can_access, Answer, Assignment
      <3>2. Assignment \in Group \cup {Unassigned} /\ Assignment \in {default_group_id(check.org), Unassigned}
        BY <2>1 DEF AccessInv, TableType, DefaultGroupOnly, Question, Assignment
      <3>3. check' \in Question /\ check'.step \in {"group", "denied"} /\ check'.org = check.org
            /\ check'.resource = check.resource
        BY <2>1, <3>1, <3>2 DEF Question
      <3>4. Assignment' = Assignment
        BY <1>1, <3>3 DEF Assignment, accessTables
      <3>5. check'.step = "group" => check'.group = Assignment /\ Assignment # Unassigned
        BY <2>1, <3>1 DEF Question
      <3>6. CheckRemembers'
        BY <3>2, <3>3, <3>4, <3>5 DEF CheckRemembers
      <3> QED
        BY <1>2, <1>3, <3>3, <3>6 DEF AccessInv, CheckType, AllowedWasListed
    <2>5. CASE check.step = "group"
      <3>1. \/ check' = [check EXCEPT !.step = "denied"]
            \/ <<check.group, check.user>> \in groupMember /\ check' = [check EXCEPT !.step = "role"]
        BY <1>5, <2>5 DEF can_access, Answer, AccessReads, get_group_member
      <3>2. /\ check' \in Question /\ check'.step \in {"role", "denied"}
            /\ check'.org = check.org /\ check'.resource = check.resource /\ check'.user = check.user
            /\ check'.permission = check.permission /\ check'.group = check.group
            /\ check'.resource \in Resource
        BY <2>1, <3>1 DEF Question
      <3>3. Assignment' = Assignment /\ groupMember' = groupMember
        BY <1>1, <3>2 DEF Assignment, accessTables
      <3>4. check'.step = "role" => <<Assignment', check'.user>> \in groupMember'
        BY <2>1, <2>5, <3>1, <3>2, <3>3 DEF AccessInv, CheckRemembers, Question
      <3>5. check'.step = "role" /\ (CheckedRow').active /\ Permits(CheckedRow.role)' => held'
        BY <1>2, <1>0, <3>2, <3>4 DEF ListedJoin
      <3>6. CheckRemembers'
        BY <2>5, <3>2, <3>3, <3>5 DEF AccessInv, CheckRemembers
      <3> QED
        BY <1>2, <1>3, <3>2, <3>6 DEF AccessInv, CheckType, AllowedWasListed
    <2>6. CASE check.step = "role"
      <3>1. \/ check' = [check EXCEPT !.step = "denied"]
            \/ /\ CheckedRow.active
               /\ check' = [check EXCEPT !.step = "permission", !.role = CheckedRow.role]
        BY <1>5, <2>6 DEF can_access, Answer, get_member_resource_role, CheckedRow
      <3>2. CheckedRow.role \in Role \cup {"none"}
        BY <2>1 DEF AccessInv, TableType, Question, RowType, CheckedRow
      <3>3. /\ check' \in Question /\ check'.step \in {"permission", "denied"}
            /\ check'.org = check.org /\ check'.resource = check.resource
            /\ check'.permission = check.permission /\ check'.group = check.group
            /\ (check'.step = "permission" => CheckedRow.active /\ check'.role = CheckedRow.role)
        BY <2>1, <3>1, <3>2 DEF Question
      <3>4. Assignment' = Assignment
        BY <1>1, <3>3 DEF Assignment, accessTables
      <3>5. CheckRemembers'
        BY <1>2, <2>6, <3>3, <3>4 DEF AccessInv, CheckRemembers, Permits
      <3> QED
        BY <1>2, <1>3, <3>3, <3>5 DEF AccessInv, CheckType, AllowedWasListed
    <2>7. CASE check.step = "permission"
      <3>1. check' = [check EXCEPT !.step = IF Permits(check.role) THEN "allowed" ELSE "denied"]
        BY <1>5, <2>7 DEF can_access, Answer, Permits
      <3>2. check' \in Question /\ check'.step \in {"allowed", "denied"}
            /\ (check'.step = "allowed" => Permits(check.role))
        BY <2>1, <3>1 DEF Question
      <3> QED
        BY <1>2, <1>3, <2>7, <3>2 DEF AccessInv, CheckType, CheckRemembers, AllowedWasListed
    <2> QED
      BY <2>0, <2>2, <2>3, <2>4, <2>5, <2>6, <2>7
  <1> QED
    BY <1>4, <1>5 DEF Checks

LEMMA AccessStep == AccessInv /\ [AccessNext]_accessVars => AccessInv'
  <1> SUFFICES ASSUME AccessInv, [AccessNext]_accessVars PROVE AccessInv'
    OBVIOUS
  <1>1. CASE AccessNext
    BY <1>1, AdministrationStep, ReadStep DEF AccessNext
  <1>2. CASE UNCHANGED accessVars
    <2>1. Listed' = Listed
      BY <1>2 DEF Listed, accessible_resource_ids, is_service_admin, get_member_resource_role,
                  accessVars, accessTables
    <2> QED
      BY <1>2, <2>1 DEF AccessInv, TableType, CheckType, DefaultGroupOnly, CheckRemembers, Permits,
                        CheckedRow, Assignment, AllowedWasListed, accessVars, accessTables
  <1> QED
    BY <1>1, <1>2

\* A permission check that answers yes was right at some moment while it ran,
\* although can_access reads six times and the administrators' operations come
\* in between, in any number and order.
THEOREM CheckIsRight == AccessSpec => []AllowedWasListed
  <1>1. AccessInv => AllowedWasListed
    BY DEF AccessInv
  <1> QED
    BY AccessStarts, AccessStep, <1>1, PTL DEF AccessSpec

-----------------------------------------------------------------------------
(* The approved state. *)


CommandType ==
    command \in [Item -> [status : {"none", "queued", "completed", "failed"},
                          result : {"none", "eligible", "refused", "foreign_diff"}, at : Nat]]

\* What was recorded of a command stays what the command says: it completed
\* and completes only once.
RecordedIsFinal ==
    \A h \in handled :
        /\ h = <<h[1], h[2]>> /\ h[1] \in Item
        /\ command[h[1]].status = "completed" /\ command[h[1]].at = h[2]

\* An approved row carries the completion of a command that was recorded, and
\* no recorded one is newer.
RowIsNewest(r) ==
    /\ approved[r].commit = 0 =>
          approved[r].at = 0 /\ \A h \in handled : h[1][2] # r
    /\ approved[r].commit # 0 =>
          <<<<approved[r].commit, r>>, approved[r].at>> \in handled
    /\ \A h \in handled : h[1][2] = r => h[2] <= approved[r].at

ApprovedType ==
    approved \in [Resources -> [commit : Commits \cup {0}, at : Nat]]

WorkflowInv ==
    /\ CommandType /\ ApprovedType /\ doneAt \in Nat
    /\ RecordedIsFinal
    /\ \A r \in Resources : RowIsNewest(r)

-----------------------------------------------------------------------------
LEMMA ItemIsPair ==
    \A i \in Item : i = <<i[1], i[2]>> /\ i[1] \in Commits /\ i[2] \in Resources /\ i[1] # 0
  BY WorkflowAssumption DEF Commits, Resources

LEMMA WorkflowStarts == WorkflowInit => WorkflowInv
  BY DEF WorkflowInit, WorkflowInv, CommandType, ApprovedType, RecordedIsFinal, RowIsNewest

\* A command that has completed is left alone by queueing and completing.
LEMMA CommandStep ==
    ASSUME CommandType, doneAt \in Nat, NEW i \in Item,
           \/ QueueCommand(i)
           \/ \E s \in {"completed", "failed"}, r \in {"eligible", "refused", "foreign_diff"},
                 at \in 1 .. MaxClock : CompleteCommand(i, s, r, at)
    PROVE  /\ CommandType' /\ doneAt' \in Nat
           /\ UNCHANGED <<approved, handled>>
           /\ \A j \in Item : command[j].status = "completed" => command'[j] = command[j]
  BY WorkflowAssumption DEF CommandType, QueueCommand, CompleteCommand

\* Recording the snapshots of a commit.
LEMMA RecordStep ==
    ASSUME WorkflowInv, NEW c \in Commits, record_approved_workflow_snapshots(c)
    PROVE  WorkflowInv'
  <1> DEFINE prepared == prepare_approved_resource_snapshots(c)
  <1>1. \A i \in prepared : i \in Item /\ i[1] = c /\ command[i].status = "completed"
    BY DEF record_approved_workflow_snapshots, prepare_approved_resource_snapshots,
           get_workflow_command_progress, Of
  <1>2. /\ handled' = handled \cup {<<i, command[i].at>> : i \in prepared}
        /\ approved' = [r \in Resources |->
              IF <<c, r>> \in prepared /\ newer(<<c, r>>)
              THEN [commit |-> c, at |-> command[<<c, r>>].at] ELSE approved[r]]
        /\ UNCHANGED <<command, doneAt>>
    BY DEF record_approved_workflow_snapshots
  <1>3. \A i \in prepared : i = <<c, i[2]>> /\ i[2] \in Resources /\ command[i].at \in Nat /\ c # 0
    BY <1>1, ItemIsPair DEF WorkflowInv, CommandType
  <1> HIDE DEF prepared
  <1>4. CommandType' /\ ApprovedType' /\ doneAt' \in Nat
    BY <1>2, <1>3 DEF WorkflowInv, CommandType, ApprovedType
  <1>5. RecordedIsFinal'
    BY <1>1, <1>2 DEF WorkflowInv, RecordedIsFinal
  <1>6. ASSUME NEW r \in Resources PROVE RowIsNewest(r)'
    <2>1. RowIsNewest(r) /\ approved[r].at \in Nat
      BY DEF WorkflowInv, ApprovedType
    <2>2. \A h \in handled : h = <<h[1], h[2]>> /\ h[2] \in Nat
      BY DEF WorkflowInv, RecordedIsFinal, CommandType
    <2>3. CASE <<c, r>> \in prepared /\ newer(<<c, r>>)
      <3>1. approved'[r].commit = c /\ approved'[r].at = command[<<c, r>>].at
        BY <1>2, <2>3
      <3>2. approved[r].at <= command[<<c, r>>].at /\ command[<<c, r>>].at \in Nat /\ c # 0
        BY <1>3, <2>3 DEF newer
      <3>3. \A h \in handled' : h[1][2] = r => h[2] <= approved'[r].at
        <4> TAKE h \in handled'
        <4> HAVE h[1][2] = r
        <4>1. CASE h \in handled
          BY <2>1, <2>2, <3>1, <3>2, <4>1 DEF RowIsNewest
        <4>2. CASE \E i \in prepared : h = <<i, command[i].at>>
          BY <1>3, <3>1, <3>2, <4>2
        <4> QED
          BY <1>2, <4>1, <4>2
      <3>4. <<<<c, r>>, command[<<c, r>>].at>> \in handled'
        BY <1>2, <2>3
      <3> QED
        BY <3>1, <3>2, <3>3, <3>4 DEF RowIsNewest
    <2>4. CASE ~(<<c, r>> \in prepared /\ newer(<<c, r>>))
      <3>1. approved'[r] = approved[r]
        BY <1>2, <2>4
      <3>2. ASSUME NEW i \in prepared, i[2] = r
            PROVE  command[i].at <= approved[r].at /\ approved[r].commit # 0
        BY <1>3, <2>1, <2>4, <3>2 DEF newer, RowIsNewest
      <3>3. \A h \in handled' : h[1][2] = r => h[2] <= approved[r].at /\ (h \in handled \/ approved[r].commit # 0)
        BY <1>2, <2>1, <3>2 DEF RowIsNewest
      <3> QED
        BY <1>2, <2>1, <3>1, <3>3 DEF RowIsNewest
    <2> QED
      BY <2>3, <2>4
  <1> QED
    BY <1>4, <1>5, <1>6 DEF WorkflowInv

LEMMA WorkflowStep == WorkflowInv /\ [WorkflowNext]_workflowVars => WorkflowInv'
  <1> SUFFICES ASSUME WorkflowInv, [WorkflowNext]_workflowVars PROVE WorkflowInv'
    OBVIOUS
  <1>1. ASSUME UNCHANGED <<command, approved, handled, doneAt>> PROVE WorkflowInv'
    BY <1>1 DEF WorkflowInv, CommandType, ApprovedType, RecordedIsFinal, RowIsNewest
  <1>2. ASSUME NEW i \in Item,
               \/ QueueCommand(i)
               \/ \E s \in {"completed", "failed"}, r \in {"eligible", "refused", "foreign_diff"},
                     at \in 1 .. MaxClock : CompleteCommand(i, s, r, at)
        PROVE  WorkflowInv'
    <2>1. /\ CommandType' /\ doneAt' \in Nat
          /\ UNCHANGED <<approved, handled>>
          /\ \A j \in Item : command[j].status = "completed" => command'[j] = command[j]
      BY <1>2, CommandStep DEF WorkflowInv
    <2> QED
      BY <2>1 DEF WorkflowInv, ApprovedType, RecordedIsFinal, RowIsNewest
  <1>3. ASSUME NEW c \in Commits, record_approved_workflow_snapshots(c) PROVE WorkflowInv'
    BY <1>3, RecordStep
  <1>4. CASE UNCHANGED workflowVars
    BY <1>1, <1>4 DEF workflowVars
  <1>5. ASSUME NEW c \in Commits, NEW s \in Progress, start_workflow_run(c, s) \/ update_workflow_run(c, s)
        PROVE  WorkflowInv'
    BY <1>1, <1>5 DEF start_workflow_run, update_workflow_run
  <1>6. ASSUME NEW i \in Item, NEW s,
               \/ update_workflow_run_for_command(i, s) \/ request_workflow_approval(i, s)
               \/ resolve_workflow_approval_if_open(i, s) \/ resolve_workflow_approval(i, s)
               \/ Expire(i) \/ attach_workflow_command(i)
        PROVE  WorkflowInv'
    BY <1>1, <1>6 DEF update_workflow_run_for_command, request_workflow_approval,
       resolve_workflow_approval_if_open, resolve_workflow_approval, Expire, attach_workflow_command
  <1> QED
    BY <1>2, <1>3, <1>4, <1>5, <1>6 DEF WorkflowNext

\* For any number of commits and resources, whatever order the runs complete and
\* are recorded in (record_approved_workflow_snapshots), the approved state of a
\* resource is the newest recorded one.
THEOREM NewestIsApproved == WorkflowSpec => []ApprovedIsNewest
  <1>1. WorkflowInv => ApprovedIsNewest
    <2> SUFFICES ASSUME WorkflowInv, NEW r \in Resources
                 PROVE  LET mine == {h \in handled : h[1][2] = r}
                        IN  /\ (mine = {}) = (approved[r].commit = 0)
                            /\ \A h \in mine : h[2] <= approved[r].at
                            /\ mine # {} => /\ <<<<approved[r].commit, r>>, approved[r].at>> \in mine
                                            /\ command[<<approved[r].commit, r>>].status = "completed"
      BY DEF ApprovedIsNewest
    <2>1. RowIsNewest(r)
      BY DEF WorkflowInv
    <2>2. approved[r].commit # 0 =>
             command[<<approved[r].commit, r>>].status = "completed"
      BY <2>1 DEF RowIsNewest, WorkflowInv, RecordedIsFinal
    <2> QED
      BY <2>1, <2>2 DEF RowIsNewest
  <1> QED
    BY <1>1, WorkflowStarts, WorkflowStep, PTL DEF WorkflowSpec
==============================================================================
