---------------------------- MODULE AccessControl ----------------------------
(***************************************************************************)
(* Accounts, organizations, groups and resource grants                     *)
(* (domains/identity).  A permission check, can_access, is six reads in    *)
(* six transactions, so administrators change the tables between its       *)
(* reads; a resource listing, accessible_resource_ids, is one statement.   *)
(* Rows are sets and functions; names, e-mail addresses and timestamps are *)
(* left out, as is the organization role, which no reader consults.        *)
(***************************************************************************)
EXTENDS Integers, FiniteSets

CONSTANTS
    User, Organization, Resource, Role, Permission,
    Steward,        \* the role an upsert never lowers
    GlobalPolicy,   \* role -> permissions, the default rows
    ScopedPolicy,   \* rows <<organization, role, permission, active>>
    MaxGrants       \* bound: grants and group changes

ASSUME AccessAssumption ==
    /\ Steward \in Role
    /\ GlobalPolicy \in [Role -> SUBSET Permission]
    /\ ScopedPolicy \subseteq Organization \X Role \X Permission \X BOOLEAN
    /\ MaxGrants \in Nat

VARIABLES
    account,      \* user -> [status, role]
    verifying,    \* verification transactions that have looked for an administrator
    organization, \* active organizations
    deleting,     \* delete transactions that have found no group
    groups,       \* active groups
    orgMember, groupMember,
    assigned,     \* <<organization, resource>> -> the group the resource is assigned to
    roles,        \* <<organization, resource, user>> -> [role, active]
    check,        \* one permission check under way
    held,         \* history: the listing has included the resource since the check began
    grants

accessTables == <<account, verifying, organization, deleting, groups, orgMember, groupMember,
                  assigned, roles, grants>>
accessVars == <<accessTables, check, held>>

Group == Organization \X {"default", "custom"}
default_group_id(o) == <<o, "default">>
Unassigned == <<"none", "none">>

NoCheck == [step |-> "none", user |-> "none", org |-> "none", resource |-> "none",
            permission |-> "none", group |-> Unassigned, role |-> "none"]

-----------------------------------------------------------------------------
(* Reads. *)

is_service_admin(u) == account[u] = [status |-> "active", role |-> "service_admin"]

\* A scoped policy replaces the global one, even if all its rows are disabled.
get_role_permissions(o, r) ==
    LET scoped == {p \in ScopedPolicy : p[1] = o /\ p[2] = r}
    IN  IF scoped = {} THEN GlobalPolicy[r] ELSE {p[3] : p \in {q \in scoped : q[4]}}

\* A bug for get_group_member: the group is looked up, not the membership.
get_group(g, u) == g \in groups

get_group_member(g, u) == <<g, u>> \in groupMember

get_member_resource_role(o, x, u) ==
    {roles[<<o, x, u>>].role : i \in {j \in {0} : roles[<<o, x, u>>].active}}

\* One statement: assignment, group member, member role and policy joined.
accessible_resource_ids(u, o, p) ==
    {x \in Resource :
        \/ is_service_admin(u)
        \/ /\ <<assigned[<<o, x>>], u>> \in groupMember
           /\ \E r \in get_member_resource_role(o, x, u) : p \in get_role_permissions(o, r)}

-----------------------------------------------------------------------------
(* Upserts, shared by the write operations. *)

user_upsert(u) ==
    account' = [account EXCEPT ![u] =
        IF @.status = "absent" THEN [status |-> "active", role |-> "user"] ELSE @]

\* The organization, its default group and the user in both.
membership_upsert(o, g, u) ==
    /\ organization' = organization \union {o}
    /\ groups' = groups \union {g}
    /\ orgMember' = orgMember \union {<<o, u>>}
    /\ groupMember' = groupMember \union {<<g, u>>}

\* A steward's row keeps its role, active or not.
member_resource_role_upsert(o, x, u, r) ==
    roles' = [roles EXCEPT ![<<o, x, u>>] =
        [role |-> IF @.role = Steward THEN Steward ELSE r, active |-> TRUE]]

Bounded == grants < MaxGrants /\ grants' = grants + 1

\* No caller names a group: the resource goes to the default one.
grant_resource_access(u, o, x, r) ==
    /\ Bounded
    /\ user_upsert(u)
    /\ membership_upsert(o, default_group_id(o), u)
    /\ assigned' = [assigned EXCEPT ![<<o, x>>] = default_group_id(o)]
    /\ member_resource_role_upsert(o, x, u, r)
    /\ UNCHANGED <<verifying, deleting>>

\* The registering user becomes the cluster's steward in the default group.
register_target_cluster(u, o, x) == grant_resource_access(u, o, x, Steward)

revoke_access(u, o, x) ==
    /\ roles[<<o, x, u>>].active
    /\ roles' = [roles EXCEPT ![<<o, x, u>>].active = FALSE]
    /\ UNCHANGED <<account, verifying, organization, deleting, groups, orgMember, groupMember,
                   assigned, grants>>

add_group_member(g, u) ==
    /\ Bounded /\ g \in groups
    /\ groupMember' = groupMember \union {<<g, u>>}
    /\ UNCHANGED <<account, verifying, organization, deleting, groups, orgMember, assigned, roles>>

is_last_active_service_admin(u) == {v \in User : is_service_admin(v)} = {u}

remove_group_member(g, u) ==
    /\ <<g, u>> \in groupMember
    /\ ~is_last_active_service_admin(u)
    /\ groupMember' = groupMember \ {<<g, u>>}
    /\ UNCHANGED <<account, verifying, organization, deleting, groups, orgMember, assigned, roles,
                   grants>>

create_group(o) ==
    /\ Bounded
    /\ groups' = groups \union {<<o, "custom">>}
    /\ UNCHANGED <<account, verifying, organization, deleting, orgMember, groupMember, assigned,
                   roles>>

\* Looks for an active group, then disables the organization: two statements.
delete_organization(o) ==
    \/ /\ o \in organization \ deleting /\ ~\E g \in groups : g[1] = o
       /\ deleting' = deleting \union {o}
       /\ UNCHANGED <<organization, account, verifying, groups, orgMember, groupMember, assigned,
                      roles, grants>>
    \/ /\ o \in deleting
       /\ organization' = organization \ {o}
       /\ deleting' = deleting \ {o}
       /\ UNCHANGED <<account, verifying, groups, orgMember, groupMember, assigned, roles, grants>>

-----------------------------------------------------------------------------
(* Accounts. *)

create_user(u) ==
    /\ account[u].status = "absent"
    /\ account' = [account EXCEPT ![u] = [status |-> "pending_email_verification", role |-> "user"]]
    /\ UNCHANGED <<verifying, organization, deleting, groups, orgMember, groupMember, assigned,
                   roles, grants>>

\* The first verified account becomes the administrator of the default
\* organization; whether there is one is read before the account is written.
complete_email_verification(u, o) ==
    \/ /\ account[u].status = "pending_email_verification" /\ \A v \in verifying : v[1] # u
       /\ verifying' = verifying \union {<<u, \E v \in User : is_service_admin(v)>>}
       /\ UNCHANGED <<account, organization, deleting, groups, orgMember, groupMember, assigned,
                      roles, grants>>
    \/ \E v \in verifying :
          /\ v[1] = u
          /\ verifying' = verifying \ {v}
          /\ account' = [account EXCEPT ![u] =
                IF v[2] THEN [status |-> "pending_approval", role |-> "user"]
                        ELSE [status |-> "active", role |-> "service_admin"]]
          /\ IF v[2] THEN UNCHANGED <<organization, groups, orgMember, groupMember>>
                     ELSE membership_upsert(o, default_group_id(o), u)
          /\ UNCHANGED <<deleting, assigned, roles, grants>>

approve_user(u, o) ==
    /\ account[u].status = "pending_approval"
    /\ account' = [account EXCEPT ![u] = [status |-> "active", role |-> "user"]]
    /\ membership_upsert(o, default_group_id(o), u)
    /\ UNCHANGED <<verifying, deleting, assigned, roles, grants>>

upsert_admin_account(u, o) ==
    /\ account[u].status = "absent"
    /\ account' = [account EXCEPT ![u] = [status |-> "active", role |-> "service_admin"]]
    /\ membership_upsert(o, default_group_id(o), u)
    /\ UNCHANGED <<verifying, deleting, assigned, roles, grants>>

-----------------------------------------------------------------------------
(* The permission check: each step is a read in a transaction of its own. *)

Answer(allowed) == check' = [check EXCEPT !.step = IF allowed THEN "allowed" ELSE "denied"]
AccessReads(next) == check' = [check EXCEPT !.step = next]

can_access ==
    \/ /\ check.step = "admin"
       /\ IF is_service_admin(check.user) THEN Answer(TRUE) ELSE AccessReads("member")
    \/ /\ check.step = "member"
       /\ IF <<check.org, check.user>> \in orgMember THEN AccessReads("assignment") ELSE Answer(FALSE)
    \/ /\ check.step = "assignment"
       /\ LET g == assigned[<<check.org, check.resource>>]
          IN  IF g = Unassigned THEN Answer(FALSE)
              ELSE check' = [check EXCEPT !.step = "group", !.group = g]
    \/ /\ check.step = "group"
       /\ IF get_group_member(check.group, check.user) THEN AccessReads("role") ELSE Answer(FALSE)
    \/ /\ check.step = "role"
       /\ LET r == get_member_resource_role(check.org, check.resource, check.user)
          IN  IF r = {} THEN Answer(FALSE)
              ELSE check' = [check EXCEPT !.step = "permission", !.role = CHOOSE v \in r : TRUE]
    \/ /\ check.step = "permission"
       /\ Answer(check.permission \in get_role_permissions(check.org, check.role))

require_resource_access(u, o, x, p) ==
    /\ check.step \in {"none", "allowed", "denied"}
    /\ check' = [NoCheck EXCEPT !.step = "admin", !.user = u, !.org = o, !.resource = x,
                                !.permission = p]

-----------------------------------------------------------------------------
AccessInit ==
    /\ account = [u \in User |-> [status |-> "absent", role |-> "user"]]
    /\ verifying = {} /\ organization = {} /\ deleting = {} /\ groups = {}
    /\ orgMember = {} /\ groupMember = {}
    /\ assigned = [k \in Organization \X Resource |-> Unassigned]
    /\ roles = [k \in Organization \X Resource \X User |-> [role |-> "none", active |-> FALSE]]
    /\ check = NoCheck /\ held = FALSE /\ grants = 0

Administration ==
    /\ \E u \in User, o \in Organization :
          \/ create_user(u) \/ complete_email_verification(u, o) \/ approve_user(u, o)
          \/ upsert_admin_account(u, o) \/ create_group(o) \/ delete_organization(o)
          \/ \E x \in Resource :
                \/ register_target_cluster(u, o, x) \/ revoke_access(u, o, x)
                \/ \E r \in Role : grant_resource_access(u, o, x, r)
          \/ \E g \in Group : add_group_member(g, u) \/ remove_group_member(g, u)
    /\ UNCHANGED check

Checks ==
    /\ \/ can_access
       \/ \E u \in User, o \in Organization, x \in Resource, p \in Permission :
             require_resource_access(u, o, x, p)
    /\ UNCHANGED accessTables

Listed == check.step # "none" /\
          check.resource \in accessible_resource_ids(check.user, check.org, check.permission)

AccessNext ==
    /\ Administration \/ Checks
    /\ held' = (Listed' \/ (held /\ check'.step # "admin"))

AccessSpec == AccessInit /\ [][AccessNext]_accessVars

-----------------------------------------------------------------------------
(* A permission check that answers yes is right about some moment while it *)
(* ran: at that moment the single-statement listing included the resource, *)
(* although the check pieced its answer together from six reads between    *)
(* which grants, revocations and group changes were committed.             *)
AllowedWasListed == check.step = "allowed" => held
=============================================================================
