------------------------ MODULE RepositoryConnection ------------------------
(***************************************************************************)
(* Connecting Git repositories and letting go of them (domains/gitops).    *)
(* A repository row has three kinds of children: watch targets, deployment *)
(* bindings and applications.  Each is registered by a transaction of its  *)
(* own that takes no lock in common with the cascade that pauses them when *)
(* the user disconnects or GitHub reports a loss of access; the cascade is *)
(* four statements of one READ COMMITTED transaction, each of which sees   *)
(* what is committed when it runs and keeps the rows it changed locked.    *)
(*                                                                         *)
(* A table is a function from repositories to a set of at most one row     *)
(* (watch targets: at most one row per manifest path).                     *)
(***************************************************************************)
EXTENDS Integers, FiniteSets

CONSTANTS
    Repo,       \* repository references
    Member,     \* users who register
    Admin,      \* the service administrators among them
    Worker,     \* registrations that carry no user
    Path,       \* manifest paths
    MaxWrites   \* bound: registrations, probes, observations and webhooks

ASSUME ConnectionAssumption == Admin \subseteq Member /\ Worker \notin Member /\ MaxWrites \in Nat

VARIABLES
    repository, watch, binding, application,  \* the four tables
    vault,        \* repositories with a stored personal access token
    appConfig,    \* a GitHub App is configured
    token, minting,   \* the cached installation token; a mint on its way
    registering,  \* register_repository between its lookup and its write
    cascade,      \* the status cascade's open transaction, at most one
    hook,         \* the lifecycle webhook being applied
    granting,     \* owner grants not yet made after an application's commit
    deployed,     \* deployment requests the webhook accepted
    writes,
    fresh         \* history: the tables registered since their last cascade

tableVars == <<repository, watch, binding, application>>
credentialVars == <<vault, appConfig, token, minting>>
connectionVars == <<tableVars, credentialVars, registering, cascade, hook, granting, deployed,
                    writes, fresh>>

Tables == {"repository", "binding", "application"}
NoHook == [left |-> {}, status |-> "none", app |-> FALSE]

Write == writes < MaxWrites /\ writes' = writes + 1

\* A row an open cascade has changed: another writer waits for its commit.
RowLocked(table, r) == \E c \in cascade : c.repo = r /\ table \in c.hit

\* A registration is newer than the cascade whose statement already ran.
Registered(table, r) ==
    /\ fresh' = [fresh EXCEPT ![r] = @ \cup {table}]
    /\ cascade' = {[c EXCEPT !.late = IF c.repo = r /\ table \in c.ran THEN @ \cup {table} ELSE @] :
                     c \in cascade}

-----------------------------------------------------------------------------
\* Access to an application is what its owner grant or the administrator gives.
may_access(u, app) == u \in app.owners \cup Admin

can_manage_repository(u, r) ==
    \/ u \in Admin
    \/ application[r] # {} /\ \A a \in application[r] : may_access(u, a)

\* The identity lock serialises the registrations that carry a user.
lock_repository_identity(u, r) ==
    u = Worker \/ \A g \in registering : g.user = Worker \/ g.repo # r

\* First half: the row is looked up and, when there is one, its manager checked.
register_lookup ==
    /\ Write
    /\ \E u \in Member \cup {Worker}, r \in Repo, cred \in {"app", "pat", "keep"} :
          /\ lock_repository_identity(u, r)
          /\ \A g \in registering : g.user # u
          /\ repository[r] # {} => u # Worker /\ can_manage_repository(u, r)
          /\ registering' = registering \cup
                {[user |-> u, repo |-> r, cred |-> cred, authorized |-> repository[r] # {}]}
    /\ UNCHANGED <<tableVars, credentialVars, cascade, hook, granting, deployed, fresh>>

\* Second half: insert, or update only the row the lookup authorised.
register_repository ==
    \E g \in registering :
        /\ ~RowLocked("repository", g.repo)
        /\ registering' = registering \ {g}
        /\ IF repository[g.repo] = {} \/ g.authorized
           THEN /\ repository' = [repository EXCEPT ![g.repo] =
                      {[status |-> "active",
                        cred |-> IF g.cred # "keep" THEN g.cred
                                 ELSE IF @ = {} THEN "none" ELSE (CHOOSE x \in @ : TRUE).cred]}]
                /\ Registered("repository", g.repo)
           ELSE UNCHANGED <<repository, fresh, cascade>>
        /\ UNCHANGED <<watch, binding, application, credentialVars, hook, granting, deployed,
                       writes>>

\* An upsert by identifier; the natural key is unique as well.
register_watch_target ==
    /\ Write
    /\ \E r \in Repo, id \in {"derived", "other"}, p \in Path :
          /\ ~RowLocked("watch", r)
          /\ \A w \in watch[r] : w.path = p => w.id = id
          /\ watch' = [watch EXCEPT ![r] = {w \in @ : w.id # id} \cup
                          {[id |-> id, path |-> p, status |-> "active"]}]
    /\ UNCHANGED <<repository, binding, application, credentialVars, registering, cascade, hook,
                   granting, deployed, fresh>>

register_deployment_binding ==
    /\ Write
    /\ \E r \in Repo, p \in Path :
          /\ ~RowLocked("binding", r)
          /\ binding' = [binding EXCEPT ![r] = {[status |-> "active", path |-> p]}]
          /\ Registered("binding", r)
    /\ UNCHANGED <<repository, watch, application, credentialVars, registering, hook, granting,
                   deployed>>

\* The row is created, or updated by who may manage it; the owner grant of a
\* created row is a later transaction.
upsert_application ==
    /\ Write
    /\ \E u \in Member \cup {Worker}, r \in Repo :
          /\ lock_repository_identity(u, r)
          /\ ~RowLocked("application", r)
          /\ \A a \in application[r] : u # Worker => may_access(u, a)
          /\ application' = [application EXCEPT ![r] =
                IF @ = {} THEN {[status |-> "active", owners |-> {}]}
                ELSE {[a EXCEPT !.status = "active"] : a \in @}]
          /\ granting' = granting \cup
                (IF application[r] = {} /\ u # Worker THEN {<<u, r>>} ELSE {})
          /\ Registered("application", r)
    /\ UNCHANGED <<repository, watch, binding, credentialVars, registering, hook, deployed>>

\* The grant is made, or the process ends before it.
grant_owner_if_present ==
    \E g \in granting :
        /\ granting' = granting \ {g}
        /\ \/ application' = [application EXCEPT ![g[2]] =
                 {[a EXCEPT !.owners = @ \cup {g[1]}] : a \in @}]
           \/ UNCHANGED application
        /\ UNCHANGED <<repository, watch, binding, credentialVars, registering, cascade, hook,
                       deployed, writes, fresh>>

-----------------------------------------------------------------------------
\* The watch the poller joins to a binding: the one the binding names, or else
\* the one on the default branch with the binding's path.
binding_watch(r) ==
    LET byId == {w \in watch[r] : w.id = "derived"}
        bySource == {w \in watch[r] : \E b \in binding[r] : w.path = b.path}
    IN  IF byId # {} THEN byId ELSE bySource

Active(rows) == \E row \in rows : row.status = "active"

\* A binding with no watch row at all is polled: older bindings have none.
list_active_github_poll_targets ==
    {r \in Repo : /\ Active(repository[r]) /\ Active(application[r]) /\ Active(binding[r])
                  /\ \A w \in binding_watch(r) : w.status = "active"}

body_for_poll_target(r) ==
    [repo |-> r, paths |-> {w.path : w \in binding_watch(r)}]

\* A push of commits or a merged pull request is a change; a deleted branch or
\* a pull request closed unmerged is not.
github_raw_change(event) == event \in {"push", "merged"}

\* The service's own form of the request names the target in full.
poll_target_matches(t, asked) == body_for_poll_target(t) = asked

build_git_webhook_bodies(event, asked) ==
    {body_for_poll_target(t) :
       t \in {x \in list_active_github_poll_targets :
                IF event = "direct" THEN poll_target_matches(x, asked)
                ELSE github_raw_change(event) /\ x = asked.repo}}

github_webhook ==
    /\ Write
    /\ \E r \in Repo, ps \in SUBSET Path, event \in {"direct", "push", "deleted", "merged", "closed"} :
          deployed' = deployed \cup build_git_webhook_bodies(event, [repo |-> r, paths |-> ps])
    /\ UNCHANGED <<tableVars, credentialVars, registering, cascade, hook, granting, fresh>>

\* A poll ends, however late: the row's result is stored, or a missing row is
\* inserted as active.  An existing row keeps its status.
record_watch_poll_result ==
    /\ Write
    /\ \E r \in Repo, p \in Path :
          /\ ~RowLocked("watch", r)
          /\ \A w \in watch[r] : w.path # p => w.id # "derived"
          /\ watch' = [watch EXCEPT ![r] = @ \cup
                {[id |-> "derived", path |-> q, status |-> "active"] :
                   q \in {p} \ {w.path : w \in @}}]
    /\ UNCHANGED <<repository, binding, application, credentialVars, registering, cascade, hook,
                   granting, deployed, fresh>>

-----------------------------------------------------------------------------
Cascade(r, status, drop) ==
    {[repo |-> r, status |-> status, drop |-> drop, ran |-> {"repository"},
      hit |-> {"repository"}, late |-> {}]}

\* The transaction's first statement: the repository's own row.
disconnect_repository ==
    /\ Write /\ cascade = {}
    /\ \E r \in Repo : repository[r] # {} /\ cascade' = Cascade(r, "disconnected", TRUE)
    /\ UNCHANGED <<tableVars, credentialVars, registering, hook, granting, deployed, fresh>>

\* The lifecycle handler takes the next repository of its list; one that has
\* no row is passed over.
set_repository_connection_status ==
    /\ cascade = {}
    /\ \E r \in hook.left :
          /\ hook' = [hook EXCEPT !.left = @ \ {r}]
          /\ cascade' = IF repository[r] = {} THEN {} ELSE Cascade(r, hook.status, FALSE)
    /\ UNCHANGED <<tableVars, credentialVars, registering, granting, deployed, writes, fresh>>

\* Then the children, table after table: every row that is active by now.
Children == <<"watch", "binding", "application">>
Rows(table, r) ==
    CASE table = "watch" -> watch[r] [] table = "binding" -> binding[r]
      [] table = "application" -> application[r]

cascade_repository_status ==
    \E c \in cascade, i \in DOMAIN Children :
        /\ \A j \in DOMAIN Children : Children[j] \in c.ran <=> j < i
        /\ cascade' = {[c EXCEPT !.ran = @ \cup {Children[i]},
                                 !.hit = IF Active(Rows(Children[i], c.repo))
                                         THEN @ \cup {Children[i]} ELSE @]}
        /\ UNCHANGED <<tableVars, credentialVars, registering, hook, granting, deployed, writes,
                       fresh>>

\* A bug for Moved: the children keep their status.
MovedAlone(rows, r, c, table, status) == rows

Moved(rows, r, c, table, status) ==
    IF r = c.repo /\ table \in c.hit
    THEN {[row EXCEPT !.status = IF @ = "active" THEN status ELSE @] : row \in rows} ELSE rows

\* The stored token goes in the same transaction, and everything shows at once.
CommitCascade ==
    \E c \in cascade :
        /\ \A table \in {"watch", "binding", "application"} : table \in c.ran
        /\ repository' = [repository EXCEPT ![c.repo] = {[row EXCEPT !.status = c.status] : row \in @}]
        /\ watch' = [r \in Repo |-> Moved(watch[r], r, c, "watch", "paused")]
        /\ binding' = [r \in Repo |-> Moved(binding[r], r, c, "binding", "paused")]
        /\ application' = [r \in Repo |-> Moved(application[r], r, c, "application", "archived")]
        /\ vault' = vault \ {r \in {c.repo} : c.drop}
        /\ cascade' = {}
        /\ fresh' = [fresh EXCEPT ![c.repo] = @ \cap c.late]
        /\ UNCHANGED <<appConfig, token, minting, registering, hook, granting, deployed, writes>>

list_repositories_by_credential_ref ==
    {r \in Repo : \E row \in repository[r] : row.cred = "app"}

\* What a lifecycle event asks for: the repositories, and the status they get.
github_lifecycle_intents ==
    {[left |-> list_repositories_by_credential_ref, status |-> "invalid_credential", app |-> TRUE]}
      \cup {[left |-> {r}, status |-> s, app |-> FALSE] :
              r \in Repo, s \in {"invalid_credential", "source_unreachable"}}

apply_github_lifecycle ==
    /\ Write /\ hook = NoHook
    /\ hook' \in github_lifecycle_intents
    /\ UNCHANGED <<tableVars, credentialVars, registering, cascade, granting, deployed, fresh>>

\* After the last repository of an uninstalled App the cached token is dropped.
\* A failure in between leaves the rest of the list and the token as they are.
FinishLifecycle ==
    /\ hook # NoHook /\ cascade = {}
    /\ hook' = NoHook
    /\ token' = IF hook.app /\ hook.left = {} THEN FALSE ELSE token
    /\ UNCHANGED <<tableVars, vault, appConfig, minting, registering, cascade, granting, deployed,
                   writes, fresh>>

-----------------------------------------------------------------------------
\* The wizard's credential for a repository: the one sent with the request, the
\* App's installation token, the stored token, or none.
wizard_discovery_service(r, sent) ==
    CASE sent -> "request"
      [] ~sent /\ \E row \in repository[r] : row.cred = "app" ->
            IF token \/ appConfig THEN "installation" ELSE "unavailable"
      [] OTHER -> IF r \in vault THEN "stored" ELSE "none"

\* A probe with a token of the user's own stores it once the repository answers;
\* the scope's lock makes it wait for a disconnect that is dropping it.
probe_wizard_repository ==
    /\ Write
    /\ \E r \in Repo, sent \in BOOLEAN :
          /\ sent => \A c \in cascade : c.repo # r \/ ~c.drop
          /\ vault' = IF wizard_discovery_service(r, sent) = "request" THEN vault \cup {r} ELSE vault
          /\ minting' = (minting \/ (wizard_discovery_service(r, sent) = "installation" /\ ~token))
    /\ UNCHANGED <<tableVars, appConfig, token, registering, cascade, hook, granting, deployed,
                   fresh>>

\* The minted token arrives and is cached, or the call fails.
resolve_installation_token ==
    /\ minting
    /\ minting' = FALSE /\ token' \in {token, TRUE}
    /\ UNCHANGED <<tableVars, vault, appConfig, registering, cascade, hook, granting, deployed,
                   writes, fresh>>

\* The App's configuration stored by the manifest callback, or removed.
store_app_config ==
    /\ Write
    /\ appConfig' = ~appConfig
    /\ UNCHANGED <<tableVars, vault, token, minting, registering, cascade, hook, granting, deployed,
                   fresh>>

Connected == [r \in Repo |-> Tables]
NothingYet == [r \in Repo |-> {}]

\* An empty workspace, or one whose repositories are all connected.
ConnectionInit ==
    /\ \E u \in Member, p \in Path, cred \in {"app", "pat"} :
          \/ /\ repository = [r \in Repo |-> {[status |-> "active", cred |-> cred]}]
             /\ watch = [r \in Repo |-> {[id |-> "derived", path |-> p, status |-> "active"]}]
             /\ binding = [r \in Repo |-> {[status |-> "active", path |-> p]}]
             /\ application = [r \in Repo |-> {[status |-> "active", owners |-> {u}]}]
             /\ vault = {r \in Repo : cred = "pat"} /\ appConfig = (cred = "app")
             /\ fresh = Connected
          \/ /\ repository = NothingYet /\ watch = NothingYet /\ binding = NothingYet
             /\ application = NothingYet /\ vault = {} /\ appConfig = FALSE /\ fresh = NothingYet
    /\ token = FALSE /\ minting = FALSE
    /\ registering = {} /\ cascade = {} /\ hook = NoHook /\ granting = {} /\ deployed = {}
    /\ writes = 0

ConnectionNext ==
    \/ register_lookup \/ register_repository \/ register_watch_target
    \/ register_deployment_binding \/ upsert_application \/ grant_owner_if_present
    \/ github_webhook \/ record_watch_poll_result
    \/ disconnect_repository \/ set_repository_connection_status \/ cascade_repository_status
    \/ CommitCascade \/ apply_github_lifecycle \/ FinishLifecycle
    \/ probe_wizard_repository \/ resolve_installation_token \/ store_app_config

ConnectionSpec == ConnectionInit /\ [][ConnectionNext]_connectionVars

-----------------------------------------------------------------------------
(* A repository that was disconnected, or lost its access, is polled and   *)
(* deployed from again only after the repository, its deployment binding   *)
(* and its application have each been registered anew: none of the three   *)
(* rows an older connection left behind takes part, whatever registrations *)
(* and late poll results were interleaved with the cascade's statements.   *)
PolledIsReconnected ==
    \A r \in list_active_github_poll_targets : Tables \subseteq fresh[r]
=============================================================================
