--------------------------------- MODULE Access --------------------------------
(***************************************************************************)
(* What one user may do: the API keys that stand for the user, the roles     *)
(* the user holds, the permission those roles carry, and the scope, the      *)
(* companies and areas the user works in.  Every change is a request that    *)
(* reads and commits later (RowStore); the gates read the committed rows.    *)
(***************************************************************************)
EXTENDS RowStore

CONSTANTS
    Administrators, \* requests in flight
    Companies,
    Areas,
    All,            \* area_id NULL: every area of the company
    Keys,           \* identifiers of rows, per table
    Moves           \* bound on the requests made in all

VARIABLES
    acl,        \* acl[t]: table t
    working,    \* the companies and areas that are active
    ask,        \* ask[r]: the transaction of request r
    moves,
    crossed,    \* has a transaction committed while another was open?
    replaced,   \* secrets a rotation has put out of use
    issued      \* secrets handed out so far

accessVars == <<acl, working, ask, moves, crossed, replaced, issued>>
-----------------------------------------------------------------------------
Roles == {"Admin", "Staff"}
Target == Companies \X (Areas \cup {All})

\* NULL is no area; identifiers count from 1, and there is one for every access.
AccessAssumption ==
    /\ All \notin Areas
    /\ Keys \subseteq Nat \ {0} /\ IsFiniteSet(Keys)
    /\ IsFiniteSet(Target) /\ Cardinality(Target) <= Cardinality(Keys)

RoleRow == [name : Roles, live : BOOLEAN]
PermissionRow == [live : BOOLEAN]       \* the one permission
GrantRow == [role : Roles]              \* role_permissions
LinkRow == [role : Roles, live : BOOLEAN]
AccessRow == [target : Target, live : BOOLEAN]
KeyRow == [secret : Nat, live : BOOLEAN, expired : BOOLEAN]

RowOf == [role |-> RoleRow, permission |-> PermissionRow, grant |-> GrantRow,
          link |-> LinkRow, access |-> AccessRow, key |-> KeyRow]

Rows(t) == {acl[t][i] : i \in In(acl[t])}
RoleIs(name) == \E x \in Rows("role") : x.name = name /\ x.live
PermissionLive == \E x \in Rows("permission") : x.live
-----------------------------------------------------------------------------
Resting == [op |-> "idle", writes |-> {}, goal |-> {}]

\* goal is the scope a replacement was asked for.
AskFor(r, op, writes, goal) ==
    /\ moves < Moves
    /\ ask[r] = Resting
    /\ moves' = moves + 1
    /\ ask' = [ask EXCEPT ![r] = [op |-> op, writes |-> writes, goal |-> goal]]
    /\ UNCHANGED <<acl, working, crossed, replaced>>

Ask(r, op, writes) == AskFor(r, op, writes, {})

\* Change column live of the row of id i.
Turn(t, i, live) == Update(t, i, acl[t][i], [acl[t][i] EXCEPT !.live = live])

\* The primary keys of user_roles and role_permissions, and the two partial
\* indexes of user_area_access: one for rows with an area, one for rows without.
PrimaryKeys(tables) ==
    UniqueBy(tables["link"], "role") /\ UniqueBy(tables["grant"], "role")
Indexes(table) == UniqueBy(table, "target")

CommitAsk(r) ==
    LET after == [t \in DOMAIN acl |-> After(t, acl[t], ask[r].writes)]
        secrets(tables) == {tables["key"][i].secret : i \in In(tables["key"])}
    IN
    /\ ask[r] # Resting
    /\ acl' = IF PrimaryKeys(after) /\ Indexes(after["access"]) THEN after ELSE acl
    /\ replaced' = replaced \cup (secrets(acl) \ secrets(acl'))
    /\ crossed' = (crossed \/ (acl' # acl /\ \E q \in Administrators \ {r} :
                                                  ask[q] # Resting))
    /\ ask' = [ask EXCEPT ![r] = Resting]
    /\ UNCHANGED <<working, moves, issued>>
-----------------------------------------------------------------------------
(* Roles and permissions.                                                    *)

\* assign_role_to_user: a link that was removed is taken up again.
AssignRole(r, name) ==
    LET links == Where(acl["link"], "role", name) IN
    /\ RoleIs(name)
    /\ \A i \in links : ~acl["link"][i].live
    /\ Ask(r, "assign_role",
           IF links = {} THEN {Insert("link", [role |-> name, live |-> TRUE])}
           ELSE {Turn("link", i, TRUE) : i \in links})
    /\ UNCHANGED issued

\* remove_role_from_user.
RemoveRole(r, i) ==
    /\ i \in In(acl["link"])
    /\ Ask(r, "remove_role", {Turn("link", i, FALSE)})
    /\ UNCHANGED issued

\* assign_role_to_permission.
GrantPermission(r, name) ==
    /\ RoleIs(name) /\ PermissionLive
    /\ \A x \in Rows("grant") : x.role # name
    /\ Ask(r, "grant", {Insert("grant", [role |-> name])})
    /\ UNCHANGED issued

\* remove_role_permission.
RevokePermission(r, i) ==
    /\ i \in In(acl["grant"])
    /\ Ask(r, "revoke", {Update("grant", i, acl["grant"][i], NoRow)})
    /\ UNCHANGED issued

\* update_role, delete_role, update_permission, delete_permission.
SwitchRow(r, t, i, live) ==
    /\ t \in {"role", "permission"}
    /\ i \in In(acl[t])
    /\ Ask(r, "switch", {Turn(t, i, live)})
    /\ UNCHANGED issued
-----------------------------------------------------------------------------
(* API keys.  A secret is returned once, in the answer to the request that    *)
(* made it; the row keeps its hash.                                          *)

CreateKey(r) ==
    /\ Room("key", acl["key"], UNION {ask[q].writes : q \in Administrators})
    /\ Ask(r, "create_key", {Insert("key", [secret |-> issued + 1, live |-> TRUE,
                                            expired |-> FALSE])})
    /\ issued' = issued + 1

\* rotate_key: a new secret, and the key is active again; expires_at is kept.
RotateKey(r, i) ==
    /\ i \in In(acl["key"])
    /\ Ask(r, "rotate_key", {Update("key", i, acl["key"][i],
             [acl["key"][i] EXCEPT !.secret = issued + 1, !.live = TRUE])})
    /\ issued' = issued + 1

\* update_key.
UpdateKey(r, i, live, expired) ==
    /\ i \in In(acl["key"])
    /\ Ask(r, "update_key", {Update("key", i, acl["key"][i],
             [acl["key"][i] EXCEPT !.live = live, !.expired = expired])})
    /\ UNCHANGED issued

\* deactivate_key.
DeactivateKey(r, i) ==
    /\ i \in In(acl["key"])
    /\ Ask(r, "deactivate_key", {Turn("key", i, FALSE)})
    /\ UNCHANGED issued

\* expires_at goes by.
Expire(i) ==
    /\ i \in In(acl["key"]) /\ ~acl["key"][i].expired
    /\ acl' = [acl EXCEPT !["key"][i].expired = TRUE]
    /\ UNCHANGED <<working, ask, moves, crossed, replaced, issued>>

\* validate_api_key, get_by_hash.
X_Accepts(secret) == \E x \in Rows("key") : x.secret = secret /\ x.live
Accepts(secret) == \E x \in Rows("key") : x.secret = secret /\ x.live /\ ~x.expired
-----------------------------------------------------------------------------
(* The scope.                                                                *)

\* _validate_target: the company and the area are active.
Valid(target) == target[1] \in working /\ target[2] \in working \cup {All}

\* assign_access: an access that was withdrawn is taken up again.
AssignAccess(r, target) ==
    LET same == Where(acl["access"], "target", target) IN
    /\ Valid(target)
    /\ \A i \in same : ~acl["access"][i].live
    /\ Ask(r, "assign_access",
           IF same = {} THEN {Insert("access", [target |-> target, live |-> TRUE])}
           ELSE {Turn("access", i, TRUE) : i \in same})
    /\ UNCHANGED issued

\* replace_user_scope: what is wanted is active, inserted if need be, the rest is not.
ScopeWrites(wanted) ==
    {Turn("access", i, acl["access"][i].target \in wanted) : i \in In(acl["access"])}
    \cup {Insert("access", [target |-> t, live |-> TRUE]) :
             t \in wanted \ {x.target : x \in Rows("access")}}

ReplaceScope(r, wanted) ==
    /\ \A t \in wanted : Valid(t)
    /\ AskFor(r, "replace_scope", ScopeWrites(wanted), wanted)
    /\ UNCHANGED issued

\* set_access_active: by id, without looking at the company and the area.
SetAccessActive(r, i, live) ==
    /\ i \in In(acl["access"])
    /\ Ask(r, "set_access", {Turn("access", i, live)})
    /\ UNCHANGED issued

\* A company or an area is deactivated or taken up again (Catalog).
SwitchMaster(m) ==
    /\ moves < Moves
    /\ moves' = moves + 1
    /\ working' = IF m \in working THEN working \ {m} ELSE working \cup {m}
    /\ UNCHANGED <<acl, ask, crossed, replaced, issued>>
-----------------------------------------------------------------------------
(* The gates.  Neither asks whether the role itself is active.               *)
ActiveRoles == {x.role : x \in {y \in Rows("link") : y.live}}

\* Auth.permissions, Role.permissions.
HasPermission == PermissionLive /\ \E x \in Rows("grant") : x.role \in ActiveRoles

\* AnyPermissionChecker, has_permission, is_admin.
AnyChecker == "Admin" \in ActiveRoles \/ HasPermission

\* PermissionChecker.
Checker == "Admin" \in ActiveRoles \/ HasPermission

\* get_me: the roles, the permissions and the scope the front end goes by.
Me == [roles |-> ActiveRoles, permitted |-> HasPermission,
       unrestricted |-> "Admin" \in ActiveRoles]
-----------------------------------------------------------------------------
(* What the scope allows, computed three times.                              *)
Granted == {x.target : x \in {y \in Rows("access") : y.live}}

\* get_user_scope: whole companies, and pairs of the other companies.
Whole == {c \in Companies : <<c, All>> \in Granted}
Pairs == {t \in Granted : t[2] # All /\ t[1] \notin Whole}
ScopeEmpty == Whole = {} /\ Pairs = {}

\* UserScope.allows.
X_Allows(c, a) == <<c, a>> \in Pairs
Allows(c, a) == c \in Whole \/ <<c, a>> \in Pairs

\* scope_condition, over rows of the pair (c, a).
Listed(c, a) ==
    IF ScopeEmpty THEN FALSE
    ELSE c \in Whole \/ \E t \in Pairs : t[1] = c /\ t[2] = a

\* get_user_scope_detail: active companies only, and under each its active areas.
Detail ==
    [c \in {t[1] : t \in Granted} \cap working |->
        IF <<c, All>> \in Granted THEN Areas \cap working
        ELSE {t[2] : t \in {g \in Granted : g[1] = c}} \cap working]
-----------------------------------------------------------------------------
Init ==
    /\ acl = [t \in DOMAIN RowOf |->
                [i \in Keys |->
                    CASE t = "role" /\ i = 1 -> [name |-> "Admin", live |-> TRUE]
                      [] t = "role" /\ i = 2 -> [name |-> "Staff", live |-> TRUE]
                      [] t = "permission" /\ i = 1 -> [live |-> TRUE]
                      [] t = "grant" /\ i = 1 -> [role |-> "Admin"]
                      [] OTHER -> NoRow]]
    /\ working = Companies \cup Areas
    /\ ask = [r \in Administrators |-> Resting]
    /\ moves = 0 /\ issued = 0
    /\ crossed = FALSE /\ replaced = {}

Security(r) ==
    \/ \E name \in Roles : AssignRole(r, name) \/ GrantPermission(r, name)
    \/ \E i \in Keys :
          \/ RemoveRole(r, i) \/ RevokePermission(r, i)
          \/ \E t \in {"role", "permission"}, live \in BOOLEAN : SwitchRow(r, t, i, live)

ApiKeys(r) ==
    \/ CreateKey(r)
    \/ \E i \in Keys :
          \/ RotateKey(r, i) \/ DeactivateKey(r, i)
          \/ \E live, expired \in BOOLEAN : UpdateKey(r, i, live, expired)

Scope(r) ==
    \/ \E t \in Target : AssignAccess(r, t)
    \/ \E wanted \in SUBSET Target : ReplaceScope(r, wanted)
    \/ \E i \in Keys, live \in BOOLEAN : SetAccessActive(r, i, live)

Next ==
    \/ \E r \in Administrators : Security(r) \/ ApiKeys(r) \/ Scope(r) \/ CommitAsk(r)
    \/ \E i \in Keys : Expire(i)
    \/ \E m \in Companies \cup Areas : SwitchMaster(m)
    \/ moves = Moves /\ (\A r \in Administrators : ask[r] = Resting) /\ UNCHANGED accessVars

Spec == Init /\ [][Next]_accessVars
-----------------------------------------------------------------------------
(* The rows are well formed.                                                 *)
TypeOK ==
    /\ \A t \in DOMAIN RowOf : \A i \in In(acl[t]) : acl[t][i] \in RowOf[t]
    /\ working \subseteq Companies \cup Areas
    /\ replaced \subseteq 1..issued

(* The two classes that guard the endpoints, PermissionChecker and            *)
(* AnyPermissionChecker, are written apart and let the same users in, and the *)
(* front end, which goes by /auth/me, shows what they let through.           *)
GatesAgree ==
    /\ Checker <=> AnyChecker
    /\ Checker <=> ("Admin" \in Me.roles \/ Me.permitted)

(* A secret that a rotation has replaced opens nothing ever again, however    *)
(* rotations, updates and deactivations of the key overlap; nor does a key    *)
(* whose time is over, or that is not active.                                *)
DeadSecrets ==
    /\ \A s \in replaced : ~Accepts(s)
    /\ \A i \in In(acl["key"]) :
          acl["key"][i].expired \/ ~acl["key"][i].live => ~Accepts(acl["key"][i].secret)

(* No committed deactivation is undone by a request that had read the row     *)
(* while it was active: of a key, of a link to a role, of an access.  A       *)
(* rotation that overlaps a deactivation leaves the key inactive.            *)
Reactivated ==
    \A t \in {"key", "link", "access"} : \A i \in In(acl[t]) :
        i \in In(acl'[t]) /\ ~acl[t][i].live /\ acl'[t][i].live
        => \E r \in Administrators : \E w \in ask[r].writes :
              ask'[r] = Resting /\ w.table = t /\ w.id = i /\ ~w.was.live
DeactivationHolds == [][Reactivated]_accessVars

(* One row for each company and area of the user, the row without area        *)
(* included, for which an ordinary unique index would see no duplicate.      *)
OneRowPerAccess ==
    \A i, j \in In(acl["access"]) : acl["access"][i].target = acl["access"][j].target => i = j

(* "Deja el alcance del usuario exactamente igual a la lista recibida"        *)
(* (user_scope_service.py:172): a replacement that overlaps no other change   *)
(* leaves the accesses it was given and no other.                            *)
Replaced ==
    \A r \in Administrators :
        ask[r].op = "replace_scope" /\ ask'[r] = Resting /\ ~crossed'
        => ask[r].goal = {acl'["access"][i].target :
                             i \in {k \in In(acl'["access"]) : acl'["access"][k].live}}
ReplacedExactly == [][Replaced]_accessVars

(* Once a scope is set, what a user may create, what the lists show and what  *)
(* /auth/me offers for the forms are the same pairs of company and area, as   *)
(* far as company and area are active.                                       *)
ScopeSurfacesAgree ==
    \A c \in Companies, a \in Areas :
        /\ Allows(c, a) <=> Listed(c, a)
        /\ c \in working /\ a \in working =>
              (Allows(c, a) <=> c \in DOMAIN Detail /\ a \in Detail[c])
=============================================================================
