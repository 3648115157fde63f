------------------------------- MODULE Access --------------------------------
(***************************************************************************)
(* Members and access tokens of a workspace (WorkspaceAccessService) and   *)
(* the identity a request works under (get_workspace_context).             *)
(*                                                                         *)
(* update_member counts the owners with a SELECT of count FOR UPDATE.      *)
(* PostgreSQL rejects that statement, so there an active owner can be      *)
(* neither demoted nor disabled.  SQLite runs it without the lock, and     *)
(* locks no row either: two updates may read before one of them commits.   *)
(***************************************************************************)
EXTENDS Naturals, FiniteSets

CONSTANTS
    Users,           \* users that are or become members
    Requesters,      \* requests to the access routes
    MaxAccess        \* bound: how many requests there are

ASSUME AccessAssumption == IsFiniteSet(Users) /\ MaxAccess \in Nat

VARIABLES
    database,  \* "postgresql" or "sqlite"
    member,    \* user -> the workspace_memberships row
    token,     \* user -> the workspace_access_tokens row
    access,    \* request -> the operation at work and what it has read
    accesses   \* requests so far

accessVars == <<database, member, token, access, accesses>>

Roles == {"viewer", "owner"}
NoMember == [role |-> "none", state |-> "none"]
NoAccess == [op |-> "none"]

AccessInit ==
    /\ database \in {"postgresql", "sqlite"}
    /\ member = [u \in Users |-> NoMember]
    /\ token = [u \in Users |-> "none"]
    /\ access = [c \in Requesters |-> NoAccess]
    /\ accesses = 0

Active(u) == member[u].state = "active"
ActiveOwners == {u \in Users : Active(u) /\ member[u].role = "owner"}

----------------------------------------------------------------------------
(* Who asks.                                                               *)

\* resolve_access_token, current_membership: both rows count, so that disabling a
\* member disables the tokens, and enabling the member revives them.
Resolved(u) == token[u] = "active" /\ Active(u)

\* get_workspace_context and require_workspace_role: an owner's token, or the
\* bootstrap key of the deployment, which is an owner's without being a member.
\* The role is read once, when the request starts.
MayAsk(by) == by = "bootstrap" \/ (by \in ActiveOwners /\ Resolved(by))

Asks(c, work) ==
    /\ access[c] = NoAccess
    /\ accesses < MaxAccess
    /\ \E by \in Users \cup {"bootstrap"} : MayAsk(by)
    /\ accesses' = accesses + 1
    /\ access' = [access EXCEPT ![c] = work]
    /\ UNCHANGED <<database, member, token>>

Answers(c) == access' = [access EXCEPT ![c] = NoAccess] /\ UNCHANGED <<database, accesses>>

----------------------------------------------------------------------------
(* Members.                                                                *)

\* create_member: the constraint on workspace and user refuses a second row.
CreateMember(c, u, role) ==
    /\ member[u] = NoMember
    /\ Asks(c, [op |-> "create", user |-> u, row |-> [role |-> role, state |-> "active"]])

CommitMember(c) ==
    LET work == access[c]
    IN
    /\ work.op = "create"
    /\ member' = IF member[work.user] = NoMember
                 THEN [member EXCEPT ![work.user] = work.row] ELSE member
    /\ Answers(c)
    /\ UNCHANGED token

\* Mutant: the owners are not counted.
Dispensable_Always == TRUE

\* "工作区至少需要保留一名启用中的所有者": another active owner is there.
Dispensable == Cardinality(ActiveOwners) > 1

Demotes(u, row) == u \in ActiveOwners /\ row # [role |-> "owner", state |-> "active"]

\* update_member locks the row, except on SQLite.
Blocked(u) ==
    /\ database = "postgresql"
    /\ \E c \in Requesters : access[c].op = "update" /\ access[c].user = u

\* owners records for the properties who was an owner when the members were read.
UpdateMember(c, u, row) ==
    /\ member[u] # NoMember
    /\ ~Blocked(u)
    /\ Demotes(u, row) => database = "sqlite" /\ Dispensable
    /\ Asks(c, [op |-> "update", user |-> u, read |-> member[u], row |-> row,
                owners |-> ActiveOwners])

\* Only the columns that differ from the row read are written.
CommitUpdate(c) ==
    LET work == access[c]
        Column(k) == IF work.row[k] = work.read[k] THEN member[work.user][k] ELSE work.row[k]
    IN
    /\ work.op = "update"
    /\ member' = [member EXCEPT ![work.user] = [k \in DOMAIN work.row |-> Column(k)]]
    /\ Answers(c)
    /\ UNCHANGED token

----------------------------------------------------------------------------
(* Tokens.                                                                 *)

\* create_token looks at the membership; it may be disabled before the commit.
CreateToken(c, u) ==
    /\ Active(u)
    /\ Asks(c, [op |-> "token", user |-> u])

CommitToken(c) ==
    /\ access[c].op = "token"
    /\ token' = [token EXCEPT ![access[c].user] = "active"]
    /\ Answers(c)
    /\ UNCHANGED member

RevokeToken(u) ==
    /\ token[u] = "active"
    /\ token' = [token EXCEPT ![u] = "revoked"]
    /\ UNCHANGED <<database, member, access, accesses>>

\* The transaction is rolled back.
DropAccess(c) ==
    /\ access[c] # NoAccess
    /\ Answers(c)
    /\ UNCHANGED <<member, token>>

AccessNext ==
    \/ \E c \in Requesters :
          \/ CommitMember(c) \/ CommitUpdate(c) \/ CommitToken(c) \/ DropAccess(c)
          \/ \E u \in Users : CreateToken(c, u)
          \/ \E u \in Users, role \in Roles :
                \/ CreateMember(c, u, role)
                \/ \E state \in {"active", "disabled"} :
                      UpdateMember(c, u, [role |-> role, state |-> state])
    \/ \E u \in Users : RevokeToken(u)

AccessSpec == AccessInit /\ [][AccessNext]_accessVars

----------------------------------------------------------------------------
(* Properties                                                              *)

\* "系统必须防止停用或降级最后一名 active owner": a workspace that has an active owner
\* keeps one (docs/01-product-requirements.md:85).  Two updates that overlap on SQLite
\* violate it.
OwnerRemains == [][ActiveOwners # {} => ActiveOwners' # {}]_accessVars

\* On PostgreSQL OwnerRemains holds.  On SQLite the last owner goes only by an update
\* that was overtaken: between its reading of the members and its commit another
\* update changed who the owners are (update_member).
OwnerGoesOnlyOvertaken ==
    [][ActiveOwners # {} /\ ActiveOwners' = {} =>
          /\ database = "sqlite"
          /\ \E c \in Requesters :
                access[c].op = "update" /\ access'[c] = NoAccess /\ access[c].owners # ActiveOwners
      ]_accessVars
=============================================================================
