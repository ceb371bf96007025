-------------------------------- MODULE Team --------------------------------
(***************************************************************************)
(* The users of one tenant (routes/users.ts), the sessions they hold and   *)
(* the owner that requireAuth looks up for an API key                      *)
(* (middleware/auth.ts, routes/apiKeys.ts).  A token carries the role its  *)
(* user had at login and is honoured for its lifetime, whatever becomes of *)
(* the user.                                                               *)
(***************************************************************************)
EXTENDS FiniteSets, Naturals

CONSTANT Members     \* email addresses

VARIABLES
    role,            \* users.role, "NONE" without a row
    token,           \* the role in the session each member holds, or "NONE"
    edit,            \* the role change each member's request is making
    apiKey,          \* a key of the tenant: "NONE", "LIVE", "REVOKED"
    keyAnswer        \* the last answer to a request made with the key

teamVars == <<role, token, edit, apiKey, keyAnswer>>

NoEdit == [pc |-> "idle", counted |-> {}]

Owners == {m \in Members : role[m] = "OWNER"}

\* requireOwner on a session.
IsOwner(m) == token[m] = "OWNER"

-----------------------------------------------------------------------------
\* POST /auth/login: the token is signed with the role of the row.
SignIn(m) ==
    /\ role[m] # "NONE"
    /\ token' = [token EXCEPT ![m] = role[m]]
    /\ UNCHANGED <<role, edit, apiKey, keyAnswer>>

SessionExpires(m) ==
    /\ token[m] # "NONE"
    /\ edit[m].pc = "idle"
    /\ token' = [token EXCEPT ![m] = "NONE"]
    /\ UNCHANGED <<role, edit, apiKey, keyAnswer>>

\* POST /users/invite
Invite(a, m, r) ==
    /\ IsOwner(a)
    /\ role[m] = "NONE"
    /\ role' = [role EXCEPT ![m] = r]
    /\ UNCHANGED <<token, edit, apiKey, keyAnswer>>

\* PATCH /users/:id/role on oneself: the owners are counted.
CountOwners(a) ==
    /\ IsOwner(a)
    /\ edit[a].pc = "idle"
    /\ Cardinality(Owners) > 1
    /\ edit' = [edit EXCEPT ![a] = [pc |-> "counted", counted |-> Owners]]
    /\ UNCHANGED <<role, token, apiKey, keyAnswer>>

\* The update that follows the count; it fails when the row is gone.
StepDown(a) ==
    /\ edit[a].pc = "counted"
    /\ role' = IF role[a] = "NONE" THEN role ELSE [role EXCEPT ![a] = "STAFF"]
    /\ edit' = [edit EXCEPT ![a] = NoEdit]
    /\ UNCHANGED <<token, apiKey, keyAnswer>>

\* PATCH /users/:id/role on somebody else, or on oneself to OWNER: no count.
ChangeRole(a, m, r) ==
    /\ IsOwner(a)
    /\ a = m => r = "OWNER"
    /\ role[m] # "NONE"
    /\ role' = [role EXCEPT ![m] = r]
    /\ UNCHANGED <<token, edit, apiKey, keyAnswer>>

\* A removal that does not look whose account it is.
RemoveAnyMember(a, m) ==
    /\ IsOwner(a)
    /\ role[m] # "NONE"
    /\ role' = [role EXCEPT ![m] = "NONE"]
    /\ UNCHANGED <<token, edit, apiKey, keyAnswer>>

\* DELETE /users/:id: anybody but oneself.
RemoveMember(a, m) ==
    /\ IsOwner(a)
    /\ a # m
    /\ role[m] # "NONE"
    /\ role' = [role EXCEPT ![m] = "NONE"]
    /\ UNCHANGED <<token, edit, apiKey, keyAnswer>>

\* POST and DELETE /api-keys
CreateKey(a) ==
    /\ IsOwner(a)
    /\ apiKey = "NONE"
    /\ apiKey' = "LIVE"
    /\ UNCHANGED <<role, token, edit, keyAnswer>>

RevokeKey(a) ==
    /\ IsOwner(a)
    /\ apiKey = "LIVE"
    /\ apiKey' = "REVOKED"
    /\ UNCHANGED <<role, token, edit, keyAnswer>>

\* requireAuth with the key: it acts as an owner, and needs one.
UseKey ==
    /\ apiKey # "NONE"
    /\ keyAnswer' = CASE apiKey = "REVOKED" -> 401
                      [] apiKey = "LIVE" /\ Owners = {} -> 500
                      [] OTHER -> 200
    /\ UNCHANGED <<role, token, edit, apiKey>>

\* POST /auth/register: the tenant starts with one owner, signed in.
TeamInit ==
    /\ \E m \in Members :
          /\ role = [n \in Members |-> IF n = m THEN "OWNER" ELSE "NONE"]
          /\ token = role
    /\ edit = [m \in Members |-> NoEdit]
    /\ apiKey = "NONE"
    /\ keyAnswer = 0

TeamNext ==
    \/ UseKey
    \/ \E a \in Members :
          \/ SignIn(a)
          \/ SessionExpires(a)
          \/ CountOwners(a)
          \/ StepDown(a)
          \/ CreateKey(a)
          \/ RevokeKey(a)
          \/ \E m \in Members : RemoveMember(a, m)
          \/ \E m \in Members, r \in {"OWNER", "STAFF"} : Invite(a, m, r) \/ ChangeRole(a, m, r)

TeamSpec == TeamInit /\ [][TeamNext]_teamVars

-----------------------------------------------------------------------------
\* Properties.

(***************************************************************************)
(* A tenant loses its last owner, by whichever request, only to requests   *)
(* that overlap or to a session that outlived its role: an owner who steps *)
(* down had counted another who has left since, or whoever removes or      *)
(* demotes the last owner acts on a token of a role taken away from it.    *)
(* Taken one after the other, with tokens that are up to date, no requests *)
(* leave a tenant without an owner, whose API keys would answer 500.       *)
(***************************************************************************)
OwnerLostOnlyByRace ==
    [][Owners # {} /\ Owners' = {}
       => \E a \in Members :
             \/ StepDown(a) /\ (edit[a].counted \ {a}) \ Owners # {}
             \/ /\ role[a] # "OWNER"
                /\ \E m \in Members : RemoveMember(a, m) \/ ChangeRole(a, m, "STAFF")]_teamVars
=============================================================================
