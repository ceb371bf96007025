----------------------------- MODULE TenantGate -----------------------------
(***************************************************************************)
(* Who gets past requireAuth when a tenant is disabled                     *)
(* (middleware/auth.ts).  A session is checked against a cache of the      *)
(* tenant's status that lives TENANT_CACHE_TTL_MS in one server process; a *)
(* key, and a login (routes/auth.ts), against the row.  Reading the row    *)
(* and acting on it are two steps with at most Delay between them: how     *)
(* long the database takes to answer is external.                          *)
(***************************************************************************)
EXTENDS Integers

CONSTANTS
    Calls,           \* requests being authenticated at the same time
    TTL,             \* TENANT_CACHE_TTL_MS
    Delay,           \* the longest time between a read and its use
    MaxNow           \* bound: the clock

ASSUME GateAssumption == TTL \in Nat \ {0} /\ Delay \in Nat /\ MaxNow \in Nat

VARIABLES
    now,
    tenantStatus,    \* tenants.status
    cache,           \* tenantStatusCache: the entry of the tenant
    call,            \* each request: idle, or waiting with what it read
    lastActive,      \* when the tenant was last ACTIVE
    lag              \* how long after that a request was let in, at most

gateVars == <<now, tenantStatus, cache, call, lastActive, lag>>

NoCall == [pc |-> "idle", saw |-> "DISABLED", at |-> 0]

LetIn ==
    LET late == now - lastActive
    IN  lag' = IF late > lag THEN late ELSE lag

-----------------------------------------------------------------------------
\* PATCH /admin/tenants/:id/status
SetTenantStatus(s) ==
    /\ tenantStatus' = s
    /\ lastActive' = IF s = "ACTIVE" THEN now ELSE lastActive
    /\ UNCHANGED <<now, cache, call, lag>>

\* A hit that also renews the entry.
CacheHitRenews(c) ==
    /\ call[c].pc = "idle"
    /\ cache.expiresAt > now
    /\ IF cache.status = "ACTIVE" THEN LetIn ELSE UNCHANGED lag
    /\ cache' = [cache EXCEPT !.expiresAt = now + TTL]
    /\ UNCHANGED <<now, tenantStatus, call, lastActive>>

\* checkTenantActive: a fresh entry answers.
CacheHit(c) ==
    /\ call[c].pc = "idle"
    /\ cache.expiresAt > now
    /\ IF cache.status = "ACTIVE" THEN LetIn ELSE UNCHANGED lag
    /\ UNCHANGED <<now, tenantStatus, cache, call, lastActive>>

\* checkTenantActive: no fresh entry, the row is read.
CacheMiss(c) ==
    /\ call[c].pc = "idle"
    /\ cache.expiresAt <= now
    /\ call' = [call EXCEPT ![c] = [pc |-> "session", saw |-> tenantStatus, at |-> now]]
    /\ UNCHANGED <<now, tenantStatus, cache, lastActive, lag>>

\* The answer arrives: it is stored under the time of arrival, and used.
CacheStore(c) ==
    /\ call[c].pc = "session"
    /\ cache' = [status |-> call[c].saw, expiresAt |-> now + TTL]
    /\ IF call[c].saw = "ACTIVE" THEN LetIn ELSE UNCHANGED lag
    /\ call' = [call EXCEPT ![c] = NoCall]
    /\ UNCHANGED <<now, tenantStatus, lastActive>>

\* A key, or a login: the row is read on every request.
ReadTenant(c) ==
    /\ call[c].pc = "idle"
    /\ call' = [call EXCEPT ![c] = [pc |-> "direct", saw |-> tenantStatus, at |-> now]]
    /\ UNCHANGED <<now, tenantStatus, cache, lastActive, lag>>

\* The owner is loaded, or the token signed, unless the row said DISABLED.
UseTenant(c) ==
    /\ call[c].pc = "direct"
    /\ IF call[c].saw = "DISABLED" THEN UNCHANGED lag ELSE LetIn
    /\ call' = [call EXCEPT ![c] = NoCall]
    /\ UNCHANGED <<now, tenantStatus, cache, lastActive>>

\* Time passes, but no answer takes longer than Delay.
GateTick ==
    /\ now < MaxNow
    /\ \A c \in Calls : call[c].pc # "idle" => now < call[c].at + Delay
    /\ now' = now + 1
    /\ lastActive' = IF tenantStatus = "ACTIVE" THEN now + 1 ELSE lastActive
    /\ UNCHANGED <<tenantStatus, cache, call, lag>>

GateInit ==
    /\ now = 0
    /\ tenantStatus = "ACTIVE"
    /\ cache = [status |-> "DISABLED", expiresAt |-> 0]
    /\ call = [c \in Calls |-> NoCall]
    /\ lastActive = 0
    /\ lag = 0

GateNext ==
    \/ \E s \in {"ACTIVE", "DISABLED"} : SetTenantStatus(s)
    \/ \E c \in Calls : \/ CacheHit(c)
                        \/ CacheMiss(c)
                        \/ CacheStore(c)
                        \/ ReadTenant(c)
                        \/ UseTenant(c)
    \/ GateTick

GateSpec == GateInit /\ [][GateNext]_gateVars

-----------------------------------------------------------------------------
\* Properties.

(***************************************************************************)
(* The lag the comment at TENANT_CACHE_TTL_MS accepts is not TTL: an       *)
(* answer read just before the tenant is disabled is stored when it        *)
(* arrives and lives TTL from then.  No request, on any path, gets in      *)
(* later than that.                                                        *)
(***************************************************************************)
LagIsBounded == lag < TTL + Delay

(***************************************************************************)
(* What makes it inductive: a status read as ACTIVE, in flight or cached,  *)
(* was true not long ago.                                                  *)
(***************************************************************************)
GateInvariant ==
    /\ now \in Nat /\ lastActive \in Nat /\ lag \in Nat
    /\ tenantStatus \in {"ACTIVE", "DISABLED"}
    /\ cache \in [status : {"ACTIVE", "DISABLED"}, expiresAt : Nat]
    /\ call \in [Calls -> [pc : {"idle", "session", "direct"},
                           saw : {"ACTIVE", "DISABLED"}, at : Nat]]
    /\ lastActive <= now
    /\ tenantStatus = "ACTIVE" => lastActive = now
    /\ cache.status = "ACTIVE" => cache.expiresAt <= lastActive + Delay + TTL
    /\ \A c \in Calls : call[c].pc # "idle" =>
          /\ now <= call[c].at + Delay
          /\ call[c].saw = "ACTIVE" => call[c].at <= lastActive
    /\ LagIsBounded
=============================================================================
