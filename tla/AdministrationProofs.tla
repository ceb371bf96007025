------------------------ MODULE AdministrationProofs ------------------------
(***************************************************************************)
(* The machines around the money path, each for every value of its         *)
(* constants: versions, the tenant gate, the review desks, the provider    *)
(* configuration, the team, webhooks in and out, the split arithmetic, the *)
(* books, the settlement policies, the sandbox charge, the checkout, the   *)
(* paged lists and the currencies.                                         *)
(* They share no state and each has a specification of its own.            *)
(***************************************************************************)
EXTENDS Versions, TenantGate, Policies, Desk, ProviderConfigs, Team, WebhookIngress,
        Notifications, Bookkeeping, PricingCases, Checkout, SandboxCharge, Listings, Fx,
        MoneyProofs

-----------------------------------------------------------------------------
\* createFeeSchedule: the invariant holds before the first version exists.
LEMMA VersionsStart == VersionsInit => VersionsInvariant
BY DEF VersionsInit, VersionsInvariant, NewestIsActive, NoWriter

(***************************************************************************)
(* createFeeSchedule, createSettlementPolicy: each statement of the        *)
(* transaction keeps the invariant.                                        *)
(***************************************************************************)
LEMMA VersionsStep == VersionsInvariant /\ [VersionsNext]_versionsVars => VersionsInvariant'
<1> SUFFICES ASSUME VersionsInvariant, [VersionsNext]_versionsVars
             PROVE  VersionsInvariant'
    OBVIOUS
<1> USE DEF VersionsInvariant, NewestIsActive
<1>1. ASSUME NEW w \in Writers, ReadHighest(w) PROVE VersionsInvariant'
    <2>1. /\ last' = last /\ active' = active
          /\ writer' = [writer EXCEPT ![w] = [pc |-> "read", version |-> last + 1, off |-> {}]]
        BY <1>1 DEF ReadHighest
    <2>2. [pc |-> "read", version |-> last + 1, off |-> {}]
             \in [pc : {"idle", "read", "off"}, version : Nat, off : SUBSET Nat]
        OBVIOUS
    <2>3. writer' \in [Writers -> [pc : {"idle", "read", "off"},
                                   version : Nat, off : SUBSET Nat]]
        BY <2>1, <2>2
    <2>4. ASSUME NEW v \in Writers
          PROVE  /\ writer'[v].version <= last + 1
                 /\ writer'[v].pc # "idle" => writer'[v].version >= 1
                 /\ writer'[v].pc = "off" /\ writer'[v].version = last + 1
                       => writer'[v].off = active
        <3>1. CASE v = w
            BY <2>1, <3>1
        <3>2. CASE v # w
            BY <2>1, <3>2
        <3> QED
            BY <3>1, <3>2
    <2> QED
        BY <2>1, <2>3, <2>4
<1>2. ASSUME NEW w \in Writers, SwitchOff(w) PROVE VersionsInvariant'
    <2>1. /\ last' = last /\ active' = active /\ writer[w].pc = "read"
          /\ writer' = [writer EXCEPT ![w] = [@ EXCEPT !.pc = "off", !.off = active]]
        BY <1>2 DEF SwitchOff
    <2>2. active \in SUBSET Nat
        OBVIOUS
    <2>3. [writer[w] EXCEPT !.pc = "off", !.off = active]
             \in [pc : {"idle", "read", "off"}, version : Nat, off : SUBSET Nat]
        BY <2>2
    <2>4. writer' \in [Writers -> [pc : {"idle", "read", "off"},
                                   version : Nat, off : SUBSET Nat]]
        BY <2>1, <2>3
    <2>5. ASSUME NEW v \in Writers
          PROVE  /\ writer'[v].version <= last + 1
                 /\ writer'[v].pc # "idle" => writer'[v].version >= 1
                 /\ writer'[v].pc = "off" /\ writer'[v].version = last + 1
                       => writer'[v].off = active
        <3>1. CASE v = w
            BY <2>1, <3>1
        <3>2. CASE v # w
            BY <2>1, <3>2
        <3> QED
            BY <3>1, <3>2
    <2> QED
        BY <2>1, <2>4, <2>5
<1>3. ASSUME NEW w \in Writers, InsertVersion(w) PROVE VersionsInvariant'
    <2>3. writer' = [writer EXCEPT ![w] = NoWriter]
        BY <1>3 DEF InsertVersion
    <2>4. writer' \in [Writers -> [pc : {"idle", "read", "off"},
                                   version : Nat, off : SUBSET Nat]]
        BY <2>3 DEF NoWriter
    <2>1. CASE writer[w].version \in 1..last
        <3>1. last' = last /\ active' = active
            BY <1>3, <2>1 DEF InsertVersion
        <3>2. ASSUME NEW v \in Writers
              PROVE  /\ writer'[v].version <= last + 1
                     /\ writer'[v].pc # "idle" => writer'[v].version >= 1
                     /\ writer'[v].pc = "off" /\ writer'[v].version = last + 1
                           => writer'[v].off = active
            <4>1. CASE v = w
                BY <2>3, <4>1 DEF NoWriter
            <4>2. CASE v # w
                BY <2>3, <4>2
            <4> QED
                BY <4>1, <4>2
        <3> QED
            BY <2>4, <3>1, <3>2
    <2>2. CASE writer[w].version \notin 1..last
        <3>1. /\ writer[w].pc = "off" /\ writer[w].version \in Nat
              /\ writer[w].version >= 1 /\ writer[w].version <= last + 1
            BY <1>3 DEF InsertVersion
        <3>2. writer[w].version = last + 1
            BY <2>2, <3>1
        <3>3. writer[w].off = active
            BY <3>1, <3>2
        <3>4. last' = last + 1 /\ active' = {last + 1}
            BY <1>3, <2>2, <3>2, <3>3 DEF InsertVersion
        <3>5. ASSUME NEW v \in Writers
              PROVE  /\ writer'[v].version <= last + 1
                     /\ writer'[v].pc # "idle" => writer'[v].version >= 1
            <4>1. CASE v = w
                BY <2>3, <4>1 DEF NoWriter
            <4>2. CASE v # w
                BY <2>3, <4>2
            <4> QED
                BY <4>1, <4>2
        <3>6. ASSUME NEW v \in Writers PROVE writer'[v].version \in Nat
            BY <2>4
        <3> QED
            BY <2>4, <3>4, <3>5, <3>6
    <2> QED
        BY <2>1, <2>2
<1>4. CASE UNCHANGED versionsVars
    BY <1>4 DEF versionsVars
<1> QED
    BY <1>1, <1>2, <1>3, <1>4 DEF VersionsNext

(***************************************************************************)
(* fees-db.ts, policy-db.ts: the newest version and no other is active,    *)
(* although nothing but a unique index orders the writers.                 *)
(***************************************************************************)
THEOREM NewestVersionActive == VersionsSpec => []NewestIsActive
<1>1. VersionsInvariant => NewestIsActive
    BY DEF VersionsInvariant
<1> QED
    BY VersionsStart, VersionsStep, <1>1, PTL DEF VersionsSpec

-----------------------------------------------------------------------------
\* checkTenantActive: an empty cache and no request.
LEMMA GateStart == GateInit => GateInvariant
BY GateAssumption DEF GateInit, GateInvariant, NoCall, LagIsBounded

(***************************************************************************)
(* requireAuth: a request let in at most that long after the tenant was    *)
(* ACTIVE keeps the bound.                                                 *)
(***************************************************************************)
LEMMA LetInBounded ==
    ASSUME GateInvariant, now - lastActive < TTL + Delay, LetIn
    PROVE  lag' \in Nat /\ lag' < TTL + Delay
<1>1. now - lastActive \in Nat
    BY DEF GateInvariant
<1> QED
    BY <1>1 DEF GateInvariant, LetIn, LagIsBounded

\* middleware/auth.ts, routes/auth.ts: every step keeps the invariant.
LEMMA GateStep == GateInvariant /\ [GateNext]_gateVars => GateInvariant'
<1> SUFFICES ASSUME GateInvariant, [GateNext]_gateVars
             PROVE  GateInvariant'
    OBVIOUS
<1> USE GateAssumption
<1>1. ASSUME NEW s \in {"ACTIVE", "DISABLED"}, SetTenantStatus(s) PROVE GateInvariant'
    BY <1>1 DEF SetTenantStatus, GateInvariant, LagIsBounded
<1>2. ASSUME NEW c \in Calls, CacheHit(c) PROVE GateInvariant'
    <2>1. lag' \in Nat /\ lag' < TTL + Delay
        <3>1. CASE cache.status = "ACTIVE"
            <4>1. now - lastActive < TTL + Delay
                BY <1>2, <3>1 DEF CacheHit, GateInvariant
            <4> QED
                BY <1>2, <3>1, <4>1, LetInBounded DEF CacheHit
        <3>2. CASE cache.status # "ACTIVE"
            BY <1>2, <3>2 DEF CacheHit, GateInvariant, LagIsBounded
        <3> QED
            BY <3>1, <3>2
    <2> QED
        BY <1>2, <2>1 DEF CacheHit, GateInvariant, LagIsBounded
<1>3. ASSUME NEW c \in Calls, CacheMiss(c) PROVE GateInvariant'
    BY <1>3 DEF CacheMiss, GateInvariant, LagIsBounded
<1>4. ASSUME NEW c \in Calls, call[c].pc # "idle", call[c].saw = "ACTIVE"
      PROVE  now - lastActive < TTL + Delay
    BY <1>4 DEF GateInvariant
<1>5. ASSUME NEW c \in Calls, CacheStore(c) PROVE GateInvariant'
    <2>1. lag' \in Nat /\ lag' < TTL + Delay
        <3>1. CASE call[c].saw = "ACTIVE"
            BY <1>4, <1>5, <3>1, LetInBounded DEF CacheStore
        <3>2. CASE call[c].saw # "ACTIVE"
            BY <1>5, <3>2 DEF CacheStore, GateInvariant, LagIsBounded
        <3> QED
            BY <3>1, <3>2
    <2>2. /\ cache' \in [status : {"ACTIVE", "DISABLED"}, expiresAt : Nat]
          /\ cache'.status = "ACTIVE" => cache'.expiresAt <= lastActive + Delay + TTL
        BY <1>5 DEF CacheStore, GateInvariant
    <2> QED
        BY <1>5, <2>1, <2>2 DEF CacheStore, NoCall, GateInvariant, LagIsBounded
<1>6. ASSUME NEW c \in Calls, ReadTenant(c) PROVE GateInvariant'
    BY <1>6 DEF ReadTenant, GateInvariant, LagIsBounded
<1>7. ASSUME NEW c \in Calls, UseTenant(c) PROVE GateInvariant'
    <2>1. lag' \in Nat /\ lag' < TTL + Delay
        <3>1. CASE call[c].saw = "DISABLED"
            BY <1>7, <3>1 DEF UseTenant, GateInvariant, LagIsBounded
        <3>2. CASE call[c].saw # "DISABLED"
            <4>1. call[c].saw = "ACTIVE"
                BY <3>2 DEF GateInvariant
            <4> QED
                BY <1>4, <1>7, <3>2, <4>1, LetInBounded DEF UseTenant
        <3> QED
            BY <3>1, <3>2
    <2> QED
        BY <1>7, <2>1 DEF UseTenant, NoCall, GateInvariant, LagIsBounded
<1>8. CASE GateTick
    BY <1>8 DEF GateTick, GateInvariant, LagIsBounded
<1>9. CASE UNCHANGED gateVars
    BY <1>9 DEF gateVars, GateInvariant, LagIsBounded
<1> QED
    BY <1>1, <1>2, <1>3, <1>5, <1>6, <1>7, <1>8, <1>9 DEF GateNext

(***************************************************************************)
(* middleware/auth.ts: a disabled tenant is shut out on every path within  *)
(* TTL and the time of one answer of the database.                         *)
(***************************************************************************)
THEOREM DisabledTenantShutOut == GateSpec => []LagIsBounded
<1>1. GateInvariant => LagIsBounded
    BY DEF GateInvariant
<1> QED
    BY GateStart, GateStep, <1>1, PTL DEF GateSpec

-----------------------------------------------------------------------------
(***************************************************************************)
(* What a request of the review desks is about to write is a transition    *)
(* that was allowed from the status it has read.                           *)
(***************************************************************************)
DeskInvariant ==
    /\ DOMAIN clerk = Clerks
    /\ \A c \in Clerks : \/ clerk[c] = NoClerk
                         \/ /\ clerk[c].at \in {"application", "statement"}
                            /\ canTransition(clerk[c].at, clerk[c].saw, clerk[c].to)
    /\ application = [status |-> application.status, fields |-> application.fields]

\* onboarding-db.ts, statements-db.ts: reading a row and asserting the transition.
LEMMA DecideKeepsDesk ==
    ASSUME DeskInvariant, NEW c \in Clerks, NEW at \in {"application", "statement"},
           NEW to, Decide(c, at, to)
    PROVE  DeskInvariant' /\ application' = application /\ statement' = statement
<1> DEFINE decision == [at |-> at, saw |-> Status(at), to |-> to]
<1>1. /\ application' = application /\ statement' = statement
      /\ clerk' = [clerk EXCEPT ![c] = decision] /\ canTransition(at, Status(at), to)
    BY DEF Decide
<1>2. DOMAIN clerk' = Clerks
    BY <1>1 DEF DeskInvariant
<1>3. ASSUME NEW d \in Clerks
      PROVE  \/ clerk'[d] = NoClerk
             \/ /\ clerk'[d].at \in {"application", "statement"}
                /\ canTransition(clerk'[d].at, clerk'[d].saw, clerk'[d].to)
    <2>1. CASE d = c
        BY <1>1, <2>1 DEF DeskInvariant
    <2>2. CASE d # c
        BY <1>1, <2>2 DEF DeskInvariant
    <2> QED
        BY <2>1, <2>2
<1> HIDE DEF decision
<1> QED
    BY <1>1, <1>2, <1>3 DEF DeskInvariant

\* The step of the review desks, as the property speaks of it.
FinalStep ==
    \A at \in {"application", "statement"} :
        Status(at) \in {"APPROVED", "VOID"} /\ Status(at)' # Status(at)
           => \E c \in Clerks : clerk[c].at = at /\ clerk[c].saw # Status(at)

\* routes/onboarding.ts, routes/statements.ts, routes/admin.ts: every request.
LEMMA DeskStep ==
    ASSUME DeskInvariant, [DeskNext]_deskVars
    PROVE  DeskInvariant' /\ FinalStep
<1>1. ASSUME NEW fields \in {"blank", "first", "second"}, upsertOnboarding(fields)
      PROVE  DeskInvariant' /\ FinalStep
    BY <1>1 DEF upsertOnboarding, DeskInvariant, FinalStep, Status, canTransition
<1>2. CASE createSettlementStatement
    BY <1>2 DEF createSettlementStatement, DeskInvariant, FinalStep, Status, canTransition
<1>3. ASSUME NEW c \in Clerks, NEW at \in {"application", "statement"},
             NEW to, Decide(c, at, to)
      PROVE  DeskInvariant' /\ FinalStep
    BY <1>3, DecideKeepsDesk DEF FinalStep, Status
<1>4. ASSUME NEW c \in Clerks, WriteDecision(c)
      PROVE  DeskInvariant' /\ FinalStep
    <2>1. /\ clerk[c].at \in {"application", "statement"}
          /\ canTransition(clerk[c].at, clerk[c].saw, clerk[c].to)
          /\ clerk' = [clerk EXCEPT ![c] = NoClerk]
        BY <1>4 DEF WriteDecision, DeskInvariant
    <2>2. DeskInvariant'
        BY <1>4, <2>1 DEF WriteDecision, DeskInvariant, NoClerk, canTransition
    <2>3. ASSUME NEW at \in {"application", "statement"},
                 Status(at) \in {"APPROVED", "VOID"}, Status(at)' # Status(at)
          PROVE  clerk[c].at = at /\ clerk[c].saw # Status(at)
        BY <1>4, <2>1, <2>3 DEF WriteDecision, Status, canTransition
    <2> QED
        BY <2>2, <2>3 DEF FinalStep
<1>5. CASE UNCHANGED deskVars
    BY <1>5 DEF deskVars, DeskInvariant, FinalStep, Status, canTransition
<1> QED
    BY <1>1, <1>2, <1>3, <1>4, <1>5 DEF DeskNext, submitOnboarding, approveOnboarding,
       rejectOnboarding, requestInfoOnboarding, finalizeSettlementStatement,
       voidSettlementStatement

(***************************************************************************)
(* onboarding-db.ts, statements-db.ts: an approved application and a void  *)
(* statement change only at the hand of a request that had read the row    *)
(* before, for any number of requests.                                     *)
(***************************************************************************)
THEOREM DecisionsAreFinal == DeskSpec => FinalUnlessOverlapped
<1>1. DeskInit => DeskInvariant
    BY DEF DeskInit, DeskInvariant, NoClerk
<1>2. DeskInvariant /\ [DeskNext]_deskVars => DeskInvariant' /\ [FinalStep]_deskVars
    BY DeskStep
<1>3. [][FinalStep]_deskVars => FinalUnlessOverlapped
    BY PTL DEF FinalUnlessOverlapped, FinalStep
<1> QED
    BY <1>1, <1>2, <1>3, PTL DEF DeskSpec

-----------------------------------------------------------------------------
(***************************************************************************)
(* What a request on the provider configuration is about to write, by what *)
(* it does and what it has read.                                           *)
(***************************************************************************)
ConfigInvariant ==
    /\ DOMAIN editor = Editors
    /\ \A e \in Editors :
          /\ editor[e].op = "save" /\ editor[e].saw = "DISABLED" => editor[e].to = "DISABLED"
          /\ editor[e].op = "test" => editor[e].saw # "DISABLED"
          /\ editor[e].op = "disable" => editor[e].to = "DISABLED"

DisabledStep ==
    config.status = "DISABLED" /\ config'.status \notin {"DISABLED", "NONE"}
       => \E e \in Editors : /\ editor'[e] # editor[e]
                             /\ \/ editor[e].op = "enable"
                                \/ editor[e].saw # "DISABLED"

\* routes/providerConfig.ts: a request that reads the row.
LEMMA PendingKeepsConfig ==
    ASSUME ConfigInvariant, NEW e \in Editors, NEW op, NEW to, Pending(e, op, to),
           op = "save" /\ config.status = "DISABLED" => to = "DISABLED",
           op = "test" => config.status # "DISABLED",
           op = "disable" => to = "DISABLED"
    PROVE  ConfigInvariant' /\ DisabledStep
<1>1. /\ config' = config
      /\ editor' = [editor EXCEPT ![e] = [op |-> op, id |-> config.id,
                                          saw |-> config.status, to |-> to]]
    BY DEF Pending
<1>2. DOMAIN editor' = Editors
    BY <1>1 DEF ConfigInvariant
<1>3. ASSUME NEW d \in Editors
      PROVE  /\ editor'[d].op = "save" /\ editor'[d].saw = "DISABLED"
                   => editor'[d].to = "DISABLED"
             /\ editor'[d].op = "test" => editor'[d].saw # "DISABLED"
             /\ editor'[d].op = "disable" => editor'[d].to = "DISABLED"
    <2>1. CASE d = e
        BY <1>1, <2>1 DEF ConfigInvariant
    <2>2. CASE d # e
        BY <1>1, <2>2 DEF ConfigInvariant
    <2> QED
        BY <2>1, <2>2
<1> QED
    BY <1>1, <1>2, <1>3 DEF ConfigInvariant, DisabledStep

\* routes/providerConfig.ts: the write that ends a request.
LEMMA WrittenKeepsConfig ==
    ASSUME ConfigInvariant, NEW e \in Editors, editor' = [editor EXCEPT ![e] = NoEditor]
    PROVE  ConfigInvariant'
<1>1. DOMAIN editor' = Editors
    BY DEF ConfigInvariant
<1>2. ASSUME NEW d \in Editors
      PROVE  /\ editor'[d].op = "save" /\ editor'[d].saw = "DISABLED"
                   => editor'[d].to = "DISABLED"
             /\ editor'[d].op = "test" => editor'[d].saw # "DISABLED"
             /\ editor'[d].op = "disable" => editor'[d].to = "DISABLED"
    <2>1. CASE d = e
        BY <2>1 DEF ConfigInvariant, NoEditor
    <2>2. CASE d # e
        BY <2>2 DEF ConfigInvariant
    <2> QED
        BY <2>1, <2>2
<1> QED
    BY <1>1, <1>2 DEF ConfigInvariant

\* routes/providerConfig.ts: every request.
LEMMA ConfigStep ==
    ASSUME ConfigInvariant, [ConfigNext]_configVars
    PROVE  ConfigInvariant' /\ DisabledStep
<1>1. CASE DeleteConfig
    BY <1>1 DEF DeleteConfig, ConfigInvariant, DisabledStep
<1>2. ASSUME NEW e \in Editors, SaveReads(e) PROVE ConfigInvariant' /\ DisabledStep
    BY <1>2, PendingKeepsConfig DEF SaveReads
<1>3. ASSUME NEW e \in Editors, SaveWrites(e) PROVE ConfigInvariant' /\ DisabledStep
    <2>1. editor[e].op = "save" /\ editor' = [editor EXCEPT ![e] = NoEditor]
        BY <1>3 DEF SaveWrites
    <2>2. editor'[e] # editor[e]
        BY <2>1 DEF ConfigInvariant, NoEditor
    <2>3. ASSUME config.status = "DISABLED", config'.status \notin {"DISABLED", "NONE"}
          PROVE  editor[e].saw # "DISABLED"
        BY <1>3, <2>1, <2>3 DEF SaveWrites, ConfigInvariant
    <2> QED
        BY <2>1, <2>2, <2>3, WrittenKeepsConfig DEF DisabledStep
<1>4. ASSUME NEW e \in Editors, Enable(e) PROVE ConfigInvariant' /\ DisabledStep
    BY <1>4, PendingKeepsConfig DEF Enable
<1>5. ASSUME NEW e \in Editors, Disable(e) PROVE ConfigInvariant' /\ DisabledStep
    BY <1>5, PendingKeepsConfig DEF Disable
<1>6. ASSUME NEW e \in Editors, NEW answer, TestConnection(e, answer)
      PROVE  ConfigInvariant' /\ DisabledStep
    BY <1>6, PendingKeepsConfig DEF TestConnection
<1>7. ASSUME NEW e \in Editors, WriteStatus(e) PROVE ConfigInvariant' /\ DisabledStep
    <2>1. /\ editor[e].op \in {"enable", "disable", "test"}
          /\ editor' = [editor EXCEPT ![e] = NoEditor]
        BY <1>7 DEF WriteStatus
    <2>2. editor'[e] # editor[e]
        BY <2>1 DEF ConfigInvariant, NoEditor
    <2>3. ASSUME config.status = "DISABLED", config'.status \notin {"DISABLED", "NONE"}
          PROVE  editor[e].op = "enable" \/ editor[e].saw # "DISABLED"
        <3>1. config' = [config EXCEPT !.status = editor[e].to]
            BY <1>7, <2>3 DEF WriteStatus
        <3>2. editor[e].op # "disable"
            BY <2>3, <3>1 DEF ConfigInvariant
        <3> QED
            BY <2>1, <3>2 DEF ConfigInvariant
    <2> QED
        BY <2>1, <2>2, <2>3, WrittenKeepsConfig DEF DisabledStep
<1>8. CASE UNCHANGED configVars
    BY <1>8 DEF configVars, ConfigInvariant, DisabledStep
<1> QED
    BY <1>1, <1>2, <1>3, <1>4, <1>5, <1>6, <1>7, <1>8 DEF ConfigNext

(***************************************************************************)
(* providerConfig.ts: a disabled provider is enabled by an explicit        *)
(* request only, or by a save or a test that had read the row before it    *)
(* was disabled, for any number of requests and of saves.                  *)
(***************************************************************************)
THEOREM DisabledStaysDisabled == ConfigSpec => DisabledUntilEnabled
<1>1. ConfigInit => ConfigInvariant
    BY DEF ConfigInit, ConfigInvariant, NoEditor
<1>2. ConfigInvariant /\ [ConfigNext]_configVars => ConfigInvariant' /\ [DisabledStep]_configVars
    BY ConfigStep
<1>3. [][DisabledStep]_configVars => DisabledUntilEnabled
    BY PTL DEF DisabledUntilEnabled, DisabledStep
<1> QED
    BY <1>1, <1>2, <1>3, PTL DEF ConfigSpec

-----------------------------------------------------------------------------
\* Whoever was let through the count had counted somebody else.
TeamInvariant ==
    /\ role \in [Members -> {"NONE", "OWNER", "STAFF"}]
    /\ edit \in [Members -> [pc : {"idle", "counted"}, counted : SUBSET Members]]
    /\ \A a \in Members : edit[a].pc = "counted" => edit[a].counted \ {a} # {}

OwnerStep ==
    Owners # {} /\ Owners' = {}
    => \E a \in Members :
          \/ StepDown(a) /\ (edit[a].counted \ {a}) \ Owners # {}
          \/ /\ role[a] # "OWNER"
             /\ \E m \in Members : RemoveMember(a, m) \/ ChangeRole(a, m, "STAFF")

\* routes/users.ts: more than one owner means one besides oneself.
LEMMA AnotherOwner ==
    ASSUME NEW a, Cardinality(Owners) > 1
    PROVE  Owners \ {a} # {}
<1> SUFFICES ASSUME Owners \ {a} = {} PROVE FALSE
    OBVIOUS
<1>1. Owners = {} \/ Owners = {a}
    OBVIOUS
<1>2. Cardinality({}) = 0 /\ Cardinality({a}) = 1
    BY FS_EmptySet, FS_Singleton
<1> QED
    BY <1>1, <1>2

\* routes/users.ts, routes/auth.ts, routes/apiKeys.ts: every request.
LEMMA TeamStep == TeamInvariant /\ [TeamNext]_teamVars => TeamInvariant'
<1> SUFFICES ASSUME TeamInvariant, [TeamNext]_teamVars PROVE TeamInvariant'
    OBVIOUS
<1>1. ASSUME role' = role, edit' = edit PROVE TeamInvariant'
    BY <1>1 DEF TeamInvariant
<1>2. ASSUME NEW a \in Members, CountOwners(a) PROVE TeamInvariant'
    <2>1. role' = role /\ edit' = [edit EXCEPT ![a] = [pc |-> "counted", counted |-> Owners]]
        BY <1>2 DEF CountOwners
    <2>2. Owners \in SUBSET Members /\ Owners \ {a} # {}
        BY <1>2, AnotherOwner DEF CountOwners, Owners
    <2> QED
        BY <2>1, <2>2 DEF TeamInvariant
<1>3. ASSUME NEW a \in Members, StepDown(a) PROVE TeamInvariant'
    BY <1>3 DEF StepDown, TeamInvariant, NoEdit
<1>4. ASSUME NEW m \in Members, NEW r \in {"NONE", "OWNER", "STAFF"},
             role' = [role EXCEPT ![m] = r], edit' = edit
      PROVE  TeamInvariant'
    BY <1>4 DEF TeamInvariant
<1> QED
    BY <1>1, <1>2, <1>3, <1>4 DEF TeamNext, teamVars, UseKey, SignIn, SessionExpires,
       CreateKey, RevokeKey, RemoveMember, Invite, ChangeRole

\* Whoever steps down was counted with another; whoever acts on another stays.
LEMMA LastOwnerLost == TeamInvariant /\ [TeamNext]_teamVars => [OwnerStep]_teamVars
<1> SUFFICES ASSUME TeamInvariant, TeamNext, Owners # {}, Owners' = {}
             PROVE  \E a \in Members :
                       \/ StepDown(a) /\ (edit[a].counted \ {a}) \ Owners # {}
                       \/ /\ role[a] # "OWNER"
                          /\ \E m \in Members : RemoveMember(a, m) \/ ChangeRole(a, m, "STAFF")
    BY DEF OwnerStep
<1>1. PICK o \in Members : role[o] = "OWNER"
    BY DEF Owners
<1>2. \A m \in Members : role'[m] # "OWNER"
    BY DEF Owners
<1>3. role \in [Members -> {"NONE", "OWNER", "STAFF"}]
    BY DEF TeamInvariant
<1>4. role' # role
    BY <1>1, <1>2
<1>5. CASE \E a \in Members : StepDown(a)
    <2>1. PICK a \in Members : StepDown(a)
        BY <1>5
    <2>2. \A m \in Members \ {a} : role'[m] = role[m]
        BY <1>3, <2>1 DEF StepDown
    <2>3. Owners \subseteq {a}
        BY <1>2, <2>2 DEF Owners
    <2>4. edit[a].counted \ {a} # {}
        BY <2>1 DEF StepDown, TeamInvariant
    <2> QED
        BY <2>1, <2>3, <2>4
<1>6. CASE \E a \in Members, m \in Members : RemoveMember(a, m)
    <2>1. PICK a \in Members, m \in Members : RemoveMember(a, m)
        BY <1>6
    <2>2. role'[a] = role[a]
        BY <1>3, <2>1 DEF RemoveMember
    <2> QED
        BY <1>2, <2>1, <2>2
<1>7. CASE \E a \in Members, m \in Members, r \in {"OWNER", "STAFF"} : ChangeRole(a, m, r)
    <2>1. PICK a \in Members, m \in Members, r \in {"OWNER", "STAFF"} : ChangeRole(a, m, r)
        BY <1>7
    <2>2. role' = [role EXCEPT ![m] = r] /\ (a = m => r = "OWNER")
        BY <2>1 DEF ChangeRole
    <2>3. role'[m] = r
        BY <1>3, <2>2
    <2>4. r = "STAFF" /\ a # m
        BY <1>2, <2>2, <2>3
    <2>5. role'[a] = role[a]
        BY <1>3, <2>2, <2>4
    <2> QED
        BY <1>2, <2>1, <2>4, <2>5
<1>8. CASE \E a \in Members, m \in Members, r \in {"OWNER", "STAFF"} : Invite(a, m, r)
    <2>1. PICK a \in Members, m \in Members, r \in {"OWNER", "STAFF"} : Invite(a, m, r)
        BY <1>8
    <2>2. role[m] = "NONE" /\ role' = [role EXCEPT ![m] = r]
        BY <2>1 DEF Invite
    <2>3. o # m /\ role'[o] = role[o]
        BY <1>1, <1>3, <2>2
    <2> QED
        BY <1>1, <1>2, <2>3
<1> QED
    BY <1>4, <1>5, <1>6, <1>7, <1>8 DEF TeamNext, UseKey, SignIn, SessionExpires, CountOwners,
       CreateKey, RevokeKey

(***************************************************************************)
(* users.ts: for any number of members, a tenant loses its last owner only *)
(* to requests that overlap or to a session that outlived its role.        *)
(***************************************************************************)
THEOREM OwnersOutliveRequests == TeamSpec => OwnerLostOnlyByRace
<1>1. TeamInit => TeamInvariant
    BY DEF TeamInit, TeamInvariant, NoEdit
<1>2. [][OwnerStep]_teamVars => OwnerLostOnlyByRace
    BY PTL DEF OwnerLostOnlyByRace, OwnerStep
<1> QED
    BY <1>1, <1>2, TeamStep, LastOwnerLost, PTL DEF TeamSpec

-----------------------------------------------------------------------------
(***************************************************************************)
(* An event that was applied is stored; one that waits in the queue was    *)
(* not, and the queue remembers its key; a callback that is past the       *)
(* lookup of a stored event finds the key remembered.                      *)
(***************************************************************************)
IngressInvariant ==
    /\ delivery \in [Deliveries -> [pc : {"idle", "verify", "look", "send"},
                                   event : Events \cup {NoDelivery.event}]]
    /\ handled \in [Events -> Nat]
    /\ \A e \in Events : handled[e] = IF e \in stored THEN 1 ELSE 0
    /\ \A e \in queue : e \notin stored /\ e \in recent
    /\ \A d \in Deliveries : delivery[d].pc = "send" /\ delivery[d].event \in stored
                                => delivery[d].event \in recent

\* routes/webhooks.ts: the answer of the route ends the callback.
LEMMA AnsweredCallback ==
    ASSUME IngressInvariant, NEW d \in Deliveries, Answered(d)
    PROVE  /\ delivery' \in [Deliveries -> [pc : {"idle", "verify", "look", "send"},
                                            event : Events \cup {NoDelivery.event}]]
           /\ \A o \in Deliveries : delivery'[o].pc # "idle" => delivery'[o] = delivery[o]
<1>1. NoDelivery \in [pc : {"idle", "verify", "look", "send"},
                       event : Events \cup {NoDelivery.event}]
    BY DEF NoDelivery
<1>2. NoDelivery.pc = "idle"
    BY DEF NoDelivery
<1> QED
    BY <1>1, <1>2 DEF IngressInvariant, Answered

\* routes/webhooks.ts and the queue: every step.
LEMMA IngressStep == IngressInvariant /\ [IngressNext]_ingressVars => IngressInvariant'
<1> SUFFICES ASSUME IngressInvariant, [IngressNext]_ingressVars
             PROVE  IngressInvariant'
    OBVIOUS
<1>1. ASSUME NEW d \in Deliveries, NEW e \in Events, Deliver(d, e) PROVE IngressInvariant'
    <2>1. [pc |-> "verify", event |-> e] \in [pc : {"idle", "verify", "look", "send"},
                                              event : Events \cup {NoDelivery.event}]
        OBVIOUS
    <2> QED
        BY <1>1, <2>1 DEF Deliver, jobVars, IngressInvariant
<1>2. ASSUME NEW d \in Deliveries, Verify(d) PROVE IngressInvariant'
    <2>1. CASE known
        BY <1>2, <2>1 DEF Verify, jobVars, IngressInvariant
    <2>2. CASE ~ known
        BY <1>2, <2>2, AnsweredCallback DEF Verify, jobVars, IngressInvariant
    <2> QED
        BY <2>1, <2>2
<1>3. ASSUME NEW d \in Deliveries, LookUp(d) PROVE IngressInvariant'
    <2>1. CASE delivery[d].event \in stored
        BY <1>3, <2>1, AnsweredCallback DEF LookUp, jobVars, IngressInvariant
    <2>2. CASE delivery[d].event \notin stored
        BY <1>3, <2>2 DEF LookUp, jobVars, IngressInvariant
    <2> QED
        BY <2>1, <2>2
<1>4. ASSUME NEW d \in Deliveries, Send(d) PROVE IngressInvariant'
    <2>1. delivery[d].pc = "send" /\ Answered(d)
        BY <1>4 DEF Send
    <2> QED
        BY <1>4, <2>1, AnsweredCallback DEF Send, jobVars, IngressInvariant
<1>5. ASSUME NEW d \in Deliveries, SendFails(d) PROVE IngressInvariant'
    BY <1>5, AnsweredCallback DEF SendFails, jobVars, IngressInvariant
<1>6. ASSUME NEW e \in Events, JobStores(e) PROVE IngressInvariant'
    BY <1>6 DEF JobStores, IngressInvariant
<1>7. ASSUME NEW e \in Events, JobFails(e) \/ JobSkips(e) PROVE IngressInvariant'
    BY <1>7 DEF JobFails, JobSkips, IngressInvariant
<1>8. ASSUME NEW e \in Events, Forget(e) PROVE IngressInvariant'
    BY <1>8 DEF Forget, InFlight, jobVars, IngressInvariant
<1>9. CASE IntentAppears
    BY <1>9 DEF IntentAppears, jobVars, IngressInvariant
<1>10. CASE UNCHANGED ingressVars
    BY <1>10 DEF ingressVars, jobVars, IngressInvariant
<1> QED
    BY <1>1, <1>2, <1>3, <1>4, <1>5, <1>6, <1>7, <1>8, <1>9, <1>10 DEF IngressNext

(***************************************************************************)
(* webhooks.ts: the stored row and the queue's memory of a key together    *)
(* let one job at most apply an event, for any number of events, of        *)
(* callbacks at a time and of redeliveries.                                *)
(***************************************************************************)
THEOREM EventHandledOnce == IngressSpec => []HandledOnce
<1>1. IngressInit => IngressInvariant
    BY DEF IngressInit, IngressInvariant, NoDelivery
<1>2. IngressInvariant => HandledOnce
    BY DEF IngressInvariant, HandledOnce
<1> QED
    BY IngressStep, <1>1, <1>2, PTL DEF IngressSpec

-----------------------------------------------------------------------------
\* A URL never stands without a secret, also in the eyes of a request in between.
NotifyInvariant ==
    /\ issued \in Nat
    /\ secret \in Nat
    /\ patch \in [Patches -> [pc : {"idle", "write"}, fresh : BOOLEAN]]
    /\ DOMAIN notice = Notices
    /\ url => secret # 0
    /\ \A o \in Patches : patch[o].pc = "write" /\ secret = 0 => patch[o].fresh
    /\ \A n \in Notices : notice[n].signed

\* routes/tenant.ts, jobs/notifications.inngest.ts: every step.
LEMMA NotifyStep == NotifyInvariant /\ [NotifyNext]_notifyVars => NotifyInvariant'
<1> SUFFICES ASSUME NotifyInvariant, [NotifyNext]_notifyVars
             PROVE  NotifyInvariant'
    OBVIOUS
<1>1. CASE Rotate
    BY <1>1 DEF Rotate, NotifyInvariant
<1>2. CASE ClearUrl
    BY <1>2 DEF ClearUrl, NotifyInvariant
<1>3. ASSUME NEW o \in Patches, ReadSecret(o) PROVE NotifyInvariant'
    <2>1. [pc |-> "write", fresh |-> secret = 0] \in [pc : {"idle", "write"}, fresh : BOOLEAN]
        OBVIOUS
    <2>2. [pc |-> "write", fresh |-> secret = 0].fresh <=> secret = 0
        OBVIOUS
    <2> QED
        BY <1>3, <2>1, <2>2 DEF ReadSecret, NotifyInvariant
<1>4. ASSUME NEW o \in Patches, WriteUrl(o) PROVE NotifyInvariant'
    <2>1. NoPatch \in [pc : {"idle", "write"}, fresh : BOOLEAN] /\ NoPatch.pc = "idle"
        BY DEF NoPatch
    <2> QED
        BY <1>4, <2>1 DEF WriteUrl, NotifyInvariant
<1>5. ASSUME NEW n \in Notices, Skip(n) PROVE NotifyInvariant'
    BY <1>5 DEF Skip, NotifyInvariant
<1>6. ASSUME NEW n \in Notices, NEW taken \in BOOLEAN, NEW ok \in BOOLEAN,
             Notify(n, taken, ok)
      PROVE  NotifyInvariant'
    BY <1>6 DEF Notify, NotifyInvariant
<1>7. CASE UNCHANGED notifyVars
    BY <1>7 DEF notifyVars, NotifyInvariant
<1> QED
    BY <1>1, <1>2, <1>3, <1>4, <1>5, <1>6, <1>7 DEF NotifyNext

(***************************************************************************)
(* notifications.inngest.ts, tenant.ts: every webhook a merchant takes is  *)
(* signed, in every order of the requests on the settings and however      *)
(* often the job runs again.                                               *)
(***************************************************************************)
THEOREM WebhooksAreSigned == NotifySpec => []TakenIsSigned
<1>1. NotifyInit => NotifyInvariant
    BY DEF NotifyInit, NotifyInvariant, NoPatch
<1>2. NotifyInvariant => TakenIsSigned
    BY DEF NotifyInvariant, TakenIsSigned
<1> QED
    BY NotifyStep, <1>1, <1>2, PTL DEF NotifySpec

-----------------------------------------------------------------------------
\* The calls PricingCases makes: an amount, and valid rows of distinct parties.
PricingInvariant == cents \in Nat /\ shares \in ShareLists

LEMMA ListedShares ==
    ASSUME NEW s \in ShareLists
    PROVE  ShareRows(s) /\ DistinctParties(s)
<1>1. PICK n \in 1..Cardinality(Parties) : s \in [1..n -> Share]
    BY DEF ShareLists
<1>2. s \in Seq(Share)
    BY <1>1
<1>3. IsSequence(s)
    BY <1>2, SequenceShape
<1>4. ASSUME NEW k \in DOMAIN s PROVE s[k].bps \in Nat /\ s[k].party \in Int
    <2>1. s[k] \in Share
        BY <1>1
    <2>2. s[k].bps \in 1..BpsUnit /\ s[k].party \in Parties
        BY <2>1 DEF Share
    <2>3. s[k].bps \in Nat
        BY <2>2, BpsUnitAssumption
    <2>4. s[k].party \in Int
        BY <2>2, PartiesAssumption
    <2> QED
        BY <2>3, <2>4
<1> QED
    BY <1>3, <1>4 DEF ShareLists, ShareRows, DistinctParties

\* The rows of a rule, last first.
LEMMA MirroredShares ==
    ASSUME NEW s, ShareRows(s), NEW t,
           t = [n \in DOMAIN s |-> s[Len(s) + 1 - n]]
    PROVE  /\ ShareRows(t)
           /\ Reordered(s, t, [n \in DOMAIN s |-> Len(s) + 1 - n])
<1> DEFINE N == Len(s)
           b == [n \in DOMAIN s |-> N + 1 - n]
<1>1. N \in Nat /\ DOMAIN s = 1..N /\ N # 0
    BY PartsOfShares, 0 \in Nat
<1>2. \A n \in 1..N : N + 1 - n \in 1..N /\ N + 1 - (N + 1 - n) = n
    BY <1>1
<1>3. DOMAIN t = 1..N /\ \A n \in 1..N : t[n] = s[N + 1 - n]
    BY <1>1
<1> HIDE DEF N
<1>4. \A n \in 1..N : t[N + 1 - n] = s[n]
    <2> SUFFICES ASSUME NEW n \in 1..N PROVE t[N + 1 - n] = s[n]
        OBVIOUS
    <2>1. N + 1 - n \in 1..N /\ N + 1 - (N + 1 - n) = n
        BY <1>2
    <2> QED
        BY <1>3, <2>1
<1>5. Reordered(s, t, b)
    <2>1. \A n \in DOMAIN s : b[n] = N + 1 - n
        OBVIOUS
    <2>2. \A m, n \in DOMAIN s : b[m] = b[n] => m = n
        BY <1>1, <2>1
    <2>3. \A k \in DOMAIN t : \E n \in DOMAIN s : b[n] = k
        <3> SUFFICES ASSUME NEW k \in 1..N PROVE \E n \in DOMAIN s : b[n] = k
            BY <1>3
        <3>1. N + 1 - k \in DOMAIN s /\ b[N + 1 - k] = k
            BY <1>1, <1>2, <2>1
        <3> QED
            BY <3>1
    <2>4. \A n \in DOMAIN s : b[n] \in DOMAIN t /\ t[b[n]] = s[n]
        BY <1>1, <1>2, <1>3, <1>4, <2>1
    <2> HIDE DEF b
    <2> QED
        BY <2>2, <2>3, <2>4 DEF Reordered
<1>6. IsSequence(t)
    <2>1. t \in [1..N -> Range(t)]
        BY <1>3 DEF Range
    <2> QED
        BY <1>1, <2>1 DEF IsSequence
<1>7. \A n \in DOMAIN t : /\ t[n].bps \in Nat /\ t[n].party \in Int
                          /\ t[n].bps \in 1..BpsUnit
    BY <1>1, <1>2, <1>3 DEF ShareRows, ValidShares
<1>8. TotalBps(t) <= BpsUnit
    BY <1>5, TotalIgnoresOrder DEF ShareRows, ValidShares
<1>9. t # << >>
    BY <1>1, <1>3
<1> QED
    BY <1>5, <1>6, <1>7, <1>8, <1>9 DEF ShareRows, ValidShares, b, N

\* splits.ts: one call.
LEMMA SplitIsExactHere ==
    ASSUME PricingInvariant
    PROVE  SplitIsExact
<1> DEFINE result == split(cents, shares)
           pool == RoundedRatio(cents, TotalBps(shares), BpsUnit)
           N == Len(shares)
           t == [n \in DOMAIN shares |-> shares[N + 1 - n]]
           b == [n \in DOMAIN shares |-> N + 1 - n]
<1>1. ShareRows(shares) /\ DistinctParties(shares) /\ cents \in Nat
    BY ListedShares DEF PricingInvariant
<1>2. /\ pool \in Nat
      /\ result.shares = computeShares(pool, shares)
      /\ SumFunction(result.shares) = pool
      /\ result.platform = cents - pool
      /\ result.platform \in Nat
    BY <1>1, SplitOfCharge
<1>3. ShareRows(t) /\ Reordered(shares, t, b)
    BY <1>1, MirroredShares
<1>4. TotalBps(shares) = TotalBps(t)
    <2> HIDE DEF t, b
    <2> QED
        BY <1>1, <1>3, TotalIgnoresOrder
<1>5. split(cents, t).shares = computeShares(pool, t)
    <2> HIDE DEF t
    <2> QED
        BY <1>1, <1>3, <1>4, SplitOfCharge
<1>6. ASSUME NEW n \in DOMAIN shares
      PROVE  LET error == result.shares[n] * TotalBps(shares) - pool * shares[n].bps
             IN  /\ -TotalBps(shares) < error /\ error < TotalBps(shares)
                 /\ result.shares[n] = split(cents, t).shares[N + 1 - n]
    <2>1. b[n] = N + 1 - n
        OBVIOUS
    <2> HIDE DEF pool, t, b, result
    <2>2. computeShares(pool, shares)[n] = computeShares(pool, t)[b[n]]
        BY <1>1, <1>2, <1>3, SharesIgnoreOrder
    <2> QED
        BY <1>1, <1>2, <1>5, <2>1, <2>2, SharesAreFair
<1>7. pool + result.platform = cents
    <2> HIDE DEF pool, result
    <2> QED
        BY <1>1, <1>2
<1> QED
    BY <1>2, <1>6, <1>7 DEF SplitIsExact

(***************************************************************************)
(* splits.ts: for every charge and every valid rule, the shares and the    *)
(* platform's part sum to the charge, nobody is a centime away from its    *)
(* exact part, and the order of the rows plays no part.                    *)
(***************************************************************************)
THEOREM SplitsAreExact == PricingSpec => []SplitIsExact
<1>1. PricingInit => PricingInvariant
    BY DEF PricingInit, PricingInvariant
<1>2. PricingInvariant /\ [PricingNext]_pricingVars => PricingInvariant'
    BY DEF PricingInvariant, PricingNext, pricingVars
<1>3. PricingInvariant => SplitIsExact
    BY SplitIsExactHere
<1> QED
    BY <1>1, <1>2, <1>3, PTL DEF PricingSpec

-----------------------------------------------------------------------------
\* The debit legs of source s among the first r entries.
DebitLegs(log, r, s) ==
    {n \in {k \in 1..r : log[k].direction = "DEBIT"} : log[n].source = s}

ReportedLines(lines, s) == {n \in DOMAIN lines : lines[n].reference = s}

\* What a report with status MATCHED says of the ledger that was read for it.
ReportMatches(log, r, lines, outcome) ==
    /\ \A s \in Sources : Cents(log, DebitLegs(log, r, s)) = Cents(lines, ReportedLines(lines, s))
    /\ \A n \in DOMAIN outcome : outcome[n] = "EXACT"

\* The entries are amounts of some day, and nobody has read more than there is.
BooksInvariant ==
    /\ today \in Nat
    /\ IsSequence(entries)
    /\ \A n \in DOMAIN entries : entries[n].at \in Nat /\ entries[n].cents \in Nat
    /\ DOMAIN runner = Runners
    /\ \A u \in Runners : runner[u].read \in 0..Len(entries)
    /\ report = [status |-> report.status, lines |-> report.lines,
                 outcome |-> report.outcome, read |-> report.read]
    /\ report.read \in 0..Len(entries)
    /\ report.status = "MATCHED"
          => ReportMatches(entries, report.read, report.lines, report.outcome)

\* statements.ts: a range of days is its two halves.
LEMMA CentsOfHalves ==
    ASSUME NEW log, IsSequence(log),
           \A n \in DOMAIN log : log[n].at \in Nat /\ log[n].cents \in Nat,
           NEW A, NEW B, NEW C, A \subseteq DOMAIN log, B \subseteq DOMAIN log,
           C = A \cup B, A \cap B = {}
    PROVE  /\ Cents(log, C) = Cents(log, A) + Cents(log, B)
           /\ Cents(log, A) \in Int /\ Cents(log, B) \in Int
<1> DEFINE f == [n \in DOMAIN log |-> log[n].cents]
<1>1. IsFiniteSet(DOMAIN log)
    <2>1. Len(log) \in Nat /\ DOMAIN log = 1..Len(log)
        BY SequenceShape DEF IsSequence
    <2> QED
        BY <2>1, FS_Interval
<1>2. IsFiniteSet(A) /\ IsFiniteSet(B)
    BY <1>1, FS_Subset
<1>3. IntegerOn(f, A) /\ IntegerOn(f, B) /\ IntegerOn(f, A \cup B)
    <2>1. \A n \in DOMAIN log : f[n] \in Int
        OBVIOUS
    <2> QED
        BY <2>1 DEF IntegerOn
<1>4. \A S : Cents(log, S) = SumOver(f, S)
    BY DEF Cents, SumOver
<1> HIDE DEF f
<1>5. SumOver(f, A \cup B) = SumOver(f, A) + SumOver(f, B)
    BY <1>2, <1>3, SumDisjointUnion
<1>6. SumOver(f, A) \in Int /\ SumOver(f, B) \in Int
    BY <1>2, <1>3, SumIsInteger
<1> QED
    BY <1>4, <1>5, <1>6

\* statements.ts: buildStatement over adjoining periods.
LEMMA StatementsChainHere ==
    ASSUME BooksInvariant
    PROVE  StatementsChain
<1> SUFFICES ASSUME NEW start \in 0..(LastDay + 1), NEW middle \in 0..(LastDay + 1),
                    NEW end \in 0..(LastDay + 1), start < middle, middle < end
             PROVE  LET first  == buildStatement(entries, start, middle)
                        second == buildStatement(entries, middle, end)
                        whole  == buildStatement(entries, start, end)
                    IN  /\ first.closing = second.opening
                        /\ whole.closing - whole.opening
                              = (first.closing - first.opening)
                                   + (second.closing - second.opening)
                        /\ \A c \in DOMAIN whole.items :
                              whole.items[c] = first.items[c] + second.items[c]
    BY DEF StatementsChain
<1> DEFINE legs(direction, before) ==
               {n \in DOMAIN entries : /\ entries[n].account = "AVAILABLE"
                                       /\ entries[n].direction = direction
                                       /\ entries[n].at < before}
           volume(category, from, to) ==
               {n \in DOMAIN entries : /\ entries[n].direction = "DEBIT"
                                       /\ entries[n].category = category
                                       /\ entries[n].at \in from..(to - 1)}
           opening(day) == Cents(entries, legs("CREDIT", day)) - Cents(entries, legs("DEBIT", day))
           kinds == {p.category : p \in Postings}
<1>1. /\ start \in Int /\ middle \in Int /\ end \in Int
      /\ IsSequence(entries)
      /\ \A n \in DOMAIN entries : entries[n].at \in Nat /\ entries[n].cents \in Nat
    BY BooksAssumption DEF BooksInvariant
<1>2. ASSUME NEW d, NEW day PROVE Cents(entries, legs(d, day)) \in Int
    <2> DEFINE A == legs(d, day)
    <2>1. A \subseteq DOMAIN entries /\ {} \subseteq DOMAIN entries /\ A = A \cup {} /\ A \cap {} = {}
        OBVIOUS
    <2> HIDE DEF A
    <2>2. Cents(entries, A) \in Int
        BY <1>1, <2>1, CentsOfHalves
    <2> QED
        BY <2>2 DEF A
<1>3. ASSUME NEW day PROVE opening(day) \in Int
    <2>1. Cents(entries, legs("CREDIT", day)) \in Int /\ Cents(entries, legs("DEBIT", day)) \in Int
        BY <1>2
    <2> QED
        BY <2>1
<1>4. ASSUME NEW c
      PROVE  Cents(entries, volume(c, start, end))
                = Cents(entries, volume(c, start, middle)) + Cents(entries, volume(c, middle, end))
    <2> DEFINE A == volume(c, start, middle)
               B == volume(c, middle, end)
               C == volume(c, start, end)
    <2>1. A \subseteq DOMAIN entries /\ B \subseteq DOMAIN entries
        OBVIOUS
    <2>2. A \cap B = {}
        BY <1>1
    <2>3. C = A \cup B
        BY <1>1
    <2> HIDE DEF A, B, C
    <2>4. Cents(entries, C) = Cents(entries, A) + Cents(entries, B)
        BY <1>1, <2>1, <2>2, <2>3, CentsOfHalves
    <2> QED
        BY <2>4 DEF A, B, C
<1>5. ASSUME NEW from, NEW to
      PROVE  buildStatement(entries, from, to)
                = [opening |-> opening(from), closing |-> opening(to),
                   items |-> [c \in kinds |-> Cents(entries, volume(c, from, to))]]
    BY DEF buildStatement
<1> HIDE DEF opening, volume, kinds
<1>6. /\ buildStatement(entries, start, middle).items
            = [c \in kinds |-> Cents(entries, volume(c, start, middle))]
      /\ buildStatement(entries, middle, end).items
            = [c \in kinds |-> Cents(entries, volume(c, middle, end))]
      /\ buildStatement(entries, start, end).items
            = [c \in kinds |-> Cents(entries, volume(c, start, end))]
    BY <1>5
<1>7. /\ buildStatement(entries, start, middle).opening = opening(start)
      /\ buildStatement(entries, start, middle).closing = opening(middle)
      /\ buildStatement(entries, middle, end).opening = opening(middle)
      /\ buildStatement(entries, middle, end).closing = opening(end)
      /\ buildStatement(entries, start, end).opening = opening(start)
      /\ buildStatement(entries, start, end).closing = opening(end)
    BY <1>5
<1>8. opening(start) \in Int /\ opening(middle) \in Int /\ opening(end) \in Int
    BY <1>3
<1>9. \A c \in DOMAIN buildStatement(entries, start, end).items :
         buildStatement(entries, start, end).items[c]
            = buildStatement(entries, start, middle).items[c]
                 + buildStatement(entries, middle, end).items[c]
    BY <1>4, <1>6
<1> QED
    BY <1>7, <1>8, <1>9

\* reconciliation-db.ts: what was read of the ledger stays what it was.
LEMMA MatchesPrefix ==
    ASSUME NEW log, NEW more, NEW r \in Nat,
           \A n \in 1..r : n \in DOMAIN log /\ n \in DOMAIN more /\ log[n] = more[n],
           NEW lines, NEW outcome, ReportMatches(log, r, lines, outcome)
    PROVE  ReportMatches(more, r, lines, outcome)
<1> DEFINE f == [n \in DOMAIN log |-> log[n].cents]
           g == [n \in DOMAIN more |-> more[n].cents]
<1>1. ASSUME NEW s \in Sources
      PROVE  Cents(more, DebitLegs(more, r, s)) = Cents(lines, ReportedLines(lines, s))
    <2> DEFINE S == DebitLegs(log, r, s)
    <2>1. DebitLegs(more, r, s) = S /\ S \subseteq 1..r
        BY DEF DebitLegs
    <2>2. IsFiniteSet(S)
        BY <2>1, FS_Interval, FS_Subset
    <2>3. \A n \in S : f[n] = g[n]
        BY <2>1
    <2>4. Cents(log, S) = SumOver(f, S) /\ Cents(more, S) = SumOver(g, S)
        BY DEF Cents, SumOver
    <2> HIDE DEF S, f, g
    <2>5. SumOver(f, S) = SumOver(g, S)
        BY <2>2, <2>3, SumCongruent
    <2>6. Cents(log, S) = Cents(lines, ReportedLines(lines, s))
        BY DEF ReportMatches, S
    <2> QED
        BY <2>1, <2>4, <2>5, <2>6
<1> QED
    BY <1>1 DEF ReportMatches

\* reconciliation.ts: a clean result is an equal one.
LEMMA CleanIsEqual ==
    ASSUME NEW log, NEW r \in Nat, DOMAIN log = 1..r, NEW lines,
           isClean(reconcile(ExternalTotals(lines), buildInternalLines(log)))
    PROVE  ReportMatches(log, r, lines,
                   [n \in DOMAIN lines |->
                       LineStatus(reconcile(ExternalTotals(lines), buildInternalLines(log)),
                                  lines[n].reference)])
<1> DEFINE E == ExternalTotals(lines)
           I == buildInternalLines(log)
           result == reconcile(E, I)
<1>1. /\ DOMAIN E = {lines[n].reference : n \in DOMAIN lines}
      /\ \A s \in DOMAIN E : E[s] = Cents(lines, ReportedLines(lines, s))
    BY DEF ExternalTotals, ReportedLines
<1>2. /\ DOMAIN I = {log[n].source : n \in {k \in 1..r : log[k].direction = "DEBIT"}}
      /\ \A s \in DOMAIN I : I[s] = Cents(log, DebitLegs(log, r, s))
    BY DEF buildInternalLines, DebitLegs
<1> HIDE DEF E, I
<1>3. /\ result.amountDiff = {s \in DOMAIN E \cap DOMAIN I : E[s] # I[s]}
      /\ result.missingInternal = (DOMAIN E) \ (DOMAIN E \cap DOMAIN I)
      /\ result.missingExternal = (DOMAIN I) \ (DOMAIN E \cap DOMAIN I)
      /\ result.exact = {s \in DOMAIN E \cap DOMAIN I : E[s] = I[s]}
    BY DEF reconcile
<1>4. result.amountDiff = {} /\ result.missingInternal = {} /\ result.missingExternal = {}
    BY DEF isClean, E, I
<1> HIDE DEF result
<1>5. DOMAIN E = DOMAIN I /\ \A s \in DOMAIN E : E[s] = I[s] /\ s \in result.exact
    BY <1>3, <1>4
<1>6. ASSUME NEW s \in Sources
      PROVE  Cents(log, DebitLegs(log, r, s)) = Cents(lines, ReportedLines(lines, s))
    <2>1. CASE s \in DOMAIN E
        BY <1>1, <1>2, <1>5, <2>1
    <2>2. CASE s \notin DOMAIN E
        <3>1. ReportedLines(lines, s) = {}
            BY <1>1, <2>2 DEF ReportedLines
        <3>2. DebitLegs(log, r, s) = {}
            BY <1>2, <1>5, <2>2 DEF DebitLegs
        <3>3. \A e : Cents(e, {}) = 0
            BY SumEmpty DEF Cents, SumOver
        <3> QED
            BY <3>1, <3>2, <3>3
    <2> QED
        BY <2>1, <2>2
<1>7. \A n \in DOMAIN lines : LineStatus(result, lines[n].reference) = "EXACT"
    BY <1>1, <1>4, <1>5 DEF LineStatus
<1> QED
    BY <1>6, <1>7 DEF ReportMatches, result, E, I

\* reconciliation-db.ts: the write of a run.
LEMMA RunWritesKeepsBooks ==
    ASSUME BooksInvariant, NEW u \in Runners, RunWrites(u)
    PROVE  BooksInvariant'
<1> DEFINE r == runner[u].read
           log == SubSeq(entries, 1, r)
           result == reconcile(ExternalTotals(report.lines), buildInternalLines(log))
           next == IF isClean(result) THEN "MATCHED" ELSE "UNMATCHED"
           outcome == [n \in DOMAIN report.lines |->
                          LineStatus(result, report.lines[n].reference)]
<1>0. r \in 0..Len(entries) /\ r \in Nat /\ Len(entries) \in Nat /\ DOMAIN entries = 1..Len(entries)
    BY SequenceShape DEF BooksInvariant, IsSequence
<1>1. /\ runner' = [runner EXCEPT ![u] = NoRunner] /\ today' = today /\ entries' = entries
      /\ \/ report' = report
         \/ report' = [report EXCEPT !.status = next, !.outcome = outcome, !.read = r]
    BY DEF RunWrites
<1>2. DOMAIN runner' = Runners /\ \A v \in Runners : runner'[v].read \in 0..Len(entries)
    BY <1>0, <1>1 DEF BooksInvariant, NoRunner
<1>3. CASE report' = report
    BY <1>1, <1>2, <1>3 DEF BooksInvariant
<1>4. CASE report' = [report EXCEPT !.status = next, !.outcome = outcome, !.read = r]
    <2>1. report = [status |-> report.status, lines |-> report.lines,
                    outcome |-> report.outcome, read |-> report.read]
        BY DEF BooksInvariant
    <2>2. report' = [status |-> next, lines |-> report.lines, outcome |-> outcome, read |-> r]
        <3> HIDE DEF next, outcome, r
        <3> QED
            BY <1>4, <2>1
    <2>3. ASSUME next = "MATCHED" PROVE ReportMatches(entries, r, report.lines, outcome)
        <3>1. isClean(result)
            BY <2>3
        <3>2. DOMAIN log = 1..r /\ \A n \in 1..r : log[n] = entries[n] /\ n \in DOMAIN entries
            BY <1>0 DEF BooksInvariant, IsSequence
        <3> HIDE DEF log, r
        <3>3. ReportMatches(log, r, report.lines, outcome)
            BY <1>0, <3>1, <3>2, CleanIsEqual
        <3> HIDE DEF outcome
        <3> QED
            BY <1>0, <3>2, <3>3, MatchesPrefix
    <2> HIDE DEF next, outcome, r
    <2>4. /\ report'.status = next /\ report'.lines = report.lines
          /\ report'.outcome = outcome /\ report'.read = r
          /\ report' = [status |-> report'.status, lines |-> report'.lines,
                        outcome |-> report'.outcome, read |-> report'.read]
        BY <2>2
    <2> QED
        BY <1>0, <1>1, <1>2, <2>3, <2>4 DEF BooksInvariant
<1> QED
    BY <1>1, <1>3, <1>4

\* ledger-db.ts: the two legs of a posting.
LEMMA PostEntryKeepsBooks ==
    ASSUME BooksInvariant, NEW p, NEW source, NEW cts \in Nat, NEW at \in Nat,
           PostEntry(p, source, cts, at)
    PROVE  BooksInvariant'
<1> DEFINE leg(account, direction) ==
               [at |-> at, account |-> account, direction |-> direction,
                cents |-> cts, category |-> p.category, source |-> source]
           a == leg(p.debit, "DEBIT")
           b == leg(p.credit, "CREDIT")
           t == <<a, b>>
<1>1. /\ entries' = entries \o t /\ today' = today /\ report' = report /\ runner' = runner
    BY DEF PostEntry
<1>2. a.at \in Nat /\ b.at \in Nat /\ a.cents \in Nat /\ b.cents \in Nat
    OBVIOUS
<1> HIDE DEF a, b
<1>3. t \in Seq({a, b}) /\ DOMAIN t = 1..2 /\ t[1] = a /\ t[2] = b /\ Len(t) = 2
    OBVIOUS
<1>4. IsSequence(t) /\ IsSequence(entries)
    BY <1>3, SequenceShape DEF BooksInvariant
<1> HIDE DEF t
<1>5. /\ IsSequence(entries') /\ Len(entries) \in Nat
      /\ Len(entries') = Len(entries) + 2
      /\ DOMAIN entries = 1..Len(entries)
      /\ DOMAIN entries' = 1..(Len(entries) + 2)
      /\ \A n \in 1..Len(entries) : entries'[n] = entries[n]
      /\ \A k \in 1..2 : entries'[Len(entries) + k] = t[k]
    <2> DEFINE j == entries \o t
    <2>1. /\ IsSequence(j) /\ Len(entries) \in Nat /\ Len(j) = Len(entries) + Len(t)
          /\ DOMAIN entries = 1..Len(entries)
          /\ DOMAIN j = 1..(Len(entries) + Len(t))
          /\ \A n \in 1..Len(entries) : j[n] = entries[n]
          /\ \A k \in 1..Len(t) : j[Len(entries) + k] = t[k]
        BY <1>4, AppendShape
    <2>2. entries' = j
        BY <1>1
    <2> HIDE DEF j
    <2> QED
        BY <1>3, <2>1, <2>2
<1>6. ASSUME NEW n \in DOMAIN entries' PROVE entries'[n].at \in Nat /\ entries'[n].cents \in Nat
    <2>1. CASE n \in 1..Len(entries)
        BY <1>5, <2>1 DEF BooksInvariant
    <2>2. CASE n \notin 1..Len(entries)
        <3>1. n = Len(entries) + 1 \/ n = Len(entries) + 2
            BY <1>5, <2>2
        <3>2. entries'[n] = a \/ entries'[n] = b
            BY <1>3, <1>5, <3>1
        <3> QED
            BY <1>2, <3>2
    <2> QED
        BY <2>1, <2>2
<1>7. report.read \in Nat /\ \A n \in 1..report.read : /\ n \in DOMAIN entries
                                                      /\ n \in DOMAIN entries'
                                                      /\ entries[n] = entries'[n]
    BY <1>5 DEF BooksInvariant
<1>8. report.status = "MATCHED"
         => ReportMatches(entries', report.read, report.lines, report.outcome)
    BY <1>7, MatchesPrefix DEF BooksInvariant
<1>9. /\ report.read \in 0..Len(entries')
      /\ \A u \in Runners : runner[u].read \in 0..Len(entries')
    BY <1>5 DEF BooksInvariant
<1> QED
    BY <1>1, <1>5, <1>6, <1>8, <1>9 DEF BooksInvariant

\* statements.ts, reconciliation-db.ts: every step.
LEMMA BooksStep == BooksInvariant /\ [BooksNext]_booksVars => BooksInvariant'
<1> SUFFICES ASSUME BooksInvariant, [BooksNext]_booksVars
             PROVE  BooksInvariant'
    OBVIOUS
<1>0. Len(entries) \in Nat
    BY SequenceShape DEF BooksInvariant, IsSequence
<1>1. CASE NextDay
    BY <1>1 DEF NextDay, BooksInvariant
<1>2. ASSUME NEW p \in Postings, NEW source \in Sources, NEW cts \in EntryAmounts,
             NEW at \in {today - 1, today}, at >= 0, PostEntry(p, source, cts, at)
      PROVE  BooksInvariant'
    <2>1. cts \in Nat
        BY BooksAssumption
    <2>2. at \in Nat
        BY <1>2 DEF BooksInvariant
    <2> QED
        BY <1>2, <2>1, <2>2, PostEntryKeepsBooks
<1>3. ASSUME NEW lines \in Reports, createReconciliationReport(lines) PROVE BooksInvariant'
    <2>1. /\ report'.status = "PENDING" /\ report'.read = 0
          /\ report' = [status |-> report'.status, lines |-> report'.lines,
                        outcome |-> report'.outcome, read |-> report'.read]
        BY <1>3 DEF createReconciliationReport
    <2> QED
        BY <1>0, <1>3, <2>1 DEF createReconciliationReport, BooksInvariant
<1>4. ASSUME NEW u \in Runners, RunReadsReport(u) PROVE BooksInvariant'
    BY <1>0, <1>4 DEF RunReadsReport, BooksInvariant
<1>5. ASSUME NEW u \in Runners, RunReadsLedger(u) PROVE BooksInvariant'
    <2>1. ASSUME NEW v \in Runners PROVE runner'[v].read \in 0..Len(entries)
        <3>1. CASE v = u
            BY <1>0, <1>5, <3>1 DEF RunReadsLedger, BooksInvariant
        <3>2. CASE v # u
            BY <1>5, <3>2 DEF RunReadsLedger, BooksInvariant
        <3> QED
            BY <3>1, <3>2
    <2> QED
        BY <1>5, <2>1 DEF RunReadsLedger, BooksInvariant
<1>6. ASSUME NEW u \in Runners, ResolveReads(u) PROVE BooksInvariant'
    BY <1>0, <1>6 DEF ResolveReads, NoRunner, BooksInvariant
<1>7. ASSUME NEW u \in Runners, ResolveWrites(u) PROVE BooksInvariant'
    <2>1. /\ report'.status = "RESOLVED" /\ report'.read = report.read
          /\ report' = [status |-> report'.status, lines |-> report'.lines,
                        outcome |-> report'.outcome, read |-> report'.read]
        BY <1>7 DEF ResolveWrites, BooksInvariant
    <2> QED
        BY <1>0, <1>7, <2>1 DEF ResolveWrites, NoRunner, BooksInvariant
<1>8. CASE UNCHANGED booksVars
    BY <1>8 DEF booksVars, BooksInvariant
<1> QED
    BY <1>1, <1>2, <1>3, <1>4, <1>5, <1>6, <1>7, <1>8, RunWritesKeepsBooks DEF BooksNext

LEMMA BooksStart == BooksInit => BooksInvariant
<1> SUFFICES ASSUME BooksInit PROVE BooksInvariant
    OBVIOUS
<1>1. entries = << >> /\ << >> \in Seq(Nat)
    BY DEF BooksInit
<1>2. IsSequence(<< >>)
    BY <1>1, SequenceShape
<1>3. Len(<< >>) = 0 /\ DOMAIN << >> = {}
    OBVIOUS
<1> QED
    BY <1>1, <1>2, <1>3 DEF BooksInit, BooksInvariant, NoReport, NoRunner

(***************************************************************************)
(* statements.ts: the statements of adjoining periods chain, for every     *)
(* ledger the postings can build and every three days.                     *)
(***************************************************************************)
THEOREM StatementsAlwaysChain == BooksSpec => []StatementsChain
<1>1. BooksInvariant => StatementsChain
    BY StatementsChainHere
<1> QED
    BY BooksStart, BooksStep, <1>1, PTL DEF BooksSpec

(***************************************************************************)
(* reconciliation-db.ts: a MATCHED report agrees, source by source, with   *)
(* the ledger its run has read, whatever was posted or run since, for      *)
(* every report and any number of overlapping runs.                        *)
(***************************************************************************)
THEOREM MatchedReportIsEqual == BooksSpec => []MatchedIsEqual
<1>1. BooksInvariant => MatchedIsEqual
    BY DEF BooksInvariant, MatchedIsEqual, ReportMatches, DebitLegs, ReportedLines
<1> QED
    BY BooksStart, BooksStep, <1>1, PTL DEF BooksSpec

-----------------------------------------------------------------------------
(***************************************************************************)
(* Policies.  What resolvePolicy makes of a preset and overrides, field by *)
(* field, and what is true of every preset: the fields that choose a mode  *)
(* are filled in, and the mode has its companion.                          *)
(***************************************************************************)
Sound(terms) ==
    /\ validatePolicy(terms)
    /\ terms.availability.mode # Null
    /\ terms.reserve.type # Null
    /\ terms.payout.schedule # Null
    /\ terms.reversal.funding # Null
    /\ terms.reversal.negative # Null
    /\ terms.reversal = [funding |-> terms.reversal.funding,
                         negative |-> terms.reversal.negative]

\* Terms with all their dimensions.
Shaped(terms) ==
    /\ terms = [availability |-> terms.availability, reserve |-> terms.reserve,
                payout |-> terms.payout, reversal |-> terms.reversal]
    /\ terms.availability = [mode |-> terms.availability.mode, days |-> terms.availability.days]
    /\ terms.reserve = [type |-> terms.reserve.type, bps |-> terms.reserve.bps,
                        fixed |-> terms.reserve.fixed]
    /\ terms.payout = [schedule |-> terms.payout.schedule, min |-> terms.payout.min]
    /\ terms.reversal = [funding |-> terms.reversal.funding,
                         negative |-> terms.reversal.negative]

\* The fields of a policy, in the order of Terms, are all that it needs.
Filled(mode, days, type, bps, fixed, schedule, min, funding, negative) ==
    /\ mode # {} /\ type # {} /\ schedule # {} /\ funding # {} /\ negative # {}
    /\ days = {} => mode # {"DELAY"}
    /\ bps = {} => type # {"ROLLING"}
    /\ fixed = {} => type # {"FIXED"}
    /\ min = {} => schedule # {"THRESHOLD"}
    /\ negative # {TRUE} => funding # {"ALLOW_NEGATIVE"}

LEMMA TermsAreSound ==
    ASSUME NEW mode, NEW days, NEW type, NEW bps, NEW fixed, NEW schedule, NEW min,
           NEW funding, NEW negative,
           Filled(mode, days, type, bps, fixed, schedule, min, funding, negative)
    PROVE  LET terms == Terms(Availability(mode, days), Reserve(type, bps, fixed),
                              PayoutWhen(schedule, min), Reversal(funding, negative))
           IN  Sound(terms) /\ Shaped(terms)
BY DEF Filled, Sound, Shaped, validatePolicy, Null, Terms, Availability, Reserve,
       PayoutWhen, Reversal

LEMMA PresetsAreSound ==
    ASSUME NEW industry
    PROVE  /\ Sound(presetForIndustry(industry).terms)
           /\ Shaped(presetForIndustry(industry).terms)
           /\ presetForIndustry(industry).fee > 0
<1> DEFINE good(p) == Sound(p.terms) /\ Shaped(p.terms) /\ p.fee > 0
<1>10. good(DEFAULT_PRESET)
    <2>1. Filled({"IMMEDIATE"}, {}, {"ROLLING"}, {500}, {}, {"AUTO_DAILY"}, {},
               {"NET_FROM_AVAILABLE"}, {FALSE})
        BY DEF Filled
    <2>2. Sound(DEFAULT_PRESET.terms) /\ Shaped(DEFAULT_PRESET.terms)
        BY <2>1, TermsAreSound DEF DEFAULT_PRESET, Immediate, Rolling, NoReserve, Netted, Null
    <2>3. DEFAULT_PRESET.fee > 0
        BY DEF DEFAULT_PRESET
    <2> QED
        BY <2>2, <2>3
<1>11. good(saas)
    <2>1. Filled({"IMMEDIATE"}, {}, {"NONE"}, {}, {}, {"AUTO_DAILY"}, {},
               {"NET_FROM_AVAILABLE"}, {FALSE})
        BY DEF Filled
    <2>2. Sound(saas.terms) /\ Shaped(saas.terms)
        BY <2>1, TermsAreSound DEF saas, Immediate, Rolling, NoReserve, Netted, Null
    <2>3. saas.fee > 0
        BY DEF saas
    <2> QED
        BY <2>2, <2>3
<1>12. good(marketplace)
    <2>0. PICK k : k = 1000
        OBVIOUS
    <2>1. PICK n : n = 100000
        OBVIOUS
    <2>2. Sound(marketplace.terms) /\ Shaped(marketplace.terms)
        <3>1. \A x : {x} # {}
            BY Zenon
        <3>2. /\ {"ON_FULFILLMENT"} # {"DELAY"} /\ {"ROLLING"} # {"FIXED"}
              /\ {"DEBIT_RESERVE"} # {"ALLOW_NEGATIVE"}
            BY SMT
        <3>3. ASSUME NEW b, NEW m
              PROVE  Filled({"ON_FULFILLMENT"}, {}, {"ROLLING"}, {b}, {}, {"THRESHOLD"}, {m},
                            {"DEBIT_RESERVE"}, {FALSE})
            <4>1. /\ {"ON_FULFILLMENT"} # {} /\ {"ROLLING"} # {} /\ {"THRESHOLD"} # {}
                  /\ {"DEBIT_RESERVE"} # {} /\ {FALSE} # {} /\ {b} # {} /\ {m} # {}
                BY <3>1, Zenon
            <4> QED
                BY <3>2, <4>1, Zenon DEF Filled
        <3>4. marketplace.terms
                = Terms(Availability({"ON_FULFILLMENT"}, {}), Reserve({"ROLLING"}, {k}, {}),
                        PayoutWhen({"THRESHOLD"}, {n}), Reversal({"DEBIT_RESERVE"}, {FALSE}))
            BY <2>0, <2>1, SMT DEF marketplace, Null, Rolling
        <3>5. Filled({"ON_FULFILLMENT"}, {}, {"ROLLING"}, {k}, {}, {"THRESHOLD"}, {n},
                     {"DEBIT_RESERVE"}, {FALSE})
            BY <3>3, Zenon
        <3> QED
            BY <3>4, <3>5, TermsAreSound
    <2>3. marketplace.fee > 0
        BY DEF marketplace
    <2> QED
        BY <2>2, <2>3
<1>13. good(retail)
    <2>1. Filled({"IMMEDIATE"}, {}, {"ROLLING"}, {300}, {}, {"AUTO_DAILY"}, {},
               {"NET_FROM_AVAILABLE"}, {FALSE})
        BY DEF Filled
    <2>2. Sound(retail.terms) /\ Shaped(retail.terms)
        BY <2>1, TermsAreSound DEF retail, Immediate, Rolling, NoReserve, Netted, Null
    <2>3. retail.fee > 0
        BY DEF retail
    <2> QED
        BY <2>2, <2>3
<1>14. good(travel)
    <2>1. Filled({"DELAY"}, {7}, {"ROLLING"}, {1000}, {}, {"AUTO_WEEKLY"}, {},
               {"DEBIT_RESERVE"}, {FALSE})
        BY ZenonT(60) DEF Filled
    <2>2. Sound(travel.terms) /\ Shaped(travel.terms)
        BY <2>1, TermsAreSound DEF travel, Immediate, Rolling, NoReserve, Netted, Null
    <2>3. travel.fee > 0
        BY DEF travel
    <2> QED
        BY <2>2, <2>3
<1>15. good(escrow)
    <2>1. Filled({"ON_FULFILLMENT"}, {}, {"NONE"}, {}, {}, {"MANUAL"}, {},
               {"INVOICE_TENANT"}, {FALSE})
        BY DEF Filled
    <2>2. Sound(escrow.terms) /\ Shaped(escrow.terms)
        BY <2>1, TermsAreSound DEF escrow, Immediate, Rolling, NoReserve, Netted, Null
    <2>3. escrow.fee > 0
        BY DEF escrow
    <2> QED
        BY <2>2, <2>3
<1>16. good(lending)
    <2>1. Filled({"IMMEDIATE"}, {}, {"NONE"}, {}, {}, {"MANUAL"}, {},
               {"ALLOW_NEGATIVE"}, {TRUE})
        BY DEF Filled
    <2>2. Sound(lending.terms) /\ Shaped(lending.terms)
        BY <2>1, TermsAreSound DEF lending, Immediate, Rolling, NoReserve, Netted, Null
    <2>3. lending.fee > 0
        BY DEF lending
    <2> QED
        BY <2>2, <2>3
<1>17. good(on_demand)
    <2>1. Filled({"IMMEDIATE"}, {}, {"NONE"}, {}, {}, {"INSTANT"}, {},
               {"NET_FROM_AVAILABLE"}, {FALSE})
        BY DEF Filled
    <2>2. Sound(on_demand.terms) /\ Shaped(on_demand.terms)
        BY <2>1, TermsAreSound DEF on_demand, Immediate, Rolling, NoReserve, Netted, Null
    <2>3. on_demand.fee > 0
        BY DEF on_demand
    <2> QED
        BY <2>2, <2>3
<1> HIDE DEF good
<1>5. presetForIndustry(industry) \in {DEFAULT_PRESET, saas, marketplace, retail, travel,
                                        escrow, lending, on_demand}
    BY DEF presetForIndustry, INDUSTRY_PRESETS
<1>6. good(presetForIndustry(industry))
    BY <1>5, <1>10, <1>11, <1>12, <1>13, <1>14, <1>15, <1>16, <1>17
<1> QED
    BY <1>6 DEF good

LEMMA ResolvedFields ==
    ASSUME NEW p, Shaped(p), NEW over
    PROVE  LET r == resolvePolicy(p, over)
           IN  /\ r.availability = [mode |-> Coalesce(over.availability.mode, p.availability.mode),
                                    days |-> Coalesce(over.availability.days, p.availability.days)]
               /\ r.reserve = [type |-> Coalesce(over.reserve.type, p.reserve.type),
                               bps |-> Coalesce(over.reserve.bps, p.reserve.bps),
                               fixed |-> Coalesce(over.reserve.fixed, p.reserve.fixed)]
               /\ r.payout = [schedule |-> Coalesce(over.payout.schedule, p.payout.schedule),
                              min |-> Coalesce(over.payout.min, p.payout.min)]
               /\ r.reversal = [funding |-> Coalesce(over.reversal.funding, p.reversal.funding),
                                negative |-> Coalesce(over.reversal.negative, p.reversal.negative)]
<1> DEFINE r == resolvePolicy(p, over)
           of(dim) == [field \in DOMAIN p[dim] |-> Coalesce(over[dim][field], p[dim][field])]
<1>1. DOMAIN p = {"availability", "reserve", "payout", "reversal"}
    BY DEF Shaped
<1>2. /\ DOMAIN p.availability = {"mode", "days"}
      /\ DOMAIN p.reserve = {"type", "bps", "fixed"}
      /\ DOMAIN p.payout = {"schedule", "min"}
      /\ DOMAIN p.reversal = {"funding", "negative"}
    BY DEF Shaped
<1>3. r = [dim \in DOMAIN p |-> of(dim)]
    BY DEF resolvePolicy
<1>4. /\ r.availability = of("availability") /\ r.reserve = of("reserve")
      /\ r.payout = of("payout") /\ r.reversal = of("reversal")
    BY <1>1, <1>3
<1> HIDE DEF r
<1>5. of("availability") = [mode |-> Coalesce(over.availability.mode, p.availability.mode),
                            days |-> Coalesce(over.availability.days, p.availability.days)]
    BY <1>2
<1>6. of("reserve") = [type |-> Coalesce(over.reserve.type, p.reserve.type),
                       bps |-> Coalesce(over.reserve.bps, p.reserve.bps),
                       fixed |-> Coalesce(over.reserve.fixed, p.reserve.fixed)]
    BY <1>2
<1>7. of("payout") = [schedule |-> Coalesce(over.payout.schedule, p.payout.schedule),
                      min |-> Coalesce(over.payout.min, p.payout.min)]
    BY <1>2
<1>8. of("reversal") = [funding |-> Coalesce(over.reversal.funding, p.reversal.funding),
                        negative |-> Coalesce(over.reversal.negative, p.reversal.negative)]
    BY <1>2
<1> QED
    BY <1>4, <1>5, <1>6, <1>7, <1>8 DEF r

\* Resolving sound terms over any preset gives them back where they matter.
LEMMA ResolvedIsSound ==
    ASSUME NEW p, Sound(p), Shaped(p), NEW over, validatePolicy(resolvePolicy(p, over))
    PROVE  Sound(resolvePolicy(p, over)) /\ Shaped(resolvePolicy(p, over))
<1> DEFINE r == resolvePolicy(p, over)
<1>1. /\ r.availability = [mode |-> Coalesce(over.availability.mode, p.availability.mode),
                           days |-> Coalesce(over.availability.days, p.availability.days)]
      /\ r.reserve = [type |-> Coalesce(over.reserve.type, p.reserve.type),
                      bps |-> Coalesce(over.reserve.bps, p.reserve.bps),
                      fixed |-> Coalesce(over.reserve.fixed, p.reserve.fixed)]
      /\ r.payout = [schedule |-> Coalesce(over.payout.schedule, p.payout.schedule),
                     min |-> Coalesce(over.payout.min, p.payout.min)]
      /\ r.reversal = [funding |-> Coalesce(over.reversal.funding, p.reversal.funding),
                       negative |-> Coalesce(over.reversal.negative, p.reversal.negative)]
    BY ResolvedFields
<1>2. r = [availability |-> r.availability, reserve |-> r.reserve, payout |-> r.payout,
           reversal |-> r.reversal]
    <2>1. DOMAIN p = {"availability", "reserve", "payout", "reversal"}
        BY DEF Shaped
    <2> QED
        BY <2>1 DEF resolvePolicy
<1>3. validatePolicy(r)
    OBVIOUS
<1> HIDE DEF r
<1>4. Shaped(r)
    BY <1>1, <1>2 DEF Shaped
<1>5. \A a, b : b # Null => Coalesce(a, b) # Null
    BY DEF Coalesce
<1>6. /\ r.availability.mode # Null /\ r.reserve.type # Null /\ r.payout.schedule # Null
      /\ r.reversal.funding # Null /\ r.reversal.negative # Null
    BY <1>1, <1>5 DEF Sound
<1>7. r.reversal = [funding |-> r.reversal.funding, negative |-> r.reversal.negative]
    BY <1>4 DEF Shaped
<1> QED
    BY <1>3, <1>4, <1>6, <1>7 DEF Sound, r

LEMMA RepostIsSame ==
    ASSUME NEW p, Shaped(p), NEW terms, Sound(terms)
    PROVE  LET again == resolvePolicy(p, terms)
           IN  validatePolicy(again) /\ Meaning(again) = Meaning(terms)
<1> DEFINE r == resolvePolicy(p, terms)
<1>1. /\ r.availability = [mode |-> Coalesce(terms.availability.mode, p.availability.mode),
                           days |-> Coalesce(terms.availability.days, p.availability.days)]
      /\ r.reserve = [type |-> Coalesce(terms.reserve.type, p.reserve.type),
                      bps |-> Coalesce(terms.reserve.bps, p.reserve.bps),
                      fixed |-> Coalesce(terms.reserve.fixed, p.reserve.fixed)]
      /\ r.payout = [schedule |-> Coalesce(terms.payout.schedule, p.payout.schedule),
                     min |-> Coalesce(terms.payout.min, p.payout.min)]
      /\ r.reversal = [funding |-> Coalesce(terms.reversal.funding, p.reversal.funding),
                       negative |-> Coalesce(terms.reversal.negative, p.reversal.negative)]
    BY ResolvedFields
<1> HIDE DEF r
<1>2. \A a, b : a # Null => Coalesce(a, b) = a
    BY DEF Coalesce
<1>3. /\ r.availability.mode = terms.availability.mode
      /\ r.reserve.type = terms.reserve.type
      /\ r.payout.schedule = terms.payout.schedule
      /\ r.reversal = terms.reversal
    BY <1>1, <1>2 DEF Sound
<1>4. /\ terms.availability.mode = {"DELAY"} => r.availability.days = terms.availability.days
      /\ terms.reserve.type = {"ROLLING"} => r.reserve.bps = terms.reserve.bps
      /\ terms.reserve.type = {"FIXED"} => r.reserve.fixed = terms.reserve.fixed
      /\ terms.payout.schedule = {"THRESHOLD"} => r.payout.min = terms.payout.min
    BY <1>1, <1>2 DEF Sound, validatePolicy
<1>5. validatePolicy(r)
    BY <1>3, <1>4 DEF validatePolicy, Sound
<1>6. Meaning(r) = Meaning(terms)
    BY <1>3, <1>4 DEF Meaning
<1> QED
    BY <1>5, <1>6 DEF r

\* What an approval promises is the preset itself.
LEMMA PromiseIsSound == ASSUME NEW industry PROVE Sound(policySpecForIndustry(industry))
<1> DEFINE p == presetForIndustry(industry).terms
           r == resolvePolicy(p, NoOverrides)
<1>1. Sound(p) /\ Shaped(p)
    BY PresetsAreSound
<1> HIDE DEF p
<1>2. \A b : Coalesce(Null, b) = b
    BY DEF Coalesce
<1>3. /\ r.availability = [mode |-> p.availability.mode, days |-> p.availability.days]
      /\ r.reserve = [type |-> p.reserve.type, bps |-> p.reserve.bps, fixed |-> p.reserve.fixed]
      /\ r.payout = [schedule |-> p.payout.schedule, min |-> p.payout.min]
      /\ r.reversal = [funding |-> p.reversal.funding, negative |-> p.reversal.negative]
    BY <1>1, <1>2, ResolvedFields, SMTT(30)
    DEF NoOverrides, Terms, Availability, Reserve, PayoutWhen, Reversal
<1> HIDE DEF r
<1>4. validatePolicy(r)
    <2>1. validatePolicy(p)
        BY <1>1 DEF Sound
    <2>2. /\ r.availability.mode = p.availability.mode /\ r.availability.days = p.availability.days
          /\ r.reserve.type = p.reserve.type /\ r.reserve.bps = p.reserve.bps
          /\ r.reserve.fixed = p.reserve.fixed
          /\ r.payout.schedule = p.payout.schedule /\ r.payout.min = p.payout.min
          /\ r.reversal.funding = p.reversal.funding
          /\ r.reversal.negative = p.reversal.negative
        BY <1>3
    <2> QED
        BY <2>1, <2>2 DEF validatePolicy
<1>5. Sound(r)
    BY <1>1, <1>4, ResolvedIsSound DEF r
<1> QED
    BY <1>5 DEF policySpecForIndustry, p, r

PolicyInvariant ==
    /\ \A version \in policyRow : Sound(version.terms)
    /\ \A terms \in promised : Sound(terms)

(***************************************************************************)
(* lib/settlement-policy.ts: whatever is posted, promised or fallen back   *)
(* on is a complete policy, it survives being read and posted again, and   *)
(* no tenant is charged nothing.                                           *)
(***************************************************************************)
THEOREM PoliciesAlwaysHold == PolicySpec => []PoliciesHold
<1>1. PolicyInit => PolicyInvariant
    BY DEF PolicyInit, PolicyInvariant
<1>2. PolicyInvariant /\ [PolicyNext]_policyVars => PolicyInvariant'
    <2> SUFFICES ASSUME PolicyInvariant, [PolicyNext]_policyVars PROVE PolicyInvariant'
        OBVIOUS
    <2>1. ASSUME NEW industry \in Industries, PromisePolicy(industry) PROVE PolicyInvariant'
        BY <2>1, PromiseIsSound DEF PromisePolicy, PolicyInvariant
    <2>2. ASSUME NEW industry \in Industries, NEW over \in Overrides,
                 CreatePolicy(industry, over)
          PROVE  PolicyInvariant'
        <3> DEFINE p == presetForIndustry(industry).terms
                   r == resolvePolicy(p, over)
        <3>1. Sound(p) /\ Shaped(p)
            BY PresetsAreSound
        <3>2. /\ validatePolicy(r) /\ promised' = promised
              /\ policyRow' = {[industry |-> industry, terms |-> r]}
            BY <2>2 DEF CreatePolicy
        <3>3. Sound(r)
            BY <3>1, <3>2, ResolvedIsSound
        <3> HIDE DEF r
        <3> QED
            BY <3>2, <3>3 DEF PolicyInvariant
    <2>3. CASE UNCHANGED policyVars
        BY <2>3 DEF policyVars, PolicyInvariant
    <2> QED
        BY <2>1, <2>2, <2>3 DEF PolicyNext
<1>3. PolicyInvariant => PoliciesHold
    <2> SUFFICES ASSUME PolicyInvariant PROVE PoliciesHold
        OBVIOUS
    <2>1. policyRow # {} => (CHOOSE r \in policyRow : TRUE) \in policyRow
        OBVIOUS
    <2>2. Sound(appliedPolicy)
        BY <2>1, PromiseIsSound DEF appliedPolicy, PolicyInvariant
    <2>3. resolveFeeSpec > 0
        <3>1. DEFAULT_PRESET.fee > 0
            BY DEF DEFAULT_PRESET
        <3>2. \A industry : presetForIndustry(industry).fee > 0
            BY PresetsAreSound
        <3> QED
            BY <3>1, <3>2 DEF resolveFeeSpec
    <2>4. RepostKeepsPolicy
        BY RepostIsSame, PresetsAreSound DEF RepostKeepsPolicy, PolicyInvariant
    <2>5. \A terms \in promised \cup {appliedPolicy} : validatePolicy(terms)
        BY <2>2 DEF PolicyInvariant, Sound
    <2> QED
        BY <2>3, <2>4, <2>5 DEF PoliciesHold
<1> QED
    BY <1>1, <1>2, <1>3, PTL DEF PolicySpec
-----------------------------------------------------------------------------
(***************************************************************************)
(* The sandbox.  A settlement under way was asked for by an operator.      *)
(***************************************************************************)
SandboxInvariant ==
    /\ DOMAIN operator = Operators
    /\ kind = "preauth" /\ charge = "charged" => asked
    /\ kind = "preauth" => \A o \in Operators : operator[o].pc = "settle" => asked

\* routes/simulation.ts: a request that waits for its next step, or returns.
LEMMA OperatorMoves ==
    ASSUME SandboxInvariant, NEW o \in Operators, NEW entry, entry.pc # "settle",
           operator' = [operator EXCEPT ![o] = entry],
           kind' = kind, asked' = asked, charge' = charge
    PROVE  SandboxInvariant'
BY DEF SandboxInvariant

LEMMA SandboxStep == SandboxInvariant /\ [SandboxNext]_sandboxVars => SandboxInvariant'
<1> SUFFICES ASSUME SandboxInvariant, [SandboxNext]_sandboxVars
             PROVE  SandboxInvariant'
    OBVIOUS
<1>0. NoOperation.pc # "settle"
    BY DEF NoOperation
<1>1. ASSUME NEW o \in Operators, Prepare(o) PROVE SandboxInvariant'
    BY <1>1 DEF Prepare, SandboxInvariant
<1>2. ASSUME NEW o \in Operators, PollAskCharge(o) PROVE SandboxInvariant'
    BY <1>2, OperatorMoves DEF PollAskCharge, Awaits
<1>3. ASSUME NEW o \in Operators, DirectDecide(o) PROVE SandboxInvariant'
    BY <1>3, <1>0 DEF DirectDecide, Awaits, Returns, SandboxInvariant
<1>4. ASSUME NEW o \in Operators, PreauthDecide(o) PROVE SandboxInvariant'
    BY <1>4, <1>0, OperatorMoves DEF PreauthDecide, Returns
<1>5. ASSUME NEW o \in Operators, SettleCharge(o) PROVE SandboxInvariant'
    <2>1. /\ operator[o].pc = "settle" /\ kind' = kind /\ asked' = asked
          /\ charge' \in {charge, "charged"}
          /\ \E entry : entry.pc # "settle" /\ operator' = [operator EXCEPT ![o] = entry]
        BY <1>5, <1>0 DEF SettleCharge, CallProvider, Awaits, Returns
    <2>2. PICK entry : entry.pc # "settle" /\ operator' = [operator EXCEPT ![o] = entry]
        BY <2>1
    <2> QED
        BY <2>1, <2>2 DEF SandboxInvariant
<1>6. ASSUME NEW o \in Operators, WriteCaptured(o) PROVE SandboxInvariant'
    BY <1>6, <1>0, OperatorMoves DEF WriteCaptured, Returns
<1>7. ASSUME NEW o \in Operators, ReadForCapture(o) PROVE SandboxInvariant'
    BY <1>7 DEF ReadForCapture, Awaits, SandboxInvariant
<1>8. ASSUME NEW o \in Operators, ReadForCancel(o) PROVE SandboxInvariant'
    BY <1>8, OperatorMoves DEF ReadForCancel, Awaits
<1>9. ASSUME NEW o \in Operators, ReverseCharge(o) PROVE SandboxInvariant'
    <2>1. /\ kind' = kind /\ asked' = asked
          /\ charge' \in {charge, "reversed"}
          /\ \E entry : entry.pc # "settle" /\ operator' = [operator EXCEPT ![o] = entry]
        BY <1>9, <1>0 DEF ReverseCharge, CallProvider, Awaits, Returns
    <2>2. PICK entry : entry.pc # "settle" /\ operator' = [operator EXCEPT ![o] = entry]
        BY <2>1
    <2> QED
        BY <2>1, <2>2 DEF SandboxInvariant
<1>10. ASSUME NEW o \in Operators, WriteReleased(o) PROVE SandboxInvariant'
    BY <1>10, <1>0, OperatorMoves DEF WriteReleased, Returns
<1>11. ASSUME NEW o \in Operators, Cleanup(o) PROVE SandboxInvariant'
    BY <1>11 DEF Cleanup, SandboxInvariant
<1>12. CASE TesterPays
    BY <1>12 DEF TesterPays, SandboxInvariant
<1>13. CASE UNCHANGED sandboxVars
    BY <1>13 DEF sandboxVars, SandboxInvariant
<1> QED
    BY <1>1, <1>2, <1>3, <1>4, <1>5, <1>6, <1>7, <1>8, <1>9, <1>10, <1>11, <1>12, <1>13
    DEF SandboxNext

(***************************************************************************)
(* routes/simulation.ts: no poll captures the hold of a pre-auth test,     *)
(* with any number of polls, captures and releases at the same time.       *)
(***************************************************************************)
THEOREM HoldIsLeftToOperator == SandboxSpec => []HoldWaitsForOperator
<1>1. SandboxInit => SandboxInvariant
    BY DEF SandboxInit, SandboxInvariant, NoOperation
<1>2. SandboxInvariant => HoldWaitsForOperator
    BY DEF SandboxInvariant, HoldWaitsForOperator
<1> QED
    BY <1>1, <1>2, SandboxStep, PTL DEF SandboxSpec

-----------------------------------------------------------------------------
(***************************************************************************)
(* The checkout.  What the rows and requests are, and what connects them:  *)
(* a request waiting for its session has a row of its own, not tagged yet, *)
(* and what a request saw was tagged.                                      *)
(***************************************************************************)
IntentRecords ==
    [by : {"none", "direct", "link"}, created : Nat,
     status : OPEN \cup {"SUCCEEDED", "FAILED", "CANCELED"}, verdict : RISK_VERDICTS,
     held : BOOLEAN, secret : BOOLEAN, tagged : BOOLEAN]

RequestRecords ==
    [pc : {"idle", "bump", "config", "score", "create", "session", "cancel"},
     by : {"none", "direct", "link"}, provider : Providers \cup {"none"}, mode : Modes,
     cents : Amounts \cup {LinkCents, 0}, hold : BOOLEAN, asked : Nat, seen : SUBSET Nat,
     verdict : RISK_VERDICTS, row : Nat]

CheckoutTypes ==
    /\ clock \in Nat
    /\ link \in [status : {"ACTIVE", "PAID", "CANCELED"}, attempts : Nat]
    /\ intents \in Seq(IntentRecords)
    /\ request \in [Requests -> RequestRecords]

Waiting(rec) == rec.pc = "session"

\* A request over the rows of a table.
Placed(rec, kept) ==
    /\ Waiting(rec) => rec.row \in DOMAIN kept /\ ~ kept[rec.row].tagged
    /\ \A i \in rec.seen : i \in DOMAIN kept /\ kept[i].tagged

RowsApart ==
    \A r, q \in Requests :
        r # q /\ Waiting(request[r]) /\ Waiting(request[q]) => request[r].row # request[q].row

RowsPlaced ==
    /\ \A i \in DOMAIN intents : intents[i].created <= clock
    /\ \A r \in Requests : Placed(request[r], intents)
    /\ RowsApart

CheckoutInvariant == CheckoutTypes /\ RowsPlaced

\* What every step but CreateIntent leaves of the rows.
KeepsRows(kept, next) ==
    /\ DOMAIN next = DOMAIN kept
    /\ \A i \in DOMAIN kept :
          /\ next[i].by = kept[i].by /\ next[i].created = kept[i].created
          /\ next[i].verdict = kept[i].verdict

\* A row that is tagged stays so, of its kind, and opens no more once it is closed.
KeepsTagged(kept, next) ==
    \A i \in DOMAIN kept : kept[i].tagged =>
        /\ next[i].tagged /\ next[i].secret = kept[i].secret
        /\ next[i].status \in OPEN => kept[i].status \in OPEN

\* A request that is not waiting for a session, and saw what was tagged, or nothing.
LEMMA RequestMoves ==
    ASSUME CheckoutInvariant, NEW r \in Requests, NEW rec \in RequestRecords,
           request' = [request EXCEPT ![r] = rec], ~ Waiting(rec),
           \A i \in rec.seen : i \in DOMAIN intents /\ intents[i].tagged,
           intents' = intents, clock' = clock,
           link' \in [status : {"ACTIVE", "PAID", "CANCELED"}, attempts : Nat]
    PROVE  CheckoutInvariant'
<1>1. CheckoutTypes'
    BY DEF CheckoutInvariant, CheckoutTypes
<1>2. \A q \in Requests : request'[q] = IF q = r THEN rec ELSE request[q]
    BY DEF CheckoutInvariant, CheckoutTypes
<1>3. RowsApart'
    BY <1>2 DEF CheckoutInvariant, RowsPlaced, RowsApart
<1>4. \A q \in Requests : Placed(request'[q], intents')
    BY <1>2 DEF CheckoutInvariant, RowsPlaced, Placed
<1> QED
    BY <1>1, <1>3, <1>4 DEF CheckoutInvariant, RowsPlaced

\* One row changes, as the provider reports.
LEMMA RowMoves ==
    ASSUME CheckoutInvariant, NEW i \in DOMAIN intents, NEW row2 \in IntentRecords,
           intents' = [intents EXCEPT ![i] = row2],
           row2.by = intents[i].by, row2.secret = intents[i].secret,
           row2.created = intents[i].created, row2.verdict = intents[i].verdict,
           row2.tagged = intents[i].tagged, intents[i].status \in OPEN,
           request' = request, clock' = clock,
           link' \in [status : {"ACTIVE", "PAID", "CANCELED"}, attempts : Nat]
    PROVE  CheckoutInvariant' /\ KeepsRows(intents, intents') /\ KeepsTagged(intents, intents')
<1>1. /\ IsSequence(intents) /\ DOMAIN intents = 1..Len(intents)
    BY SequenceShape DEF CheckoutInvariant, CheckoutTypes
<1>2. intents' \in Seq(IntentRecords) /\ DOMAIN intents' = DOMAIN intents
    BY DEF CheckoutInvariant, CheckoutTypes
<1>3. \A j \in DOMAIN intents : intents'[j] = IF j = i THEN row2 ELSE intents[j]
    OBVIOUS
<1>4. CheckoutTypes'
    BY <1>2 DEF CheckoutInvariant, CheckoutTypes
<1>5. KeepsRows(intents, intents')
    BY <1>2, <1>3 DEF KeepsRows
<1>6. KeepsTagged(intents, intents')
    BY <1>3 DEF KeepsTagged
<1>7. \A q \in Requests : Placed(request'[q], intents')
    BY <1>2, <1>3 DEF CheckoutInvariant, RowsPlaced, Placed
<1>8. RowsApart'
    BY DEF CheckoutInvariant, RowsPlaced, RowsApart
<1>9. \A j \in DOMAIN intents' : intents'[j].created <= clock'
    BY <1>2, <1>3 DEF CheckoutInvariant, RowsPlaced
<1> QED
    BY <1>4, <1>5, <1>6, <1>7, <1>8, <1>9 DEF CheckoutInvariant, RowsPlaced

\* Nothing of the rows moves.
LEMMA RowsStand ==
    ASSUME intents' = intents
    PROVE  KeepsRows(intents, intents') /\ KeepsTagged(intents, intents')
BY DEF KeepsRows, KeepsTagged

-----------------------------------------------------------------------------
(***************************************************************************)
(* The steps by what they do to the properties.  Most are quiet: the       *)
(* request ends, or goes on with the question it came with, and counts for *)
(* nothing it did not count for before.                                    *)
(***************************************************************************)
Attempting(rec) == rec.pc \in {"config", "score", "create"} /\ rec.by = "link"

Passing(rec) == rec.pc = "create" /\ rec.verdict = "ALLOW"

Quiet(old, rec) ==
    /\ rec \in RequestRecords
    /\ ~ Waiting(rec)
    /\ \/ rec.seen = {}
       \/ rec.seen = old.seen /\ rec.mode = old.mode /\ rec.asked = old.asked
    /\ Attempting(rec) => Attempting(old)
    /\ Passing(rec) => Passing(old)

KeepsTable == KeepsRows(intents, intents') /\ KeepsTagged(intents, intents')

KeepsClock == clock' = clock /\ link'.attempts = link.attempts

QuietRequest ==
    /\ \E r \in Requests : \E rec : Quiet(request[r], rec)
                                    /\ request' = [request EXCEPT ![r] = rec]
    /\ KeepsTable /\ KeepsClock

Elsewhere ==
    /\ request' = request
    /\ KeepsTable
    /\ link'.attempts = link.attempts
    /\ clock' \in {clock, clock + 1}

Asks(r) == \E provider \in Providers, mode \in Modes, amount \in Amounts, hold \in Holds :
               StartDirect(r, provider, mode, amount, hold)

Counts(r) == /\ request[r].pc = "bump" /\ link.attempts < MaxAttempts
             /\ link' = [link EXCEPT !.attempts = @ + 1] /\ Goes(r, "config")
             /\ UNCHANGED <<clock, intents>>

Recent == {i \in DOMAIN intents : InWindow(intents[i].created, clock, RiskWindow)}

Passes(r) == /\ request[r].pc = "score" /\ Cardinality(Recent) < Thresholds.maxPerWindow
             /\ request' = [request EXCEPT ![r].pc = "create", ![r].verdict = "ALLOW"]
             /\ UNCHANGED <<clock, link, intents>>

StepKind ==
    \/ QuietRequest
    \/ Elsewhere
    \/ \E r \in Requests : Asks(r) \/ Counts(r) \/ Passes(r) \/ CreateIntent(r)

LEMMA NoRequestIsQuiet ==
    ASSUME NEW old PROVE Quiet(old, NoRequest)
BY DEF Quiet, NoRequest, RequestRecords, Waiting, Attempting, Passing, RISK_VERDICTS, Modes

\* A quiet request that leaves the rows alone.
LEMMA QuietKeeps ==
    ASSUME CheckoutInvariant, NEW r \in Requests, NEW rec, Quiet(request[r], rec),
           request' = [request EXCEPT ![r] = rec], intents' = intents, KeepsClock,
           link' \in [status : {"ACTIVE", "PAID", "CANCELED"}, attempts : Nat]
    PROVE  CheckoutInvariant' /\ StepKind
<1>1. rec \in RequestRecords /\ ~ Waiting(rec)
    BY DEF Quiet
<1>2. \A i \in rec.seen : i \in DOMAIN intents /\ intents[i].tagged
    BY DEF Quiet, CheckoutInvariant, RowsPlaced, Placed
<1>3. CheckoutInvariant'
    BY <1>1, <1>2, RequestMoves DEF KeepsClock
<1> QED
    BY <1>3, RowsStand DEF StepKind, QuietRequest, KeepsTable

\* A request that goes on to a phase that counts for nothing new.
LEMMA GoesIsQuiet ==
    ASSUME CheckoutInvariant, NEW r \in Requests, NEW pc \in {"score", "cancel"},
           pc = "score" => request[r].pc = "config", Goes(r, pc)
    PROVE  \E rec : Quiet(request[r], rec) /\ request' = [request EXCEPT ![r] = rec]
<1> DEFINE old == request[r]
           rec == [old EXCEPT !.pc = pc]
<1>1. old \in RequestRecords
    BY DEF CheckoutInvariant, CheckoutTypes
<1>2. Quiet(old, rec)
    BY <1>1 DEF Quiet, RequestRecords, Waiting, Attempting, Passing
<1>3. request' = [request EXCEPT ![r] = rec]
    BY DEF Goes
<1> QED
    BY <1>2, <1>3

LEMMA EndsKeeps ==
    ASSUME CheckoutInvariant, NEW r \in Requests, Ends(r), intents' = intents, KeepsClock,
           link' \in [status : {"ACTIVE", "PAID", "CANCELED"}, attempts : Nat]
    PROVE  CheckoutInvariant' /\ StepKind
BY NoRequestIsQuiet, QuietKeeps DEF Ends

\* A record of a request with its phase changed.
LEMMA PhaseIsTyped ==
    ASSUME CheckoutInvariant, NEW r \in Requests,
           NEW pc \in {"idle", "bump", "config", "score", "create", "cancel"}
    PROVE  LET rec == [request[r] EXCEPT !.pc = pc]
           IN  /\ rec \in RequestRecords /\ ~ Waiting(rec)
               /\ \A i \in rec.seen : i \in DOMAIN intents /\ intents[i].tagged
<1>1. request[r] \in RequestRecords /\ Placed(request[r], intents)
    BY DEF CheckoutInvariant, CheckoutTypes, RowsPlaced
<1> QED
    BY <1>1 DEF RequestRecords, Waiting, Placed

\* POST /payment-intents.
LEMMA AskKeeps ==
    ASSUME CheckoutInvariant, NEW r \in Requests, Asks(r)
    PROVE  CheckoutInvariant'
<1>1. PICK provider \in Providers, mode \in Modes, amount \in Amounts, hold \in Holds :
         StartDirect(r, provider, mode, amount, hold)
    BY DEF Asks
<1> DEFINE rec == [NoRequest EXCEPT !.pc = "score", !.by = "direct", !.provider = provider,
                                    !.mode = mode, !.cents = amount, !.hold = hold,
                                    !.asked = clock,
                                    !.seen = {i \in DOMAIN intents : intents[i].tagged}]
<1>2. DOMAIN intents \subseteq Nat /\ clock \in Nat
    BY SequenceShape DEF CheckoutInvariant, CheckoutTypes
<1>3. hold \in BOOLEAN
    BY CheckoutAssumption
<1>4. /\ rec \in RequestRecords /\ ~ Waiting(rec)
      /\ \A i \in rec.seen : i \in DOMAIN intents /\ intents[i].tagged
    BY <1>2, <1>3 DEF NoRequest, RequestRecords, Waiting, RISK_VERDICTS, Modes
<1>5. /\ request' = [request EXCEPT ![r] = rec]
      /\ UNCHANGED <<clock, link, intents>>
    BY <1>1 DEF StartDirect
<1> HIDE DEF rec
<1>6. link' \in [status : {"ACTIVE", "PAID", "CANCELED"}, attempts : Nat]
    BY <1>5 DEF CheckoutInvariant, CheckoutTypes
<1> QED
    BY <1>4, <1>5, <1>6, RequestMoves

LEMMA LinkStartKeeps ==
    ASSUME CheckoutInvariant, NEW r \in Requests, StartLink(r)
    PROVE  CheckoutInvariant' /\ StepKind
<1> DEFINE rec == [NoRequest EXCEPT !.pc = "bump", !.by = "link", !.cents = LinkCents]
<1>1. Quiet(request[r], rec)
    BY DEF Quiet, NoRequest, RequestRecords, Waiting, Attempting, Passing, RISK_VERDICTS, Modes
<1>2. request' = [request EXCEPT ![r] = rec] /\ UNCHANGED <<clock, link, intents>>
    BY DEF StartLink
<1> HIDE DEF rec
<1>3. link' \in [status : {"ACTIVE", "PAID", "CANCELED"}, attempts : Nat]
    BY <1>2 DEF CheckoutInvariant, CheckoutTypes
<1> QED
    BY <1>1, <1>2, <1>3, QuietKeeps DEF KeepsClock

LEMMA BumpKeeps ==
    ASSUME CheckoutInvariant, NEW r \in Requests, BumpAttempt(r)
    PROVE  CheckoutInvariant' /\ StepKind
<1>1. CASE link.attempts < MaxAttempts
    <2> DEFINE rec == [request[r] EXCEPT !.pc = "config"]
    <2>1. Counts(r)
        BY <1>1 DEF BumpAttempt, Counts
    <2>2. request' = [request EXCEPT ![r] = rec] /\ UNCHANGED <<clock, intents>>
        BY <2>1 DEF Counts, Goes
    <2>3. link' \in [status : {"ACTIVE", "PAID", "CANCELED"}, attempts : Nat]
        BY <2>1 DEF Counts, CheckoutInvariant, CheckoutTypes
    <2>4. /\ rec \in RequestRecords /\ ~ Waiting(rec)
          /\ \A i \in rec.seen : i \in DOMAIN intents /\ intents[i].tagged
        BY PhaseIsTyped
    <2> HIDE DEF rec
    <2>5. CheckoutInvariant'
        BY <2>2, <2>3, <2>4, RequestMoves
    <2> QED
        BY <2>1, <2>5 DEF StepKind
<1>2. CASE ~ (link.attempts < MaxAttempts)
    <2>1. Ends(r) /\ UNCHANGED <<clock, intents, link>>
        BY <1>2 DEF BumpAttempt
    <2>2. link' \in [status : {"ACTIVE", "PAID", "CANCELED"}, attempts : Nat]
        BY <2>1 DEF CheckoutInvariant, CheckoutTypes
    <2> QED
        BY <2>1, <2>2, EndsKeeps DEF KeepsClock
<1> QED
    BY <1>1, <1>2

LEMMA ConfigKeeps ==
    ASSUME CheckoutInvariant, NEW r \in Requests, CheckConfig(r)
    PROVE  CheckoutInvariant' /\ StepKind
<1>1. UNCHANGED <<clock, intents, link>> /\ request[r].pc = "config"
    BY DEF CheckConfig
<1>2. KeepsClock /\ link' \in [status : {"ACTIVE", "PAID", "CANCELED"}, attempts : Nat]
    BY <1>1 DEF CheckoutInvariant, CheckoutTypes, KeepsClock
<1>3. CASE Ends(r)
    BY <1>1, <1>2, <1>3, EndsKeeps
<1>4. CASE Goes(r, "score")
    <2>1. PICK rec : Quiet(request[r], rec) /\ request' = [request EXCEPT ![r] = rec]
        BY <1>1, <1>4, GoesIsQuiet
    <2> QED
        BY <1>1, <1>2, <2>1, QuietKeeps
<1> QED
    BY <1>3, <1>4 DEF CheckConfig

LEMMA CancelReadKeeps ==
    ASSUME CheckoutInvariant, NEW r \in Requests, ReadCancelLink(r)
    PROVE  CheckoutInvariant' /\ StepKind
<1>1. UNCHANGED <<clock, intents, link>> /\ Goes(r, "cancel")
    BY DEF ReadCancelLink
<1>2. KeepsClock /\ link' \in [status : {"ACTIVE", "PAID", "CANCELED"}, attempts : Nat]
    BY <1>1 DEF CheckoutInvariant, CheckoutTypes, KeepsClock
<1>3. PICK rec : Quiet(request[r], rec) /\ request' = [request EXCEPT ![r] = rec]
    BY <1>1, GoesIsQuiet
<1> QED
    BY <1>1, <1>2, <1>3, QuietKeeps

LEMMA CancelKeeps ==
    ASSUME CheckoutInvariant, NEW r \in Requests, CommitCancelLink(r)
    PROVE  CheckoutInvariant' /\ StepKind
<1>1. UNCHANGED <<clock, intents>> /\ Ends(r) /\ link' = [link EXCEPT !.status = "CANCELED"]
    BY DEF CommitCancelLink
<1>2. KeepsClock /\ link' \in [status : {"ACTIVE", "PAID", "CANCELED"}, attempts : Nat]
    BY <1>1 DEF CheckoutInvariant, CheckoutTypes, KeepsClock
<1> QED
    BY <1>1, <1>2, EndsKeeps

\* scoreRisk.
LEMMA ScoreKeeps ==
    ASSUME CheckoutInvariant, NEW r \in Requests, Score(r)
    PROVE  CheckoutInvariant' /\ StepKind
<1> DEFINE verdict == evaluateRisk(request[r].cents, Cardinality(Recent), Thresholds)
           rec == [request[r] EXCEPT !.pc = "create", !.verdict = verdict]
<1>1. /\ UNCHANGED <<clock, intents, link>> /\ request[r].pc = "score"
      /\ IF verdict = "BLOCK" THEN Ends(r)
         ELSE request' = [request EXCEPT ![r].pc = "create", ![r].verdict = verdict]
    BY DEF Score, Recent
<1>2. KeepsClock /\ link' \in [status : {"ACTIVE", "PAID", "CANCELED"}, attempts : Nat]
    BY <1>1 DEF CheckoutInvariant, CheckoutTypes, KeepsClock
<1>3. /\ verdict \in RISK_VERDICTS
      /\ verdict = "ALLOW" => ~ (Cardinality(Recent) >= Thresholds.maxPerWindow)
    BY DEF evaluateRisk, RISK_VERDICTS
<1>4. Cardinality(Recent) \in Nat /\ Thresholds.maxPerWindow \in Nat
    <2>1. Len(intents) \in Nat /\ DOMAIN intents = 1..Len(intents)
        BY SequenceShape DEF CheckoutInvariant, CheckoutTypes
    <2>2. IsFiniteSet(DOMAIN intents)
        BY <2>1, FS_Interval
    <2>3. IsFiniteSet(Recent)
        BY <2>2, FS_Subset DEF Recent
    <2> QED
        BY <2>3, FS_CardinalityType, CheckoutAssumption
<1>5. request[r] \in RequestRecords /\ Placed(request[r], intents)
    BY DEF CheckoutInvariant, CheckoutTypes, RowsPlaced
<1> HIDE DEF verdict
<1>6. CASE verdict = "BLOCK"
    BY <1>1, <1>2, <1>6, EndsKeeps
<1>7. CASE verdict = "REVIEW"
    <2>1. Quiet(request[r], rec)
        BY <1>1, <1>3, <1>5, <1>7 DEF Quiet, RequestRecords, Waiting, Attempting, Passing
    <2>2. request' = [request EXCEPT ![r] = rec]
        BY <1>1, <1>7
    <2> HIDE DEF rec
    <2> QED
        BY <1>1, <1>2, <2>1, <2>2, QuietKeeps
<1>8. CASE verdict = "ALLOW"
    <2>1. Cardinality(Recent) < Thresholds.maxPerWindow
        BY <1>3, <1>4, <1>8
    <2>2. Passes(r)
        BY <1>1, <1>8, <2>1 DEF Passes
    <2>3. request' = [request EXCEPT ![r] = rec]
        BY <1>1, <1>8
    <2>4. /\ rec \in RequestRecords /\ ~ Waiting(rec)
          /\ \A i \in rec.seen : i \in DOMAIN intents /\ intents[i].tagged
        BY <1>3, <1>5 DEF RequestRecords, Waiting, Placed
    <2> HIDE DEF rec
    <2>5. CheckoutInvariant'
        BY <1>1, <1>2, <2>3, <2>4, RequestMoves
    <2> QED
        BY <2>2, <2>5 DEF StepKind
<1> QED
    BY <1>3, <1>6, <1>7, <1>8 DEF RISK_VERDICTS

\* The row is appended and belongs to its request.
LEMMA CreateFacts ==
    ASSUME CheckoutInvariant, NEW r \in Requests, CreateIntent(r)
    PROVE  /\ Len(intents) \in Nat /\ DOMAIN intents = 1..Len(intents)
           /\ DOMAIN intents' = 1..(Len(intents) + 1)
           /\ \A i \in DOMAIN intents : intents'[i] = intents[i]
           /\ intents'[Len(intents) + 1]
                 = [by |-> request[r].by, created |-> clock, status |-> "CREATED",
                    verdict |-> request[r].verdict, held |-> FALSE, secret |-> FALSE,
                    tagged |-> FALSE]
           /\ request' = [request EXCEPT ![r] =
                             [request[r] EXCEPT !.pc = "session", !.row = Len(intents) + 1]]
           /\ intents' \in Seq(IntentRecords)
           /\ UNCHANGED <<clock, link>>
<1> DEFINE new == [by |-> request[r].by, created |-> clock, status |-> "CREATED",
                   verdict |-> request[r].verdict, held |-> FALSE, secret |-> FALSE,
                   tagged |-> FALSE]
<1>1. intents \in Seq(IntentRecords) /\ request[r] \in RequestRecords /\ clock \in Nat
    BY DEF CheckoutInvariant, CheckoutTypes
<1>2. new \in IntentRecords
    BY <1>1 DEF IntentRecords, RequestRecords, OPEN
<1>3. /\ intents' = Append(intents, new)
      /\ request' = [request EXCEPT ![r].pc = "session", ![r].row = Len(intents')]
      /\ UNCHANGED <<clock, link>>
    BY DEF CreateIntent
<1> HIDE DEF new
<1>4. /\ Len(intents) \in Nat /\ DOMAIN intents = 1..Len(intents)
    BY <1>1, SequenceShape
<1>5. /\ Len(intents') = Len(intents) + 1 /\ DOMAIN intents' = 1..(Len(intents) + 1)
      /\ \A i \in 1..Len(intents) : intents'[i] = intents[i]
      /\ intents'[Len(intents) + 1] = new
      /\ intents' \in Seq(IntentRecords)
    BY <1>1, <1>2, <1>3, <1>4
<1> QED
    BY <1>3, <1>4, <1>5 DEF new

LEMMA CreateKeeps ==
    ASSUME CheckoutInvariant, NEW r \in Requests, CreateIntent(r)
    PROVE  CheckoutInvariant' /\ StepKind
<1> DEFINE n   == Len(intents) + 1
           rec == [request[r] EXCEPT !.pc = "session", !.row = n]
<1>1. /\ Len(intents) \in Nat /\ DOMAIN intents = 1..Len(intents)
      /\ DOMAIN intents' = 1..n
      /\ \A i \in DOMAIN intents : intents'[i] = intents[i]
      /\ ~ intents'[n].tagged /\ intents'[n].created = clock
      /\ request' = [request EXCEPT ![r] = rec]
      /\ intents' \in Seq(IntentRecords)
      /\ UNCHANGED <<clock, link>>
    <2>1. intents'[n] = [by |-> request[r].by, created |-> clock, status |-> "CREATED",
                         verdict |-> request[r].verdict, held |-> FALSE, secret |-> FALSE,
                         tagged |-> FALSE]
        BY CreateFacts
    <2>2. ~ intents'[n].tagged /\ intents'[n].created = clock
        BY <2>1
    <2>3. request' = [request EXCEPT ![r] = rec]
        BY CreateFacts
    <2> HIDE DEF rec
    <2> QED
        BY <2>2, <2>3, CreateFacts
<1>2. request[r] \in RequestRecords /\ Placed(request[r], intents) /\ clock \in Nat
    BY DEF CheckoutInvariant, CheckoutTypes, RowsPlaced
<1>3. rec \in RequestRecords /\ rec.row = n /\ rec.seen = request[r].seen
    <2>1. ASSUME NEW old \in RequestRecords, NEW m \in Nat
          PROVE  LET new == [old EXCEPT !.pc = "session", !.row = m]
                 IN  new \in RequestRecords /\ new.row = m /\ new.seen = old.seen
        BY DEF RequestRecords
    <2>2. n \in Nat
        BY <1>1
    <2> QED
        BY <1>2, <2>1, <2>2
<1> HIDE DEF rec
<1>4. CheckoutTypes'
    BY <1>1, <1>3 DEF CheckoutInvariant, CheckoutTypes
<1>5. \A q \in Requests : request'[q] = IF q = r THEN rec ELSE request[q]
    BY <1>1 DEF CheckoutInvariant, CheckoutTypes
<1>6. \A q \in Requests : q # r /\ Waiting(request[q]) => request[q].row \in 1..Len(intents)
    BY <1>1 DEF CheckoutInvariant, RowsPlaced, Placed
<1>7. RowsApart'
    BY <1>1, <1>3, <1>5, <1>6 DEF CheckoutInvariant, RowsPlaced, RowsApart
<1>8. \A q \in Requests : Placed(request'[q], intents')
    <2>1. ASSUME NEW q \in Requests, q # r PROVE Placed(request'[q], intents')
        BY <1>1, <1>5, <2>1 DEF CheckoutInvariant, RowsPlaced, Placed
    <2>2. Placed(rec, intents')
        BY <1>1, <1>2, <1>3 DEF Placed
    <2> QED
        BY <1>5, <2>1, <2>2
<1>9. \A i \in DOMAIN intents' : intents'[i].created <= clock'
    BY <1>1, <1>2 DEF CheckoutInvariant, RowsPlaced
<1> QED
    BY <1>4, <1>7, <1>8, <1>9 DEF CheckoutInvariant, RowsPlaced, StepKind

\* createCheckoutSession answers, or throws and leaves the row.
LEMMA SessionKeeps ==
    ASSUME CheckoutInvariant, NEW r \in Requests, OpenSession(r)
    PROVE  CheckoutInvariant' /\ StepKind
<1>1. request[r].pc = "session" /\ Ends(r) /\ UNCHANGED <<clock, link>>
    BY DEF OpenSession
<1>2. KeepsClock /\ link' \in [status : {"ACTIVE", "PAID", "CANCELED"}, attempts : Nat]
    BY <1>1 DEF CheckoutInvariant, CheckoutTypes, KeepsClock
<1>3. CASE UNCHANGED intents
    BY <1>1, <1>2, <1>3, EndsKeeps
<1>4. CASE ~ UNCHANGED intents
    <2> DEFINE i == request[r].row
               opened == [intents[i] EXCEPT !.held = HoldsFunds(request[r]),
                                            !.status = "REQUIRES_ACTION",
                                            !.secret = GivesSecret(request[r]),
                                            !.tagged = (request[r].by = "direct")]
    <2>1. intents' = [intents EXCEPT ![i] = opened]
        BY <1>4 DEF OpenSession
    <2>2. /\ i \in DOMAIN intents /\ ~ intents[i].tagged
          /\ request[r] \in RequestRecords /\ intents \in Seq(IntentRecords)
        BY <1>1 DEF CheckoutInvariant, CheckoutTypes, RowsPlaced, Placed, Waiting
    <2>3. intents[i] \in IntentRecords /\ DOMAIN intents = 1..Len(intents) /\ Len(intents) \in Nat
        BY <2>2, SequenceShape
    <2>4. HoldsFunds(request[r]) \in BOOLEAN /\ GivesSecret(request[r]) \in BOOLEAN
        BY <2>2 DEF HoldsFunds, GivesSecret, RequestRecords
    <2>5. /\ opened \in IntentRecords
          /\ opened.by = intents[i].by /\ opened.created = intents[i].created
          /\ opened.verdict = intents[i].verdict
        BY <2>3, <2>4 DEF IntentRecords, OPEN
    <2> HIDE DEF opened
    <2>6. /\ DOMAIN intents' = DOMAIN intents /\ intents' \in Seq(IntentRecords)
          /\ \A j \in DOMAIN intents : intents'[j] = IF j = i THEN opened ELSE intents[j]
        BY <2>1, <2>2, <2>3, <2>5
    <2>7. KeepsTable
        BY <2>2, <2>5, <2>6 DEF KeepsTable, KeepsRows, KeepsTagged
    <2>8. \A q \in Requests : request'[q] = IF q = r THEN NoRequest ELSE request[q]
        BY <1>1 DEF Ends, CheckoutInvariant, CheckoutTypes
    <2>9. NoRequest \in RequestRecords /\ ~ Waiting(NoRequest) /\ NoRequest.seen = {}
        BY DEF NoRequest, RequestRecords, Waiting, RISK_VERDICTS, Modes
    <2>10. CheckoutTypes'
        BY <1>1, <1>2, <2>6, <2>9 DEF Ends, CheckoutInvariant, CheckoutTypes
    <2>11. RowsApart'
        BY <2>8, <2>9 DEF CheckoutInvariant, RowsPlaced, RowsApart
    <2>12. \A q \in Requests : Placed(request'[q], intents')
        <3>1. ASSUME NEW q \in Requests, q # r PROVE Placed(request[q], intents')
            <4>1. Placed(request[q], intents)
                BY DEF CheckoutInvariant, RowsPlaced
            <4>2. Waiting(request[q]) => request[q].row # i
                BY <1>1, <3>1 DEF CheckoutInvariant, RowsPlaced, RowsApart, Waiting
            <4> QED
                BY <2>2, <2>6, <4>1, <4>2 DEF Placed
        <3>2. Placed(NoRequest, intents')
            BY <2>9 DEF Placed
        <3> QED
            BY <2>8, <3>1, <3>2
    <2>13. \A j \in DOMAIN intents' : intents'[j].created <= clock'
        BY <1>1, <2>5, <2>6 DEF CheckoutInvariant, RowsPlaced
    <2>14. CheckoutInvariant'
        BY <2>10, <2>11, <2>12, <2>13 DEF CheckoutInvariant, RowsPlaced
    <2>15. QuietRequest
        BY <1>1, <1>2, <2>7, NoRequestIsQuiet DEF QuietRequest, Ends
    <2> QED
        BY <2>14, <2>15 DEF StepKind
<1> QED
    BY <1>3, <1>4

\* The provider reports, an operator resolves a review.
LEMMA ReportKeeps ==
    ASSUME CheckoutInvariant, NEW i \in DOMAIN intents,
           \/ CustomerPays(i) \/ CustomerFails(i)
           \/ \E verdict \in {"ALLOW", "BLOCK"} : ResolveRisk(i, verdict)
    PROVE  CheckoutInvariant' /\ StepKind
<1>1. PICK status \in {"AUTHORIZED", "SUCCEEDED", "FAILED", "CANCELED"} :
         intents' = [intents EXCEPT ![i].status = status]
    BY DEF CustomerPays, CustomerFails, ResolveRisk
<1>2. /\ intents[i].status \in OPEN
      /\ request' = request /\ clock' = clock
    BY DEF CustomerPays, CustomerFails, ResolveRisk, OPEN
<1>3. /\ link' \in [status : {"ACTIVE", "PAID", "CANCELED"}, attempts : Nat]
      /\ link'.attempts = link.attempts
    BY DEF CustomerPays, CustomerFails, ResolveRisk, CheckoutInvariant, CheckoutTypes
<1> DEFINE row2 == [intents[i] EXCEPT !.status = status]
<1>4. intents[i] \in IntentRecords
    BY SequenceShape DEF CheckoutInvariant, CheckoutTypes
<1>5. /\ row2 \in IntentRecords
      /\ row2.by = intents[i].by /\ row2.secret = intents[i].secret
      /\ row2.created = intents[i].created /\ row2.verdict = intents[i].verdict
      /\ row2.tagged = intents[i].tagged
    BY <1>4 DEF IntentRecords, OPEN
<1>6. intents' = [intents EXCEPT ![i] = row2]
    BY <1>1
<1> HIDE DEF row2
<1>7. CheckoutInvariant' /\ KeepsTable
    BY <1>2, <1>3, <1>5, <1>6, RowMoves DEF KeepsTable
<1> QED
    BY <1>2, <1>3, <1>7 DEF StepKind, Elsewhere

LEMMA TickKeeps ==
    ASSUME CheckoutInvariant, Tick \/ UNCHANGED checkoutVars
    PROVE  CheckoutInvariant' /\ StepKind
<1>1. /\ link' = link /\ intents' = intents /\ request' = request
      /\ clock' \in {clock, clock + 1}
    BY DEF Tick, checkoutVars
<1>2. clock' \in Nat /\ clock \in Nat /\ clock <= clock'
    BY <1>1 DEF CheckoutInvariant, CheckoutTypes
<1>3. CheckoutTypes'
    BY <1>1, <1>2 DEF CheckoutInvariant, CheckoutTypes
<1>4. \A i \in DOMAIN intents : intents[i].created \in Nat
    <2>1. \A i \in DOMAIN intents : intents[i] \in IntentRecords
        BY SequenceShape DEF CheckoutInvariant, CheckoutTypes
    <2>2. \A x \in IntentRecords : x.created \in Nat
        BY DEF IntentRecords
    <2> QED
        BY <2>1, <2>2
<1>5. RowsPlaced'
    BY <1>1, <1>2, <1>4 DEF CheckoutInvariant, RowsPlaced, RowsApart
<1> QED
    BY <1>1, <1>3, <1>5, RowsStand DEF CheckoutInvariant, StepKind, Elsewhere, KeepsTable

LEMMA CheckoutStep ==
    ASSUME CheckoutInvariant, [CheckoutNext]_checkoutVars
    PROVE  CheckoutInvariant' /\ StepKind
<1>1. ASSUME NEW r \in Requests, NEW provider \in Providers, NEW mode \in Modes,
             NEW hold \in Holds, NEW amount \in Amounts,
             StartDirect(r, provider, mode, amount, hold)
      PROVE  CheckoutInvariant' /\ StepKind
    BY <1>1, AskKeeps DEF Asks, StepKind
<1> QED
    BY <1>1, LinkStartKeeps, BumpKeeps, ConfigKeeps, ScoreKeeps, CreateKeeps, SessionKeeps,
       CancelReadKeeps, CancelKeeps, ReportKeeps, TickKeeps, Zenon DEF CheckoutNext

-----------------------------------------------------------------------------
(***************************************************************************)
(* The reference lookup, of one request over a table.                      *)
(***************************************************************************)
Recalled(rec, kept) ==
    \A i \in rec.seen :
        /\ kept[i].status \in OPEN
        /\ kept[i].secret = (rec.mode = "wallet")
        /\ InWindow(kept[i].created, rec.asked, DedupWindow)
        => \E k \in rec.seen : k > i /\ kept[k].secret # (rec.mode = "wallet")

\* What was seen is tagged, and a tagged row never opens again.
LEMMA RecalledKept ==
    ASSUME NEW rec, NEW kept, NEW next, Recalled(rec, kept),
           \A i \in rec.seen : i \in DOMAIN kept /\ kept[i].tagged,
           KeepsRows(kept, next), KeepsTagged(kept, next)
    PROVE  Recalled(rec, next)
BY DEF Recalled, KeepsRows, KeepsTagged

\* The lookup found nothing: the newest row that could match is of the other kind.
LEMMA AskedIsRecalled ==
    ASSUME CheckoutInvariant, NEW mode, ~ Matches(mode), NEW rec, rec.mode = mode,
           rec.asked = clock, rec.seen = {i \in DOMAIN intents : intents[i].tagged}
    PROVE  Recalled(rec, intents)
<1> SUFFICES ASSUME NEW i \in rec.seen, intents[i].status \in OPEN, SameKind(i, mode),
                    InWindow(intents[i].created, clock, DedupWindow)
             PROVE  \E k \in rec.seen : k > i /\ ~ SameKind(k, mode)
    BY DEF Recalled, SameKind
<1> DEFINE C == Cached(clock)
<1>1. i \in C /\ C \subseteq rec.seen
    BY DEF Cached
<1>2. IsFiniteSet(C) /\ C \subseteq Int
    <2>1. Len(intents) \in Nat /\ DOMAIN intents = 1..Len(intents)
        BY SequenceShape DEF CheckoutInvariant, CheckoutTypes
    <2>2. IsFiniteSet(DOMAIN intents)
        BY <2>1, FS_Interval
    <2>3. C \in SUBSET DOMAIN intents
        BY DEF Cached
    <2> QED
        BY <2>1, <2>2, <2>3, FS_Subset
<1>3. C # {} /\ ~ SameKind(Max(C), mode)
    BY <1>1 DEF Matches
<1> HIDE DEF C
<1>4. \E x \in C : \A y \in C : y <= x
    BY <1>1, <1>2, LargestExists
<1>5. \E x \in C : \A y \in C : x >= y
    BY <1>2, <1>4
<1>6. Max(C) \in C /\ \A y \in C : Max(C) >= y
    BY <1>5 DEF Max
<1>7. Max(C) > i
    <2>1. PICK m : m = Max(C)
        OBVIOUS
    <2>2. m \in Int /\ i \in Int /\ m >= i /\ m # i
        BY <1>1, <1>2, <1>3, <1>6, <2>1
    <2>3. m > i
        BY <2>2
    <2> QED
        BY <2>1, <2>3
<1> QED
    BY <1>1, <1>3, <1>6, <1>7

LEMMA RecallStep ==
    ASSUME CheckoutInvariant, StepKind, RepeatsAreCached
    PROVE  RepeatsAreCached'
<1>0. \A r \in Requests : Recalled(request[r], intents)
    BY DEF RepeatsAreCached, Recalled, SameKind
<1> SUFFICES \A q \in Requests : Recalled(request'[q], intents')
    BY DEF RepeatsAreCached, Recalled, SameKind
<1>a. \A q \in Requests : \A i \in request[q].seen : i \in DOMAIN intents /\ intents[i].tagged
    BY DEF CheckoutInvariant, RowsPlaced, Placed
<1>b. DOMAIN request = Requests
    BY DEF CheckoutInvariant, CheckoutTypes
<1>1. CASE QuietRequest
    <2>1. PICK r \in Requests : \E rec : Quiet(request[r], rec)
                                         /\ request' = [request EXCEPT ![r] = rec]
        BY <1>1 DEF QuietRequest
    <2>2. PICK rec : Quiet(request[r], rec) /\ request' = [request EXCEPT ![r] = rec]
        BY <2>1
    <2>3. KeepsRows(intents, intents') /\ KeepsTagged(intents, intents')
        BY <1>1 DEF QuietRequest, KeepsTable
    <2>4. \A q \in Requests : Recalled(request[q], intents')
        BY <1>0, <1>a, <2>3, RecalledKept
    <2>5. Recalled(rec, intents')
        BY <2>2, <2>4 DEF Quiet, Recalled
    <2> QED
        BY <1>b, <2>2, <2>4, <2>5
<1>2. CASE Elsewhere
    BY <1>0, <1>2, <1>a, RecalledKept DEF Elsewhere, KeepsTable
<1>3. ASSUME NEW r \in Requests, Asks(r) PROVE \A q \in Requests : Recalled(request'[q], intents')
    <2>1. PICK provider \in Providers, mode \in Modes, amount \in Amounts, hold \in Holds :
             StartDirect(r, provider, mode, amount, hold)
        BY <1>3 DEF Asks
    <2> DEFINE rec == [NoRequest EXCEPT !.pc = "score", !.by = "direct", !.provider = provider,
                                        !.mode = mode, !.cents = amount, !.hold = hold,
                                        !.asked = clock,
                                        !.seen = {i \in DOMAIN intents : intents[i].tagged}]
    <2>2. /\ request' = [request EXCEPT ![r] = rec] /\ intents' = intents /\ ~ Matches(mode)
        BY <2>1 DEF StartDirect
    <2>3. /\ rec.mode = mode /\ rec.asked = clock
          /\ rec.seen = {i \in DOMAIN intents : intents[i].tagged}
        BY DEF NoRequest
    <2> HIDE DEF rec
    <2>4. Recalled(rec, intents)
        BY <2>2, <2>3, AskedIsRecalled
    <2> QED
        BY <1>0, <1>b, <2>2, <2>4
<1>4. ASSUME NEW r \in Requests, Counts(r) \/ Passes(r)
      PROVE  \A q \in Requests : Recalled(request'[q], intents')
    <2>1. /\ intents' = intents
          /\ \A q \in Requests : /\ request'[q].seen = request[q].seen
                                 /\ request'[q].mode = request[q].mode
                                 /\ request'[q].asked = request[q].asked
        <3>1. PICK rec : /\ request' = [request EXCEPT ![r] = rec] /\ rec.seen = request[r].seen
                         /\ rec.mode = request[r].mode /\ rec.asked = request[r].asked
            <4>1. request[r] \in RequestRecords
                BY DEF CheckoutInvariant, CheckoutTypes
            <4>2. ASSUME NEW pc, NEW verdict
                  PROVE  LET a == [request[r] EXCEPT !.pc = pc]
                             b == [request[r] EXCEPT !.pc = pc, !.verdict = verdict]
                         IN  /\ a.seen = request[r].seen /\ b.seen = request[r].seen
                             /\ a.mode = request[r].mode /\ b.mode = request[r].mode
                             /\ a.asked = request[r].asked /\ b.asked = request[r].asked
                BY <4>1 DEF RequestRecords
            <4>3. CASE Counts(r)
                BY <4>2, <4>3 DEF Counts, Goes
            <4>4. CASE Passes(r)
                <5> DEFINE b == [request[r] EXCEPT !.pc = "create", !.verdict = "ALLOW"]
                <5>1. request' = [request EXCEPT ![r] = b]
                    BY <4>4 DEF Passes
                <5>2. /\ b.seen = request[r].seen /\ b.mode = request[r].mode
                      /\ b.asked = request[r].asked
                    BY <4>2
                <5> HIDE DEF b
                <5> QED
                    BY <5>1, <5>2
            <4> QED
                BY <1>4, <4>3, <4>4
        <3>2. intents' = intents
            BY <1>4 DEF Counts, Passes
        <3> QED
            BY <1>b, <3>1, <3>2
    <2> QED
        BY <1>0, <2>1 DEF Recalled
<1>5. ASSUME NEW r \in Requests, CreateIntent(r)
      PROVE  \A q \in Requests : Recalled(request'[q], intents')
    <2>1. /\ \A i \in DOMAIN intents : intents'[i] = intents[i]
          /\ request' = [request EXCEPT ![r] =
                            [request[r] EXCEPT !.pc = "session", !.row = Len(intents) + 1]]
        BY <1>5, CreateFacts
    <2>2. \A q \in Requests : /\ request'[q].seen = request[q].seen
                              /\ request'[q].mode = request[q].mode
                              /\ request'[q].asked = request[q].asked
        BY <1>b, <2>1 DEF CheckoutInvariant, CheckoutTypes, RequestRecords
    <2> QED
        BY <1>0, <1>a, <2>1, <2>2 DEF Recalled
<1> QED
    BY <1>1, <1>2, <1>3, <1>4, <1>5 DEF StepKind

LEMMA CheckoutStart == CheckoutInit => CheckoutInvariant
<1> SUFFICES ASSUME CheckoutInit PROVE CheckoutInvariant
    OBVIOUS
<1>1. NoRequest \in RequestRecords /\ ~ Waiting(NoRequest) /\ NoRequest.seen = {}
    BY DEF NoRequest, RequestRecords, Waiting, RISK_VERDICTS, Modes
<1>2. DOMAIN intents = {}
    BY DEF CheckoutInit
<1>3. CheckoutTypes
    BY <1>1 DEF CheckoutInit, CheckoutTypes
<1>4. RowsPlaced
    BY <1>1, <1>2 DEF CheckoutInit, RowsPlaced, RowsApart, Placed
<1> QED
    BY <1>3, <1>4 DEF CheckoutInvariant

(***************************************************************************)
(* routes/paymentIntents.ts, the reference lookup: for every window and    *)
(* any number of requests and providers, a request that could see a live,  *)
(* recent session of its kind is on its way to another one only if a       *)
(* session of the other kind came in between.                              *)
(***************************************************************************)
THEOREM RepeatsFindTheirSession == CheckoutSpec => []RepeatsAreCached
<1>1. CheckoutInit => RepeatsAreCached
    BY DEF CheckoutInit, RepeatsAreCached, NoRequest
<1>2. CheckoutInvariant /\ RepeatsAreCached /\ [CheckoutNext]_checkoutVars
         => CheckoutInvariant' /\ RepeatsAreCached'
    BY CheckoutStep, RecallStep
<1> QED
    BY <1>1, <1>2, CheckoutStart, PTL DEF CheckoutSpec

-----------------------------------------------------------------------------
(***************************************************************************)
(* Counting: the rows of the link and the requests that hold one of its    *)
(* attempts; the rows let through in a window and the requests scored and  *)
(* not inserted yet.                                                       *)
(***************************************************************************)
Made == {i \in DOMAIN intents : intents[i].by = "link"}

Flying == {r \in Requests : Attempting(request[r])}

AllowedIn(kept, t) ==
    {i \in DOMAIN kept : /\ kept[i].verdict = "ALLOW"
                          /\ kept[i].created <= t
                          /\ InWindow(kept[i].created, t, RiskWindow)}

Passed == {r \in Requests : Passing(request[r])}

LEMMA Populations ==
    ASSUME CheckoutInvariant
    PROVE  /\ IsFiniteSet(DOMAIN intents)
           /\ IsFiniteSet(Made) /\ Cardinality(Made) \in Nat
           /\ IsFiniteSet(Flying) /\ Cardinality(Flying) \in Nat
           /\ IsFiniteSet(Passed) /\ Cardinality(Passed) \in Nat
           /\ \A t : IsFiniteSet(AllowedIn(intents, t)) /\ Cardinality(AllowedIn(intents, t)) \in Nat
<1>1. IsFiniteSet(DOMAIN intents)
    <2>1. Len(intents) \in Nat /\ DOMAIN intents = 1..Len(intents)
        BY SequenceShape DEF CheckoutInvariant, CheckoutTypes
    <2> QED
        BY <2>1, FS_Interval
<1>2. IsFiniteSet(Requests)
    BY CheckoutAssumption
<1>3. /\ Made \in SUBSET DOMAIN intents /\ Flying \in SUBSET Requests
      /\ Passed \in SUBSET Requests
      /\ \A t : AllowedIn(intents, t) \in SUBSET DOMAIN intents
    BY DEF Made, Flying, Passed, AllowedIn
<1>4. \A S, T : IsFiniteSet(S) /\ T \in SUBSET S => IsFiniteSet(T) /\ Cardinality(T) \in Nat
    BY FS_Subset, FS_CardinalityType
<1> QED
    BY <1>1, <1>2, <1>3, <1>4

\* One request changes.
LEMMA OneRequest ==
    ASSUME CheckoutInvariant, NEW r \in Requests, NEW rec,
           request' = [request EXCEPT ![r] = rec]
    PROVE  /\ Attempting(rec) /\ ~ Attempting(request[r]) => Flying' = Flying \cup {r}
           /\ ~ Attempting(rec) => Flying' = Flying \ {r}
           /\ Attempting(rec) /\ Attempting(request[r]) => Flying' = Flying
           /\ ~ Passing(rec) => Passed' = Passed \ {r}
           /\ (Passing(rec) => Passing(request[r])) => Passed' \subseteq Passed
           /\ (Attempting(rec) => Attempting(request[r])) => Flying' \subseteq Flying
<1>1. \A q \in Requests : request'[q] = IF q = r THEN rec ELSE request[q]
    BY DEF CheckoutInvariant, CheckoutTypes
<1> QED
    BY <1>1 DEF Flying, Passed

LEMMA TablesKept ==
    ASSUME KeepsRows(intents, intents')
    PROVE  Made' = Made /\ \A t : AllowedIn(intents', t) = AllowedIn(intents, t)
<1>1. Made' = Made
    BY DEF KeepsRows, Made
<1>2. ASSUME NEW t PROVE AllowedIn(intents', t) = AllowedIn(intents, t)
    BY DEF KeepsRows, AllowedIn, InWindow
<1> QED
    BY <1>1, <1>2

LEMMA PassedBound == ASSUME CheckoutInvariant
    PROVE  Cardinality(Passed') <= Cardinality(Requests) /\ Cardinality(Requests) \in Nat \ {0}
<1>1. Passed' \in SUBSET Requests
    BY DEF Passed
<1>2. IsFiniteSet(Requests) /\ Requests # {}
    BY CheckoutAssumption
<1> QED
    BY <1>1, <1>2, FS_Subset, FS_CardinalityType, FS_EmptySet

\* A direct request counts for nothing until it is scored.
LEMMA AskedCounts ==
    ASSUME NEW r \in Requests, Asks(r)
    PROVE  \E rec : /\ request' = [request EXCEPT ![r] = rec]
                    /\ ~ Attempting(rec) /\ ~ Passing(rec)
<1>1. PICK provider \in Providers, mode \in Modes, amount \in Amounts, hold \in Holds :
         StartDirect(r, provider, mode, amount, hold)
    BY DEF Asks
<1> DEFINE rec == [NoRequest EXCEPT !.pc = "score", !.by = "direct", !.provider = provider,
                                    !.mode = mode, !.cents = amount, !.hold = hold,
                                    !.asked = clock,
                                    !.seen = {i \in DOMAIN intents : intents[i].tagged}]
<1>2. request' = [request EXCEPT ![r] = rec]
    BY <1>1 DEF StartDirect
<1>3. ~ Attempting(rec) /\ ~ Passing(rec)
    BY DEF NoRequest, Attempting, Passing
<1> HIDE DEF rec
<1> QED
    BY <1>2, <1>3

\* The row takes the place of its request in both counts.
LEMMA CreateCounts ==
    ASSUME CheckoutInvariant, NEW r \in Requests, CreateIntent(r)
    PROVE  LET n == Len(intents) + 1
           IN  /\ link' = link /\ clock' = clock
               /\ Flying' = Flying \ {r} /\ Passed' = Passed \ {r}
               /\ n \notin DOMAIN intents /\ DOMAIN intents' = DOMAIN intents \cup {n}
               /\ \A i \in DOMAIN intents : intents'[i] = intents[i]
               /\ intents'[n].by = request[r].by /\ request[r].pc = "create"
               /\ intents'[n].verdict = request[r].verdict /\ intents'[n].created = clock
<1> DEFINE n   == Len(intents) + 1
           rec == [request[r] EXCEPT !.pc = "session", !.row = n]
           new == [by |-> request[r].by, created |-> clock, status |-> "CREATED",
                   verdict |-> request[r].verdict, held |-> FALSE, secret |-> FALSE,
                   tagged |-> FALSE]
<1>1. intents'[n] = new /\ request' = [request EXCEPT ![r] = rec]
    BY CreateFacts
<1>2. new.by = request[r].by /\ new.verdict = request[r].verdict /\ new.created = clock
    OBVIOUS
<1>3. rec.pc = "session"
    <2>1. request[r] \in RequestRecords
        BY DEF CheckoutInvariant, CheckoutTypes
    <2> QED
        BY <2>1 DEF RequestRecords
<1> HIDE DEF rec, new
<1>4. Flying' = Flying \ {r} /\ Passed' = Passed \ {r}
    BY <1>1, <1>3, OneRequest DEF Attempting, Passing
<1>5. /\ Len(intents) \in Nat /\ DOMAIN intents = 1..Len(intents)
      /\ DOMAIN intents' = 1..n /\ UNCHANGED <<clock, link>>
      /\ \A i \in DOMAIN intents : intents'[i] = intents[i]
    BY CreateFacts
<1>6. n \notin DOMAIN intents /\ DOMAIN intents' = DOMAIN intents \cup {n}
    BY <1>5
<1>7. request[r].pc = "create"
    BY DEF CreateIntent
<1> QED
    BY <1>1, <1>2, <1>4, <1>5, <1>6, <1>7

\* The attempts of the link: one request more is counted with one attempt more.
LEMMA AttemptsStep ==
    ASSUME CheckoutInvariant, CheckoutInvariant', StepKind, AttemptsBounded
    PROVE  AttemptsBounded'
<1>0. /\ Cardinality(Made) + Cardinality(Flying) <= link.attempts
      /\ link.attempts <= MaxAttempts
      /\ link.attempts \in Nat /\ link'.attempts \in Nat /\ MaxAttempts \in Nat
    BY CheckoutAssumption
    DEF AttemptsBounded, Made, Flying, Attempting, CheckoutInvariant, CheckoutTypes
<1> SUFFICES /\ Cardinality(Made') + Cardinality(Flying') <= link'.attempts
             /\ link'.attempts <= MaxAttempts
    BY DEF AttemptsBounded, Made, Flying, Attempting
<1>a. /\ IsFiniteSet(Flying) /\ Cardinality(Flying) \in Nat
      /\ IsFiniteSet(Made) /\ Cardinality(Made) \in Nat
    BY Populations
<1>b. ASSUME NEW S, S \subseteq Flying
      PROVE  Cardinality(S) <= Cardinality(Flying) /\ Cardinality(S) \in Nat
    BY <1>a, <1>b, FS_Subset, FS_CardinalityType
<1>1. ASSUME Made' = Made, Flying' \subseteq Flying, link'.attempts = link.attempts
      PROVE  /\ Cardinality(Made') + Cardinality(Flying') <= link'.attempts
             /\ link'.attempts <= MaxAttempts
    <2>1. Cardinality(Flying') <= Cardinality(Flying) /\ Cardinality(Flying') \in Nat
        BY <1>b, <1>1
    <2> QED
        BY <1>0, <1>1, <1>a, <2>1
<1>2. CASE QuietRequest
    <2>1. Flying' \subseteq Flying
        BY <1>2, OneRequest DEF QuietRequest, Quiet
    <2>2. Made' = Made
        BY <1>2, TablesKept DEF QuietRequest, KeepsTable
    <2> QED
        BY <1>1, <1>2, <2>1, <2>2 DEF QuietRequest, KeepsClock
<1>3. CASE Elsewhere
    <2>1. Flying' \subseteq Flying
        BY <1>3 DEF Elsewhere, Flying
    <2>2. Made' = Made
        BY <1>3, TablesKept DEF Elsewhere, KeepsTable
    <2> QED
        BY <1>1, <1>3, <2>1, <2>2 DEF Elsewhere
<1>4. ASSUME NEW r \in Requests, Asks(r)
      PROVE  /\ Cardinality(Made') + Cardinality(Flying') <= link'.attempts
             /\ link'.attempts <= MaxAttempts
    <2>1. PICK rec : /\ request' = [request EXCEPT ![r] = rec] /\ ~ Attempting(rec)
                     /\ ~ Passing(rec)
        BY <1>4, AskedCounts
    <2>2. Flying' \subseteq Flying
        BY <2>1, OneRequest
    <2>3. intents' = intents /\ link' = link
        BY <1>4 DEF Asks, StartDirect
    <2> QED
        BY <1>1, <2>2, <2>3 DEF Made
<1>5. ASSUME NEW r \in Requests, Counts(r)
      PROVE  /\ Cardinality(Made') + Cardinality(Flying') <= link'.attempts
             /\ link'.attempts <= MaxAttempts
    <2>1. /\ request' = [request EXCEPT ![r] = [request[r] EXCEPT !.pc = "config"]]
          /\ intents' = intents /\ link'.attempts = link.attempts + 1
          /\ link.attempts < MaxAttempts
        BY <1>5 DEF Counts, Goes, CheckoutInvariant, CheckoutTypes
    <2>2. PICK rec : rec = [request[r] EXCEPT !.pc = "config"]
        OBVIOUS
    <2>3. Flying' = Flying \cup {r} \/ Flying' \subseteq Flying
        BY <2>1, <2>2, OneRequest
    <2>4. Cardinality(Flying') <= Cardinality(Flying) + 1 /\ Cardinality(Flying') \in Nat
        <3>1. CASE Flying' \subseteq Flying
            BY <1>a, <1>b, <3>1
        <3>2. CASE Flying' = Flying \cup {r}
            <4>1. Cardinality(Flying \cup {r})
                     = IF r \in Flying THEN Cardinality(Flying) ELSE Cardinality(Flying) + 1
                BY <1>a, FS_AddElement
            <4> QED
                BY <1>a, <3>2, <4>1
        <3> QED
            BY <2>3, <3>1, <3>2
    <2>5. Made' = Made
        BY <2>1 DEF Made
    <2> QED
        BY <1>0, <1>a, <2>1, <2>4, <2>5
<1>6. ASSUME NEW r \in Requests, Passes(r)
      PROVE  /\ Cardinality(Made') + Cardinality(Flying') <= link'.attempts
             /\ link'.attempts <= MaxAttempts
    <2>1. PICK rec : rec = [request[r] EXCEPT !.pc = "create", !.verdict = "ALLOW"]
        OBVIOUS
    <2>2. request' = [request EXCEPT ![r] = rec] /\ intents' = intents /\ link' = link
        BY <1>6, <2>1 DEF Passes
    <2>3. rec.by = request[r].by /\ request[r].pc = "score"
        <3>1. request[r] \in RequestRecords
            BY DEF CheckoutInvariant, CheckoutTypes
        <3> QED
            BY <1>6, <2>1, <3>1 DEF Passes, RequestRecords
    <2>4. Flying' \subseteq Flying
        BY <2>2, <2>3, OneRequest, ZenonT(40) DEF Attempting
    <2> QED
        BY <1>1, <2>2, <2>4 DEF Made
<1>7. ASSUME NEW r \in Requests, CreateIntent(r)
      PROVE  /\ Cardinality(Made') + Cardinality(Flying') <= link'.attempts
             /\ link'.attempts <= MaxAttempts
    <2> DEFINE n == Len(intents) + 1
    <2>1. /\ link' = link /\ Flying' = Flying \ {r}
          /\ n \notin DOMAIN intents /\ DOMAIN intents' = DOMAIN intents \cup {n}
          /\ \A i \in DOMAIN intents : intents'[i] = intents[i]
          /\ intents'[n].by = request[r].by /\ request[r].pc = "create"
        BY <1>7, CreateCounts
    <2>2. CASE request[r].by = "link"
        <3>1. Made' = Made \cup {n} /\ n \notin Made
            BY <2>1, <2>2 DEF Made
        <3>2. r \in Flying
            BY <2>1, <2>2 DEF Flying, Attempting
        <3>3. Cardinality(Made') = Cardinality(Made) + 1
            BY <1>a, <3>1, FS_AddElement
        <3>4. Cardinality(Flying') = Cardinality(Flying) - 1
            BY <1>a, <2>1, <3>2, FS_RemoveElement
        <3> QED
            BY <1>0, <1>a, <2>1, <3>3, <3>4
    <2>3. CASE request[r].by # "link"
        <3>1. Made' = Made
            BY <2>1, <2>3 DEF Made
        <3> QED
            BY <1>1, <2>1, <3>1
    <2> QED
        BY <2>2, <2>3
<1> QED
    BY <1>2, <1>3, <1>4, <1>5, <1>6, <1>7 DEF StepKind

(***************************************************************************)
(* routes/paymentIntents.ts, "prevents concurrent requests from bypassing  *)
(* maxAttempts": for every limit and any number of payments in flight, a   *)
(* link has no more intents than attempts and no more attempts than it     *)
(* allows.                                                                 *)
(***************************************************************************)
THEOREM LinkAttemptsBounded == CheckoutSpec => []AttemptsBounded
<1>1. CheckoutInit => AttemptsBounded
    <2> SUFFICES ASSUME CheckoutInit PROVE AttemptsBounded
        OBVIOUS
    <2>1. DOMAIN intents = {} /\ link.attempts = 0
        BY DEF CheckoutInit
    <2>2. Made = {} /\ Flying = {}
        BY <2>1 DEF CheckoutInit, Made, Flying, Attempting, NoRequest
    <2>3. Cardinality(Made) + Cardinality(Flying) <= link.attempts /\ link.attempts <= MaxAttempts
        BY <2>1, <2>2, FS_EmptySet, CheckoutAssumption
    <2> QED
        BY <2>3 DEF AttemptsBounded, Made, Flying, Attempting
<1>2. CheckoutInvariant /\ AttemptsBounded /\ [CheckoutNext]_checkoutVars
         => CheckoutInvariant' /\ AttemptsBounded'
    BY CheckoutStep, AttemptsStep
<1> QED
    BY <1>1, <1>2, CheckoutStart, PTL DEF CheckoutSpec

-----------------------------------------------------------------------------
(***************************************************************************)
(* The velocity gate.  The rows let through in the window that ends now,   *)
(* with the requests already scored, stay under the limit: this is what a  *)
(* verdict ALLOW ensures, and an insertion only moves one of them.         *)
(***************************************************************************)
VelocityLimit == Thresholds.maxPerWindow + Cardinality(Requests) - 1

LetThrough(t) == Cardinality(AllowedIn(intents, t)) <= VelocityLimit

VelocityInvariant ==
    /\ \A t \in 0..clock : LetThrough(t)
    /\ Cardinality(AllowedIn(intents, clock)) + Cardinality(Passed) <= VelocityLimit

\* Rows of a smaller window.
LEMMA LaterWindow ==
    ASSUME CheckoutInvariant, NEW later \in Nat, later >= clock
    PROVE  AllowedIn(intents, later) \subseteq AllowedIn(intents, clock)
<1>1. ASSUME NEW i \in AllowedIn(intents, later) PROVE i \in AllowedIn(intents, clock)
    <2>1. i \in DOMAIN intents /\ intents[i].created <= clock /\ clock \in Nat
        BY DEF AllowedIn, CheckoutInvariant, CheckoutTypes, RowsPlaced
    <2>2. intents[i] \in IntentRecords
        BY <2>1, SequenceShape DEF CheckoutInvariant, CheckoutTypes
    <2>3. intents[i].created \in Nat
        BY <2>2 DEF IntentRecords
    <2>4. RiskWindow \in Nat
        BY CheckoutAssumption
    <2>5. intents[i].created >= later - RiskWindow /\ intents[i].verdict = "ALLOW"
        BY DEF AllowedIn, InWindow
    <2>6. intents[i].created >= clock - RiskWindow
        BY <2>1, <2>3, <2>4, <2>5
    <2> QED
        BY <2>1, <2>5, <2>6 DEF AllowedIn, InWindow
<1> QED
    BY <1>1

\* The same rows, no more requests, and time goes on.
LEMMA VelocityKept ==
    ASSUME CheckoutInvariant, CheckoutInvariant', VelocityInvariant,
           KeepsRows(intents, intents'), Passed' \subseteq Passed,
           clock' \in {clock, clock + 1}
    PROVE  VelocityInvariant'
<1>1. \A t : AllowedIn(intents', t) = AllowedIn(intents, t)
    BY TablesKept
<1>2. /\ IsFiniteSet(Passed) /\ Cardinality(Passed) \in Nat
      /\ \A t : IsFiniteSet(AllowedIn(intents, t)) /\ Cardinality(AllowedIn(intents, t)) \in Nat
    BY Populations
<1>3. Cardinality(Passed') <= Cardinality(Passed) /\ Cardinality(Passed') \in Nat
    BY <1>2, FS_Subset, FS_CardinalityType
<1>4. clock \in Nat /\ clock' \in Nat /\ clock' >= clock
    BY DEF CheckoutInvariant, CheckoutTypes
<1>5. PICK c : c = clock'
    OBVIOUS
<1>6. AllowedIn(intents, c) \subseteq AllowedIn(intents, clock)
    BY <1>4, <1>5, LaterWindow
<1>7. Cardinality(AllowedIn(intents, c)) <= Cardinality(AllowedIn(intents, clock))
    BY <1>2, <1>6, FS_Subset
<1>8. VelocityLimit \in Int /\ VelocityLimit' = VelocityLimit
    BY CheckoutAssumption, FS_CardinalityType DEF VelocityLimit
<1>9. /\ Cardinality(AllowedIn(intents, c)) + Cardinality(Passed') <= VelocityLimit
      /\ Cardinality(AllowedIn(intents, c)) <= VelocityLimit
    BY <1>2, <1>3, <1>7, <1>8 DEF VelocityInvariant
<1>10. Cardinality(AllowedIn(intents', clock')) + Cardinality(Passed') <= VelocityLimit
    BY <1>1, <1>5, <1>9
<1>11. ASSUME NEW t \in 0..c PROVE Cardinality(AllowedIn(intents', t)) <= VelocityLimit
    <2>1. CASE t = c
        BY <1>1, <1>9, <2>1
    <2>2. CASE t # c
        <3>1. t \in 0..clock
            BY <1>4, <1>5, <2>2
        <3> QED
            BY <1>1, <3>1 DEF VelocityInvariant, LetThrough
    <2> QED
        BY <2>1, <2>2
<1> QED
    BY <1>5, <1>8, <1>10, <1>11 DEF VelocityInvariant, LetThrough

\* The verdict ALLOW: the count was under the threshold.
LEMMA VelocityPasses ==
    ASSUME CheckoutInvariant, VelocityInvariant, NEW r \in Requests, Passes(r)
    PROVE  VelocityInvariant'
<1>1. /\ intents' = intents /\ clock' = clock
      /\ Cardinality(Recent) < Thresholds.maxPerWindow
    BY DEF Passes
<1>2. AllowedIn(intents, clock) \in SUBSET Recent /\ Recent \in SUBSET DOMAIN intents
    BY DEF AllowedIn, Recent
<1>3. IsFiniteSet(Recent)
    BY <1>2, Populations, FS_Subset
<1>4. /\ Cardinality(AllowedIn(intents, clock)) <= Cardinality(Recent)
      /\ Cardinality(Recent) \in Nat /\ Cardinality(AllowedIn(intents, clock)) \in Nat
    BY <1>2, <1>3, Populations, FS_Subset, FS_CardinalityType
<1>5. /\ Cardinality(Passed') <= Cardinality(Requests) /\ Cardinality(Requests) \in Nat
      /\ Cardinality(Passed') \in Nat /\ Thresholds.maxPerWindow \in Nat
    <2>1. IsFiniteSet(Requests) /\ Passed' \in SUBSET Requests
        BY CheckoutAssumption DEF Passed
    <2> QED
        BY <2>1, FS_Subset, FS_CardinalityType, PassedBound, CheckoutAssumption
<1>6. Cardinality(AllowedIn(intents, clock)) + Cardinality(Passed') <= VelocityLimit
    BY <1>1, <1>4, <1>5 DEF VelocityLimit
<1> QED
    BY <1>1, <1>6 DEF VelocityInvariant, LetThrough, VelocityLimit

\* The insertion: the row takes the place of its request.
LEMMA VelocityCreates ==
    ASSUME CheckoutInvariant, VelocityInvariant, NEW r \in Requests, CreateIntent(r)
    PROVE  VelocityInvariant'
<1> DEFINE n == Len(intents) + 1
<1>1. /\ clock' = clock /\ Passed' = Passed \ {r}
      /\ n \notin DOMAIN intents /\ DOMAIN intents' = DOMAIN intents \cup {n}
      /\ \A i \in DOMAIN intents : intents'[i] = intents[i]
      /\ request[r].pc = "create"
      /\ intents'[n].verdict = request[r].verdict /\ intents'[n].created = clock
    BY CreateCounts
<1> HIDE DEF n
<1>2. /\ IsFiniteSet(Passed) /\ Cardinality(Passed) \in Nat
      /\ \A t : IsFiniteSet(AllowedIn(intents, t)) /\ Cardinality(AllowedIn(intents, t)) \in Nat
    BY Populations
<1>3. /\ clock \in Nat /\ RiskWindow \in Nat /\ VelocityLimit \in Int
      /\ VelocityLimit' = VelocityLimit
    BY CheckoutAssumption, FS_CardinalityType DEF VelocityLimit, CheckoutInvariant, CheckoutTypes
<1>4. ASSUME NEW t \in 0..clock, t # clock
      PROVE  AllowedIn(intents', t) = AllowedIn(intents, t)
    <2>1. ~ (clock <= t)
        BY <1>3, <1>4
    <2> QED
        BY <1>1, <2>1 DEF AllowedIn
<1>5. /\ Cardinality(AllowedIn(intents', clock)) + Cardinality(Passed') <= VelocityLimit
      /\ Cardinality(AllowedIn(intents', clock)) <= VelocityLimit
    <2>0. Cardinality(AllowedIn(intents, clock)) + Cardinality(Passed) <= VelocityLimit
        BY DEF VelocityInvariant
    <2>1. CASE request[r].verdict = "ALLOW"
        <3>1. clock <= clock /\ clock >= clock - RiskWindow
            BY <1>3
        <3>2. AllowedIn(intents', clock) = AllowedIn(intents, clock) \cup {n}
            BY <1>1, <2>1, <3>1 DEF AllowedIn, InWindow
        <3>3. n \notin AllowedIn(intents, clock)
            BY <1>1 DEF AllowedIn
        <3>4. Cardinality(AllowedIn(intents', clock)) = Cardinality(AllowedIn(intents, clock)) + 1
            BY <1>2, <3>2, <3>3, FS_AddElement
        <3>5. r \in Passed
            BY <1>1, <2>1 DEF Passed, Passing
        <3>6. Cardinality(Passed') = Cardinality(Passed) - 1
            BY <1>1, <1>2, <3>5, FS_RemoveElement
        <3>7. Cardinality(Passed) # 0
            BY <1>2, <3>5, FS_EmptySet
        <3> QED
            BY <1>2, <1>3, <2>0, <3>4, <3>6, <3>7
    <2>2. CASE request[r].verdict # "ALLOW"
        <3>1. AllowedIn(intents', clock) = AllowedIn(intents, clock)
            BY <1>1, <2>2 DEF AllowedIn
        <3>2. r \notin Passed
            BY <2>2 DEF Passed, Passing
        <3>3. Passed' = Passed
            BY <1>1, <3>2
        <3> QED
            BY <1>2, <1>3, <2>0, <3>1, <3>3
    <2> QED
        BY <2>1, <2>2
<1>6. ASSUME NEW t \in 0..clock PROVE Cardinality(AllowedIn(intents', t)) <= VelocityLimit
    <2>1. CASE t = clock
        BY <1>5, <2>1
    <2>2. CASE t # clock
        BY <1>4, <2>2 DEF VelocityInvariant, LetThrough
    <2> QED
        BY <2>1, <2>2
<1> QED
    BY <1>1, <1>3, <1>5, <1>6 DEF VelocityInvariant, LetThrough

LEMMA VelocityStep ==
    ASSUME CheckoutInvariant, CheckoutInvariant', StepKind, VelocityInvariant
    PROVE  VelocityInvariant'
<1>1. CASE QuietRequest
    <2>1. Passed' \subseteq Passed
        BY <1>1, OneRequest DEF QuietRequest, Quiet
    <2> QED
        BY <1>1, <2>1, VelocityKept DEF QuietRequest, KeepsTable, KeepsClock
<1>2. CASE Elsewhere
    <2>1. Passed' \subseteq Passed
        BY <1>2 DEF Elsewhere, Passed
    <2> QED
        BY <1>2, <2>1, VelocityKept DEF Elsewhere, KeepsTable
<1>3. ASSUME NEW r \in Requests, Asks(r) PROVE VelocityInvariant'
    <2>1. PICK rec : /\ request' = [request EXCEPT ![r] = rec] /\ ~ Attempting(rec)
                     /\ ~ Passing(rec)
        BY <1>3, AskedCounts
    <2>2. Passed' \subseteq Passed
        BY <2>1, OneRequest
    <2>3. intents' = intents /\ clock' = clock
        BY <1>3 DEF Asks, StartDirect
    <2> QED
        BY <2>2, <2>3, RowsStand, VelocityKept
<1>4. ASSUME NEW r \in Requests, Counts(r) PROVE VelocityInvariant'
    <2>1. PICK rec : rec = [request[r] EXCEPT !.pc = "config"]
        OBVIOUS
    <2>2. request' = [request EXCEPT ![r] = rec] /\ intents' = intents /\ clock' = clock
        BY <1>4, <2>1 DEF Counts, Goes
    <2>3. ~ Passing(rec)
        <3>1. request[r] \in RequestRecords
            BY DEF CheckoutInvariant, CheckoutTypes
        <3> QED
            BY <2>1, <3>1 DEF RequestRecords, Passing
    <2>4. Passed' \subseteq Passed
        BY <2>2, <2>3, OneRequest
    <2> QED
        BY <2>2, <2>4, RowsStand, VelocityKept
<1> QED
    BY <1>1, <1>2, <1>3, <1>4, VelocityPasses, VelocityCreates DEF StepKind

(***************************************************************************)
(* lib/risk-scorer.ts: for every window, threshold and number of requests  *)
(* at once, in any window at most maxPerWindow + (requests - 1) payments   *)
(* are let through without review.                                         *)
(***************************************************************************)
THEOREM VelocityOvershootBounded == CheckoutSpec => []VelocityOvershoot
<1>1. CheckoutInit => VelocityInvariant
    <2> SUFFICES ASSUME CheckoutInit PROVE VelocityInvariant
        OBVIOUS
    <2>1. DOMAIN intents = {}
        BY DEF CheckoutInit
    <2>2. (\A t : AllowedIn(intents, t) = {}) /\ Passed = {}
        BY <2>1 DEF CheckoutInit, AllowedIn, Passed, Passing, NoRequest
    <2>3. Cardinality({}) = 0
        BY FS_EmptySet
    <2>4. IsFiniteSet(Requests) /\ Requests # {} /\ Thresholds.maxPerWindow \in Nat
        BY CheckoutAssumption
    <2>5. Cardinality(Requests) \in Nat /\ Cardinality(Requests) # 0
        BY <2>4, FS_CardinalityType, FS_EmptySet
    <2>6. 0 <= VelocityLimit
        BY <2>4, <2>5 DEF VelocityLimit
    <2>7. \A t : LetThrough(t)
        BY <2>2, <2>3, <2>6 DEF LetThrough
    <2>8. Cardinality(AllowedIn(intents, clock)) + Cardinality(Passed) <= VelocityLimit
        BY <2>2, <2>3, <2>6
    <2> QED
        BY <2>7, <2>8 DEF VelocityInvariant
<1>2. CheckoutInvariant /\ VelocityInvariant /\ [CheckoutNext]_checkoutVars
         => CheckoutInvariant' /\ VelocityInvariant'
    BY CheckoutStep, VelocityStep
<1>3. VelocityInvariant => VelocityOvershoot
    BY DEF VelocityInvariant, VelocityOvershoot, LetThrough, AllowedIn, VelocityLimit
<1> QED
    BY <1>1, <1>2, <1>3, CheckoutStart, PTL DEF CheckoutSpec

-----------------------------------------------------------------------------
(***************************************************************************)
(* The paged lists.  An untouched row is behind the pages read so far or   *)
(* has been seen: rows are added before it and never taken away before it. *)
(***************************************************************************)
PageSize == Pagination(reader.page, reader.limit).take

ReaderRecords ==
    [page : Nat \ {0}, limit : Nat, seen : SUBSET Nat, done : BOOLEAN,
     changed : SUBSET Nat, left : BOOLEAN, added : Nat]

\* Row j of the first reading is still to come.
Ahead(j) == \E p \in DOMAIN table : table[p] = j /\ p > (reader.page - 1) * PageSize

ListingInvariant ==
    /\ list \in Lists
    /\ table \in Seq(Nat)
    /\ reader \in ReaderRecords
    /\ ~ list.clamped => reader.limit # 0
    /\ ~ reader.left =>
          \A j \in (1..FirstRows) \ reader.changed :
             j \in reader.seen \/ (~ reader.done /\ Ahead(j))

\* parseAdminPagination and the raw one: pages of one size, one after the other.
LEMMA PagesFollow ==
    ASSUME ListingInvariant
    PROVE  /\ PageSize \in Nat \ {0}
           /\ \A page \in Nat : Pagination(page, reader.limit) =
                 [skip |-> (page - 1) * PageSize, take |-> PageSize]
<1> USE ListingAssumption DEF ListingInvariant, ReaderRecords
<1>1. CASE list.clamped
    BY <1>1 DEF PageSize, Pagination, parseAdminPagination
<1>2. CASE ~ list.clamped
    BY <1>2 DEF PageSize, Pagination, rawPagination
<1> QED
    BY <1>1, <1>2

\* findMany with skip and take, row by row.
LEMMA CutShape ==
    ASSUME NEW s \in Seq(Nat), NEW m \in Nat, NEW n \in Nat, m >= 1, n <= Len(s)
    PROVE  /\ SubSeq(s, m, n) \in Seq(Nat)
           /\ Len(SubSeq(s, m, n)) = IF m <= n THEN n + 1 - m ELSE 0
           /\ \A k \in 1..(n + 1 - m) : SubSeq(s, m, n)[k] = s[m + k - 1]
<1>1. \A i \in m..n : i \in 1..Len(s)
    OBVIOUS
<1>2. SubSeq(s, m, n) \in Seq(Nat)
    BY <1>1, SMTT(30)
<1>3. Len(SubSeq(s, m, n)) = IF m <= n THEN n + 1 - m ELSE 0
    BY <1>1, SMTT(30)
<1>4. \A k \in 1..(n + 1 - m) : SubSeq(s, m, n)[k] = s[m + k - 1]
    BY <1>1, SMTT(30)
<1> QED
    BY <1>2, <1>3, <1>4

\* One list before another.
LEMMA JoinShape ==
    ASSUME NEW s \in Seq(Nat), NEW u \in Seq(Nat)
    PROVE  /\ s \o u \in Seq(Nat)
           /\ Len(s) \in Nat /\ Len(u) \in Nat /\ Len(s \o u) = Len(s) + Len(u)
           /\ \A k \in 1..Len(s) : (s \o u)[k] = s[k]
           /\ \A k \in 1..Len(u) : (s \o u)[Len(s) + k] = u[k]
<1>1. s \o u \in Seq(Nat)
    OBVIOUS
<1>2. IsSequence(s) /\ IsSequence(u)
    BY SequenceShape
<1> QED
    BY <1>1, <1>2, AppendShape

\* The page, row by row.
LEMMA PageShape ==
    ASSUME ListingInvariant
    PROVE  LET page == PageOf(table, reader.page, reader.limit)
               skip == (reader.page - 1) * PageSize
           IN  /\ Len(table) \in Nat /\ DOMAIN table = 1..Len(table) /\ skip \in Nat
               /\ Ids(page) \in SUBSET Nat
               /\ \A p \in 1..Len(table) :
                     skip < p /\ p <= skip + PageSize => table[p] \in Ids(page)
               /\ skip + PageSize <= Len(table) => Len(page) = PageSize
<1> DEFINE page == PageOf(table, reader.page, reader.limit)
           skip == (reader.page - 1) * PageSize
           end == IF skip + PageSize < Len(table) THEN skip + PageSize ELSE Len(table)
<1>1. /\ Len(table) \in Nat /\ DOMAIN table = 1..Len(table)
      /\ PageSize \in Nat /\ PageSize # 0 /\ reader.page \in Nat /\ reader.page # 0
    BY PagesFollow DEF ListingInvariant, ReaderRecords
<1>2. skip \in Nat
    BY <1>1
<1>3. page = SubSeq(table, skip + 1, end)
    <2>1. Pagination(reader.page, reader.limit) = [skip |-> skip, take |-> PageSize]
        BY <1>1, PagesFollow
    <2>2. /\ Pagination(reader.page, reader.limit).skip = skip
          /\ Pagination(reader.page, reader.limit).take = PageSize
        BY <2>1
    <2> QED
        BY <2>2 DEF PageOf
<1> HIDE DEF skip
<1>4. /\ Len(page) = IF skip + 1 <= end THEN end - skip ELSE 0
      /\ \A k \in 1..Len(page) : page[k] = table[skip + k]
      /\ page \in Seq(Nat) /\ DOMAIN page = 1..Len(page)
    <2>1. end \in Nat /\ end <= Len(table)
        BY <1>1, <1>2
    <2> HIDE DEF end, page
    <2>2. table \in Seq(Nat) /\ \A k \in (skip + 1)..end : k \in 1..Len(table)
        BY <1>1, <1>2, <2>1 DEF ListingInvariant
    <2>3. skip + 1 \in Nat /\ skip + 1 >= 1 /\ end + 1 - (skip + 1) = end - skip
          /\ \A k \in Nat : skip + 1 + k - 1 = skip + k
        BY <1>2, <2>1
    <2>4. /\ page \in Seq(Nat)
          /\ Len(page) = IF skip + 1 <= end THEN end + 1 - (skip + 1) ELSE 0
          /\ \A k \in 1..(end + 1 - (skip + 1)) : page[k] = table[skip + 1 + k - 1]
        BY <1>3, <2>1, <2>2, <2>3, CutShape
    <2>5. Len(page) \in Nat /\ DOMAIN page = 1..Len(page)
        <3>1. page \in Seq(Nat)
            BY <2>4
        <3> QED
            BY <3>1
    <2>6. Len(page) = IF skip + 1 <= end THEN end - skip ELSE 0
        BY <2>3, <2>4
    <2>7. ASSUME NEW k \in 1..Len(page)
          PROVE  page[k] = table[skip + k]
        <3>1. k \in Nat /\ k \in 1..(end + 1 - (skip + 1))
            BY <1>2, <2>1, <2>3, <2>5, <2>6, <2>7
        <3> QED
            BY <2>3, <2>4, <3>1
    <2> QED
        BY <2>4, <2>5, <2>6, <2>7
<1>5. ASSUME NEW p \in 1..Len(table), skip < p, p <= skip + PageSize
      PROVE  table[p] \in Ids(page)
    <2>1. p - skip \in 1..Len(page) /\ page[p - skip] = table[skip + (p - skip)]
        BY <1>1, <1>2, <1>4, <1>5
    <2>2. skip + (p - skip) = p
        BY <1>1, <1>2
    <2> QED
        BY <1>4, <2>1, <2>2 DEF Ids
<1>6. skip + PageSize <= Len(table) => Len(page) = PageSize
    BY <1>1, <1>2, <1>4
<1>7. Ids(page) \in SUBSET Nat
    BY <1>4 DEF Ids
<1> QED
    BY <1>1, <1>2, <1>5, <1>6, <1>7 DEF skip

LEMMA ListingStart == ListingInit => ListingInvariant
<1> SUFFICES ASSUME ListingInit PROVE ListingInvariant
    OBVIOUS
<1> USE ListingAssumption
<1>1. PICK limit \in Limits \ (IF list.clamped THEN {} ELSE {0}) :
          reader = [page |-> 1, limit |-> limit, seen |-> {}, done |-> FALSE,
                    changed |-> {}, left |-> FALSE, added |-> 0]
    BY DEF ListingInit
<1>2. list \in Lists /\ reader \in ReaderRecords /\ (~ list.clamped => reader.limit # 0)
    BY <1>1 DEF ListingInit, ReaderRecords
<1>3. /\ table = [n \in 1..FirstRows |-> FirstRows + 1 - n]
      /\ table \in Seq(Nat) /\ DOMAIN table = 1..FirstRows
    BY DEF ListingInit
<1>4. ASSUME NEW j \in 1..FirstRows PROVE Ahead(j)
    <2>1. FirstRows + 1 - j \in 1..FirstRows /\ table[FirstRows + 1 - j] = j
        BY <1>3
    <2>2. PageSize \in Nat
        BY <1>1, <1>2 DEF PageSize, Pagination, parseAdminPagination, rawPagination, ReaderRecords
    <2>3. (reader.page - 1) * PageSize = 0
        BY <1>1, <2>2
    <2> QED
        BY <1>3, <2>1, <2>3 DEF Ahead
<1> QED
    BY <1>1, <1>2, <1>3, <1>4 DEF ListingInvariant

LEMMA ReadKeeps == ASSUME ListingInvariant, ReadPage PROVE ListingInvariant'
<1> DEFINE page == PageOf(table, reader.page, reader.limit)
           skip == (reader.page - 1) * PageSize
           full == Len(page) = PageSize
<1>1. /\ ~ reader.done /\ list' = list /\ table' = table
      /\ reader' = [reader EXCEPT !.page = @ + 1, !.done = ~ full, !.seen = @ \cup Ids(page)]
    BY DEF ReadPage, PageSize
<1>2. /\ Len(table) \in Nat /\ DOMAIN table = 1..Len(table) /\ skip \in Nat
      /\ Ids(page) \in SUBSET Nat
      /\ \A p \in 1..Len(table) : skip < p /\ p <= skip + PageSize => table[p] \in Ids(page)
      /\ skip + PageSize <= Len(table) => full
    BY PageShape
<1>3. PageSize \in Nat /\ reader.page \in Nat
    BY PagesFollow DEF ListingInvariant, ReaderRecords
<1>0. full \in BOOLEAN
    OBVIOUS
<1> HIDE DEF page, full
<1>4. reader' \in ReaderRecords /\ reader'.limit = reader.limit /\ reader'.page = reader.page + 1
      /\ reader'.changed = reader.changed /\ reader'.left = reader.left
      /\ reader'.done = ~ full /\ reader'.seen = reader.seen \cup Ids(page)
    <2>1. /\ reader.page + 1 \in Nat \ {0} /\ reader.seen \cup Ids(page) \in SUBSET Nat
          /\ (~ full) \in BOOLEAN /\ reader \in ReaderRecords
        BY <1>0, <1>2, <1>3 DEF ListingInvariant, ReaderRecords
    <2> QED
        BY <1>1, <2>1 DEF ReaderRecords
<1>5. PageSize' = PageSize
    BY <1>1, <1>3, <1>4, PagesFollow DEF PageSize, Pagination, parseAdminPagination, rawPagination
<1>6. ASSUME ~ reader.left, NEW j \in (1..FirstRows) \ reader.changed
      PROVE  j \in reader'.seen \/ (~ reader'.done /\ Ahead(j)')
    <2>1. CASE j \in reader.seen
        BY <2>1, <1>4
    <2>2. CASE j \notin reader.seen
        <3>1. PICK p \in 1..Len(table) : table[p] = j /\ p > skip
            BY <1>2, <1>6, <2>2 DEF ListingInvariant, Ahead
        <3>2. CASE p <= skip + PageSize
            BY <3>1, <3>2, <1>2, <1>4
        <3>3. CASE ~ (p <= skip + PageSize)
            <4>1. skip + PageSize <= Len(table)
                BY <3>3, <1>2, <1>3
            <4>2. (reader.page + 1 - 1) * PageSize = skip + PageSize
                BY <1>3
            <4>3. p > (reader'.page - 1) * PageSize'
                BY <3>3, <4>2, <1>2, <1>3, <1>4, <1>5
            <4> QED
                BY <3>1, <4>1, <4>3, <1>1, <1>2, <1>4 DEF Ahead
        <3> QED
            BY <3>2, <3>3
    <2> QED
        BY <2>1, <2>2
<1> QED
    BY <1>1, <1>4, <1>6 DEF ListingInvariant

\* A step after which every untouched row stands where it was or further back.
LEMMA RowsMoveBack ==
    ASSUME ListingInvariant, list' = list, table' \in Seq(Nat), reader' \in ReaderRecords,
           reader'.page = reader.page, reader'.limit = reader.limit,
           reader'.seen = reader.seen, reader'.done = reader.done,
           reader'.left = reader.left, reader.changed \subseteq reader'.changed,
           \A p \in 1..Len(table) : table[p] \in reader'.changed
              \/ \E q \in 1..Len(table') : q >= p /\ table'[q] = table[p]
    PROVE  ListingInvariant'
<1>1. PageSize' = PageSize /\ PageSize \in Nat /\ reader.page \in Nat
    BY PagesFollow DEF PageSize, Pagination, parseAdminPagination, rawPagination,
                       ListingInvariant, ReaderRecords
<1>2. /\ Len(table) \in Nat /\ DOMAIN table = 1..Len(table)
      /\ Len(table') \in Nat /\ DOMAIN table' = 1..Len(table')
    BY DEF ListingInvariant
<1>3. ASSUME NEW j \in (1..FirstRows) \ reader'.changed, Ahead(j) PROVE Ahead(j)'
    <2>1. PICK p \in 1..Len(table) : table[p] = j /\ p > (reader.page - 1) * PageSize
        BY <1>2, <1>3 DEF Ahead
    <2>2. PICK q \in 1..Len(table') : q >= p /\ table'[q] = j
        BY <2>1, <1>3
    <2>3. (reader.page - 1) * PageSize \in Int
        BY <1>1
    <2>4. q > (reader'.page - 1) * PageSize'
        BY <2>1, <2>2, <2>3, <1>1, <1>2
    <2> QED
        BY <2>2, <2>4, <1>2 DEF Ahead
<1> QED
    BY <1>3 DEF ListingInvariant

\* The table without a row: what is behind it moves up by one.
LEMMA WithoutShape ==
    ASSUME ListingInvariant, NEW n \in DOMAIN table
    PROVE  /\ Without(n) \in Seq(Nat) /\ Len(Without(n)) = Len(table) - 1
           /\ Len(table) \in Nat /\ DOMAIN table = 1..Len(table)
           /\ \A p \in 1..(n - 1) : Without(n)[p] = table[p]
           /\ \A p \in (n + 1)..Len(table) : Without(n)[p - 1] = table[p]
<1> DEFINE front == SubSeq(table, 1, n - 1)
           back == SubSeq(table, n + 1, Len(table))
<1>1. /\ Len(table) \in Nat /\ DOMAIN table = 1..Len(table) /\ table \in Seq(Nat)
      /\ n \in 1..Len(table)
    BY DEF ListingInvariant
<1>2. /\ front \in Seq(Nat) /\ Len(front) = n - 1
      /\ \A p \in 1..(n - 1) : front[p] = table[p]
    BY <1>1, CutShape
<1>3. /\ back \in Seq(Nat) /\ Len(back) = Len(table) - n
      /\ \A p \in 1..(Len(table) - n) : back[p] = table[n + p]
    <2>1. /\ back \in Seq(Nat)
          /\ Len(back) = IF n + 1 <= Len(table) THEN Len(table) + 1 - (n + 1) ELSE 0
          /\ \A p \in 1..(Len(table) + 1 - (n + 1)) : back[p] = table[n + 1 + p - 1]
        <3>1. /\ n + 1 \in Nat /\ n + 1 >= 1 /\ Len(table) \in Nat
              /\ Len(table) <= Len(table) /\ table \in Seq(Nat)
            BY <1>1
        <3> QED
            BY <3>1, CutShape, Zenon
    <2>2. Len(table) + 1 - (n + 1) = Len(table) - n /\ \A p \in Nat : n + 1 + p - 1 = n + p
        BY <1>1
    <2> HIDE DEF back
    <2>3. Len(back) = Len(table) - n
        BY <2>1, <2>2, <1>1
    <2>4. ASSUME NEW p \in 1..(Len(table) - n) PROVE back[p] = table[n + p]
        <3>1. p \in 1..(Len(table) + 1 - (n + 1)) /\ n + 1 + p - 1 = n + p
            BY <1>1
        <3>2. back[p] = table[n + 1 + p - 1]
            BY <2>1, <3>1, Zenon
        <3> QED
            BY <3>1, <3>2, Zenon
    <2> QED
        BY <2>1, <2>3, <2>4
<1> HIDE DEF front, back
<1>4. /\ front \o back \in Seq(Nat) /\ Len(front \o back) = Len(table) - 1
      /\ \A p \in 1..(n - 1) : (front \o back)[p] = front[p]
      /\ \A p \in 1..(Len(table) - n) : (front \o back)[n - 1 + p] = back[p]
    <2>1. /\ front \o back \in Seq(Nat) /\ Len(front \o back) = Len(front) + Len(back)
          /\ \A k \in 1..Len(front) : (front \o back)[k] = front[k]
          /\ \A k \in 1..Len(back) : (front \o back)[Len(front) + k] = back[k]
        BY <1>2, <1>3, JoinShape, Zenon
    <2>2. (n - 1) + (Len(table) - n) = Len(table) - 1
        BY <1>1
    <2> QED
        BY <2>1, <2>2, <1>2, <1>3, SMTT(30)
<1>5. Without(n) = front \o back
    BY DEF Without, front, back
<1>6. ASSUME NEW p \in (n + 1)..Len(table) PROVE Without(n)[p - 1] = table[p]
    <2>1. p - n \in 1..(Len(table) - n) /\ n - 1 + (p - n) = p - 1 /\ n + (p - n) = p
        BY <1>1, SMTT(30)
    <2> QED
        BY <2>1, <1>3, <1>4, <1>5
<1> QED
    BY <1>1, <1>2, <1>4, <1>5, <1>6

LEMMA InsertKeeps == ASSUME ListingInvariant, InsertRow PROVE ListingInvariant'
<1> DEFINE id == FirstRows + reader.added + 1
<1>1. /\ table' = <<id>> \o table /\ list' = list
      /\ reader' = [reader EXCEPT !.added = @ + 1]
    BY DEF InsertRow
<1>2. id \in Nat /\ reader' \in ReaderRecords
    <2>1. reader.added \in Nat /\ FirstRows \in Nat
        BY ListingAssumption DEF ListingInvariant, ReaderRecords
    <2> QED
        <3>1. id \in Nat /\ reader.added + 1 \in Nat /\ reader \in ReaderRecords
            BY <2>1 DEF ListingInvariant
        <3> HIDE DEF id
        <3> QED
            BY <1>1, <3>1 DEF ReaderRecords
<1> HIDE DEF id
<1>3. /\ table' \in Seq(Nat) /\ Len(table) \in Nat /\ Len(table') = Len(table) + 1
      /\ \A p \in 1..Len(table) : table'[p + 1] = table[p]
    BY <1>1, <1>2 DEF ListingInvariant
<1>4. ASSUME NEW p \in 1..Len(table)
      PROVE  \E q \in 1..Len(table') : q >= p /\ table'[q] = table[p]
    <2>1. p + 1 \in 1..Len(table') /\ p + 1 >= p
        BY <1>3
    <2> QED
        BY <1>3, <2>1
<1> QED
    BY <1>1, <1>2, <1>3, <1>4, RowsMoveBack DEF ListingInvariant, ReaderRecords

LEMMA UpdateKeeps ==
    ASSUME ListingInvariant, NEW n \in DOMAIN table, UpdateRow(n) PROVE ListingInvariant'
<1>1. /\ list' = list /\ reader' = [reader EXCEPT !.changed = @ \cup {table[n]}]
      /\ table[n] \in Nat /\ Len(table) \in Nat /\ DOMAIN table = 1..Len(table)
    BY DEF UpdateRow, ListingInvariant
<1>2. /\ reader' \in ReaderRecords /\ reader'.page = reader.page
      /\ reader'.limit = reader.limit /\ reader'.seen = reader.seen
      /\ reader'.done = reader.done /\ reader'.left = reader.left
      /\ reader'.changed = reader.changed \cup {table[n]}
    BY <1>1 DEF ListingInvariant, ReaderRecords
<1>3. CASE list.orderBy = "updatedAt"
    <2>1. table' = <<table[n]>> \o Without(n)
        BY <1>3 DEF UpdateRow
    <2>2. /\ table' \in Seq(Nat) /\ Len(table') = Len(table)
          /\ \A p \in 1..(Len(table) - 1) : table'[p + 1] = Without(n)[p]
        <3>1. /\ <<table[n]>> \in Seq(Nat) /\ Len(<<table[n]>>) = 1
              /\ Without(n) \in Seq(Nat) /\ Len(Without(n)) = Len(table) - 1
            <4>1. <<table[n]>> \in Seq(Nat) /\ Len(<<table[n]>>) = 1
                BY <1>1
            <4> QED
                BY <4>1, WithoutShape, Zenon
        <3>2. /\ table' \in Seq(Nat) /\ Len(table') = 1 + (Len(table) - 1)
              /\ \A p \in 1..(Len(table) - 1) : table'[1 + p] = Without(n)[p]
            BY <2>1, <3>1, JoinShape
        <3> QED
            BY <1>1, <3>2
    <2>3. ASSUME NEW p \in 1..Len(table), p # n
          PROVE  \E q \in 1..Len(table') : q >= p /\ table'[q] = table[p]
        <3>1. CASE p < n
            <4>1. p \in 1..(n - 1) /\ p + 1 \in 1..Len(table) /\ p \in 1..(Len(table) - 1)
                BY <1>1, <3>1
            <4>2. table'[p + 1] = table[p]
                BY <4>1, <2>2, WithoutShape
            <4> QED
                BY <4>1, <4>2, <2>2
        <3>2. CASE p > n
            <4>1. p \in (n + 1)..Len(table) /\ p - 1 \in 1..(Len(table) - 1) /\ p - 1 + 1 = p
                BY <1>1, <3>2
            <4>2. table'[p - 1 + 1] = table[p]
                BY <4>1, <2>2, WithoutShape
            <4> QED
                BY <4>1, <4>2, <2>2
        <3> QED
            BY <1>1, <2>3, <3>1, <3>2
    <2>4. \A p \in 1..Len(table) : table[p] \in reader'.changed
              \/ \E q \in 1..Len(table') : q >= p /\ table'[q] = table[p]
        BY <2>3, <1>2
    <2> QED
        BY <1>1, <1>2, <2>2, <2>4, RowsMoveBack
<1>4. CASE list.orderBy # "updatedAt"
    <2>1. table' = table
        BY <1>4 DEF UpdateRow
    <2>2. \A p \in 1..Len(table) : \E q \in 1..Len(table') : q >= p /\ table'[q] = table[p]
        BY <1>1, <2>1
    <2> QED
        BY <1>1, <1>2, <2>1, <2>2, RowsMoveBack DEF ListingInvariant
<1> QED
    BY <1>3, <1>4

LEMMA LeaveKeeps ==
    ASSUME ListingInvariant, NEW n \in DOMAIN table, LeaveFilter(n) PROVE ListingInvariant'
<1>1. /\ list' = list /\ table' = Without(n) /\ table[n] \in Nat
      /\ reader' = [reader EXCEPT !.changed = @ \cup {table[n]}, !.left = TRUE]
    BY DEF LeaveFilter, ListingInvariant
<1>2. reader' \in ReaderRecords /\ reader'.left = TRUE /\ reader'.limit = reader.limit
    BY <1>1 DEF ListingInvariant, ReaderRecords
<1> QED
    BY <1>1, <1>2, WithoutShape DEF ListingInvariant

(***************************************************************************)
(* routes/admin.ts, parseAdminPagination: for every page size, length of   *)
(* the list and number of rows added or moved to its head meanwhile, a     *)
(* client that reads to the end has seen every row that nobody touched, as *)
(* long as none left the filter.                                           *)
(***************************************************************************)
THEOREM UntouchedRowsAreListed == ListingSpec => []UntouchedIsListed
<1>1. ListingInvariant /\ [ListingNext]_listingVars => ListingInvariant'
    <2> SUFFICES ASSUME ListingInvariant, [ListingNext]_listingVars PROVE ListingInvariant'
        OBVIOUS
    <2>1. CASE UNCHANGED listingVars
        BY <2>1 DEF listingVars, ListingInvariant, Ahead, PageSize, Pagination,
                    parseAdminPagination, rawPagination
    <2> QED
        BY <2>1, ReadKeeps, InsertKeeps, UpdateKeeps, LeaveKeeps DEF ListingNext
<1>2. ListingInvariant => UntouchedIsListed
    BY DEF ListingInvariant, UntouchedIsListed
<1> QED
    BY <1>1, <1>2, ListingStart, PTL DEF ListingSpec

-----------------------------------------------------------------------------
(***************************************************************************)
(* The currencies.  What the rounding of lib/fx.ts and the sweep of        *)
(* lib/fx-settlement-db.ts do to the worth of the balances.                *)
(***************************************************************************)

\* Math.round misses the quotient by at most one half.
LEMMA RoundedRatioError ==
    ASSUME NEW a \in Nat, NEW b \in Nat, NEW c \in Nat \ {0}
    PROVE  /\ RoundedRatio(a, b, c) \in Nat
           /\ 2 * (c * RoundedRatio(a, b, c)) <= 2 * (a * b) + c
           /\ 2 * (a * b) - c <= 2 * (c * RoundedRatio(a, b, c))
<1> DEFINE x == a * b
           q == (2 * x + c) \div (2 * c)
           z == (2 * x + c) % (2 * c)
           y == c * q
<1>1. x \in Nat /\ 2 * c \in Nat \ {0} /\ 2 * x + c \in Nat
    BY ProductOfAmounts
<1>2. 2 * a * b = 2 * x
    OBVIOUS
<1>3. RoundedRatio(a, b, c) = q
    BY <1>2 DEF RoundedRatio
<1>4. q \in Nat /\ z \in 0..(2 * c - 1) /\ 2 * x + c = ((2 * c) * q) + z
    BY <1>1, DivisionFacts
<1>5. (2 * c) * q = 2 * y /\ y \in Nat
    <2> HIDE DEF q
    <2> QED
        BY <1>4, ProductOfAmounts
<1>6. 2 * y <= 2 * x + c /\ 2 * x - c <= 2 * y
    <2> HIDE DEF x, q, z, y
    <2> QED
        BY <1>1, <1>4, <1>5
<1> QED
    BY <1>3, <1>4, <1>6

\* A product with a factor in between.
LEMMA ProductBetween ==
    ASSUME NEW k \in Nat, NEW a \in Int, NEW b \in Int, NEW c \in Int, a <= b, b <= c
    PROVE  k * a <= k * b /\ k * b <= k * c /\ k * a \in Int /\ k * b \in Int /\ k * c \in Int
BY ProductMonotone

(***************************************************************************)
(* formatRate, then convertMinor: T and C are the base rates, R the rate   *)
(* rounded to P parts, X what amount a becomes.                            *)
(***************************************************************************)
LEMMA TwoRoundings ==
    ASSUME NEW T \in Nat, NEW C \in Nat, NEW P \in Nat, NEW a \in Nat, NEW R \in Nat, NEW X \in Nat,
           2 * (P * X) <= 2 * (a * R) + P, 2 * (a * R) - P <= 2 * (P * X),
           2 * (T * R) <= 2 * (C * P) + T, 2 * (C * P) - T <= 2 * (T * R)
    PROVE  /\ 2 * P * (T * X - C * a) <= T * (P + a)
           /\ -(T * (P + a)) <= 2 * P * (T * X - C * a)
<1> DEFINE u == 2 * (P * X) - 2 * (a * R)
           v == 2 * (T * R) - 2 * (C * P)
<1>1. u \in Int /\ -P <= u /\ u <= P /\ -P \in Int
    <2>1. P * X \in Int /\ a * R \in Int
        OBVIOUS
    <2> QED
        BY <2>1
<1>2. v \in Int /\ -T <= v /\ v <= T /\ -T \in Int
    <2>1. T * R \in Int /\ C * P \in Int
        OBVIOUS
    <2> QED
        BY <2>1
<1>3. 2 * P * (T * X - C * a) = T * u + a * v
    <2>1. T * u = 2 * (T * (P * X)) - 2 * (T * (a * R))
        OBVIOUS
    <2>2. a * v = 2 * (a * (T * R)) - 2 * (a * (C * P))
        OBVIOUS
    <2>3. T * (a * R) = a * (T * R)
        OBVIOUS
    <2>4. 2 * P * (T * X - C * a) = 2 * (T * (P * X)) - 2 * (a * (C * P))
        OBVIOUS
    <2>5. T * (P * X) \in Int /\ T * (a * R) \in Int /\ a * (C * P) \in Int
        OBVIOUS
    <2> QED
        BY <2>1, <2>2, <2>3, <2>4, <2>5
<1> HIDE DEF u, v
<1>4. T * (-P) <= T * u /\ T * u <= T * P /\ T * u \in Int /\ T * P \in Int /\ T * (-P) = -(T * P)
    BY <1>1, ProductBetween
<1>5. a * (-T) <= a * v /\ a * v <= a * T /\ a * v \in Int /\ a * T \in Int /\ a * (-T) = -(a * T)
    BY <1>2, ProductBetween
<1>6. T * (P + a) = T * P + a * T
    OBVIOUS
<1> QED
    BY <1>3, <1>4, <1>5, <1>6

\* Every currency has a positive rate, and there are finitely many.
LEMMA CurrencyFacts ==
    /\ IsFiniteSet(Currencies)
    /\ \A c \in Currencies : FX_BASE_RATES[c] \in Nat \ {0}
<1>1. IsFiniteSet({"MAD", "USD", "EUR", "GBP", "CAD"})
    <2>1. IsFiniteSet({"MAD"}) /\ IsFiniteSet({"USD"}) /\ IsFiniteSet({"EUR"})
          /\ IsFiniteSet({"GBP"}) /\ IsFiniteSet({"CAD"})
        BY FS_Singleton
    <2>2. IsFiniteSet({"MAD"} \cup {"USD"}) /\ IsFiniteSet({"EUR"} \cup {"GBP"})
        BY <2>1, FS_Union
    <2>3. IsFiniteSet(({"MAD"} \cup {"USD"}) \cup ({"EUR"} \cup {"GBP"}))
        BY <2>2, FS_Union
    <2>4. IsFiniteSet((({"MAD"} \cup {"USD"}) \cup ({"EUR"} \cup {"GBP"})) \cup {"CAD"})
        BY <2>1, <2>3, FS_Union
    <2>5. (({"MAD"} \cup {"USD"}) \cup ({"EUR"} \cup {"GBP"})) \cup {"CAD"}
             = {"MAD", "USD", "EUR", "GBP", "CAD"}
        OBVIOUS
    <2> QED
        BY <2>4, <2>5
<1>2. IsFiniteSet(Currencies)
    BY <1>1, FxAssumption, FS_Subset
<1>3. \A c \in {"MAD", "USD", "EUR", "GBP", "CAD"} : FX_BASE_RATES[c] \in Nat \ {0}
    BY DEF FX_BASE_RATES
<1> QED
    BY <1>2, <1>3, FxAssumption

\* planFxConversion: one balance loses or gains no more than RoundingOf.
LEMMA ConversionError ==
    ASSUME NEW c \in Currencies, NEW to \in Currencies, NEW a \in Nat
    PROVE  LET X == convertMinor(a, crossRate(c, to))
               e == FX_BASE_RATES[to] * X - FX_BASE_RATES[c] * a
           IN  /\ X \in Nat
               /\ 2 * Precision * e <= RoundingOf(a, to)
               /\ -RoundingOf(a, to) <= 2 * Precision * e
<1> DEFINE T == FX_BASE_RATES[to]
           C == FX_BASE_RATES[c]
           R == crossRate(c, to)
           X == convertMinor(a, R)
<1>1. T \in Nat \ {0} /\ C \in Nat \ {0} /\ Precision \in Nat \ {0}
    BY CurrencyFacts, FxAssumption
<1> HIDE DEF T, C
<1>2. R = RoundedRatio(C, Precision, T)
    BY DEF crossRate, T, C
<1>3. /\ R \in Nat /\ 2 * (T * R) <= 2 * (C * Precision) + T
      /\ 2 * (C * Precision) - T <= 2 * (T * R)
    BY <1>1, <1>2, RoundedRatioError
<1> HIDE DEF R
<1>4. X = RoundedRatio(a, R, Precision)
    BY DEF convertMinor
<1>5. /\ X \in Nat /\ 2 * (Precision * X) <= 2 * (a * R) + Precision
      /\ 2 * (a * R) - Precision <= 2 * (Precision * X)
    BY <1>1, <1>3, <1>4, RoundedRatioError
<1> HIDE DEF X
<1>6. /\ 2 * Precision * (T * X - C * a) <= T * (Precision + a)
      /\ -(T * (Precision + a)) <= 2 * Precision * (T * X - C * a)
    BY <1>1, <1>3, <1>5, TwoRoundings
<1> QED
    BY <1>5, <1>6 DEF RoundingOf, T, C, R, X

-----------------------------------------------------------------------------
\* The worth of balances as a sum over the currencies.
WorthOf(b) == [c \in Currencies |-> FX_BASE_RATES[c] * b[c]]

LEMMA WorthIsSum ==
    ASSUME NEW b \in [Currencies -> Int]
    PROVE  /\ Worth(b) = SumOver(WorthOf(b), Currencies) /\ Worth(b) \in Int
           /\ IntegerOn(WorthOf(b), Currencies)
<1>1. DOMAIN b = Currencies
    OBVIOUS
<1>2. Worth(b) = SumOver(WorthOf(b), Currencies)
    BY <1>1 DEF Worth, SumFunction, SumOver, WorthOf
<1>3. IntegerOn(WorthOf(b), Currencies)
    <2>1. ASSUME NEW c \in Currencies PROVE WorthOf(b)[c] \in Int
        <3>1. FX_BASE_RATES[c] \in Nat /\ b[c] \in Int
            BY CurrencyFacts
        <3> QED
            BY <3>1 DEF WorthOf
    <2> QED
        BY <2>1 DEF IntegerOn
<1> QED
    BY <1>2, <1>3, CurrencyFacts, SumIsInteger

\* A sum of which one term changes.
LEMMA SumChanges ==
    ASSUME NEW S, IsFiniteSet(S), NEW f, NEW g, IntegerOn(f, S), IntegerOn(g, S),
           NEW x \in S, \A y \in S \ {x} : f[y] = g[y]
    PROVE  SumOver(g, S) = SumOver(f, S) + g[x] - f[x] /\ SumOver(f, S) \in Int
<1>1. IsFiniteSet(S \ {x})
    BY FS_RemoveElement
<1>2. SumOver(f, S) = f[x] + SumOver(f, S \ {x}) /\ SumOver(g, S) = g[x] + SumOver(g, S \ {x})
    BY SumRemove
<1>3. SumOver(f, S \ {x}) = SumOver(g, S \ {x})
    BY <1>1, SumCongruent
<1>4. SumOver(f, S \ {x}) \in Int /\ f[x] \in Int /\ g[x] \in Int
    <2>1. IntegerOn(f, S \ {x}) /\ f[x] \in Int /\ g[x] \in Int
        BY DEF IntegerOn
    <2> QED
        BY <1>1, <2>1, SumIsInteger
<1> QED
    BY <1>2, <1>3, <1>4

\* One balance changes.
LEMMA WorthChanges ==
    ASSUME NEW b \in [Currencies -> Int], NEW c \in Currencies, NEW v \in Int
    PROVE  Worth([b EXCEPT ![c] = v])
              = Worth(b) + FX_BASE_RATES[c] * v - FX_BASE_RATES[c] * b[c]
<1> DEFINE d == [b EXCEPT ![c] = v]
           f == WorthOf(b)
           g == WorthOf(d)
<1>1. d \in [Currencies -> Int]
    OBVIOUS
<1>2. /\ f[c] = FX_BASE_RATES[c] * b[c] /\ g[c] = FX_BASE_RATES[c] * v
      /\ \A x \in Currencies \ {c} : f[x] = g[x]
    BY DEF WorthOf
<1>3. /\ Worth(b) = SumOver(f, Currencies) /\ IntegerOn(f, Currencies)
      /\ Worth(d) = SumOver(g, Currencies) /\ IntegerOn(g, Currencies)
    BY <1>1, WorthIsSum
<1> HIDE DEF d, f, g
<1>4. SumOver(g, Currencies) = SumOver(f, Currencies) + g[c] - f[c]
    BY <1>2, <1>3, CurrencyFacts, SumChanges
<1>5. Worth(d) = Worth(b) + FX_BASE_RATES[c] * v - FX_BASE_RATES[c] * b[c]
    BY <1>2, <1>3, <1>4
<1> QED
    BY <1>5 DEF d

-----------------------------------------------------------------------------
(***************************************************************************)
(* What a payout may count on.  The credits of a currency, free or         *)
(* reserved by an open payout, are in its AVAILABLE but for what the       *)
(* debits took out of it.                                                  *)
(***************************************************************************)
PayoutRecords == [currency : Currencies, cents : Nat, held : Nat]

FxTypes ==
    /\ settlementCurrency \in Currencies
    /\ avail \in [Currencies -> Int] /\ credits \in [Currencies -> Nat]
    /\ debits \in [Currencies -> Nat] /\ paid \in [Currencies -> Nat]
    /\ draft \in [Drafts -> PayoutRecords]
    /\ fx \in [deposits : Nat, taken : Nat, switches : Nat, worth : Int, rounding : Int]

\* What a payout r, and the payouts d, reserve and pay of a currency.
HeldBy(r, c) == IF r.currency = c THEN r.held ELSE 0
DueTo(r, c)  == IF r.currency = c THEN r.cents ELSE 0
HeldOf(d, c) == [p \in Drafts |-> HeldBy(d[p], c)]
DueOf(d, c)  == [p \in Drafts |-> DueTo(d[p], c)]
Held(d, c)   == SumOver(HeldOf(d, c), Drafts)
Due(d, c)    == SumOver(DueOf(d, c), Drafts)

PayoutsCovered ==
    /\ \A c \in Currencies : credits[c] + Held(draft, c) <= avail[c] + debits[c]
    /\ \A p \in Drafts : draft[p].cents <= draft[p].held

LEMMA DueIsHeld ==
    ASSUME NEW d \in [Drafts -> PayoutRecords], NEW c \in Currencies,
           \A p \in Drafts : d[p].cents <= d[p].held
    PROVE  Due(d, c) <= Held(d, c) /\ Due(d, c) \in Int /\ Held(d, c) \in Int
<1>1. IntegerOn(DueOf(d, c), Drafts) /\ IntegerOn(HeldOf(d, c), Drafts)
    BY DEF IntegerOn, DueOf, HeldOf, DueTo, HeldBy, PayoutRecords
<1>2. AtMost(DueOf(d, c), HeldOf(d, c), Drafts)
    BY DEF AtMost, DueOf, HeldOf, DueTo, HeldBy, PayoutRecords
<1> QED
    BY <1>1, <1>2, FxAssumption, SumMonotone, SumIsInteger DEF Due, Held

\* One payout changes.
LEMMA PayoutChanges ==
    ASSUME NEW d \in [Drafts -> PayoutRecords], NEW p \in Drafts, NEW r \in PayoutRecords,
           NEW c \in Currencies
    PROVE  /\ Held([d EXCEPT ![p] = r], c)
                 = Held(d, c) + HeldBy(r, c) - HeldBy(d[p], c) /\ Held(d, c) \in Int
           /\ Due([d EXCEPT ![p] = r], c)
                 = Due(d, c) + DueTo(r, c) - DueTo(d[p], c) /\ Due(d, c) \in Int
<1> DEFINE e == [d EXCEPT ![p] = r]
<1>1. e \in [Drafts -> PayoutRecords] /\ e[p] = r /\ \A q \in Drafts \ {p} : e[q] = d[q]
    OBVIOUS
<1> HIDE DEF e
<1>2. /\ IntegerOn(DueOf(d, c), Drafts) /\ IntegerOn(HeldOf(d, c), Drafts)
      /\ IntegerOn(DueOf(e, c), Drafts) /\ IntegerOn(HeldOf(e, c), Drafts)
    BY <1>1 DEF IntegerOn, DueOf, HeldOf, DueTo, HeldBy, PayoutRecords
<1>3. /\ \A q \in Drafts \ {p} : HeldOf(d, c)[q] = HeldOf(e, c)[q]
      /\ \A q \in Drafts \ {p} : DueOf(d, c)[q] = DueOf(e, c)[q]
    BY <1>1 DEF HeldOf, DueOf
<1>4. /\ HeldOf(e, c)[p] = HeldBy(r, c) /\ HeldOf(d, c)[p] = HeldBy(d[p], c)
      /\ DueOf(e, c)[p] = DueTo(r, c) /\ DueOf(d, c)[p] = DueTo(d[p], c)
    BY <1>1 DEF HeldOf, DueOf
<1>5. /\ Held(e, c) = Held(d, c) + HeldOf(e, c)[p] - HeldOf(d, c)[p] /\ Held(d, c) \in Int
      /\ Due(e, c) = Due(d, c) + DueOf(e, c)[p] - DueOf(d, c)[p] /\ Due(d, c) \in Int
    BY <1>2, <1>3, FxAssumption, SumChanges DEF Held, Due
<1> QED
    BY <1>4, <1>5 DEF e

\* SweepKeepsMoney on the rounding, without the absolute value.
LossBounded ==
    /\ 2 * Precision * Lost <= fx.rounding
    /\ -fx.rounding <= 2 * Precision * Lost

FxInvariant == FxTypes /\ PayoutsCovered /\ LossBounded

LEMMA FxInvariantSuffices ==
    FxInvariant => 2 * Precision * (IF Lost < 0 THEN -Lost ELSE Lost) <= fx.rounding
<1> SUFFICES ASSUME FxInvariant
             PROVE  2 * Precision * (IF Lost < 0 THEN -Lost ELSE Lost) <= fx.rounding
    OBVIOUS
<1>0. /\ avail \in [Currencies -> Int] /\ paid \in [Currencies -> Int]
      /\ fx.worth \in Int /\ fx.rounding \in Int
    BY DEF FxInvariant, FxTypes
<1>1. Precision \in Nat /\ Lost \in Int
    BY <1>0, FxAssumption, WorthIsSum DEF Lost
<1>2. 2 * Precision * (-Lost) = -(2 * Precision * Lost) /\ 2 * Precision * Lost \in Int
    BY <1>1
<1> QED
    BY <1>0, <1>1, <1>2 DEF FxInvariant, LossBounded

\* A step that loses e by rounding and allows for it.
LEMMA LossStays ==
    ASSUME LossBounded, Lost \in Int, fx.rounding \in Int, NEW e \in Int, NEW more \in Int,
           Lost' = Lost - e, fx'.rounding = fx.rounding + more,
           2 * Precision * e <= more, -more <= 2 * Precision * e
    PROVE  LossBounded'
<1>1. Precision \in Nat
    BY FxAssumption
<1>2. 2 * Precision * (Lost - e) = 2 * Precision * Lost - 2 * Precision * e
      /\ 2 * Precision * Lost \in Int /\ 2 * Precision * e \in Int
    BY <1>1
<1> QED
    BY <1>2 DEF LossBounded

LEMMA FxStart == FxInit => FxInvariant
<1> SUFFICES ASSUME FxInit PROVE FxInvariant
    OBVIOUS
<1>1. FxTypes
    BY FxAssumption DEF FxInit, FxTypes, NoPayout, PayoutRecords
<1>2. Worth(avail) = 0 /\ Worth(paid) = 0
    <2>1. ASSUME NEW b \in [Currencies -> Int], b = [c \in Currencies |-> 0]
          PROVE  Worth(b) = 0
        <3>1. ASSUME NEW c \in Currencies PROVE WorthOf(b)[c] = 0
            <4>1. b[c] = 0 /\ FX_BASE_RATES[c] \in Nat
                BY <2>1, CurrencyFacts
            <4> QED
                BY <4>1 DEF WorthOf
        <3> QED
            BY <3>1, CurrencyFacts, WorthIsSum, SumZero
    <2>2. avail = [c \in Currencies |-> 0] /\ paid = [c \in Currencies |-> 0]
        BY DEF FxInit
    <2> QED
        BY <2>1, <2>2
<1>3. Lost = 0 /\ fx.rounding = 0 /\ Precision \in Nat
    BY <1>2, FxAssumption DEF FxInit, Lost
<1>4. 2 * Precision * 0 = 0
    BY <1>3
<1>5. PayoutsCovered
    <2>1. ASSUME NEW c \in Currencies PROVE Held(draft, c) = 0
        <3>1. \A p \in Drafts : HeldOf(draft, c)[p] = 0
            BY DEF HeldOf, HeldBy, FxInit, NoPayout
        <3> QED
            BY <3>1, FxAssumption, SumZero DEF Held
    <2>2. \A c \in Currencies : credits[c] = 0 /\ avail[c] = 0 /\ debits[c] = 0
        BY DEF FxInit
    <2>3. \A p \in Drafts : draft[p].cents <= draft[p].held
        BY DEF FxInit, NoPayout
    <2> QED
        BY <2>1, <2>2, <2>3 DEF PayoutsCovered
<1> QED
    BY <1>1, <1>3, <1>4, <1>5 DEF FxInvariant, LossBounded

\* AVAILABLE changes by v and the worth that came in with it.
LEMMA LossUnmoved ==
    ASSUME FxTypes, LossBounded, NEW c \in Currencies, NEW v \in Int,
           avail' = [avail EXCEPT ![c] = avail[c] + v], paid' = paid,
           fx'.worth = fx.worth + FX_BASE_RATES[c] * v, fx'.rounding = fx.rounding
    PROVE  LossBounded'
<1>1. /\ avail \in [Currencies -> Int] /\ paid \in [Currencies -> Int] /\ avail[c] \in Int
      /\ avail[c] + v \in Int /\ FX_BASE_RATES[c] \in Nat /\ fx.worth \in Int
    BY CurrencyFacts DEF FxTypes
<1>2. Worth(avail') = Worth(avail) + FX_BASE_RATES[c] * (avail[c] + v) - FX_BASE_RATES[c] * avail[c]
    BY <1>1, WorthChanges, Zenon
<1>3. FX_BASE_RATES[c] * (avail[c] + v) = FX_BASE_RATES[c] * avail[c] + FX_BASE_RATES[c] * v
      /\ FX_BASE_RATES[c] * avail[c] \in Int /\ FX_BASE_RATES[c] * v \in Int
    BY <1>1
<1>4. Worth(avail) \in Int /\ Worth(paid) \in Int /\ Worth(paid') = Worth(paid)
    BY <1>1, WorthIsSum
<1>5. Lost' = Lost
    BY <1>1, <1>2, <1>3, <1>4 DEF Lost
<1> QED
    BY <1>5 DEF LossBounded

\* A capture in a currency: its worth comes in.
LEMMA DepositKeeps ==
    ASSUME FxInvariant, NEW c \in Currencies, NEW a \in Deposits, Deposit(c, a)
    PROVE  FxInvariant'
<1>1. /\ avail' = [avail EXCEPT ![c] = @ + a] /\ credits' = [credits EXCEPT ![c] = @ + a]
      /\ fx' = [fx EXCEPT !.deposits = @ + 1, !.worth = @ + FX_BASE_RATES[c] * a]
      /\ UNCHANGED <<settlementCurrency, debits, draft, paid>>
    BY DEF Deposit
<1>2. a \in Nat /\ FX_BASE_RATES[c] \in Nat /\ FX_BASE_RATES[c] * a \in Nat
    BY FxAssumption, CurrencyFacts, ProductOfAmounts
<1>3. FxTypes /\ PayoutsCovered /\ LossBounded
    BY DEF FxInvariant
<1>4. /\ fx' \in [deposits : Nat, taken : Nat, switches : Nat, worth : Int, rounding : Int]
      /\ fx'.worth = fx.worth + FX_BASE_RATES[c] * a /\ fx'.rounding = fx.rounding
    <2>1. fx.worth + FX_BASE_RATES[c] * a \in Int /\ fx.deposits + 1 \in Nat
        BY <1>2, <1>3 DEF FxTypes
    <2> QED
        BY <1>1, <1>3, <2>1 DEF FxTypes
<1>5. FxTypes'
    BY <1>1, <1>2, <1>3, <1>4 DEF FxTypes
<1>6. PayoutsCovered'
    <2>1. ASSUME NEW x \in Currencies
          PROVE  credits'[x] + Held(draft', x) <= avail'[x] + debits'[x]
        <3>1. /\ credits[x] + Held(draft, x) <= avail[x] + debits[x] /\ Held(draft, x) \in Int
              /\ credits[x] \in Nat /\ avail[x] \in Int /\ debits[x] \in Nat
            BY <1>3, DueIsHeld DEF PayoutsCovered, FxTypes
        <3>2. /\ draft' = draft /\ debits' = debits
              /\ credits'[x] = IF x = c THEN credits[x] + a ELSE credits[x]
              /\ avail'[x] = IF x = c THEN avail[x] + a ELSE avail[x]
            BY <1>1, <1>3 DEF FxTypes
        <3> QED
            BY <1>2, <3>1, <3>2
    <2> QED
        BY <1>1, <1>3, <2>1 DEF PayoutsCovered
<1>7. LossBounded'
    <2>1. a \in Int /\ avail' = [avail EXCEPT ![c] = avail[c] + a] /\ paid' = paid
        BY <1>1, <1>2
    <2> QED
        BY <1>3, <1>4, <2>1, LossUnmoved
<1> QED
    BY <1>5, <1>6, <1>7 DEF FxInvariant

\* A refund, a clawback or a fee: it is netted before the next payout.
LEMMA TakeBackKeeps ==
    ASSUME FxInvariant, NEW c \in Currencies, NEW a \in TakenBack, TakeBack(c, a)
    PROVE  FxInvariant'
<1>1. /\ avail' = [avail EXCEPT ![c] = @ - a] /\ debits' = [debits EXCEPT ![c] = @ + a]
      /\ fx' = [fx EXCEPT !.taken = @ + 1, !.worth = @ - FX_BASE_RATES[c] * a]
      /\ UNCHANGED <<settlementCurrency, credits, draft, paid>>
    BY DEF TakeBack
<1>2. /\ a \in Nat /\ -a \in Int /\ FX_BASE_RATES[c] \in Nat /\ FX_BASE_RATES[c] * a \in Nat
      /\ FX_BASE_RATES[c] * (-a) = -(FX_BASE_RATES[c] * a)
    BY FxAssumption, CurrencyFacts, ProductOfAmounts
<1>3. FxTypes /\ PayoutsCovered /\ LossBounded
    BY DEF FxInvariant
<1>4. /\ fx' \in [deposits : Nat, taken : Nat, switches : Nat, worth : Int, rounding : Int]
      /\ fx'.worth = fx.worth + FX_BASE_RATES[c] * (-a) /\ fx'.rounding = fx.rounding
    <2>1. fx.worth - FX_BASE_RATES[c] * a \in Int /\ fx.taken + 1 \in Nat
          /\ fx.worth - FX_BASE_RATES[c] * a = fx.worth + FX_BASE_RATES[c] * (-a)
        BY <1>2, <1>3 DEF FxTypes
    <2> QED
        BY <1>1, <1>3, <2>1 DEF FxTypes
<1>5. FxTypes'
    BY <1>1, <1>2, <1>3, <1>4 DEF FxTypes
<1>6. PayoutsCovered'
    <2>1. ASSUME NEW x \in Currencies
          PROVE  credits'[x] + Held(draft', x) <= avail'[x] + debits'[x]
        <3>1. /\ credits[x] + Held(draft, x) <= avail[x] + debits[x] /\ Held(draft, x) \in Int
              /\ credits[x] \in Nat /\ avail[x] \in Int /\ debits[x] \in Nat
            BY <1>3, DueIsHeld DEF PayoutsCovered, FxTypes
        <3>2. /\ draft' = draft /\ credits' = credits
              /\ debits'[x] = IF x = c THEN debits[x] + a ELSE debits[x]
              /\ avail'[x] = IF x = c THEN avail[x] - a ELSE avail[x]
            BY <1>1, <1>3 DEF FxTypes
        <3> QED
            BY <1>2, <3>1, <3>2
    <2> QED
        BY <1>1, <1>3, <2>1 DEF PayoutsCovered
<1>7. LossBounded'
    <2>1. avail' = [avail EXCEPT ![c] = avail[c] + (-a)]
        <3>1. avail[c] - a = avail[c] + (-a)
            BY <1>2, <1>3 DEF FxTypes
        <3> QED
            BY <1>1, <3>1
    <2> QED
        BY <1>1, <1>2, <1>3, <1>4, <2>1, LossUnmoved
<1> QED
    BY <1>5, <1>6, <1>7 DEF FxInvariant

\* PATCH /tenant moves no money.
LEMMA SwitchKeeps ==
    ASSUME FxInvariant, NEW c \in Currencies, ChangeSettlement(c) PROVE FxInvariant'
<1>1. /\ settlementCurrency' = c /\ UNCHANGED <<avail, credits, debits, draft, paid>>
      /\ fx' = [fx EXCEPT !.switches = @ + 1]
    BY DEF ChangeSettlement
<1>2. FxTypes
    BY DEF FxInvariant
<1>3. /\ fx' \in [deposits : Nat, taken : Nat, switches : Nat, worth : Int, rounding : Int]
      /\ fx'.worth = fx.worth /\ fx'.rounding = fx.rounding
    <2>1. fx.switches + 1 \in Nat
        BY <1>2 DEF FxTypes
    <2> QED
        BY <1>1, <1>2, <2>1 DEF FxTypes
<1>4. FxTypes'
    BY <1>1, <1>2, <1>3 DEF FxTypes
<1>5. PayoutsCovered'
    BY <1>1 DEF PayoutsCovered, FxInvariant
<1>6. LossBounded'
    BY <1>1, <1>3 DEF FxInvariant, LossBounded, Lost
<1> QED
    BY <1>4, <1>5, <1>6 DEF FxInvariant

\* A payout that ends.
LEMMA PayoutEnds ==
    ASSUME FxTypes, PayoutsCovered, NEW p \in Drafts, draft' = [draft EXCEPT ![p] = NoPayout],
           NEW x \in Currencies
    PROVE  /\ draft' \in [Drafts -> PayoutRecords]
           /\ \A q \in Drafts : draft'[q].cents <= draft'[q].held
           /\ Held(draft', x) = Held(draft, x) - HeldBy(draft[p], x)
           /\ Held(draft, x) \in Int
<1>1. NoPayout \in PayoutRecords /\ NoPayout.cents = 0 /\ NoPayout.held = 0
    BY FxAssumption DEF NoPayout, PayoutRecords
<1>2. /\ draft \in [Drafts -> PayoutRecords] /\ draft[p].held \in Nat
      /\ \A q \in Drafts : draft[q].cents <= draft[q].held
    BY DEF FxTypes, PayoutRecords, PayoutsCovered
<1>3. draft' \in [Drafts -> PayoutRecords] /\ \A q \in Drafts : draft'[q].cents <= draft'[q].held
    <2>1. ASSUME NEW q \in Drafts PROVE draft'[q].cents <= draft'[q].held
        <3>1. CASE q = p
            BY <1>1, <1>2, <3>1
        <3>2. CASE q # p
            BY <1>2, <3>2
        <3> QED
            BY <3>1, <3>2
    <2> QED
        BY <1>1, <1>2, <2>1
<1>4. /\ Held(draft', x) = Held(draft, x) + HeldBy(NoPayout, x) - HeldBy(draft[p], x)
      /\ Held(draft, x) \in Int
    BY <1>1, <1>2, PayoutChanges
<1>5. HeldBy(NoPayout, x) = 0 /\ HeldBy(draft[p], x) \in Nat
    BY <1>1, <1>2 DEF HeldBy
<1> QED
    BY <1>3, <1>4, <1>5

\* markPayoutPaid moves from AVAILABLE to PAID_OUT.
LEMMA PayKeeps ==
    ASSUME FxInvariant, NEW p \in Drafts, PayPayout(p) PROVE FxInvariant'
<1> DEFINE a == draft[p].cents
           c == draft[p].currency
<1>1. /\ avail[c] >= a /\ avail' = [avail EXCEPT ![c] = @ - a]
      /\ paid' = [paid EXCEPT ![c] = @ + a]
      /\ draft' = [draft EXCEPT ![p] = NoPayout]
      /\ UNCHANGED <<settlementCurrency, credits, debits, fx>>
    BY DEF PayPayout
<1>2. FxTypes /\ PayoutsCovered
    BY DEF FxInvariant
<1>3. /\ c \in Currencies /\ a \in Nat /\ avail[c] \in Int /\ paid[c] \in Nat
      /\ avail[c] - a \in Int /\ paid[c] + a \in Nat /\ draft[p].held \in Nat
    <2>1. draft[p] \in PayoutRecords
        BY <1>2 DEF FxTypes
    <2>2. c \in Currencies /\ a \in Nat /\ draft[p].held \in Nat
        BY <2>1 DEF PayoutRecords
    <2> HIDE DEF a, c
    <2>3. avail[c] \in Int /\ paid[c] \in Nat
        BY <1>2, <2>2 DEF FxTypes
    <2> QED
        BY <2>2, <2>3
<1>4. a <= draft[p].held
    BY <1>2 DEF PayoutsCovered
<1>5. FxTypes'
    <2>1. draft' \in [Drafts -> PayoutRecords]
        BY <1>1, <1>2, <1>3, PayoutEnds
    <2> HIDE DEF a, c
    <2> QED
        BY <1>1, <1>2, <1>3, <2>1 DEF FxTypes
<1>6. PayoutsCovered'
    <2>1. ASSUME NEW x \in Currencies
          PROVE  credits'[x] + Held(draft', x) <= avail'[x] + debits'[x]
        <3>1. /\ credits[x] \in Nat /\ debits[x] \in Nat /\ avail[x] \in Int
              /\ credits[x] + Held(draft, x) <= avail[x] + debits[x]
            BY <1>2 DEF FxTypes, PayoutsCovered
        <3>2. /\ Held(draft', x) = Held(draft, x) - IF c = x THEN draft[p].held ELSE 0
              /\ Held(draft, x) \in Int
            BY <1>1, <1>2, PayoutEnds DEF HeldBy
        <3> HIDE DEF a, c
        <3>3. /\ credits' = credits /\ debits' = debits
              /\ avail'[x] = IF c = x THEN avail[x] - a ELSE avail[x]
            BY <1>1, <1>2 DEF FxTypes
        <3> QED
            BY <1>3, <1>4, <3>1, <3>2, <3>3
    <2>2. \A q \in Drafts : draft'[q].cents <= draft'[q].held
        BY <1>1, <1>2, <1>3, PayoutEnds
    <2> QED
        BY <2>1, <2>2 DEF PayoutsCovered
<1> HIDE DEF a, c
<1>7. Lost' = Lost
    <2> DEFINE r == FX_BASE_RATES[c]
    <2>1. /\ avail \in [Currencies -> Int] /\ paid \in [Currencies -> Int] /\ r \in Nat
        BY <1>2, <1>3, CurrencyFacts DEF FxTypes
    <2> HIDE DEF r
    <2>2. /\ Worth(avail') = Worth(avail) + r * (avail[c] - a) - r * avail[c]
          /\ Worth(paid') = Worth(paid) + r * (paid[c] + a) - r * paid[c]
        <3>1. /\ avail' = [avail EXCEPT ![c] = avail[c] - a]
              /\ paid' = [paid EXCEPT ![c] = paid[c] + a] /\ paid[c] + a \in Int
            BY <1>1, <1>3
        <3>2. Worth(avail') = Worth(avail) + r * (avail[c] - a) - r * avail[c]
            BY <1>3, <2>1, <3>1, WorthChanges, Zenon DEF r
        <3>3. Worth(paid') = Worth(paid) + r * (paid[c] + a) - r * paid[c]
            BY <1>3, <2>1, <3>1, WorthChanges, Zenon DEF r
        <3> QED
            BY <3>2, <3>3
    <2>3. /\ r * (avail[c] - a) = r * avail[c] - r * a /\ r * (paid[c] + a) = r * paid[c] + r * a
          /\ r * avail[c] \in Int /\ r * paid[c] \in Int /\ r * a \in Int
        BY <1>3, <2>1
    <2>4. Worth(avail) \in Int /\ Worth(paid) \in Int /\ fx.worth \in Int /\ fx' = fx
        BY <1>1, <1>2, <2>1, WorthIsSum DEF FxTypes
    <2> QED
        BY <2>2, <2>3, <2>4 DEF Lost
<1> QED
    BY <1>1, <1>5, <1>6, <1>7 DEF FxInvariant, LossBounded

\* cancelPayout and markPayoutFailed give the credits back.
LEMMA ReleaseKeeps ==
    ASSUME FxInvariant, NEW p \in Drafts, ReleasePayout(p) PROVE FxInvariant'
<1> DEFINE c == draft[p].currency
           h == draft[p].held
<1>1. /\ credits' = [credits EXCEPT ![c] = @ + h]
      /\ draft' = [draft EXCEPT ![p] = NoPayout]
      /\ UNCHANGED <<settlementCurrency, avail, debits, paid, fx>>
    BY DEF ReleasePayout
<1>2. FxTypes /\ PayoutsCovered
    BY DEF FxInvariant
<1>3. c \in Currencies /\ h \in Nat
    <2>1. draft[p] \in PayoutRecords
        BY <1>2 DEF FxTypes
    <2> QED
        BY <2>1 DEF PayoutRecords
<1>4. draft' \in [Drafts -> PayoutRecords] /\ \A q \in Drafts : draft'[q].cents <= draft'[q].held
    BY <1>1, <1>2, <1>3, PayoutEnds
<1>5. ASSUME NEW x \in Currencies
      PROVE  Held(draft', x) = Held(draft, x) - (IF c = x THEN h ELSE 0) /\ Held(draft, x) \in Int
    BY <1>1, <1>2, PayoutEnds DEF HeldBy
<1> HIDE DEF c, h
<1>6. FxTypes'
    BY <1>1, <1>2, <1>3, <1>4 DEF FxTypes
<1>7. PayoutsCovered'
    <2>1. ASSUME NEW x \in Currencies
          PROVE  credits'[x] + Held(draft', x) <= avail'[x] + debits'[x]
        <3>1. /\ credits[x] \in Nat /\ debits[x] \in Nat /\ avail[x] \in Int
              /\ credits[x] + Held(draft, x) <= avail[x] + debits[x]
            BY <1>2 DEF FxTypes, PayoutsCovered
        <3>2. /\ avail' = avail /\ debits' = debits
              /\ credits'[x] = IF c = x THEN credits[x] + h ELSE credits[x]
            BY <1>1, <1>2 DEF FxTypes
        <3> QED
            BY <1>3, <1>5, <3>1, <3>2
    <2> QED
        BY <1>4, <2>1 DEF PayoutsCovered
<1>8. LossBounded'
    BY <1>1 DEF FxInvariant, LossBounded, Lost
<1> QED
    BY <1>6, <1>7, <1>8 DEF FxInvariant

\* The foreign balances that createPayout converts, and what each becomes.
LEMMA PlanFacts ==
    ASSUME FxTypes
    PROVE  /\ Foreign \subseteq Currencies /\ settlementCurrency \notin Foreign
           /\ IsFiniteSet(Foreign)
           /\ DOMAIN planFxConversion = Foreign
           /\ \A c \in Foreign : planFxConversion[c] \in Nat
           /\ Converted = SumOver(planFxConversion, Foreign) /\ Converted \in Nat
<1>1. Foreign \subseteq Currencies /\ settlementCurrency \notin Foreign
    BY DEF Foreign
<1>2. IsFiniteSet(Foreign)
    BY <1>1, CurrencyFacts, FS_Subset
<1>3. DOMAIN planFxConversion = Foreign
    BY DEF planFxConversion
<1>4. ASSUME NEW c \in Foreign PROVE planFxConversion[c] \in Nat
    <2>1. planFxConversion[c] = convertMinor(avail[c], crossRate(c, settlementCurrency))
        BY DEF planFxConversion
    <2>2. c \in Currencies /\ settlementCurrency \in Currencies /\ avail[c] \in Nat
        BY <1>1 DEF FxTypes, Foreign
    <2> QED
        BY <2>1, <2>2, ConversionError
<1>5. Converted = SumOver(planFxConversion, Foreign)
    BY <1>3 DEF Converted, SumFunction, SumOver
<1>6. Converted \in Nat
    BY <1>2, <1>4, <1>5, SumOfAmounts
<1> QED
    BY <1>1, <1>2, <1>3, <1>4, <1>5, <1>6

(***************************************************************************)
(* What the sweep changes of the worth of AVAILABLE is the sum of what     *)
(* each conversion misses, and that is within the rounding it allows.      *)
(***************************************************************************)
LEMMA SweepError ==
    ASSUME FxTypes, NEW new \in [Currencies -> Int],
           \A c \in Currencies : new[c] =
              IF c = settlementCurrency THEN avail[c] + Converted
              ELSE IF c \in Foreign THEN 0 ELSE avail[c]
    PROVE  LET e    == Worth(new) - Worth(avail)
               more == SumFunction([c \in Foreign |-> RoundingOf(avail[c], settlementCurrency)])
           IN  /\ e \in Int /\ more \in Int
               /\ 2 * Precision * e <= more /\ -more <= 2 * Precision * e
<1> DEFINE to   == settlementCurrency
           F    == Foreign
           rate == FX_BASE_RATES
           plan == planFxConversion
           old  == WorthOf(avail)
           nu   == WorthOf(new)
           d    == [c \in Currencies |-> nu[c] - old[c]]
           gain == [c \in F |-> rate[to] * plan[c]]
           miss == [c \in F |-> gain[c] + d[c]]
           part == [c \in F |-> 2 * Precision * miss[c]]
           bnd  == [c \in F |-> RoundingOf(avail[c], to)]
           neg  == [c \in F |-> -bnd[c]]
<1>1. /\ F \subseteq Currencies /\ to \notin F /\ IsFiniteSet(F) /\ to \in Currencies
      /\ \A c \in F : plan[c] \in Nat
      /\ Converted = SumOver(plan, F) /\ Converted \in Nat
      /\ avail \in [Currencies -> Int] /\ \A c \in F : avail[c] \in Nat
      /\ Precision \in Nat
      /\ IsFiniteSet(Currencies) /\ \A c \in Currencies : rate[c] \in Nat
    BY PlanFacts, CurrencyFacts, FxAssumption DEF FxTypes, Foreign
<1>2. /\ Worth(new) = SumOver(nu, Currencies) /\ IntegerOn(nu, Currencies)
      /\ Worth(avail) = SumOver(old, Currencies) /\ IntegerOn(old, Currencies)
      /\ Worth(new) \in Int /\ Worth(avail) \in Int
    BY <1>1, WorthIsSum
<1>3. /\ \A c \in Currencies : nu[c] = rate[c] * new[c] /\ old[c] = rate[c] * avail[c]
      /\ \A c \in Currencies : nu[c] \in Int /\ old[c] \in Int
    BY <1>2 DEF WorthOf, IntegerOn
<1>4. /\ IntegerOn(d, Currencies) /\ \A c \in Currencies : nu[c] = old[c] + d[c]
    BY <1>3 DEF IntegerOn
<1>5. Worth(new) = Worth(avail) + SumOver(d, Currencies) /\ SumOver(d, Currencies) \in Int
    BY <1>1, <1>2, <1>4, SumPlus, SumIsInteger
<1>6. /\ d[to] = rate[to] * Converted
      /\ \A c \in F : d[c] = -(rate[c] * avail[c])
      /\ \A c \in Currencies \ (F \cup {to}) : d[c] = 0
    <2>1. ASSUME NEW c \in Currencies
          PROVE  d[c] = rate[c] * new[c] - rate[c] * avail[c] /\ rate[c] \in Nat /\ avail[c] \in Int
        BY <1>1, <1>3
    <2> HIDE DEF d, rate
    <2>2. d[to] = rate[to] * Converted
        <3>1. new[to] = avail[to] + Converted
            BY <1>1
        <3>2. rate[to] * (avail[to] + Converted) = rate[to] * avail[to] + rate[to] * Converted
              /\ rate[to] * avail[to] \in Int /\ rate[to] * Converted \in Int
            BY <1>1, <2>1
        <3>3. d[to] = rate[to] * new[to] - rate[to] * avail[to]
            BY <1>1, <2>1
        <3> QED
            BY <3>1, <3>2, <3>3
    <2>3. ASSUME NEW c \in F PROVE d[c] = -(rate[c] * avail[c])
        <3>1. c \in Currencies /\ new[c] = 0
            BY <1>1
        <3>2. rate[c] * 0 = 0 /\ rate[c] * avail[c] \in Int
            BY <2>1, <3>1
        <3> QED
            BY <2>1, <3>1, <3>2
    <2>4. ASSUME NEW c \in Currencies \ (F \cup {to}) PROVE d[c] = 0
        <3>1. new[c] = avail[c] /\ rate[c] * avail[c] \in Int
            BY <2>1
        <3> QED
            BY <2>1, <3>1
    <2> QED
        BY <2>2, <2>3, <2>4
<1> HIDE DEF d, old, nu
<1>7. /\ SumOver(d, Currencies) = SumOver(d, F \cup {to})
      /\ SumOver(d, F \cup {to}) = SumOver(d, F) + d[to]
    <2>1. F \cup {to} \in SUBSET Currencies /\ IntegerOn(d, F \cup {to})
        BY <1>1, <1>4 DEF IntegerOn
    <2> HIDE DEF F, to
    <2> QED
        BY <2>1, <1>1, <1>6, SumSupport, SumAdd
<1>8. /\ IntegerOn(plan, F) /\ IntegerOn(gain, F) /\ IntegerOn(d, F)
      /\ Multiple(gain, rate[to], plan, F) /\ rate[to] \in Int
    <2>1. rate[to] \in Nat
        BY <1>1
    <2> HIDE DEF rate, plan, F, to
    <2> QED
        BY <1>1, <1>4, <2>1 DEF IntegerOn, Multiple
<1>9. SumOver(gain, F) = rate[to] * Converted
    <2> HIDE DEF gain, rate, plan, F, to
    <2> QED
        BY <1>1, <1>8, SumScale
<1>10. /\ IntegerOn(miss, F) /\ SumOver(miss, F) = SumOver(gain, F) + SumOver(d, F)
    <2>1. IntegerOn(miss, F) /\ \A c \in F : miss[c] = gain[c] + d[c]
        <3> HIDE DEF gain
        <3> QED
            BY <1>8 DEF IntegerOn
    <2> HIDE DEF gain, miss, F
    <2> QED
        BY <1>1, <1>8, <2>1, SumPlus
<1>11. SumOver(d, Currencies) = SumOver(miss, F) /\ SumOver(miss, F) \in Int
    <2>1. SumOver(gain, F) \in Int /\ SumOver(d, F) \in Int /\ SumOver(miss, F) \in Int
        <3> HIDE DEF gain, miss, F
        <3> QED
            BY <1>1, <1>8, <1>10, SumIsInteger
    <2> HIDE DEF gain, miss, F, to, rate
    <2> QED
        BY <2>1, <1>6, <1>7, <1>9, <1>10
<1>12. ASSUME NEW c \in F
       PROVE  /\ miss[c] \in Int /\ part[c] \in Int /\ bnd[c] \in Int
              /\ part[c] <= bnd[c] /\ -bnd[c] <= part[c]
    <2>1. miss[c] = rate[to] * plan[c] - rate[c] * avail[c]
        <3>1. rate[to] * plan[c] \in Int /\ rate[c] * avail[c] \in Int
            <4>1. rate[to] \in Nat /\ plan[c] \in Nat /\ rate[c] \in Nat /\ avail[c] \in Nat
                BY <1>1
            <4> HIDE DEF rate, plan, to
            <4> QED
                BY <4>1
        <3>2. gain[c] = rate[to] * plan[c] /\ d[c] = -(rate[c] * avail[c])
            BY <1>6
        <3>3. miss[c] = gain[c] + d[c]
            OBVIOUS
        <3> HIDE DEF miss, gain, rate, plan, to
        <3> QED
            BY <3>1, <3>2, <3>3
    <2>2. plan[c] = convertMinor(avail[c], crossRate(c, to))
        BY DEF planFxConversion
    <2>3. /\ 2 * Precision * (rate[to] * plan[c] - rate[c] * avail[c]) <= RoundingOf(avail[c], to)
          /\ -RoundingOf(avail[c], to) <= 2 * Precision * (rate[to] * plan[c] - rate[c] * avail[c])
        <3>1. c \in Currencies /\ to \in Currencies /\ avail[c] \in Nat
            BY <1>1
        <3> QED
            BY <2>2, <3>1, ConversionError
    <2>4. miss[c] \in Int
        BY <1>10 DEF IntegerOn
    <2>5. bnd[c] = RoundingOf(avail[c], to) /\ part[c] = 2 * Precision * miss[c]
        OBVIOUS
    <2>6. RoundingOf(avail[c], to) \in Int
        BY <1>1 DEF RoundingOf
    <2>7. 2 * Precision * miss[c] \in Int
        <3> HIDE DEF miss
        <3> QED
            BY <2>4, <1>1
    <2> HIDE DEF miss, part, bnd, rate, plan, to
    <2> QED
        BY <2>1, <2>3, <2>4, <2>5, <2>6, <2>7
<1>13. /\ SumOver(part, F) = 2 * Precision * SumOver(miss, F)
       /\ SumOver(part, F) <= SumOver(bnd, F) /\ -SumOver(bnd, F) <= SumOver(part, F)
       /\ SumOver(bnd, F) \in Int
    <2>1. /\ IntegerOn(part, F) /\ IntegerOn(bnd, F) /\ IntegerOn(neg, F)
          /\ AtMost(part, bnd, F) /\ AtMost(neg, part, F) /\ \A c \in F : neg[c] = -bnd[c]
        <3> HIDE DEF part, bnd
        <3> QED
            BY <1>12 DEF IntegerOn, AtMost
    <2>2. Multiple(part, 2 * Precision, miss, F) /\ 2 * Precision \in Int
        <3> HIDE DEF miss
        <3> QED
            BY <1>1 DEF Multiple
    <2> HIDE DEF part, bnd, neg, miss, F
    <2>3. SumOver(part, F) = 2 * Precision * SumOver(miss, F)
        BY <1>1, <1>10, <2>2, SumScale
    <2>4. SumOver(part, F) <= SumOver(bnd, F) /\ SumOver(neg, F) <= SumOver(part, F)
        BY <1>1, <2>1, SumMonotone
    <2>5. SumOver(neg, F) = -SumOver(bnd, F) /\ SumOver(bnd, F) \in Int
        BY <1>1, <2>1, SumNegated, SumIsInteger
    <2> QED
        BY <2>3, <2>4, <2>5
<1>14. SumFunction(bnd) = SumOver(bnd, F)
    BY DEF SumFunction, SumOver
<1>15. Worth(new) - Worth(avail) = SumOver(miss, F)
    <2> HIDE DEF miss, F
    <2> QED
        BY <1>2, <1>5, <1>11
<1> HIDE DEF miss, part
<1> QED
    BY <1>11, <1>13, <1>14, <1>15

\* createPayout: the draft takes what is payable after the sweep.
LEMMA CreatePayoutKeeps ==
    ASSUME FxInvariant, NEW p \in Drafts, NEW rest \in Leftovers, CreatePayout(p, rest)
    PROVE  /\ FxInvariant'
           /\ Due(draft', settlementCurrency) <= avail'[settlementCurrency]
<1> DEFINE to   == settlementCurrency
           more == SumFunction([c \in Foreign |-> RoundingOf(avail[c], to)])
           free == credits[to] + Converted
           new  == [currency |-> to, cents |-> payable, held |-> credits[to] + Converted - rest]
<1>1. /\ draft[p].cents = 0 /\ payable > 0 /\ rest <= debits[to]
      /\ avail' = [c \in Currencies |-> IF c = to THEN avail[c] + Converted
                                        ELSE IF c \in Foreign THEN 0 ELSE avail[c]]
      /\ debits' = [c \in Currencies |-> debits[c] + IF c \in Foreign THEN avail[c] ELSE 0]
      /\ draft' = [draft EXCEPT ![p] = new]
      /\ credits' = [credits EXCEPT ![to] = rest]
      /\ fx' = [fx EXCEPT !.rounding = @ + more]
      /\ UNCHANGED <<settlementCurrency, paid>>
    <2>1. /\ draft[p].cents = 0 /\ payable > 0 /\ rest <= debits[to]
          /\ avail' = [c \in Currencies |-> IF c = to THEN avail[c] + Converted
                                            ELSE IF c \in Foreign THEN 0 ELSE avail[c]]
          /\ debits' = [c \in Currencies |->
                           debits[c] + IF c \in Foreign THEN avail[c] ELSE 0]
        BY DEF CreatePayout
    <2>2. draft' = [draft EXCEPT ![p] = new]
        BY DEF CreatePayout
    <2>3. /\ credits' = [credits EXCEPT ![to] = rest]
          /\ UNCHANGED <<settlementCurrency, paid>>
        BY DEF CreatePayout
    <2>4. fx' = [fx EXCEPT !.rounding = @ + more]
        BY DEF CreatePayout
    <2> QED
        BY <2>1, <2>2, <2>3, <2>4
<1>2. FxTypes /\ PayoutsCovered /\ LossBounded
    BY DEF FxInvariant
<1>3. /\ to \in Currencies /\ to \notin Foreign /\ Foreign \subseteq Currencies /\ Converted \in Nat
      /\ debits[to] \in Nat /\ credits[to] \in Nat /\ rest \in Nat
      /\ \A c \in Foreign : avail[c] \in Nat
    BY <1>2, PlanFacts, FxAssumption DEF FxTypes, Foreign
<1>4. /\ payable = free - debits[to] /\ free \in Nat /\ payable \in Nat /\ free - rest \in Nat
      /\ payable <= free - rest
    <2>1. payable = free - debits[to]
        BY <1>3 DEF payable
    <2> QED
        BY <1>1, <1>3, <2>1
<1>5. new \in PayoutRecords /\ new.currency = to /\ new.cents = payable /\ new.held = free - rest
    <2>1. credits[to] + Converted - rest = free - rest
        BY <1>3
    <2> QED
        BY <1>3, <1>4, <2>1 DEF PayoutRecords
<1> HIDE DEF more, free, new
<1>6. avail' \in [Currencies -> Int] /\ debits' \in [Currencies -> Nat]
    <2>1. ASSUME NEW c \in Currencies PROVE avail[c] \in Int /\ debits[c] \in Nat
        BY <1>2 DEF FxTypes
    <2> QED
        BY <1>1, <1>3, <2>1
<1>7. /\ Worth(avail') - Worth(avail) \in Int /\ more \in Int
      /\ 2 * Precision * (Worth(avail') - Worth(avail)) <= more
      /\ -more <= 2 * Precision * (Worth(avail') - Worth(avail))
    <2>1. \A c \in Currencies : avail'[c] =
              IF c = settlementCurrency THEN avail[c] + Converted
              ELSE IF c \in Foreign THEN 0 ELSE avail[c]
        BY <1>1
    <2> QED
        BY <1>2, <1>6, <2>1, SweepError DEF more
<1>8. /\ fx' \in [deposits : Nat, taken : Nat, switches : Nat, worth : Int, rounding : Int]
      /\ fx'.worth = fx.worth /\ fx'.rounding = fx.rounding + more
    <2>1. fx.rounding + more \in Int
        BY <1>2, <1>7 DEF FxTypes
    <2> QED
        BY <1>1, <1>2, <2>1 DEF FxTypes
<1>9. /\ draft \in [Drafts -> PayoutRecords] /\ draft' \in [Drafts -> PayoutRecords]
      /\ \A q \in Drafts : draft[q].cents <= draft[q].held
      /\ \A q \in Drafts : draft'[q].cents <= draft'[q].held
      /\ draft[p].held \in Nat
    <2>1. draft \in [Drafts -> PayoutRecords] /\ \A q \in Drafts : draft[q].cents <= draft[q].held
        BY <1>2 DEF FxTypes, PayoutsCovered
    <2>2. ASSUME NEW q \in Drafts PROVE draft'[q].cents <= draft'[q].held
        <3>1. CASE q = p
            BY <1>1, <1>4, <1>5, <2>1, <3>1
        <3>2. CASE q # p
            BY <1>1, <2>1, <3>2
        <3> QED
            BY <3>1, <3>2
    <2>3. draft[p].held \in Nat
        BY <2>1 DEF PayoutRecords
    <2> QED
        BY <1>1, <1>5, <2>1, <2>2, <2>3
<1>10. FxTypes'
    BY <1>1, <1>2, <1>3, <1>6, <1>8, <1>9 DEF FxTypes
<1>11. ASSUME NEW x \in Currencies
       PROVE  /\ Held(draft', x) <= Held(draft, x) + (IF x = to THEN free - rest ELSE 0)
              /\ Due(draft', x) = Due(draft, x) + (IF x = to THEN payable ELSE 0)
              /\ Held(draft, x) \in Int /\ Held(draft', x) \in Int
              /\ Due(draft, x) <= Held(draft, x) /\ Due(draft, x) \in Int
    <2>1. /\ Held(draft', x) = Held(draft, x) + HeldBy(new, x) - HeldBy(draft[p], x)
          /\ Due(draft', x) = Due(draft, x) + DueTo(new, x) - DueTo(draft[p], x)
        <3>1. /\ draft \in [Drafts -> PayoutRecords] /\ new \in PayoutRecords
              /\ draft' = [draft EXCEPT ![p] = new]
            BY <1>1, <1>5, <1>9
        <3> QED
            BY <3>1, PayoutChanges, Zenon
    <2>3. /\ HeldBy(new, x) = (IF x = to THEN free - rest ELSE 0) /\ HeldBy(draft[p], x) \in Nat
          /\ DueTo(new, x) = (IF x = to THEN payable ELSE 0) /\ DueTo(draft[p], x) = 0
        BY <1>1, <1>5, <1>9 DEF HeldBy, DueTo
    <2>2. /\ Due(draft, x) <= Held(draft, x) /\ Due(draft, x) \in Int /\ Held(draft, x) \in Int
          /\ Held(draft', x) \in Int
        BY <1>9, DueIsHeld
    <2> QED
        BY <1>4, <2>1, <2>2, <2>3
<1>12. ASSUME NEW x \in Currencies
       PROVE  /\ credits[x] + Held(draft, x) <= avail[x] + debits[x]
              /\ credits[x] \in Nat /\ debits[x] \in Nat /\ avail[x] \in Int
    BY <1>2 DEF FxTypes, PayoutsCovered
<1>13. PayoutsCovered'
    <2>1. ASSUME NEW x \in Currencies
          PROVE  credits'[x] + Held(draft', x) <= avail'[x] + debits'[x]
        <3>1. CASE x = to
            <4>1. credits'[x] = rest /\ avail'[x] = avail[x] + Converted /\ debits'[x] = debits[x] + 0
                BY <1>1, <1>2, <1>3, <3>1 DEF FxTypes
            <4>2. free = credits[x] + Converted
                BY <3>1 DEF free
            <4> QED
                BY <1>3, <1>4, <1>11, <1>12, <3>1, <4>1, <4>2
        <3>2. CASE x # to /\ x \in Foreign
            <4>1. credits'[x] = credits[x] /\ avail'[x] = 0 /\ debits'[x] = debits[x] + avail[x]
                BY <1>1, <1>2, <3>2 DEF FxTypes
            <4> QED
                BY <1>11, <1>12, <3>2, <4>1
        <3>3. CASE x # to /\ x \notin Foreign
            <4>1. credits'[x] = credits[x] /\ avail'[x] = avail[x] /\ debits'[x] = debits[x] + 0
                BY <1>1, <1>2, <3>3 DEF FxTypes
            <4> QED
                BY <1>11, <1>12, <3>3, <4>1
        <3> QED
            BY <3>1, <3>2, <3>3
    <2> QED
        BY <1>9, <2>1 DEF PayoutsCovered
<1>14. Due(draft', to) <= avail'[to]
    <2>1. Due(draft', to) = Due(draft, to) + payable /\ avail'[to] = avail[to] + Converted
        BY <1>1, <1>3, <1>11
    <2>2. free = credits[to] + Converted
        BY DEF free
    <2> QED
        BY <1>3, <1>4, <1>11, <1>12, <2>1, <2>2
<1>15. LossBounded'
    <2> DEFINE e == Worth(avail') - Worth(avail)
    <2>1. /\ Worth(avail) \in Int /\ Worth(avail') \in Int /\ Worth(paid) \in Int
          /\ fx.worth \in Int /\ fx.rounding \in Int
        <3>1. avail \in [Currencies -> Int] /\ paid \in [Currencies -> Int]
            BY <1>2 DEF FxTypes
        <3> QED
            BY <1>2, <1>6, <3>1, WorthIsSum DEF FxTypes
    <2>2. Lost \in Int /\ Lost' = Lost - e /\ e \in Int
        BY <1>1, <1>8, <2>1 DEF Lost
    <2> HIDE DEF e
    <2>3. 2 * Precision * e <= more /\ -more <= 2 * Precision * e
        BY <1>7 DEF e
    <2> QED
        BY <1>2, <1>7, <1>8, <2>1, <2>2, <2>3, LossStays
<1> QED
    BY <1>10, <1>13, <1>14, <1>15 DEF FxInvariant

\* Only createPayout opens a payout, in the settlement currency.
LEMMA NewPayoutFits ==
    ASSUME FxInvariant, FxNext, NEW p \in Drafts, NEW c \in Currencies,
           draft[p].cents = 0, draft'[p].cents > 0, draft'[p].currency = c
    PROVE  Promised(c)' <= avail'[c]
<1>1. draft \in [Drafts -> PayoutRecords]
    BY DEF FxInvariant, FxTypes
<1>2. PICK q \in Drafts, rest \in Leftovers : CreatePayout(q, rest)
    <2>1. draft' # draft
        OBVIOUS
    <2>2. ASSUME NEW q \in Drafts, draft' = [draft EXCEPT ![q] = NoPayout] PROVE FALSE
        <3>1. CASE q = p
            BY <1>1, <2>2, <3>1 DEF NoPayout
        <3>2. CASE q # p
            BY <1>1, <2>2, <3>2
        <3> QED
            BY <3>1, <3>2
    <2>3. ~ \E x \in Currencies : \/ \E n \in Deposits : Deposit(x, n)
                                  \/ \E n \in TakenBack : TakeBack(x, n)
                                  \/ ChangeSettlement(x)
        BY <2>1 DEF Deposit, TakeBack, ChangeSettlement
    <2>4. ~ \E q \in Drafts : PayPayout(q) \/ ReleasePayout(q)
        BY <2>2 DEF PayPayout, ReleasePayout
    <2> QED
        BY <2>3, <2>4 DEF FxNext
<1>3. q = p
    <2>1. \E r : draft' = [draft EXCEPT ![q] = r]
        BY <1>2 DEF CreatePayout
    <2> QED
        BY <1>1, <2>1
<1>4. draft'[p].currency = settlementCurrency
    BY <1>1, <1>2, <1>3 DEF CreatePayout
<1>5. Promised(c)' = Due(draft', c)
    BY DEF Promised, Due, DueOf, DueTo, SumFunction, SumOver
<1> QED
    BY <1>2, <1>4, <1>5, CreatePayoutKeeps

(***************************************************************************)
(* lib/fx-settlement-db.ts, lib/payout-db.ts: for every set of currencies, *)
(* precision of the rate, deposits, refunds and clawbacks, number of open  *)
(* payouts and of sweeps to and fro, a new payout leaves AVAILABLE enough  *)
(* for every open payout of its currency, and the worth of what is held    *)
(* and paid is what came in but for the rounding of each conversion.       *)
(***************************************************************************)
THEOREM SweepsKeepTheMoney == FxSpec => SweepKeepsMoney
<1> DEFINE Bounded == 2 * Precision * (IF Lost < 0 THEN -Lost ELSE Lost) <= fx.rounding
           Fits == \A p \in Drafts, c \in Currencies :
                      draft[p].cents = 0 /\ draft'[p].cents > 0 /\ draft'[p].currency = c
                      => Promised(c)' <= avail'[c]
<1>1. FxInvariant /\ [FxNext]_fxVars => FxInvariant'
    <2> SUFFICES ASSUME FxInvariant, [FxNext]_fxVars PROVE FxInvariant'
        OBVIOUS
    <2>1. CASE UNCHANGED fxVars
        BY <2>1 DEF fxVars, FxInvariant, FxTypes, PayoutsCovered, LossBounded, Lost
    <2> QED
        BY <2>1, DepositKeeps, TakeBackKeeps, SwitchKeeps, PayKeeps, ReleaseKeeps,
           CreatePayoutKeeps DEF FxNext
<1>2. FxInvariant /\ [FxNext]_fxVars => [Fits]_fxVars
    BY NewPayoutFits
<1>3. FxInvariant => Bounded
    BY FxInvariantSuffices
<1>4. SweepKeepsMoney <=> [][Fits]_fxVars /\ []Bounded
    BY DEF SweepKeepsMoney
<1> HIDE DEF Fits, Bounded
<1> QED
    BY <1>1, <1>2, <1>3, <1>4, FxStart, PTL DEF FxSpec
=============================================================================
