------------------------------ MODULE Versions ------------------------------
(***************************************************************************)
(* The versions of a tenant's fee schedule (lib/fees-db.ts), and in the    *)
(* same shape those of its settlement policy (lib/policy-db.ts): a new     *)
(* version is numbered after the highest one, the active ones are switched *)
(* off and the new one is inserted active, in one transaction at READ      *)
(* COMMITTED without a lock of its own.  A switched-off row stays locked   *)
(* until the commit; the model lets every other writer go on as if it were *)
(* not, which only adds interleavings.                                     *)
(***************************************************************************)
EXTENDS Integers

CONSTANTS
    Writers,         \* requests that create a version
    MaxVersions      \* bound: versions created

ASSUME VersionsAssumption == MaxVersions \in Nat

VARIABLES
    last,            \* versions 1..last exist
    active,          \* the versions with isActive
    writer           \* the open transaction of each request

versionsVars == <<last, active, writer>>

NoWriter == [pc |-> "idle", version |-> 0, off |-> {}]

-----------------------------------------------------------------------------
\* aggregate _max: the transaction reads the highest version.
ReadHighest(w) ==
    /\ writer[w].pc = "idle"
    /\ last < MaxVersions
    /\ writer' = [writer EXCEPT ![w] = [pc |-> "read", version |-> last + 1, off |-> {}]]
    /\ UNCHANGED <<last, active>>

\* An update whose filter matches no row.
SwitchOffNothing(w) ==
    /\ writer[w].pc = "read"
    /\ writer' = [writer EXCEPT ![w] = [@ EXCEPT !.pc = "off", !.off = {}]]
    /\ UNCHANGED <<last, active>>

\* updateMany: the rows that are active when the statement starts.
SwitchOff(w) ==
    /\ writer[w].pc = "read"
    /\ writer' = [writer EXCEPT ![w] = [@ EXCEPT !.pc = "off", !.off = active]]
    /\ UNCHANGED <<last, active>>

(***************************************************************************)
(* The insert and the commit.  The unique index on tenant and version      *)
(* refuses a number that was taken meanwhile and rolls everything back.    *)
(***************************************************************************)
InsertVersion(w) ==
    /\ writer[w].pc = "off"
    /\ IF writer[w].version \in 1..last
       THEN UNCHANGED <<last, active>>
       ELSE /\ last' = writer[w].version
            /\ active' = (active \ writer[w].off) \cup {writer[w].version}
    /\ writer' = [writer EXCEPT ![w] = NoWriter]

VersionsInit ==
    /\ last = 0
    /\ active = {}
    /\ writer = [w \in Writers |-> NoWriter]

VersionsNext ==
    \E w \in Writers : ReadHighest(w) \/ SwitchOff(w) \/ InsertVersion(w)

VersionsSpec == VersionsInit /\ [][VersionsNext]_versionsVars

-----------------------------------------------------------------------------
\* Properties.

(***************************************************************************)
(* However the writers interleave, the newest version and no other is      *)
(* active: what getActiveFeeSchedule finds, with a findFirst that states   *)
(* no order, is determined.                                                *)
(***************************************************************************)
NewestIsActive == active = IF last = 0 THEN {} ELSE {last}

(***************************************************************************)
(* What makes it inductive: a transaction that can still commit switched   *)
(* off exactly the version that is active now.                             *)
(***************************************************************************)
VersionsInvariant ==
    /\ last \in Nat
    /\ writer \in [Writers -> [pc : {"idle", "read", "off"},
                               version : Nat, off : SUBSET Nat]]
    /\ NewestIsActive
    /\ \A w \in Writers :
          /\ writer[w].version <= last + 1
          /\ writer[w].pc # "idle" => writer[w].version >= 1
          /\ writer[w].pc = "off" /\ writer[w].version = last + 1 => writer[w].off = active
=============================================================================
