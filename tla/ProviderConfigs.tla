-------------------------- MODULE ProviderConfigs ---------------------------
(***************************************************************************)
(* A tenant's configuration of one provider (routes/providerConfig.ts):    *)
(* credentials and a status that gates every payment, renewal and poll on  *)
(* CONNECTED.  Saving, switching and testing each read the row, decide,    *)
(* and write a status; the test calls the provider in between.             *)
(***************************************************************************)
EXTENDS Naturals

CONSTANTS
    Editors,         \* requests of the tenant's owners
    MaxSaves         \* bound: times credentials are saved

VARIABLES
    config,          \* provider_configs: status ("NONE" without a row), the row's
                     \* id, the number of saves
    editor           \* what each request is about to write

configVars == <<config, editor>>

NoEditor == [op |-> "none", id |-> 0, saw |-> "none", to |-> "none"]

Pending(e, op, to) ==
    /\ editor[e] = NoEditor
    /\ editor' = [editor EXCEPT ![e] =
          [op |-> op, id |-> config.id, saw |-> config.status, to |-> to]]
    /\ UNCHANGED config

-----------------------------------------------------------------------------
\* A save that always asks for a new test.
SaveForgetsDisabled(e) == Pending(e, "save", "MISSING")

\* POST /provider-configs reads the status: DISABLED survives the save.
SaveReads(e) ==
    Pending(e, "save", IF config.status = "DISABLED" THEN "DISABLED" ELSE "MISSING")

\* The upsert; a new row is MISSING by the column's default.
SaveWrites(e) ==
    /\ editor[e].op = "save"
    /\ config.saves < MaxSaves
    /\ config' = [status |-> IF config.status = "NONE" THEN "MISSING" ELSE editor[e].to,
                  id |-> config.id,
                  saves |-> config.saves + 1]
    /\ editor' = [editor EXCEPT ![e] = NoEditor]

\* PATCH /provider-configs/:id/status
Enable(e) ==
    /\ config.status \notin {"NONE", "MISSING", "INVALID"}
    /\ Pending(e, "enable", "CONNECTED")

Disable(e) ==
    /\ config.status # "NONE"
    /\ Pending(e, "disable", "DISABLED")

\* POST /provider-configs/:id/test: the provider answers on what was read.
TestConnection(e, answer) ==
    /\ config.status \notin {"NONE", "DISABLED"}
    /\ Pending(e, "test", answer)

\* DELETE /provider-configs/:id
DeleteConfig ==
    /\ config.status # "NONE"
    /\ config' = [config EXCEPT !.status = "NONE", !.id = @ + 1]
    /\ UNCHANGED editor

\* The update by id; it fails on a row that is gone, or replaced by a new one.
WriteStatus(e) ==
    /\ editor[e].op \in {"enable", "disable", "test"}
    /\ config' = IF config.status = "NONE" \/ config.id # editor[e].id THEN config
                 ELSE [config EXCEPT !.status = editor[e].to]
    /\ editor' = [editor EXCEPT ![e] = NoEditor]

ConfigInit ==
    /\ config = [status |-> "NONE", id |-> 0, saves |-> 0]
    /\ editor = [e \in Editors |-> NoEditor]

ConfigNext ==
    \/ DeleteConfig
    \/ \E e \in Editors :
          \/ SaveReads(e)
          \/ SaveWrites(e)
          \/ Enable(e)
          \/ Disable(e)
          \/ TestConnection(e, "CONNECTED")
          \/ TestConnection(e, "INVALID")
          \/ WriteStatus(e)

ConfigSpec == ConfigInit /\ [][ConfigNext]_configVars

-----------------------------------------------------------------------------
\* Properties.

(***************************************************************************)
(* "Re-enabling must be an explicit action" (the comment in POST           *)
(* /provider-configs): a disabled configuration stays disabled through     *)
(* saves and tests, unless the save or the test had read the row before it *)
(* was disabled.                                                           *)
(***************************************************************************)
DisabledUntilEnabled ==
    [][config.status = "DISABLED" /\ config'.status \notin {"DISABLED", "NONE"}
          => \E e \in Editors : /\ editor'[e] # editor[e]
                                /\ \/ editor[e].op = "enable"
                                   \/ editor[e].saw # "DISABLED"]_configVars
=============================================================================
