----------------------------- MODULE MCConsole -----------------------------
(***************************************************************************)
(* The console in small: the HTTP interface, identities, the catalogue of  *)
(* policies and groups, exceptions and scopes.  A behaviour is one of one  *)
(* component: `part' says which, and the others stay as they are at the    *)
(* start.                                                                  *)
(***************************************************************************)
EXTENDS HubCatalogue, HubExceptions, TenantScopes, ConsoleApi, Identity

VARIABLE part

\* HubCatalogue: a group names the policy, selects it, or excludes what it names.
MCGroupInputs ==
  {[spec |-> s, enabled |-> TRUE] :
     s \in {[byName |-> Policies, selects |-> FALSE, exclude |-> {}],
            [byName |-> {}, selects |-> TRUE, exclude |-> {}],
            [byName |-> Policies, selects |-> FALSE, exclude |-> Policies]}}

\* TenantScopes: c1 belongs to t1, c2 to nobody.
MCInitialTenant == [c \in ScopeClusters |-> IF c = "c1" THEN "t1" ELSE "unassigned"]

-----------------------------------------------------------------------------
\* A component that is not part of the behaviour has one initial state.
CatalogueIdle ==
  /\ policies = [p \in Policies |-> NoObject]
  /\ groups = [g \in Groups |-> NoObject]

ApiIdle == kind = "policy" /\ apiRows = [o \in ApiOwners |-> NoApiRow]

MCInit ==
  /\ part \in {"catalogue", "exceptions", "scopes", "api", "identity"}
  /\ IF part = "catalogue" THEN TRUE ELSE CatalogueIdle
  /\ IF part = "api" THEN TRUE ELSE ApiIdle
  /\ HubInit /\ ExceptionInit /\ ScopeInit /\ ApiInit /\ IdentityInit

MCNext ==
  \/ part = "catalogue" /\ HubNext
     /\ UNCHANGED <<exceptionVars, scopeVars, apiVars, identityVars, part>>
  \/ part = "exceptions" /\ ExceptionNext
     /\ UNCHANGED <<hubVars, scopeVars, apiVars, identityVars, part>>
  \/ part = "scopes" /\ ScopeNext
     /\ UNCHANGED <<hubVars, exceptionVars, apiVars, identityVars, part>>
  \/ part = "api" /\ ApiNext
     /\ UNCHANGED <<hubVars, exceptionVars, scopeVars, identityVars, part>>
  \/ part = "identity" /\ IdentityNext
     /\ UNCHANGED <<hubVars, exceptionVars, scopeVars, apiVars, part>>

consoleVars == <<hubVars, exceptionVars, scopeVars, apiVars, identityVars, part>>

MCSpec == MCInit /\ [][MCNext]_consoleVars

-----------------------------------------------------------------------------
(* Type invariant of every console service: rows, requests under way,      *)
(* accounts, sessions and answers stay within what the code's types allow. *)
ConsoleTypesOK ==
  CASE part = "catalogue" -> HubTypeOK
    [] part = "exceptions" -> ExceptionTypeOK
    [] part = "scopes" -> ScopeTypeOK
    [] part = "api" -> ApiTypeOK
    [] part = "identity" -> IdentityTypeOK
=============================================================================
