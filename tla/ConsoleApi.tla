------------------------------ MODULE ConsoleApi ------------------------------
(***************************************************************************)
(* The console's HTTP layer, from the session middleware through the body  *)
(* decoders and the services' read, check and write to the status of the   *)
(* answer (internal/console, its dto and handler packages).                *)
(*                                                                         *)
(* One kind of resource is under test at a time, one name of it; the       *)
(* clients' requests about that name run side by side.  Request bodies are *)
(* abstracted to what the decoders tell apart in each field; what a        *)
(* service refuses because of state that other modules own (references,    *)
(* phases, versions, the last administrator) is the table entry            *)
(* `refusals' of its handler, a choice made when the service looks.        *)
(***************************************************************************)
EXTENDS Naturals, Sequences, FiniteSets

CONSTANTS Clients,        \* who sends requests, one each
          MaxRevisions    \* bound on the writes of the database

ASSUME ApiAssumption == MaxRevisions \in Nat \ {0}

VARIABLES kind,       \* the kind of resource under test
          apiRows,    \* owner -> its row of the name: id (0 none), rev (updated_at), whole
          apiCalls,   \* client -> its request
          apiClock    \* the last id or updated_at given out

apiVars == <<kind, apiRows, apiCalls, apiClock>>

-----------------------------------------------------------------------------
(* The request bodies: the fields a decoder knows, by path.                *)

Required(names) == {[path |-> <<n>>, required |-> TRUE, restricted |-> FALSE] : n \in names}
Optional(names) == {[path |-> <<n>>, required |-> FALSE, restricted |-> FALSE] : n \in names}

\* Fields of an object, or of the objects of a list, that is the value of `name'.
Within(name, fields) == {[f EXCEPT !.path = <<name>> \o @] : f \in fields}

\* Fields whose values come from an enumeration or a range that is checked on decoding.
Restricted(fields) == {[f EXCEPT !.restricted = TRUE] : f \in fields}

LabelSelectorRequirementView == Required({"key"}) \cup Restricted(Required({"operator"})) \cup Optional({"values"})

LabelSelectorView ==
  Optional({"matchLabels", "matchExpressions"}) \cup Within("matchExpressions", LabelSelectorRequirementView)

MatchResourceInput == Required({"apiGroups", "apiVersions", "resources"})

PolicyMatchInput ==
  Restricted(Required({"operations"})) \cup Required({"resources"}) \cup Within("resources", MatchResourceInput)

PolicyInput ==
  Restricted(Required({"enforcementMode"})) \cup Required({"match", "rego"})
    \cup Optional({"name", "description", "labels", "annotations", "resourceVersion"})
    \cup Within("match", PolicyMatchInput)

PolicyRollbackInput == Restricted(Required({"direction"}))
PolicyValidateRegoInput == Required({"rego"})

PolicyRefInput == Required({"name"}) \cup Restricted(Optional({"enforcementMode"}))

PolicyGroupPoliciesInput ==
  Optional({"byName", "bySelector", "exclude"})
    \cup Within("byName", PolicyRefInput) \cup Within("bySelector", LabelSelectorView)

PolicyGroupInput ==
  Required({"enabled", "policies"}) \cup Restricted(Optional({"selectorEnforcementMode"}))
    \cup Optional({"displayName", "description", "namespaceSelector", "name", "resourceVersion",
                   "allClusters", "clusterNames"})
    \cup Within("policies", PolicyGroupPoliciesInput) \cup Within("namespaceSelector", LabelSelectorView)

PolicyGroupEnabledInput == Required({"enabled"})

ExceptionMatchInput ==
  Optional({"namespaces", "namespaceSelector", "resourceSelector"})
    \cup Within("namespaceSelector", LabelSelectorView)

ExceptionInput ==
  Required({"match", "duration", "reason"})
    \cup Optional({"policyRefs", "policyGroupRefs", "allPolicies", "retainAfterExpiry", "name",
                   "resourceVersion", "allClusters", "clusterNames"})
    \cup Within("match", ExceptionMatchInput)

DistributionOverride == Required({"cluster"}) \cup Restricted(Required({"enforcementMode"}))

DistributionClusters ==
  Optional({"byName", "clusterSelector"}) \cup Within("clusterSelector", LabelSelectorView)

DecodeDistributionSpec ==
  Required({"policyGroups"}) \cup Optional({"clusters", "policyExceptions", "overrides"})
    \cup Within("clusters", DistributionClusters) \cup Within("overrides", DistributionOverride)

DistributionInput ==
  Required({"spec"}) \cup Optional({"name", "resourceVersion"}) \cup Within("spec", DecodeDistributionSpec)

ClusterImageInput == Required({"repository", "tag", "pullPolicy"})

\* The pull policies are checked by Validate, after the whole body has been decoded.
ValidateClusterInstallInput(fields) ==
  (fields \ {f \in fields : f.path[Len(f.path)] = "pullPolicy"})
    \cup Restricted({f \in fields : f.path[Len(f.path)] = "pullPolicy"})

ClusterInstallInput ==
  Required({"namespace", "webhookImage", "operatorImage", "highAvailability", "gatewayAddress"})
    \cup Optional({"gatewayTlsServerName", "gatewayCaBundle"})
    \cup Within("webhookImage", ClusterImageInput) \cup Within("operatorImage", ClusterImageInput)

ClusterCreateInput ==
  ValidateClusterInstallInput(Required({"name", "installParams"}) \cup Optional({"labels"})
                                \cup Within("installParams", ClusterInstallInput))

ClusterTokenInput ==
  ValidateClusterInstallInput(Required({"installParams"}) \cup Within("installParams", ClusterInstallInput))

ClusterLabelsInput == Required({"labels"})

AdmissionStoragePolicyView ==
  Restricted(Required({"verdicts", "matchMode"})) \cup Required({"clusters", "gvks", "namespaces"})

AdmissionSettingsInput ==
  Restricted(Required({"defaultRetentionDays"})
               \cup Optional({"maxRetryAttempts", "queueCapacity", "incidentRetentionDays"}))
    \cup Optional({"retryEnabled", "observationEnabled", "storagePolicies"})
    \cup Within("storagePolicies", AdmissionStoragePolicyView)

PlatformSettingsInput == Required({"enabled"}) \cup Restricted(Required({"retentionDays"}))

\* What the identity service insists on; the decoder of these bodies does not.
IdentityInput == Restricted(Required({"name", "role", "status", "password"}))

-----------------------------------------------------------------------------
(* Decoding.  A document gives each field one of five values: sent as it   *)
(* should be, left out, null, of another type, or outside its enumeration  *)
(* or range.  Fields of an object that is not there are not looked at.     *)

FieldValues == {"ok", "absent", "null", "typed", "beyond"}

Reached(fields, doc, f) ==
  \A g \in fields :
    (Len(g.path) < Len(f.path) /\ SubSeq(f.path, 1, Len(g.path)) = g.path) => doc[g.path] = "ok"

Complete(fields) == [p \in {f.path : f \in fields} |-> "ok"]

Minimal(fields) ==
  [p \in {f.path : f \in fields} |-> IF \E f \in fields : f.path = p /\ f.required THEN "ok" ELSE "absent"]

\* The documents tried: every field or only the required ones, and at most one field wrong.
Documents(fields) ==
  {Complete(fields), Minimal(fields)}
    \cup {[d EXCEPT ![f.path] = v] : d \in {Complete(fields), Minimal(fields)}, f \in fields, v \in FieldValues}

\* Mutant: a null value leaves the field at its zero value.
DecodeOrZero(v) == v # "typed"

DecodeNonNullJSON(v) == v \notin {"null", "typed"}

Whole(fields, doc) ==
  \A f \in fields : Reached(fields, doc, f) =>
    \/ doc[f.path] = "ok"
    \/ doc[f.path] = "absent" /\ ~f.required
    \/ doc[f.path] = "beyond" /\ ~f.restricted

DecodeJSON(fields, doc) ==
  \A f \in fields : Reached(fields, doc, f) =>
    /\ doc[f.path] # "absent" => DecodeNonNullJSON(doc[f.path])
    /\ doc[f.path] = "absent" => ~f.required
    /\ doc[f.path] = "beyond" => ~f.restricted

\* Identity bodies are plain structs: a field left out or null keeps its zero value.
DecodeAuthJSON(fields, doc) == \A f \in fields : doc[f.path] # "typed"

-----------------------------------------------------------------------------
(* From a service's error to the status.  A handler picks a response type, *)
(* and the type has its status; what a handler leaves out is 500.          *)

Status(errors, e) == IF e = "none" THEN 200 ELSE IF e \in DOMAIN errors THEN errors[e] ELSE 500

PolicyHTTPErrors ==
  [BadRequest |-> 400, Forbidden |-> 403, NotFound |-> 404, Conflict |-> 409, DeleteConflict |-> 409, Gone |-> 410]
PolicyGroupHTTPErrors == [BadRequest |-> 400, Forbidden |-> 403, NotFound |-> 404, Conflict |-> 409]
ExceptionHTTPErrors == [BadRequest |-> 400, Forbidden |-> 403, NotFound |-> 404, Conflict |-> 409]
DistributionHTTPErrors == [BadRequest |-> 400, Forbidden |-> 403, NotFound |-> 404, Conflict |-> 409]
ClusterHTTPErrors == [BadRequest |-> 400, Forbidden |-> 403, NotFound |-> 404, Conflict |-> 409]
ClusterTaskHTTPErrors == [NotFound |-> 404, Conflict |-> 409]
AdmissionEventHTTPErrors == [BadRequest |-> 400, NotFound |-> 404]
PlatformHTTPErrors == [BadRequest |-> 400, NotFound |-> 404]

Typed(types, chosen) == [e \in DOMAIN chosen |-> types[chosen[e]]]

MapCreatePolicyError ==
  Typed(PolicyHTTPErrors, [forbidden |-> "Forbidden", validation |-> "BadRequest", conflict |-> "Conflict"])
MapUpdatePolicyError ==
  Typed(PolicyHTTPErrors, [forbidden |-> "Forbidden", validation |-> "BadRequest", notfound |-> "NotFound",
                           conflict |-> "Conflict"])
MapDeletePolicyError ==
  Typed(PolicyHTTPErrors, [forbidden |-> "Forbidden", referenced |-> "DeleteConflict", notfound |-> "NotFound"])
MapRollbackPolicyError ==
  Typed(PolicyHTTPErrors, [forbidden |-> "Forbidden", validation |-> "BadRequest", notfound |-> "NotFound",
                           conflict |-> "Conflict", gone |-> "Gone"])
DistributionCreateError ==
  Typed(DistributionHTTPErrors, [forbidden |-> "Forbidden", validation |-> "BadRequest", conflict |-> "Conflict"])
DistributionUpdateError ==
  Typed(DistributionHTTPErrors, [forbidden |-> "Forbidden", validation |-> "BadRequest", notfound |-> "NotFound",
                                 conflict |-> "Conflict"])
DistributionDeleteError ==
  Typed(DistributionHTTPErrors, [forbidden |-> "Forbidden", notfound |-> "NotFound", conflict |-> "Forbidden"])
CreateClusterServiceError == Typed(ClusterHTTPErrors, [conflict |-> "Conflict", validation |-> "BadRequest"])
UpdateClusterServiceError == Typed(ClusterHTTPErrors, [notfound |-> "NotFound"])
DeleteClusterServiceError == Typed(ClusterHTTPErrors, [notfound |-> "NotFound", conflict |-> "Conflict"])
ReissueClusterServiceError == Typed(ClusterHTTPErrors, [notfound |-> "NotFound", conflict |-> "Conflict"])
CreateUninstallServiceError == Typed(ClusterTaskHTTPErrors, [notfound |-> "NotFound", conflict |-> "Conflict"])
RetryUninstallServiceError == Typed(ClusterTaskHTTPErrors, [notfound |-> "NotFound", conflict |-> "Conflict"])
WriteIdentityError ==
  [forbidden |-> 403, defaultAdmin |-> 403, notfound |-> 404, invalid |-> 400, last |-> 409, unique |-> 409]

-----------------------------------------------------------------------------
(* The handlers: the body, the errors, what may be refused, and how the    *)
(* service writes: an insert, an update under a comparison of updated_at,  *)
(* an update or a deletion by id, or nothing.                              *)

Handler(body, errors, refusals, write) ==
  [body |-> body, errors |-> errors, refusals |-> refusals, write |-> write]

HandleCreatePolicy == Handler(PolicyInput, MapCreatePolicyError, {"validation"}, "insert")
HandleUpdatePolicy == Handler(PolicyInput, MapUpdatePolicyError, {"validation", "conflict"}, "cas")
HandleDeletePolicy == Handler({}, MapDeletePolicyError, {"referenced"}, "erase")
HandleRollbackPolicy == Handler(PolicyRollbackInput, MapRollbackPolicyError, {"validation", "conflict", "gone"}, "cas")
HandleValidatePolicyRego ==
  Handler(PolicyValidateRegoInput, Typed(PolicyHTTPErrors, [validation |-> "BadRequest"]), {"validation"}, "nothing")

HandleCreatePolicyGroup ==
  Handler(PolicyGroupInput,
          Typed(PolicyGroupHTTPErrors, [forbidden |-> "Forbidden", validation |-> "BadRequest",
                                        conflict |-> "Conflict", unique |-> "Conflict"]),
          {"validation"}, "insert")
HandleUpdatePolicyGroup ==
  Handler(PolicyGroupInput,
          Typed(PolicyGroupHTTPErrors, [defaultScope |-> "Forbidden", forbidden |-> "Forbidden",
                                        notfound |-> "NotFound", conflict |-> "Conflict", validation |-> "BadRequest"]),
          {"validation", "defaultScope"}, "cas")
HandleSetPolicyGroupEnabled ==
  Handler(PolicyGroupEnabledInput,
          Typed(PolicyGroupHTTPErrors, [forbidden |-> "Forbidden", notfound |-> "NotFound", conflict |-> "Conflict"]),
          {"same"}, "cas")
HandleDeletePolicyGroup ==
  Handler({}, Typed(PolicyGroupHTTPErrors, [default |-> "Forbidden", forbidden |-> "Forbidden", notfound |-> "NotFound"]),
          {"default"}, "erase")

HandleCreateException ==
  Handler(ExceptionInput,
          Typed(ExceptionHTTPErrors, [forbidden |-> "Forbidden", validation |-> "BadRequest", conflict |-> "Conflict"]),
          {"validation"}, "insert")
HandleUpdateException ==
  Handler(ExceptionInput,
          Typed(ExceptionHTTPErrors, [forbidden |-> "Forbidden", notfound |-> "NotFound", conflict |-> "Conflict",
                                      validation |-> "BadRequest"]),
          {"validation"}, "cas")
HandleDeleteException ==
  Handler({}, Typed(ExceptionHTTPErrors, [default |-> "Forbidden", forbidden |-> "Forbidden", notfound |-> "NotFound"]),
          {"default"}, "erase")

HandleCreateDistribution == Handler(DistributionInput, DistributionCreateError, {"validation"}, "insert")
HandleUpdateDistribution == Handler(DistributionInput, DistributionUpdateError, {"validation"}, "cas")
HandleDeleteDistribution == Handler({}, DistributionDeleteError, {"conflict"}, "erase")

HandleCreateCluster == Handler(ClusterCreateInput, CreateClusterServiceError, {"validation"}, "insert")
HandleUpdateCluster == Handler(ClusterLabelsInput, UpdateClusterServiceError, {}, "byId")
HandleDeleteCluster == Handler({}, DeleteClusterServiceError, {"conflict"}, "erase")
HandleReissueClusterToken == Handler(ClusterTokenInput, ReissueClusterServiceError, {"validation", "conflict"}, "byId")
HandleCreateUninstallTask == Handler({}, CreateUninstallServiceError, {"conflict"}, "byId")
HandleRetryUninstallTask == Handler({}, RetryUninstallServiceError, {"notfound", "conflict"}, "byId")

HandleUpdateAdmissionEventSettings ==
  Handler(AdmissionSettingsInput, Typed(AdmissionEventHTTPErrors, [validation |-> "BadRequest"]), {"validation"}, "byId")
HandleUpdatePlatformSettings ==
  Handler(PlatformSettingsInput, Typed(PlatformHTTPErrors, [validation |-> "BadRequest"]), {"validation"}, "byId")

HandleCreateUser == Handler(IdentityInput, WriteIdentityError, {"forbidden", "invalid"}, "insert")
HandleSetUserStatus == Handler(IdentityInput, WriteIdentityError, {"forbidden", "last"}, "byId")
HandleResetPassword == Handler(IdentityInput, WriteIdentityError, {"forbidden", "invalid"}, "byId")
HandleRegenerateActivation == Handler({}, WriteIdentityError, {"forbidden", "invalid"}, "byId")
HandleUserAction == Handler({}, WriteIdentityError, {"forbidden"}, "byId")
HandleDeleteUser == Handler({}, WriteIdentityError, {"forbidden", "defaultAdmin", "last"}, "erase")

PolicyRoutes == [create |-> HandleCreatePolicy, update |-> HandleUpdatePolicy, delete |-> HandleDeletePolicy,
                 rollback |-> HandleRollbackPolicy, validate |-> HandleValidatePolicyRego]
PolicyGroupRoutes == [create |-> HandleCreatePolicyGroup, update |-> HandleUpdatePolicyGroup,
                      enabled |-> HandleSetPolicyGroupEnabled, delete |-> HandleDeletePolicyGroup]
ExceptionRoutes == [create |-> HandleCreateException, update |-> HandleUpdateException,
                    delete |-> HandleDeleteException]
DistributionRoutes == [create |-> HandleCreateDistribution, update |-> HandleUpdateDistribution,
                       delete |-> HandleDeleteDistribution]
ClusterRoutes == [create |-> HandleCreateCluster, update |-> HandleUpdateCluster, delete |-> HandleDeleteCluster,
                  reissue |-> HandleReissueClusterToken, uninstall |-> HandleCreateUninstallTask,
                  retry |-> HandleRetryUninstallTask]
AdmissionRoutes == [update |-> HandleUpdateAdmissionEventSettings]
PlatformRoutes == [update |-> HandleUpdatePlatformSettings]
UserRoutes == [create |-> HandleCreateUser, status |-> HandleSetUserStatus, reset |-> HandleResetPassword,
               activation |-> HandleRegenerateActivation, action |-> HandleUserAction, delete |-> HandleDeleteUser]

NewServer ==
  [policy |-> PolicyRoutes, group |-> PolicyGroupRoutes, exception |-> ExceptionRoutes,
   distribution |-> DistributionRoutes, cluster |-> ClusterRoutes, admission |-> AdmissionRoutes,
   platform |-> PlatformRoutes, user |-> UserRoutes]

Kinds == DOMAIN NewServer
Route(c) == NewServer[kind][apiCalls[c].op]

SystemAdminOnlyRoute == {"cluster", "admission", "platform"}
Settings == {"admission", "platform"}
\* Names unique among all owners; groups, exceptions and distributions have one of each owner.
UniqueNames == {"policy", "cluster", "user"} \cup Settings

\* Whether a body is taken, and whether one that is taken may be incomplete, per route.
Decoded(k, o) ==
  LET fields == NewServer[k][o].body
      decodes(d) == IF k = "user" THEN DecodeAuthJSON(fields, d) ELSE DecodeJSON(fields, d)
  IN IF fields = {} THEN {[taken |-> TRUE, whole |-> TRUE]}
     ELSE {[taken |-> decodes(d), whole |-> Whole(fields, d)] : d \in Documents(fields)}

Bodies == [k \in Kinds |-> [o \in DOMAIN NewServer[k] |-> Decoded(k, o)]]

-----------------------------------------------------------------------------
(* Principals and ownership.                                               *)

ApiOwners == {"system", "t1", "t2"}

Principals == {[role |-> "system_admin", tenant |-> "none"], [role |-> "tenant_admin", tenant |-> "t1"],
               [role |-> "tenant_admin", tenant |-> "t2"], [role |-> "viewer", tenant |-> "t1"]}

NoApiRow == [id |-> 0, rev |-> 0, whole |-> TRUE]

AuthorizeOwner(p, owner) ==
  p.role = "system_admin" \/ (p.role = "tenant_admin" /\ owner = p.tenant)

\* The row a request means: the one of the name, or the tenant's own before the system's.
ApiLookup(p) ==
  LET there == {o \in ApiOwners : apiRows[o].id > 0}
  IN IF kind \in UniqueNames THEN there
     ELSE IF p.tenant \in there THEN {p.tenant} ELSE there \cap {"system"}

ApiOwnerFor(p) == IF p.role = "tenant_admin" THEN p.tenant ELSE "system"

NoRequest == [pc |-> "idle", who |-> CHOOSE p \in Principals : p.role = "viewer", op |-> "none", seen |-> 0,
              version |-> 0, whole |-> TRUE, owner |-> "none", row |-> NoApiRow, status |-> 0,
              effect |-> "none", over |-> 0]

ApiInit ==
  /\ kind \in Kinds
  /\ apiRows \in {[o \in ApiOwners |-> IF o \in there THEN [id |-> 1, rev |-> 1, whole |-> TRUE] ELSE NoApiRow] :
                    there \in {{}, {"system"}, {"t1"}, {"system", "t1"}}}
  /\ kind \in UniqueNames => Cardinality({o \in ApiOwners : apiRows[o].id > 0}) <= 1
  /\ kind \in Settings => apiRows["system"].id > 0
  /\ apiCalls = [c \in Clients |-> NoRequest]
  /\ apiClock = 1

\* The end of a request: of what it knew, who sent what stays for the properties.
Answer(c, status) ==
  [NoRequest EXCEPT !.pc = "done", !.who = apiCalls[c].who, !.op = apiCalls[c].op, !.status = status]

Respond(c, e) == Answer(c, Status(Route(c).errors, e))

\* A client reads the resource before it changes it, and keeps resourceVersion (Get).
GetResource(c, p) ==
  /\ apiCalls[c].pc = "idle"
  /\ \E o \in ApiLookup(p) :
       apiCalls' = [apiCalls EXCEPT ![c] = [@ EXCEPT !.pc = "got", !.who = p, !.seen = apiRows[o].rev]]
  /\ UNCHANGED <<kind, apiRows, apiClock>>

\* Middleware and decoder: the session, the CSRF header, the role, the forced change of password, the body.
Receive(c, p, op, credential, body) ==
  /\ apiCalls[c].pc \in {"idle", "got"}
  /\ apiCalls[c].pc = "got" => p = apiCalls[c].who
  /\ LET r == [apiCalls[c] EXCEPT !.who = p, !.op = op, !.whole = body.whole]
         answered(s) == apiCalls' = [apiCalls EXCEPT ![c] = Answer(c, s)]
     IN \/ credential = "none" /\ answered(401)
        \/ credential = "noCsrf" /\ answered(403)
        \/ credential \in {"mustChange", "good"} /\ kind \in SystemAdminOnlyRoute
             /\ p.role # "system_admin" /\ answered(403)
        \/ credential = "mustChange" /\ (kind \in SystemAdminOnlyRoute => p.role = "system_admin") /\ answered(403)
        \/ /\ credential = "good" /\ (kind \in SystemAdminOnlyRoute => p.role = "system_admin")
           /\ IF ~body.taken THEN answered(400)
              ELSE \E v \in {0, r.seen} :
                     /\ v > 0 => NewServer[kind][op].write = "cas"
                                   /\ \E f \in NewServer[kind][op].body : f.path = <<"resourceVersion">>
                     /\ apiCalls' = [apiCalls EXCEPT ![c] = [r EXCEPT !.pc = "serving", !.version = v]]
  /\ UNCHANGED <<kind, apiRows, apiClock>>

\* The errors a service finds before it writes, given the row it looked up.
ServiceErrors(c, found) ==
  LET r == apiCalls[c]
      w == Route(c).write
  IN (IF w = "insert" /\ r.who.role = "viewer" THEN {"forbidden"} ELSE {})
       \cup (IF kind = "user" /\ r.who.role = "viewer" THEN {"forbidden"} ELSE {})
       \cup (IF kind = "user" /\ ~r.whole THEN {"invalid"} ELSE {})
       \cup (IF w \in {"cas", "byId", "erase"} /\ found = {} THEN {"notfound"} ELSE {})
       \cup (IF w \in {"cas", "byId", "erase"} /\ \E o \in found : ~AuthorizeOwner(r.who, o)
             THEN {IF kind = "user" THEN "notfound" ELSE "forbidden"} ELSE {})

SameResourceVersion(version, row) == version = 0 \/ version = row.rev

\* The service looks the row up and checks the request against it.
ServiceRead(c) ==
  LET r == apiCalls[c]
      found == ApiLookup(r.who)
      row == IF found = {} THEN NoApiRow ELSE apiRows[CHOOSE o \in found : TRUE]
      owner == IF found = {} THEN "none" ELSE CHOOSE o \in found : TRUE
      errors == ServiceErrors(c, found)
                  \cup (IF found # {} /\ ~SameResourceVersion(r.version, row) THEN {"conflict"} ELSE {})
  IN /\ r.pc = "serving"
     /\ \/ \E e \in errors \cup Route(c).refusals :
             apiCalls' = [apiCalls EXCEPT ![c] =
                            IF e = "same" THEN [Respond(c, "none") EXCEPT !.effect = "same"] ELSE Respond(c, e)]
        \/ errors = {} /\ Route(c).write = "nothing"
             /\ apiCalls' = [apiCalls EXCEPT ![c] = [Respond(c, "none") EXCEPT !.effect = "same"]]
        \/ errors = {} /\ Route(c).write # "nothing"
             /\ apiCalls' = [apiCalls EXCEPT ![c] = [r EXCEPT !.pc = "writing", !.owner = owner, !.row = row]]
     /\ UNCHANGED <<kind, apiRows, apiClock>>

\* syncScope runs after the group's row has been written and may still fail.
ScopeErrors == IF kind = "group" THEN {"validation", "unique", "other"} ELSE {}

Written(c, owner, row, e) ==
  /\ apiRows' = [apiRows EXCEPT ![owner] = row]
  /\ apiCalls' = [apiCalls EXCEPT ![c] = [Respond(c, e) EXCEPT
                     !.effect = "written", !.owner = owner, !.version = apiCalls[c].version, !.over = apiRows[owner].rev]]
  /\ apiClock' = apiClock + 1

Unwritten(c, e, effect) ==
  /\ apiCalls' = [apiCalls EXCEPT ![c] = [Respond(c, e) EXCEPT !.effect = effect]]
  /\ UNCHANGED <<apiRows, apiClock>>

ServiceInsert(c) ==
  LET r == apiCalls[c]
      owner == ApiOwnerFor(r.who)
      free == \A o \in (IF kind \in UniqueNames THEN ApiOwners ELSE {owner}) : apiRows[o].id = 0
      row == [id |-> apiClock + 1, rev |-> apiClock + 1, whole |-> r.whole]
  IN /\ r.pc = "writing" /\ Route(c).write = "insert"
     /\ \/ free /\ apiClock < MaxRevisions /\ \E e \in {"none"} \cup ScopeErrors : Written(c, owner, row, e)
        \/ ~free /\ Unwritten(c, IF kind = "user" THEN "unique" ELSE "conflict", "none")
     /\ UNCHANGED kind

ServiceUpdateCAS(c) ==
  LET r == apiCalls[c]
      current == apiRows[r.owner]
  IN /\ r.pc = "writing" /\ Route(c).write = "cas"
     /\ \/ /\ current.id = r.row.id /\ current.rev = r.row.rev /\ apiClock < MaxRevisions
           /\ \E e \in {"none"} \cup (IF r.op = "update" THEN ScopeErrors ELSE {}) :
                Written(c, r.owner, [current EXCEPT !.rev = apiClock + 1, !.whole = r.whole], e)
        \/ (current.id # r.row.id \/ current.rev # r.row.rev) /\ Unwritten(c, "conflict", "none")
     /\ UNCHANGED kind

\* What a write by id comes to when the row has gone, which for the database means marked deleted:
\* the transactions on users look for it, and nothing else notices.
WhenGone(op) == IF kind = "user" /\ op \in {"status", "reset", "delete"} THEN "notfound" ELSE "none"

\* Updates and deletions by id.
ServiceWriteById(c) ==
  LET r == apiCalls[c]
      current == apiRows[r.owner]
  IN /\ r.pc = "writing" /\ Route(c).write \in {"byId", "erase"}
     /\ \/ /\ current.id = r.row.id /\ apiClock < MaxRevisions
           /\ Written(c, r.owner, IF Route(c).write = "erase" THEN NoApiRow
                                  ELSE [current EXCEPT !.rev = apiClock + 1, !.whole = r.whole], "none")
        \/ current.id # r.row.id /\ Unwritten(c, WhenGone(r.op), "gone")
     /\ UNCHANGED kind

ApiNext ==
  \E c \in Clients :
    \/ \E p \in Principals : GetResource(c, p)
    \/ \E p \in Principals, op \in DOMAIN NewServer[kind], credential \in {"none", "noCsrf", "mustChange", "good"} :
         \E body \in Bodies[kind][op] : Receive(c, p, op, credential, body)
    \/ ServiceRead(c)
    \/ ServiceInsert(c)
    \/ ServiceUpdateCAS(c)
    \/ ServiceWriteById(c)

ApiSpec == ApiInit /\ [][ApiNext]_apiVars

-----------------------------------------------------------------------------
ApiRowValues == [id : 0..MaxRevisions, rev : 0..MaxRevisions, whole : BOOLEAN]

ApiOps == {"none", "create", "update", "delete", "rollback", "validate", "enabled", "reissue", "uninstall",
           "retry", "status", "reset", "activation", "action"}

ErrorStatuses == {400, 401, 403, 404, 409, 410, 500}

ApiRequests ==
  [pc : {"idle", "got", "serving", "writing", "done"}, who : Principals, op : ApiOps, seen : 0..MaxRevisions,
   version : 0..MaxRevisions, whole : BOOLEAN, owner : ApiOwners \cup {"none"}, row : ApiRowValues,
   status : {0, 200} \cup ErrorStatuses, effect : {"none", "same", "gone", "written"}, over : 0..MaxRevisions]

ApiTypeOK ==
  /\ kind \in Kinds
  /\ apiRows \in [ApiOwners -> ApiRowValues]
  /\ apiClock \in 1..MaxRevisions
  /\ apiCalls \in [Clients -> ApiRequests]

\* What a client is told is what happened, whatever other clients do meanwhile.  A 200 means that the
\* change was made, unless there was nothing to change; a change that came with a resourceVersion was
\* made to the row the client had read and to no later state of it (Update, UpdateCAS); any other
\* status means that nothing was written, except that a group's row stays when its scope cannot be
\* synchronised (PolicyGroupService.create, update); and no row is written for a principal that does
\* not own it, or from a body with a missing, null or undefined value.
AnswersAreTrue ==
  /\ \A o \in ApiOwners : apiRows[o].whole
  /\ \A c \in Clients :
       LET r == apiCalls[c]
       IN r.pc = "done" =>
            /\ r.status = 200 => r.effect # "none"
            /\ r.status # 200 /\ r.effect = "written" => kind = "group" /\ r.op \in {"create", "update"}
            /\ r.effect = "written" /\ r.version > 0 => r.over = r.version
            /\ r.effect = "written" => AuthorizeOwner(r.who, r.owner)

=============================================================================
