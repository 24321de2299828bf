----------------------------- MODULE MCGateway -----------------------------
(***************************************************************************)
(* The gateway's render, incidents, samples and admission events and the   *)
(* webhook's decision in small.  A behaviour is one of one component:      *)
(* `part' says which, and the others stay as they are at the start.        *)
(***************************************************************************)
EXTENDS PolicyRender, LinkIncidents, PlatformSamples, AdmissionStore, WebhookDecision

VARIABLE part

\* PolicyRender: p1 audits and p2 enforces by default.
MCPolicyModes == [p \in RPolicies |-> IF p = "p1" THEN "audit" ELSE "enforce"]

RefTo(p, mode) == [name |-> p, mode |-> mode]

GroupWith(byName, selector, mode, exclude, on) ==
  [byName |-> byName, selector |-> selector, selectorMode |-> mode, exclude |-> exclude, enabled |-> on]

MCResolveInputs ==
  {GroupWith(<<>>, "valid", "audit", {}, TRUE),
   GroupWith(<<RefTo("p1", "enforce"), RefTo("p1", "")>>, "none", "", {}, TRUE),
   GroupWith(<<RefTo("p2", "audit")>>, "valid", "", {"p1"}, TRUE),
   GroupWith(<<RefTo("p1", "")>>, "malformed", "", {}, TRUE),
   GroupWith(<<RefTo("p1", "")>>, "valid", "", {}, FALSE)}

MCDistInputs ==
  {[byName |-> b, selector |-> s, groups |-> gs, override |-> o] :
     b \in BOOLEAN, s \in {"none", "malformed"}, gs \in {{"g1"}, {"g1", "g2"}}, o \in {"", "audit"}}
  \cup {[byName |-> FALSE, selector |-> "matches", groups |-> {"g2"}, override |-> "enforce"]}

\* AdmissionStore: rules with a blank, an excluded verdict, two rules, and one that is refused.
RuleOf(mode, verdicts, gvks, namespaces) ==
  [mode |-> mode, verdicts |-> verdicts, clusters |-> {}, gvks |-> gvks, namespaces |-> namespaces]

MCRuleInputs ==
  {<<RuleOf("", {}, {}, {" default"})>>, <<RuleOf("exclude", {"deny"}, {<<"pods">>}, {})>>,
   <<RuleOf("include", {"audit"}, {}, {}), RuleOf("exclude", {}, {<<"apps", "deploy">>}, {})>>,
   <<RuleOf("include", {"x"}, {}, {})>>}

EventOf(id, verdict, group, resource, namespace) ==
  [id |-> id, verdict |-> verdict, cluster |-> "c", group |-> group, resource |-> resource,
   namespace |-> namespace, occurred |-> 1]

MCEventInputs == {EventOf("e1", "deny", "", "pods", "default"), EventOf("e2", "audit", "apps", "deploy", "kube")}

MCTrimmed == [v \in {"default", " default", "audit", "deny", "c", "kube"} |->
                IF v = " default" THEN "default" ELSE v]

\* WebhookDecision: a policy for all operations, one for CREATE, and one that does not compile.
PolicyWith(compiles, operations, resources, refs) ==
  [ready |-> TRUE, compiles |-> compiles, match |-> [operations |-> operations, resources |-> resources],
   referencedBy |-> refs]

MCPolicyInputs ==
  {PolicyWith(TRUE, {"*"}, TRUE, {"g1"}), PolicyWith(TRUE, {"CREATE"}, TRUE, {}),
   PolicyWith(FALSE, {"*"}, FALSE, {})}

GroupOf(selector, on, mode) ==
  [selector |-> selector, enabled |-> on, members |-> [p \in WPolicies |-> mode]]

MCGroupObjInputs ==
  {GroupOf("none", TRUE, "audit"), GroupOf("labelled", TRUE, "enforce"), GroupOf("none", FALSE, "enforce"),
   GroupOf("malformed", TRUE, "enforce")}

ExceptionFor(active, namespaces, nsSelector, resourceSelector, all, policyRefs, groupRefs) ==
  [active |-> active, namespaces |-> namespaces, nsSelector |-> nsSelector,
   resourceSelector |-> resourceSelector, allPolicies |-> all, policyRefs |-> policyRefs,
   policyGroupRefs |-> groupRefs]

MCExceptionInputs ==
  {ExceptionFor(TRUE, WNamespaces, "none", "labelled", FALSE, {}, {"g1"}),
   ExceptionFor(TRUE, {}, "unlabelled", "none", FALSE, WPolicies, {}),
   ExceptionFor(TRUE, WNamespaces, "malformed", "none", FALSE, WPolicies, {}),
   ExceptionFor(FALSE, {}, "none", "none", TRUE, {}, {})}

-----------------------------------------------------------------------------
\* A component that is not part of the behaviour has one initial state.
RenderIdle ==
  /\ present = [p \in RPolicies |-> "absent"]
  /\ groupOf = [g \in RGroups |-> Missing]
  /\ distOf = [d \in RDists |-> CHOOSE s \in DistInputs : TRUE]

MCInit ==
  /\ part \in {"render", "incidents", "samples", "events", "webhook"}
  /\ IF part = "render" THEN TRUE ELSE RenderIdle
  /\ RenderInit /\ IncidentInit /\ PlatformInit /\ StoreInit /\ WebhookInit

MCNext ==
  \/ part = "render" /\ RenderNext
     /\ UNCHANGED <<incidentVars, platformVars, storeVars, decisionVars, part>>
  \/ part = "incidents" /\ IncidentNext
     /\ UNCHANGED <<renderVars, platformVars, storeVars, decisionVars, part>>
  \/ part = "samples" /\ PlatformNext
     /\ UNCHANGED <<renderVars, incidentVars, storeVars, decisionVars, part>>
  \/ part = "events" /\ StoreNext
     /\ UNCHANGED <<renderVars, incidentVars, platformVars, decisionVars, part>>
  \/ part = "webhook" /\ WebhookNext
     /\ UNCHANGED <<renderVars, incidentVars, platformVars, storeVars, part>>

gatewayVars == <<renderVars, incidentVars, platformVars, storeVars, decisionVars, part>>

MCSpec == MCInit /\ [][MCNext]_gatewayVars

-----------------------------------------------------------------------------
(* Type invariant of every one of these: rows, queues, caches, incidents   *)
(* and samples stay within what the code's types allow.                    *)
GatewayTypesOK ==
  CASE part = "render" -> RenderTypeOK
    [] part = "incidents" -> IncidentTypeOK
    [] part = "samples" -> PlatformTypeOK
    [] part = "events" -> StoreTypeOK
    [] part = "webhook" -> WebhookTypeOK
=============================================================================
