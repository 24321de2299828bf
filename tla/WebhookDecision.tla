--------------------------- MODULE WebhookDecision ---------------------------
(***************************************************************************)
(* The admission webhook: informers feed its policy, exception and         *)
(* namespace caches (cmd/webhook), and the handler decides requests from   *)
(* them.  A request reads one cache after the other, each under that       *)
(* cache's lock, while the informers go on; its policies are evaluated in  *)
(* parallel.                                                               *)
(*                                                                         *)
(* A namespace either carries the label the selectors ask for or not, and  *)
(* so does an object.  Rego is an outcome per policy: nothing, a denial,   *)
(* or an error (the deadline included).                                    *)
(***************************************************************************)
EXTENDS Naturals, FiniteSets

CONSTANTS
  WPolicies,       \* names of policies
  WGroups,         \* names of groups
  WExceptions,     \* names of exceptions
  WNamespaces,     \* namespaces
  PolicyInputs,    \* policies as informers deliver them
  GroupObjInputs,  \* groups as informers deliver them
  ExceptionInputs, \* exceptions as informers deliver them
  Unknown          \* no such entry, or labels that could not be resolved

SelectorKinds == {"none", "labelled", "unlabelled", "malformed"}

Modes == {"audit", "enforce"}

Operations == {"CREATE", "DELETE"}

\* What is known of some of the policies.
ByPolicy(range) == UNION {[d -> range] : d \in SUBSET WPolicies}

PolicyObjs ==
  [ready: BOOLEAN, compiles: BOOLEAN, referencedBy: SUBSET WGroups,
   match: [operations: SUBSET (Operations \cup {"*"}), resources: BOOLEAN]]

GroupObjs == [selector: SelectorKinds, enabled: BOOLEAN, members: ByPolicy(Modes)]

ExceptionObjs ==
  [active: BOOLEAN, namespaces: SUBSET WNamespaces, nsSelector: SelectorKinds, resourceSelector: SelectorKinds,
   allPolicies: BOOLEAN, policyRefs: SUBSET WPolicies, policyGroupRefs: SUBSET WGroups]

\* The index of all namespaces has a map of its own in the code.
ASSUME WebhookAssumption ==
  /\ PolicyInputs \subseteq PolicyObjs /\ GroupObjInputs \subseteq GroupObjs /\ ExceptionInputs \subseteq ExceptionObjs
  /\ "global" \notin WNamespaces
  /\ Unknown \notin WNamespaces /\ Unknown \notin BOOLEAN /\ Unknown \notin ExceptionObjs

VARIABLES
  polCache,   \* polCache[p]: the compiled policy, or Unknown
  grpCache,   \* grpCache[g]: the compiled group, or Unknown
  exAll,      \* exAll[x]: the entry of exception x, or Unknown
  exIndex,    \* exIndex[n]: entries of namespace n; exIndex["global"]: of all
  nsLabel,    \* nsLabel[n]: the namespace in the API server has the label
  nsStore,    \* nsStore[n]: the namespace cache, or Unknown
  ready,      \* the caches have been filled
  rq          \* the request being decided

decisionVars == <<polCache, grpCache, exAll, exIndex, nsLabel, nsStore, ready, rq>>

NoReview == [at |-> "none"]

Outcomes == {"none", "deny", "error"}

\* A request being decided: what it asks, what was read for it, and what came of it.
Reviews ==
  [at: {"labels", "fetched", "match", "exempt", "evaluate", "done"},
   ns: WNamespaces \cup {Unknown}, op: Operations, labelled: BOOLEAN, nsLabels: {TRUE, FALSE, Unknown},
   resolved: ByPolicy(Modes), refs: ByPolicy(SUBSET WGroups), must: SUBSET WPolicies,
   skipped: SUBSET WPolicies, covered: SUBSET WPolicies, outcome: ByPolicy(Outcomes), allowed: BOOLEAN]

WebhookTypeOK ==
  /\ polCache \in [WPolicies -> PolicyInputs \cup {Unknown}]
  /\ grpCache \in [WGroups -> GroupObjInputs \cup {Unknown}]
  /\ exAll \in [WExceptions -> ExceptionObjs \cup {Unknown}]
  /\ exIndex \in [WNamespaces \cup {"global"} -> SUBSET [name: WExceptions, entry: ExceptionObjs]]
  /\ nsLabel \in [WNamespaces -> BOOLEAN]
  /\ nsStore \in [WNamespaces -> {TRUE, FALSE, Unknown}]
  /\ ready \in BOOLEAN
  /\ rq \in Reviews \cup {NoReview}
  /\ rq # NoReview /\ rq.at \in {"labels", "fetched"} => rq.ns # Unknown

WebhookInit ==
  /\ polCache = [p \in WPolicies |-> Unknown]
  /\ grpCache = [g \in WGroups |-> Unknown]
  /\ exAll = [x \in WExceptions |-> Unknown]
  /\ exIndex = [n \in WNamespaces \cup {"global"} |-> {}]
  /\ nsLabel = [n \in WNamespaces |-> TRUE]
  /\ nsStore = [n \in WNamespaces |-> Unknown]
  /\ ready = FALSE
  /\ rq = NoReview

-----------------------------------------------------------------------------
(***************************************************************************)
(* Informer events                                                         *)
(***************************************************************************)
\* Only Ready policies that compile take part.
SyncPolicy(p, o) ==
  /\ polCache' = [polCache EXCEPT ![p] = IF o.ready /\ o.compiles THEN o ELSE Unknown]
  /\ UNCHANGED <<grpCache, exAll, exIndex, nsLabel, nsStore, ready, rq>>

\* CompileGroup fails for a malformed selector.
SyncGroup(g, o) ==
  /\ grpCache' = [grpCache EXCEPT ![g] = IF o.selector = "malformed" THEN Unknown ELSE o]
  /\ UNCHANGED <<polCache, exAll, exIndex, nsLabel, nsStore, ready, rq>>

Indexes(e) == IF e.namespaces = {} THEN {"global"} ELSE e.namespaces

\* Mutant: the indexes keep what the exception was before.
RemovedNot(x) == exIndex

\* removeUnlocked
Removed(x) ==
  IF exAll[x] = Unknown THEN exIndex
  ELSE [n \in DOMAIN exIndex |->
          IF n \in Indexes(exAll[x]) THEN exIndex[n] \ {[name |-> x, entry |-> exAll[x]]}
                                     ELSE exIndex[n]]

ExceptionDeleted(x) ==
  /\ exAll' = [exAll EXCEPT ![x] = Unknown]
  /\ exIndex' = Removed(x)

\* compile: a selector that does not parse is left out.
Compile(o) ==
  LET parsed(selector) == IF selector = "malformed" THEN "none" ELSE selector
  IN [o EXCEPT !.nsSelector = parsed(@), !.resourceSelector = parsed(@)]

ExceptionUpserted(x, e) ==
  /\ exAll' = [exAll EXCEPT ![x] = e]
  /\ exIndex' = [n \in DOMAIN exIndex |->
       IF n \in Indexes(e) THEN Removed(x)[n] \cup {[name |-> x, entry |-> e]} ELSE Removed(x)[n]]

SyncException(x, o) ==
  /\ IF o.active THEN ExceptionUpserted(x, Compile(o)) ELSE ExceptionDeleted(x)
  /\ UNCHANGED <<polCache, grpCache, nsLabel, nsStore, ready, rq>>

ForgetException(x) ==
  /\ ExceptionDeleted(x)
  /\ UNCHANGED <<polCache, grpCache, nsLabel, nsStore, ready, rq>>

ForgetPolicy(p) ==
  /\ polCache' = [polCache EXCEPT ![p] = Unknown]
  /\ UNCHANGED <<grpCache, exAll, exIndex, nsLabel, nsStore, ready, rq>>

ForgetGroup(g) ==
  /\ grpCache' = [grpCache EXCEPT ![g] = Unknown]
  /\ UNCHANGED <<polCache, exAll, exIndex, nsLabel, nsStore, ready, rq>>

Relabel(n) ==
  /\ nsLabel' = [nsLabel EXCEPT ![n] = ~@]
  /\ UNCHANGED <<polCache, grpCache, exAll, exIndex, nsStore, ready, rq>>

SyncNamespace(n) ==
  /\ nsStore' = [nsStore EXCEPT ![n] = nsLabel[n]]
  /\ UNCHANGED <<polCache, grpCache, exAll, exIndex, nsLabel, ready, rq>>

ForgetNamespace(n) ==
  /\ nsStore' = [nsStore EXCEPT ![n] = Unknown]
  /\ UNCHANGED <<polCache, grpCache, exAll, exIndex, nsLabel, ready, rq>>

\* WaitForCacheSync
SetReady ==
  /\ ~ready
  /\ ready' = TRUE
  /\ UNCHANGED <<polCache, grpCache, exAll, exIndex, nsLabel, nsStore, rq>>

-----------------------------------------------------------------------------
(***************************************************************************)
(* ServeHTTP.  n = Unknown: the object is cluster-scoped.                  *)
(***************************************************************************)
Advance(r) ==
  /\ rq' = r
  /\ UNCHANGED <<polCache, grpCache, exAll, exIndex, nsLabel, nsStore, ready>>

\* extractObjectLabels: a request to delete carries no object.
ObjectLabels(labelled, op) == labelled /\ op # "DELETE"

\* A cluster-scoped object has the empty label set.
ReceiveReview(n, labelled, op) ==
  /\ ready /\ rq = NoReview
  /\ Advance([at |-> IF n = Unknown THEN "match" ELSE "labels", ns |-> n, op |-> op,
              labelled |-> ObjectLabels(labelled, op),
              nsLabels |-> IF n = Unknown THEN FALSE ELSE Unknown,
              resolved |-> [p \in {} |-> ""], refs |-> [p \in {} |-> {}], must |-> {},
              skipped |-> {}, covered |-> {}, outcome |-> [p \in {} |-> ""], allowed |-> FALSE])

In(at) == rq # NoReview /\ rq.at = at

\* GetLabels: a hit, a live answer, or neither.
GetLabels ==
  /\ In("labels")
  /\ \/ /\ nsStore[rq.ns] # Unknown
        /\ Advance([rq EXCEPT !.at = "match", !.nsLabels = nsStore[rq.ns]])
     \/ /\ nsStore[rq.ns] = Unknown
        /\ Advance([rq EXCEPT !.at = "fetched", !.nsLabels = nsLabel[rq.ns]])
     \/ /\ nsStore[rq.ns] = Unknown
        /\ Advance([rq EXCEPT !.at = "match"])

StoreLabels ==
  /\ In("fetched")
  /\ nsStore' = [nsStore EXCEPT ![rq.ns] = rq.nsLabels]
  /\ rq' = [rq EXCEPT !.at = "match"]
  /\ UNCHANGED <<polCache, grpCache, exAll, exIndex, nsLabel, ready>>

\* "none": no selector; else the selector's answer for a labelled namespace or not.
SelectorMatches(selector, label) ==
  \/ selector = "none"
  \/ selector = "labelled" /\ label = TRUE
  \/ selector = "unlabelled" /\ label = FALSE

HitGroups(label) ==
  {g \in WGroups : grpCache[g] # Unknown /\ grpCache[g].enabled
                   /\ SelectorMatches(grpCache[g].selector, label)}

\* strictestOf over the groups
Strictest(ms) == IF "enforce" \in ms THEN "enforce" ELSE "audit"

ModesOf(p, gs) == {grpCache[g].members[p] : g \in {h \in gs : p \in DOMAIN grpCache[h].members}}

AnyOf(values, v) == v \in values \/ "*" \in values

\* matchesPolicy, for the one kind of object there is
MatchesPolicy(m, op) == AnyOf(m.operations, op) /\ m.resources

MatchingForRequest(label, op) ==
  LET gs == HitGroups(label)
      candidates == {q \in WPolicies : /\ polCache[q] # Unknown
                                       /\ MatchesPolicy(polCache[q].match, op)
                                       /\ ModesOf(q, gs) # {}}
  IN [p \in candidates |-> Strictest(ModesOf(p, gs))]

\* must: what some matching group enforces, to judge the answer by.
Match ==
  /\ In("match")
  /\ LET resolved == MatchingForRequest(rq.nsLabels, rq.op)
     IN Advance([rq EXCEPT !.at = "exempt", !.resolved = resolved,
          !.refs = [p \in DOMAIN resolved |-> polCache[p].referencedBy],
          !.must = {p \in DOMAIN resolved : \E g \in HitGroups(rq.nsLabels) :
                      p \in DOMAIN grpCache[g].members /\ grpCache[g].members[p] = "enforce"}])

\* The entries of the request's namespace and the global ones.
CandidateEntries(n) ==
  {e.entry : e \in exIndex["global"] \cup (IF n = Unknown THEN {} ELSE exIndex[n])}

\* A namespace selector is never met by labels that could not be resolved.
Selects(e, label) == SelectorMatches(e.nsSelector, label)

ExemptedKeys(r) ==
  {p \in DOMAIN r.resolved :
     \E e \in CandidateEntries(r.ns) :
       /\ SelectorMatches(e.resourceSelector, r.labelled)
       /\ Selects(e, r.nsLabels)
       /\ e.allPolicies \/ p \in e.policyRefs \/ r.refs[p] \cap e.policyGroupRefs # {}}

\* What the exceptions known now say, to judge the indexes by.
Covered(r) ==
  {p \in DOMAIN r.resolved : \E x \in {y \in WExceptions : exAll[y] # Unknown} :
     LET e == exAll[x]
     IN /\ e.namespaces = {} \/ r.ns \in e.namespaces
        /\ SelectorMatches(e.nsSelector, r.nsLabels) /\ SelectorMatches(e.resourceSelector, r.labelled)
        /\ e.allPolicies \/ p \in e.policyRefs \/ r.refs[p] \cap e.policyGroupRefs # {}}

Exempt ==
  /\ In("exempt")
  /\ LET exempt == ExemptedKeys(rq)
     IN Advance([rq EXCEPT !.at = "evaluate",
          !.resolved = [p \in DOMAIN @ \ exempt |-> rq.resolved[p]],
          !.refs = [p \in {} |-> {}], !.must = @ \ exempt, !.skipped = exempt,
          !.covered = Covered(rq)])

\* One of the parallel evaluations ends; its outcome goes to the results.
EvaluatePolicy(p, outcome) ==
  /\ In("evaluate") /\ p \in DOMAIN rq.resolved \ DOMAIN rq.outcome
  /\ Advance([rq EXCEPT !.outcome =
       [q \in DOMAIN @ \cup {p} |-> IF q = p THEN outcome ELSE rq.outcome[q]]])

\* enforceResults: in enforce mode an error counts as a violation.
EnforceResults(r) == {p \in DOMAIN r.outcome : r.resolved[p] = "enforce" /\ r.outcome[p] # "none"}

RespondReview ==
  /\ In("evaluate") /\ DOMAIN rq.outcome = DOMAIN rq.resolved
  /\ Advance([rq EXCEPT !.at = "done", !.allowed = EnforceResults(rq) = {}])

Sent == In("done") /\ Advance(NoReview)

-----------------------------------------------------------------------------
ServeRequest ==
  \/ \E n \in WNamespaces \cup {Unknown}, l \in BOOLEAN, op \in Operations : ReceiveReview(n, l, op)
  \/ GetLabels \/ StoreLabels \/ Match \/ Exempt
  \/ \E p \in WPolicies, outcome \in Outcomes : EvaluatePolicy(p, outcome)
  \/ RespondReview \/ Sent

WebhookNext ==
  \/ \E p \in WPolicies : ForgetPolicy(p) \/ \E o \in PolicyInputs : SyncPolicy(p, o)
  \/ \E g \in WGroups : ForgetGroup(g) \/ \E o \in GroupObjInputs : SyncGroup(g, o)
  \/ \E x \in WExceptions : ForgetException(x) \/ \E o \in ExceptionInputs : SyncException(x, o)
  \/ \E n \in WNamespaces : Relabel(n) \/ SyncNamespace(n) \/ ForgetNamespace(n)
  \/ SetReady
  \/ ServeRequest

WebhookSpec == WebhookInit /\ [][WebhookNext]_decisionVars

-----------------------------------------------------------------------------
(***************************************************************************)
(* The answer is strict, whatever the caches do while it is worked out: a  *)
(* policy that one matching group enforces and no exception covers denies  *)
(* the object when it is violated or cannot be evaluated, though another   *)
(* group only audits it; nothing else denies.  What is exempted is what    *)
(* the exceptions of the moment cover: one that has moved to other         *)
(* namespaces, has expired or is deleted exempts nowhere it did before,    *)
(* and labels that could not be resolved never help an exception that asks *)
(* for some (ServeHTTP, Upsert, removeUnlocked).                           *)
(***************************************************************************)
DecisionIsStrict ==
  In("done") =>
    /\ rq.allowed <=> \A p \in rq.must : rq.outcome[p] = "none"
    /\ rq.skipped = rq.covered
=============================================================================
