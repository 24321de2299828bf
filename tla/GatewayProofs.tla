---------------------------- MODULE GatewayProofs ----------------------------
(***************************************************************************)
(* Proofs about the gateway's components and the admission webhook.        *)
(***************************************************************************)
EXTENDS MCGateway, FiniteSetTheorems, SequenceTheorems, WellFoundedInduction, TLAPS

(***************************************************************************)
(* The webhook's decision                                                  *)
(*                                                                         *)
(* The indexes hold an entry wherever the exception of that name is valid  *)
(* now and nowhere else, and a request knows, from the moment it has read  *)
(* the policies, which of them it has to enforce.                          *)
(***************************************************************************)
IndexRight ==
  \A n \in WNamespaces \cup {"global"} :
    exIndex[n] = {[name |-> x, entry |-> exAll[x]] :
                    x \in {y \in WExceptions : exAll[y] # Unknown /\ n \in Indexes(exAll[y])}}

\* Once the policies are resolved, what must be enforced is what resolved to enforce.
Resolved(r) == r.must = {p \in DOMAIN r.resolved : r.resolved[p] = "enforce"}

ReviewRight(r) ==
  /\ r.at \in {"exempt", "evaluate", "done"} => Resolved(r)
  /\ r.at \in {"evaluate", "done"} => r.skipped = r.covered /\ DOMAIN r.outcome \subseteq DOMAIN r.resolved
  /\ r.at = "exempt" => r.outcome = [p \in {} |-> ""] /\ DOMAIN r.refs = DOMAIN r.resolved
  /\ r.at \in {"labels", "fetched", "match"} => r.outcome = [p \in {} |-> ""]
  /\ r.at = "done" => /\ DOMAIN r.outcome = DOMAIN r.resolved
                      /\ r.allowed <=> EnforceResults(r) = {}

WebhookIInv ==
  /\ WebhookTypeOK
  /\ IndexRight
  /\ rq # NoReview => ReviewRight(rq)

-----------------------------------------------------------------------------
LEMMA ReviewsDiffer == NoReview \notin Reviews
  BY DEF NoReview, Reviews

LEMMA ByPolicyDomain ==
  ASSUME NEW range, NEW f \in ByPolicy(range)
  PROVE  DOMAIN f \subseteq WPolicies /\ f \in [DOMAIN f -> range]
  BY DEF ByPolicy

LEMMA ByPolicyIntro ==
  ASSUME NEW range, NEW d \in SUBSET WPolicies, NEW f \in [d -> range]
  PROVE  f \in ByPolicy(range)
  BY DEF ByPolicy

\* A step of the request alone.
LEMMA AdvanceStep ==
  ASSUME WebhookIInv, NEW r \in Reviews \cup {NoReview}, Advance(r),
         r # NoReview => ReviewRight(r),
         r # NoReview /\ r.at \in {"labels", "fetched"} => r.ns # Unknown
  PROVE  WebhookIInv'
  <1>1. WebhookTypeOK'
    BY DEF WebhookIInv, WebhookTypeOK, Advance
  <1>2. IndexRight'
    BY DEF WebhookIInv, IndexRight, Advance
  <1>3. (rq # NoReview => ReviewRight(rq))'
    BY DEF Advance
  <1>. QED
    BY <1>1, <1>2, <1>3 DEF WebhookIInv

\* A step of the informers that leaves the exceptions alone.
LEMMA CacheStep ==
  ASSUME WebhookIInv, WebhookTypeOK', UNCHANGED <<exAll, exIndex, rq>>
  PROVE  WebhookIInv'
  BY DEF WebhookIInv, IndexRight, Indexes, ReviewRight, Resolved, EnforceResults

-----------------------------------------------------------------------------
\* The exceptions that are valid in namespace n, as index entries.
EntriesAt(all, n) ==
  {[name |-> x, entry |-> all[x]] : x \in {y \in WExceptions : all[y] # Unknown /\ n \in Indexes(all[y])}}

\* removeUnlocked takes the entry of x out of every index it is in.
LEMMA RemovedFacts ==
  ASSUME WebhookIInv, NEW x \in WExceptions, NEW n \in WNamespaces \cup {"global"}
  PROVE  Removed(x)[n] = EntriesAt([exAll EXCEPT ![x] = Unknown], n)
  <1>. DEFINE all == [exAll EXCEPT ![x] = Unknown]
  <1>1. /\ DOMAIN exIndex = WNamespaces \cup {"global"} /\ DOMAIN exAll = WExceptions
        /\ exIndex[n] = EntriesAt(exAll, n)
    BY DEF WebhookIInv, WebhookTypeOK, IndexRight, EntriesAt
  <1>2. all[x] = Unknown /\ \A y \in WExceptions : y # x => all[y] = exAll[y]
    BY <1>1
  <1>3. EntriesAt(all, n) = {[name |-> y, entry |-> exAll[y]] :
                               y \in {z \in WExceptions : z # x /\ exAll[z] # Unknown /\ n \in Indexes(exAll[z])}}
    BY <1>2 DEF EntriesAt
  <1>4. CASE exAll[x] = Unknown
    <2>1. Removed(x)[n] = exIndex[n]
      BY <1>4 DEF Removed
    <2>. QED
      BY <1>1, <1>3, <1>4, <2>1 DEF EntriesAt
  <1>5. CASE exAll[x] # Unknown /\ n \in Indexes(exAll[x])
    <2>1. Removed(x)[n] = exIndex[n] \ {[name |-> x, entry |-> exAll[x]]}
      BY <1>1, <1>5 DEF Removed
    <2>. QED
      BY <1>1, <1>3, <1>5, <2>1 DEF EntriesAt
  <1>6. CASE exAll[x] # Unknown /\ n \notin Indexes(exAll[x])
    <2>1. Removed(x)[n] = exIndex[n]
      BY <1>1, <1>6 DEF Removed
    <2>. QED
      BY <1>1, <1>3, <1>6, <2>1 DEF EntriesAt
  <1>. QED
    BY <1>4, <1>5, <1>6

LEMMA RemovedDomain ==
  ASSUME WebhookIInv, NEW x \in WExceptions
  PROVE  DOMAIN Removed(x) = WNamespaces \cup {"global"} /\ DOMAIN exIndex = WNamespaces \cup {"global"}
  BY DEF Removed, WebhookIInv, WebhookTypeOK

LEMMA EntriesType ==
  ASSUME NEW all \in [WExceptions -> ExceptionObjs \cup {Unknown}], NEW n
  PROVE  EntriesAt(all, n) \subseteq [name: WExceptions, entry: ExceptionObjs]
  BY DEF EntriesAt

\* The exceptions change, and the indexes with them.
LEMMA ExceptionStep ==
  ASSUME WebhookIInv, NEW all \in [WExceptions -> ExceptionObjs \cup {Unknown}], exAll' = all,
         DOMAIN exIndex' = WNamespaces \cup {"global"}, exIndex' = [n \in DOMAIN exIndex' |-> exIndex'[n]],
         \A n \in WNamespaces \cup {"global"} : exIndex'[n] = EntriesAt(all, n),
         UNCHANGED <<polCache, grpCache, nsLabel, nsStore, ready, rq>>
  PROVE  WebhookIInv'
  <1>1. WebhookTypeOK'
    <2>1. exIndex' \in [WNamespaces \cup {"global"} -> SUBSET [name: WExceptions, entry: ExceptionObjs]]
      BY EntriesType
    <2>. QED
      BY <2>1 DEF WebhookIInv, WebhookTypeOK
  <1>2. IndexRight'
    BY DEF IndexRight, EntriesAt, Indexes
  <1>3. (rq # NoReview => ReviewRight(rq))'
    BY DEF WebhookIInv, ReviewRight, Resolved, EnforceResults
  <1>. QED
    BY <1>1, <1>2, <1>3 DEF WebhookIInv

LEMMA DeletedStep ==
  ASSUME WebhookIInv, NEW x \in WExceptions, ExceptionDeleted(x),
         UNCHANGED <<polCache, grpCache, nsLabel, nsStore, ready, rq>>
  PROVE  WebhookIInv'
  <1>1. PICK all : all = [exAll EXCEPT ![x] = Unknown]
    OBVIOUS
  <1>2. all \in [WExceptions -> ExceptionObjs \cup {Unknown}]
    BY <1>1 DEF WebhookIInv, WebhookTypeOK
  <1>3. exAll' = all /\ exIndex' = Removed(x)
    BY <1>1 DEF ExceptionDeleted
  <1>4. DOMAIN exIndex' = WNamespaces \cup {"global"}
    BY <1>3, RemovedDomain
  <1>5. \A n \in WNamespaces \cup {"global"} : exIndex'[n] = EntriesAt(all, n)
    BY <1>1, <1>3, RemovedFacts
  <1>6. exIndex' = [n \in DOMAIN exIndex' |-> exIndex'[n]]
    BY <1>3 DEF Removed, WebhookIInv, WebhookTypeOK
  <1>. QED
    BY <1>2, <1>3, <1>4, <1>5, <1>6, ExceptionStep

LEMMA UpsertedStep ==
  ASSUME WebhookIInv, NEW x \in WExceptions, NEW e \in ExceptionObjs, ExceptionUpserted(x, e),
         UNCHANGED <<polCache, grpCache, nsLabel, nsStore, ready, rq>>
  PROVE  WebhookIInv'
  <1>1. PICK all, without : all = [exAll EXCEPT ![x] = e] /\ without = [exAll EXCEPT ![x] = Unknown]
    OBVIOUS
  <1>2. all \in [WExceptions -> ExceptionObjs \cup {Unknown}]
    BY <1>1 DEF WebhookIInv, WebhookTypeOK
  <1>3. /\ exAll' = all
        /\ exIndex' = [n \in WNamespaces \cup {"global"} |->
             IF n \in Indexes(e) THEN Removed(x)[n] \cup {[name |-> x, entry |-> e]} ELSE Removed(x)[n]]
    BY <1>1, RemovedDomain DEF ExceptionUpserted
  <1>4. ASSUME NEW n \in WNamespaces \cup {"global"}
        PROVE  exIndex'[n] = EntriesAt(all, n)
    <2>1. Removed(x)[n] = EntriesAt(without, n)
      BY <1>1, RemovedFacts
    <2>2. /\ all[x] = e /\ e # Unknown /\ without[x] = Unknown
          /\ \A y \in WExceptions : y # x => all[y] = without[y]
      BY <1>1, WebhookAssumption DEF WebhookIInv, WebhookTypeOK
    <2>3. CASE n \in Indexes(e)
      <3>1. exIndex'[n] = EntriesAt(without, n) \cup {[name |-> x, entry |-> e]}
        BY <1>3, <2>1, <2>3
      <3>2. EntriesAt(all, n) = EntriesAt(without, n) \cup {[name |-> x, entry |-> e]}
        BY <2>2, <2>3 DEF EntriesAt
      <3>. QED
        BY <3>1, <3>2
    <2>4. CASE n \notin Indexes(e)
      <3>1. exIndex'[n] = EntriesAt(without, n)
        BY <1>3, <2>1, <2>4
      <3>2. EntriesAt(all, n) = EntriesAt(without, n)
        BY <2>2, <2>4 DEF EntriesAt
      <3>. QED
        BY <3>1, <3>2
    <2>. QED
      BY <2>3, <2>4
  <1>5. DOMAIN exIndex' = WNamespaces \cup {"global"} /\ exIndex' = [n \in DOMAIN exIndex' |-> exIndex'[n]]
    BY <1>3
  <1>. QED
    BY <1>2, <1>3, <1>4, <1>5, ExceptionStep

LEMMA CompileType ==
  ASSUME NEW o \in ExceptionObjs
  PROVE  Compile(o) \in ExceptionObjs
  BY DEF Compile, ExceptionObjs, SelectorKinds

-----------------------------------------------------------------------------
\* What the indexes say is exempt is what the exceptions known now cover: for any request, whatever
\* namespaces an exception was in before.
LEMMA ExemptIsCovered ==
  ASSUME WebhookIInv, NEW r \in Reviews
  PROVE  ExemptedKeys(r) = Covered(r)
  <1>1. ASSUME NEW n \in WNamespaces \cup {"global"}, NEW e
        PROVE  (\E i \in exIndex[n] : i.entry = e) <=>
                 \E x \in WExceptions : exAll[x] # Unknown /\ n \in Indexes(exAll[x]) /\ e = exAll[x]
    <2>1. exIndex[n] = EntriesAt(exAll, n)
      BY DEF WebhookIInv, IndexRight, EntriesAt
    <2>2. ASSUME NEW i \in exIndex[n], i.entry = e
          PROVE  \E x \in WExceptions : exAll[x] # Unknown /\ n \in Indexes(exAll[x]) /\ e = exAll[x]
      BY <2>1, <2>2 DEF EntriesAt
    <2>3. ASSUME NEW x \in WExceptions, exAll[x] # Unknown, n \in Indexes(exAll[x]), e = exAll[x]
          PROVE  \E i \in exIndex[n] : i.entry = e
      <3>1. [name |-> x, entry |-> e] \in exIndex[n]
        BY <2>1, <2>3 DEF EntriesAt
      <3>2. [name |-> x, entry |-> e].entry = e
        OBVIOUS
      <3>. QED
        BY <3>1, <3>2
    <2>. QED
      BY <2>2, <2>3
  <1>2. \A x \in WExceptions : exAll[x] # Unknown => exAll[x].namespaces \subseteq WNamespaces
    BY DEF WebhookIInv, WebhookTypeOK, ExceptionObjs
  <1>3. r.ns \in WNamespaces \cup {Unknown} /\ Unknown \notin WNamespaces /\ "global" \notin WNamespaces
    BY WebhookAssumption DEF Reviews
  <1>4. ASSUME NEW e
        PROVE  e \in CandidateEntries(r.ns) <=>
                 \E x \in WExceptions : /\ exAll[x] # Unknown /\ e = exAll[x]
                                        /\ exAll[x].namespaces = {} \/ r.ns \in exAll[x].namespaces
    <2>1. \A x \in WExceptions : exAll[x] # Unknown =>
            ("global" \in Indexes(exAll[x]) <=> exAll[x].namespaces = {})
      BY <1>2, <1>3 DEF Indexes
    <2>2. (\E i \in exIndex["global"] : i.entry = e) <=>
            \E x \in WExceptions : exAll[x] # Unknown /\ exAll[x].namespaces = {} /\ e = exAll[x]
      BY <1>1, <2>1
    <2>3. CASE r.ns = Unknown
      <3>1. e \in CandidateEntries(r.ns) <=> \E i \in exIndex["global"] : i.entry = e
        BY <2>3 DEF CandidateEntries
      <3>2. \A x \in WExceptions : exAll[x] # Unknown => r.ns \notin exAll[x].namespaces
        BY <1>2, <1>3, <2>3
      <3>. QED
        BY <2>2, <3>1, <3>2
    <2>4. CASE r.ns # Unknown
      <3>1. e \in CandidateEntries(r.ns) <=>
              (\E i \in exIndex["global"] : i.entry = e) \/ (\E i \in exIndex[r.ns] : i.entry = e)
        BY <2>4 DEF CandidateEntries
      <3>2. r.ns \in WNamespaces /\ r.ns # "global"
        BY <1>3, <2>4
      <3>3. \A x \in WExceptions : exAll[x] # Unknown => (r.ns \in Indexes(exAll[x]) <=> r.ns \in exAll[x].namespaces)
        BY <3>2 DEF Indexes
      <3>4. (\E i \in exIndex[r.ns] : i.entry = e) <=>
              \E x \in WExceptions : exAll[x] # Unknown /\ r.ns \in exAll[x].namespaces /\ e = exAll[x]
        BY <1>1, <3>2, <3>3
      <3>. QED
        BY <2>2, <3>1, <3>4
    <2>. QED
      BY <2>3, <2>4
  <1>5. ASSUME NEW p \in DOMAIN r.resolved
        PROVE  p \in ExemptedKeys(r) <=> p \in Covered(r)
    <2>. DEFINE takes(e) == /\ SelectorMatches(e.resourceSelector, r.labelled)
                            /\ SelectorMatches(e.nsSelector, r.nsLabels)
                            /\ e.allPolicies \/ p \in e.policyRefs \/ r.refs[p] \cap e.policyGroupRefs # {}
    <2>1. p \in ExemptedKeys(r) <=> \E e \in CandidateEntries(r.ns) : takes(e)
      BY DEF ExemptedKeys, Selects
    <2>2. p \in Covered(r) <=> \E x \in WExceptions : /\ exAll[x] # Unknown
                                                      /\ exAll[x].namespaces = {} \/ r.ns \in exAll[x].namespaces
                                                      /\ takes(exAll[x])
      BY DEF Covered
    <2>. HIDE DEF takes
    <2>. QED
      BY <1>4, <2>1, <2>2
  <1>6. ExemptedKeys(r) \subseteq DOMAIN r.resolved /\ Covered(r) \subseteq DOMAIN r.resolved
    BY DEF ExemptedKeys, Covered
  <1>. QED
    BY <1>5, <1>6

LEMMA ReceiveReviewIInv ==
  ASSUME WebhookIInv, NEW n \in WNamespaces \cup {Unknown}, NEW l \in BOOLEAN, NEW op \in Operations,
         ReceiveReview(n, l, op)
  PROVE  WebhookIInv'
  <1>1. PICK r : r = [at |-> IF n = Unknown THEN "match" ELSE "labels", ns |-> n, op |-> op,
              labelled |-> ObjectLabels(l, op),
              nsLabels |-> IF n = Unknown THEN FALSE ELSE Unknown,
              resolved |-> [p \in {} |-> ""], refs |-> [p \in {} |-> {}], must |-> {},
              skipped |-> {}, covered |-> {}, outcome |-> [p \in {} |-> ""], allowed |-> FALSE]
    OBVIOUS
  <1>2. /\ [p \in {} |-> ""] \in ByPolicy(Modes) /\ [p \in {} |-> ""] \in ByPolicy(Outcomes)
        /\ [p \in {} |-> {}] \in ByPolicy(SUBSET WGroups)
    <2>1. /\ [p \in {} |-> ""] \in [{} -> Modes] /\ [p \in {} |-> ""] \in [{} -> Outcomes]
          /\ [p \in {} |-> {}] \in [{} -> SUBSET WGroups]
      OBVIOUS
    <2>. QED
      BY <2>1, ByPolicyIntro
  <1>3. ObjectLabels(l, op) \in BOOLEAN
    BY DEF ObjectLabels
  <1>4. r \in Reviews /\ r.outcome = [p \in {} |-> ""] /\ r.at \in {"labels", "match"}
    BY <1>1, <1>2, <1>3 DEF Reviews
  <1>5. r.at = "labels" => r.ns # Unknown
    BY <1>1
  <1>6. ReviewRight(r)
    BY <1>4 DEF ReviewRight
  <1>7. Advance(r)
    BY <1>1 DEF ReceiveReview
  <1>. QED
    BY <1>4, <1>5, <1>6, <1>7, AdvanceStep

LEMMA GetLabelsIInv == ASSUME WebhookIInv, GetLabels PROVE WebhookIInv'
  <1>1. PICK q : q = rq
    OBVIOUS
  <1>2. q \in Reviews /\ q.at = "labels" /\ q.ns \in WNamespaces /\ ReviewRight(q)
    BY <1>1 DEF GetLabels, In, WebhookIInv, WebhookTypeOK, Reviews
  <1>3. nsStore[q.ns] \in {TRUE, FALSE, Unknown} /\ nsLabel[q.ns] \in BOOLEAN
    BY <1>2 DEF WebhookIInv, WebhookTypeOK
  <1>4. ASSUME NEW at \in {"match", "fetched"}, NEW labels \in {TRUE, FALSE, Unknown},
               Advance([q EXCEPT !.at = at, !.nsLabels = labels])
        PROVE  WebhookIInv'
    <2>1. PICK r : r = [q EXCEPT !.at = at, !.nsLabels = labels]
      OBVIOUS
    <2>2. r \in Reviews /\ r.at = at /\ r.outcome = q.outcome /\ r.ns = q.ns
      BY <1>2, <2>1 DEF Reviews
    <2>3. ReviewRight(r)
      BY <1>2, <2>2 DEF ReviewRight
    <2>4. r.ns # Unknown
      BY <1>2, <2>2, WebhookAssumption
    <2>. QED
      BY <1>4, <2>1, <2>2, <2>3, <2>4, AdvanceStep
  <1>5. [q EXCEPT !.at = "match"] = [q EXCEPT !.at = "match", !.nsLabels = q.nsLabels]
    BY <1>2 DEF Reviews
  <1>6. q.nsLabels \in {TRUE, FALSE, Unknown}
    BY <1>2 DEF Reviews
  <1>. QED
    BY <1>1, <1>3, <1>4, <1>5, <1>6 DEF GetLabels

LEMMA StoreLabelsIInv == ASSUME WebhookIInv, StoreLabels PROVE WebhookIInv'
  <1>1. PICK q : q = rq
    OBVIOUS
  <1>2. q \in Reviews /\ q.at = "fetched" /\ q.ns \in WNamespaces /\ ReviewRight(q)
    BY <1>1 DEF StoreLabels, In, WebhookIInv, WebhookTypeOK, Reviews
  <1>3. PICK r : r = [q EXCEPT !.at = "match"]
    OBVIOUS
  <1>4. r \in Reviews /\ r.at = "match" /\ r.outcome = q.outcome
    BY <1>2, <1>3 DEF Reviews
  <1>5. ReviewRight(r)
    BY <1>2, <1>4 DEF ReviewRight
  <1>6. rq' = r /\ UNCHANGED <<polCache, grpCache, exAll, exIndex, nsLabel, ready>>
    BY <1>1, <1>3 DEF StoreLabels
  <1>7. nsStore' \in [WNamespaces -> {TRUE, FALSE, Unknown}]
    BY <1>1, <1>2 DEF StoreLabels, WebhookIInv, WebhookTypeOK, Reviews
  <1>8. WebhookTypeOK'
    BY <1>4, <1>6, <1>7 DEF WebhookIInv, WebhookTypeOK
  <1>9. IndexRight'
    BY <1>6 DEF WebhookIInv, IndexRight
  <1>10. (rq # NoReview => ReviewRight(rq))'
    BY <1>5, <1>6
  <1>. QED
    BY <1>8, <1>9, <1>10 DEF WebhookIInv

\* The strictest mode is enforce where some matching group enforces.
LEMMA MatchResolves ==
  ASSUME WebhookIInv, NEW q \in Reviews, NEW resolved, resolved = MatchingForRequest(q.nsLabels, q.op)
  PROVE  /\ DOMAIN resolved \subseteq WPolicies /\ resolved \in [DOMAIN resolved -> Modes]
         /\ \A p \in DOMAIN resolved : polCache[p] # Unknown
         /\ \A p \in DOMAIN resolved :
              resolved[p] = "enforce" <=> \E g \in HitGroups(q.nsLabels) :
                p \in DOMAIN grpCache[g].members /\ grpCache[g].members[p] = "enforce"
  <1>1. PICK gs : gs = HitGroups(q.nsLabels)
    OBVIOUS
  <1>2. PICK d : d = {p \in WPolicies : /\ polCache[p] # Unknown
                                        /\ MatchesPolicy(polCache[p].match, q.op) /\ ModesOf(p, gs) # {}}
    OBVIOUS
  <1>3. resolved = [p \in d |-> Strictest(ModesOf(p, gs))]
    BY <1>1, <1>2 DEF MatchingForRequest
  <1>4. DOMAIN resolved = d /\ \A p \in d : resolved[p] = Strictest(ModesOf(p, gs))
    BY <1>3
  <1>5. \A p \in d : Strictest(ModesOf(p, gs)) \in Modes
    BY DEF Strictest, Modes
  <1>6. \A p \in d : Strictest(ModesOf(p, gs)) = "enforce" <=> "enforce" \in ModesOf(p, gs)
    BY DEF Strictest
  <1>7. \A p \in d : "enforce" \in ModesOf(p, gs) <=>
          \E g \in gs : p \in DOMAIN grpCache[g].members /\ grpCache[g].members[p] = "enforce"
    BY DEF ModesOf
  <1>8. resolved \in [d -> Modes]
    BY <1>3, <1>5
  <1>. QED
    BY <1>1, <1>2, <1>4, <1>6, <1>7, <1>8

LEMMA MatchIInv == ASSUME WebhookIInv, Match PROVE WebhookIInv'
  <1>1. PICK q : q = rq
    OBVIOUS
  <1>2. q \in Reviews /\ q.at = "match" /\ ReviewRight(q)
    BY <1>1 DEF Match, In, WebhookIInv, WebhookTypeOK
  <1>3. PICK resolved : resolved = MatchingForRequest(q.nsLabels, q.op)
    OBVIOUS
  <1>4. /\ DOMAIN resolved \subseteq WPolicies /\ resolved \in [DOMAIN resolved -> Modes]
        /\ \A p \in DOMAIN resolved : polCache[p] # Unknown
        /\ \A p \in DOMAIN resolved :
             resolved[p] = "enforce" <=> \E g \in HitGroups(q.nsLabels) :
               p \in DOMAIN grpCache[g].members /\ grpCache[g].members[p] = "enforce"
    BY <1>2, <1>3, MatchResolves
  <1>5. PICK refs : refs = [p \in DOMAIN resolved |-> polCache[p].referencedBy]
    OBVIOUS
  <1>6. PICK must : must = {p \in DOMAIN resolved : \E g \in HitGroups(q.nsLabels) :
                              p \in DOMAIN grpCache[g].members /\ grpCache[g].members[p] = "enforce"}
    OBVIOUS
  <1>7. must = {p \in DOMAIN resolved : resolved[p] = "enforce"} /\ must \subseteq WPolicies
    BY <1>4, <1>6
  <1>8. resolved \in ByPolicy(Modes)
    BY <1>4, ByPolicyIntro
  <1>9. refs \in ByPolicy(SUBSET WGroups) /\ DOMAIN refs = DOMAIN resolved
    <2>1. \A p \in DOMAIN resolved : polCache[p].referencedBy \subseteq WGroups
      BY <1>4, WebhookAssumption DEF WebhookIInv, WebhookTypeOK, PolicyObjs
    <2>2. refs \in [DOMAIN resolved -> SUBSET WGroups]
      BY <1>5, <2>1
    <2>. QED
      BY <1>4, <2>2, ByPolicyIntro
  <1>10. PICK r : r = [q EXCEPT !.at = "exempt", !.resolved = resolved, !.refs = refs, !.must = must]
    OBVIOUS
  <1>11. /\ r \in Reviews /\ r.at = "exempt" /\ r.resolved = resolved /\ r.refs = refs /\ r.must = must
         /\ r.outcome = q.outcome
    BY <1>2, <1>7, <1>8, <1>9, <1>10 DEF Reviews
  <1>12. ReviewRight(r)
    BY <1>2, <1>7, <1>9, <1>11 DEF ReviewRight, Resolved
  <1>13. Advance(r)
    BY <1>1, <1>3, <1>5, <1>6, <1>10 DEF Match
  <1>. QED
    BY <1>11, <1>12, <1>13, AdvanceStep

LEMMA ExemptIInv == ASSUME WebhookIInv, Exempt PROVE WebhookIInv'
  <1>1. PICK q : q = rq
    OBVIOUS
  <1>2. q \in Reviews /\ q.at = "exempt" /\ ReviewRight(q)
    BY <1>1 DEF Exempt, In, WebhookIInv, WebhookTypeOK
  <1>3. PICK exempt : exempt = ExemptedKeys(q)
    OBVIOUS
  <1>4. exempt = Covered(q)
    BY <1>2, <1>3, ExemptIsCovered
  <1>5. q.resolved \in ByPolicy(Modes) /\ q.must \subseteq WPolicies
    BY <1>2 DEF Reviews
  <1>6. DOMAIN q.resolved \subseteq WPolicies /\ q.resolved \in [DOMAIN q.resolved -> Modes]
    BY <1>5, ByPolicyDomain
  <1>7. exempt \subseteq WPolicies
    BY <1>3, <1>6 DEF ExemptedKeys
  <1>8. PICK resolved, none : /\ resolved = [p \in DOMAIN q.resolved \ exempt |-> q.resolved[p]]
                              /\ none = [p \in {} |-> {}]
    OBVIOUS
  <1>9. resolved \in [DOMAIN q.resolved \ exempt -> Modes] /\ none \in [{} -> SUBSET WGroups]
    BY <1>6, <1>8
  <1>10. resolved \in ByPolicy(Modes) /\ none \in ByPolicy(SUBSET WGroups)
    BY <1>6, <1>9, ByPolicyIntro
  <1>11. PICK must : must = q.must \ exempt
    OBVIOUS
  <1>12. PICK r : r = [q EXCEPT !.at = "evaluate", !.resolved = resolved, !.refs = none, !.must = must,
                                !.skipped = exempt, !.covered = exempt]
    OBVIOUS
  <1>13. /\ r \in Reviews /\ r.at = "evaluate" /\ r.resolved = resolved /\ r.must = must
         /\ r.skipped = exempt /\ r.covered = exempt /\ r.outcome = q.outcome
    BY <1>2, <1>5, <1>7, <1>10, <1>11, <1>12 DEF Reviews
  <1>14. must = {p \in DOMAIN resolved : resolved[p] = "enforce"}
    BY <1>2, <1>8, <1>11 DEF ReviewRight, Resolved
  <1>15. DOMAIN r.outcome = {}
    BY <1>2, <1>13 DEF ReviewRight
  <1>16. ReviewRight(r)
    BY <1>13, <1>14, <1>15 DEF ReviewRight, Resolved
  <1>17. Advance(r)
    BY <1>1, <1>3, <1>4, <1>8, <1>11, <1>12 DEF Exempt
  <1>. QED
    BY <1>13, <1>16, <1>17, AdvanceStep

LEMMA EvaluatePolicyIInv ==
  ASSUME WebhookIInv, NEW p \in WPolicies, NEW o \in Outcomes, EvaluatePolicy(p, o)
  PROVE  WebhookIInv'
  <1>1. PICK q : q = rq
    OBVIOUS
  <1>2. /\ q \in Reviews /\ q.at = "evaluate" /\ ReviewRight(q)
        /\ p \in DOMAIN q.resolved \ DOMAIN q.outcome
    BY <1>1 DEF EvaluatePolicy, In, WebhookIInv, WebhookTypeOK
  <1>3. q.outcome \in ByPolicy(Outcomes)
    BY <1>2 DEF Reviews
  <1>4. DOMAIN q.outcome \subseteq WPolicies /\ q.outcome \in [DOMAIN q.outcome -> Outcomes]
    BY <1>3, ByPolicyDomain
  <1>5. PICK outcome : outcome = [x \in DOMAIN q.outcome \cup {p} |-> IF x = p THEN o ELSE q.outcome[x]]
    OBVIOUS
  <1>6. outcome \in [DOMAIN q.outcome \cup {p} -> Outcomes] /\ DOMAIN outcome = DOMAIN q.outcome \cup {p}
    BY <1>4, <1>5
  <1>7. outcome \in ByPolicy(Outcomes)
    BY <1>4, <1>6, ByPolicyIntro
  <1>8. PICK r : r = [q EXCEPT !.outcome = outcome]
    OBVIOUS
  <1>9. /\ r \in Reviews /\ r.at = "evaluate" /\ r.resolved = q.resolved /\ r.must = q.must
        /\ r.skipped = q.skipped /\ r.covered = q.covered /\ r.outcome = outcome
    BY <1>2, <1>7, <1>8 DEF Reviews
  <1>10. ReviewRight(r)
    BY <1>2, <1>6, <1>9 DEF ReviewRight, Resolved
  <1>11. Advance(r)
    BY <1>1, <1>5, <1>8 DEF EvaluatePolicy
  <1>. QED
    BY <1>9, <1>10, <1>11, AdvanceStep

LEMMA RespondReviewIInv == ASSUME WebhookIInv, RespondReview PROVE WebhookIInv'
  <1>1. PICK q : q = rq
    OBVIOUS
  <1>2. q \in Reviews /\ q.at = "evaluate" /\ ReviewRight(q) /\ DOMAIN q.outcome = DOMAIN q.resolved
    BY <1>1 DEF RespondReview, In, WebhookIInv, WebhookTypeOK
  <1>3. PICK allowed : allowed = (EnforceResults(q) = {})
    OBVIOUS
  <1>4. PICK r : r = [q EXCEPT !.at = "done", !.allowed = allowed]
    OBVIOUS
  <1>5. /\ r \in Reviews /\ r.at = "done" /\ r.resolved = q.resolved /\ r.must = q.must
        /\ r.skipped = q.skipped /\ r.covered = q.covered /\ r.outcome = q.outcome /\ r.allowed = allowed
    BY <1>2, <1>3, <1>4 DEF Reviews
  <1>6. EnforceResults(r) = EnforceResults(q)
    BY <1>5 DEF EnforceResults
  <1>7. ReviewRight(r)
    BY <1>2, <1>3, <1>5, <1>6, ZenonT(60) DEF ReviewRight, Resolved
  <1>8. Advance(r)
    BY <1>1, <1>3, <1>4 DEF RespondReview
  <1>. QED
    BY <1>5, <1>7, <1>8, AdvanceStep

-----------------------------------------------------------------------------
LEMMA WebhookInitIInv == WebhookInit => WebhookIInv
  <1>. SUFFICES ASSUME WebhookInit
                PROVE  WebhookIInv
    OBVIOUS
  <1>1. WebhookTypeOK
    BY DEF WebhookInit, WebhookTypeOK
  <1>2. IndexRight
    BY DEF WebhookInit, IndexRight
  <1>. QED
    BY <1>1, <1>2 DEF WebhookInit, WebhookIInv

LEMMA InformerIInv ==
  ASSUME WebhookIInv,
         \/ \E p \in WPolicies : ForgetPolicy(p) \/ \E o \in PolicyInputs : SyncPolicy(p, o)
         \/ \E g \in WGroups : ForgetGroup(g) \/ \E o \in GroupObjInputs : SyncGroup(g, o)
         \/ \E n \in WNamespaces : Relabel(n) \/ SyncNamespace(n) \/ ForgetNamespace(n)
         \/ SetReady
  PROVE  WebhookIInv'
  <1>1. CASE \E p \in WPolicies : ForgetPolicy(p) \/ \E o \in PolicyInputs : SyncPolicy(p, o)
    <2>1. WebhookTypeOK' /\ UNCHANGED <<exAll, exIndex, rq>>
      BY <1>1 DEF WebhookIInv, WebhookTypeOK, ForgetPolicy, SyncPolicy
    <2>. QED
      BY <2>1, CacheStep
  <1>2. CASE \E g \in WGroups : ForgetGroup(g) \/ \E o \in GroupObjInputs : SyncGroup(g, o)
    <2>1. WebhookTypeOK' /\ UNCHANGED <<exAll, exIndex, rq>>
      BY <1>2 DEF WebhookIInv, WebhookTypeOK, ForgetGroup, SyncGroup
    <2>. QED
      BY <2>1, CacheStep
  <1>3. CASE \E n \in WNamespaces : Relabel(n) \/ SyncNamespace(n) \/ ForgetNamespace(n)
    <2>1. WebhookTypeOK' /\ UNCHANGED <<exAll, exIndex, rq>>
      BY <1>3 DEF WebhookIInv, WebhookTypeOK, Relabel, SyncNamespace, ForgetNamespace
    <2>. QED
      BY <2>1, CacheStep
  <1>4. CASE SetReady
    <2>1. WebhookTypeOK' /\ UNCHANGED <<exAll, exIndex, rq>>
      BY <1>4 DEF WebhookIInv, WebhookTypeOK, SetReady
    <2>. QED
      BY <2>1, CacheStep
  <1>. QED
    BY <1>1, <1>2, <1>3, <1>4

LEMMA SyncExceptionIInv ==
  ASSUME WebhookIInv, NEW x \in WExceptions, NEW o \in ExceptionInputs, SyncException(x, o)
  PROVE  WebhookIInv'
  <1>1. CASE o.active
    <2>1. PICK e : e = Compile(o)
      OBVIOUS
    <2>2. e \in ExceptionObjs
      BY <2>1, CompileType, WebhookAssumption
    <2>. QED
      BY <1>1, <2>1, <2>2, UpsertedStep DEF SyncException
  <1>2. CASE ~o.active
    BY <1>2, DeletedStep DEF SyncException
  <1>. QED
    BY <1>1, <1>2

LEMMA WebhookNextIInv == WebhookIInv /\ [WebhookNext]_decisionVars => WebhookIInv'
  <1>1. CASE UNCHANGED decisionVars /\ WebhookIInv
    <2>1. UNCHANGED <<polCache, grpCache, exAll, exIndex, nsLabel, nsStore, ready, rq>>
      BY <1>1 DEF decisionVars
    <2>2. WebhookTypeOK'
      BY <1>1, <2>1 DEF WebhookIInv, WebhookTypeOK
    <2>. QED
      BY <1>1, <2>1, <2>2, CacheStep
  <1>2. ASSUME WebhookIInv, ServeRequest
        PROVE  WebhookIInv'
    <2>1. CASE Sent
      BY <1>2, <2>1, AdvanceStep DEF Sent
    <2>. QED
      BY <1>2, <2>1, ReceiveReviewIInv, GetLabelsIInv, StoreLabelsIInv, MatchIInv, ExemptIInv, EvaluatePolicyIInv,
         RespondReviewIInv DEF ServeRequest
  <1>3. ASSUME WebhookIInv, NEW x \in WExceptions, ForgetException(x)
        PROVE  WebhookIInv'
    BY <1>3, DeletedStep DEF ForgetException
  <1>. QED
    BY <1>1, <1>2, <1>3, InformerIInv, SyncExceptionIInv DEF WebhookNext

(***************************************************************************)
(* Caches, indexes and the request being decided have their types.         *)
(***************************************************************************)
THEOREM WebhookTypeCorrect == WebhookSpec => []WebhookTypeOK
  <1>1. WebhookIInv => WebhookTypeOK
    BY DEF WebhookIInv
  <1>. QED
    BY <1>1, WebhookInitIInv, WebhookNextIInv, PTL DEF WebhookSpec

(***************************************************************************)
(* The answer is strict for any policies, groups, exceptions, namespaces   *)
(* and any interleaving of a request with the informers: what some         *)
(* matching group enforces and no exception covers denies, nothing else    *)
(* does, and what is exempted is what the exceptions cover at that moment. *)
(***************************************************************************)
THEOREM DecisionsAreStrict == WebhookSpec => []DecisionIsStrict
  <1>1. WebhookIInv => DecisionIsStrict
    <2>1. SUFFICES ASSUME WebhookIInv, rq # NoReview, rq.at = "done"
                   PROVE  /\ rq.allowed <=> \A p \in rq.must : rq.outcome[p] = "none"
                          /\ rq.skipped = rq.covered
      BY DEF DecisionIsStrict, In
    <2>2. ReviewRight(rq)
      BY <2>1 DEF WebhookIInv
    <2>3. /\ rq.must = {p \in DOMAIN rq.resolved : rq.resolved[p] = "enforce"} /\ rq.skipped = rq.covered
          /\ DOMAIN rq.outcome = DOMAIN rq.resolved /\ (rq.allowed <=> EnforceResults(rq) = {})
      BY <2>1, <2>2 DEF ReviewRight, Resolved
    <2>. QED
      BY <2>3 DEF EnforceResults
  <1>. QED
    BY <1>1, WebhookInitIInv, WebhookNextIInv, PTL DEF WebhookSpec

-----------------------------------------------------------------------------
(***************************************************************************)
(* Link incidents                                                          *)
(*                                                                         *)
(* A closed incident never changes again, and a report on its way says     *)
(* what the incident was at that revision: so a report of the last         *)
(* revision is one of the end, and whoever answers for the last revision   *)
(* has stored the end.                                                     *)
(***************************************************************************)
IncidentShapes == [of: Trackers, reason: Reasons, rev: Nat \ {0}, closed: BOOLEAN]

Ledgers == UNION {[1..n -> IncidentShapes] : n \in Nat}

\* What a report says of incident k in ledger i: the end at the last revision, and only then.
Tells(i, k, rev, closed) ==
  k \in DOMAIN i /\ rev <= i[k].rev /\ (closed <=> i[k].closed /\ rev = i[k].rev)

ReportsTrue ==
  /\ \A c \in Trackers : \A m \in snap[c] : Tells(inc, m.key, m.rev, m.closed)
  /\ \A m \in toHub : Tells(inc, m.key, m.rev, m.closed)
  /\ \A k \in DOMAIN queue : Tells(inc, k, queue[k].rev, queue[k].closed)

EndStored(k) == k \in settled \/ (k \in DOMAIN rows /\ rows[k].closed)

\* A final answer for the last revision of a closed incident: its end is stored or settled.
AcksTrue ==
  \A a \in toMember :
    /\ a.key \in DOMAIN inc /\ a.rev <= inc[a.key].rev
    /\ a.status # "retryable" /\ inc[a.key].closed /\ a.rev = inc[a.key].rev => EndStored(a.key)

IncidentIInv == IncidentTypeOK /\ ReportsTrue /\ AcksTrue /\ ClosedIncidentIsKept

-----------------------------------------------------------------------------
\* Ledger i has grown into j through tracker c: incidents are added and open ones revised.
Grows(i, j, c) ==
  /\ DOMAIN i \subseteq DOMAIN j
  /\ \A k \in DOMAIN i : j[k] # i[k] => i[k].of = c /\ ~i[k].closed /\ j[k].rev > i[k].rev /\ j[k].of = c
  /\ \A k \in DOMAIN j \ DOMAIN i : j[k].of = c

\* Closed incidents of the tracker that are in the queue or in a row, when an operation begins.
Elsewhere ==
  {k \in Keys : (k \in DOMAIN queue /\ queue[k].closed) \/ (k \in DOMAIN rows /\ rows[k].closed)}

BundleOK(b, elsewhere) ==
  /\ b \in [of: Trackers, active: [Reasons -> Nat], pending: Seq(Nat), inc: Ledgers, next: Nat \ {0},
            settled: SUBSET Nat]
  /\ DOMAIN b.inc = 1..(b.next - 1)
  /\ b.settled \subseteq Keys \cup DOMAIN b.inc
  /\ Len(b.pending) <= PendingLimit
  /\ \A k \in Elems(b.pending) : k \in DOMAIN b.inc /\ b.inc[k].closed /\ b.inc[k].of = b.of
  /\ \A r \in Reasons : b.active[r] # NoKey =>
       /\ b.active[r] \in DOMAIN b.inc /\ ~b.inc[b.active[r]].closed
       /\ b.inc[b.active[r]].of = b.of /\ b.inc[b.active[r]].reason = r
  /\ \A k \in DOMAIN b.inc : b.inc[k].closed /\ b.inc[k].of = b.of =>
       k \in b.settled \cup Elems(b.pending) \cup elsewhere

\* Bundle d comes out of operations on b.
Leads(b, d, elsewhere) ==
  /\ BundleOK(d, elsewhere) /\ d.of = b.of /\ b.settled \subseteq d.settled
  /\ Grows(b.inc, d.inc, b.of)

LEMMA LedgerFacts ==
  ASSUME NEW i \in Ledgers, NEW k \in DOMAIN i
  PROVE  i[k] \in IncidentShapes
  BY DEF Ledgers

LEMMA LeadsSelf ==
  ASSUME NEW b, NEW elsewhere, BundleOK(b, elsewhere)
  PROVE  Leads(b, b, elsewhere)
  BY DEF Leads, Grows

LEMMA LeadsTrans ==
  ASSUME NEW b, NEW d, NEW e, NEW elsewhere, BundleOK(b, elsewhere), Leads(b, d, elsewhere), Leads(d, e, elsewhere)
  PROVE  Leads(b, e, elsewhere)
  <1>1. b.inc \in Ledgers /\ d.inc \in Ledgers /\ e.inc \in Ledgers
    BY DEF Leads, BundleOK
  <1>2. /\ d.of = b.of /\ e.of = b.of /\ b.settled \subseteq e.settled /\ BundleOK(e, elsewhere)
        /\ Grows(b.inc, d.inc, b.of) /\ Grows(d.inc, e.inc, b.of)
    BY DEF Leads
  <1>3. PICK i, j, l, c : i = b.inc /\ j = d.inc /\ l = e.inc /\ c = b.of
    OBVIOUS
  <1>4. /\ \A k \in DOMAIN i : i[k].rev \in Nat
        /\ \A k \in DOMAIN j : j[k].rev \in Nat
        /\ \A k \in DOMAIN l : l[k].rev \in Nat
    BY <1>1, <1>3, LedgerFacts DEF IncidentShapes
  <1>5. Grows(i, j, c) /\ Grows(j, l, c)
    BY <1>2, <1>3
  <1>6. Grows(i, l, c)
    BY <1>4, <1>5 DEF Grows
  <1>. QED
    BY <1>2, <1>3, <1>6 DEF Leads

LEMMA RevisedFacts ==
  ASSUME NEW i \in Ledgers, NEW k \in DOMAIN i, NEW closed \in BOOLEAN
  PROVE  /\ Revised(i, k, closed) \in Ledgers /\ DOMAIN Revised(i, k, closed) = DOMAIN i
         /\ \A j \in DOMAIN i : j # k => Revised(i, k, closed)[j] = i[j]
         /\ Revised(i, k, closed)[k].of = i[k].of /\ Revised(i, k, closed)[k].reason = i[k].reason
         /\ Revised(i, k, closed)[k].rev = i[k].rev + 1 /\ Revised(i, k, closed)[k].closed = closed
  <1>1. PICK n \in Nat : i \in [1..n -> IncidentShapes]
    BY DEF Ledgers
  <1>2. i[k] \in IncidentShapes
    BY <1>1
  <1>3. PICK row : row = [of |-> i[k].of, reason |-> i[k].reason, rev |-> i[k].rev + 1, closed |-> closed]
    OBVIOUS
  <1>4. i[k].rev + 1 \in Nat \ {0}
    BY <1>2 DEF IncidentShapes
  <1>5. /\ row \in IncidentShapes /\ row.of = i[k].of /\ row.reason = i[k].reason /\ row.rev = i[k].rev + 1
        /\ row.closed = closed
    BY <1>2, <1>3, <1>4 DEF IncidentShapes
  <1>6. Revised(i, k, closed) = [i EXCEPT ![k] = row]
    BY <1>3 DEF Revised
  <1>7. Revised(i, k, closed) \in [1..n -> IncidentShapes]
    BY <1>1, <1>5, <1>6
  <1>. QED
    BY <1>1, <1>5, <1>6, <1>7 DEF Ledgers

LEMMA OpenedLeads ==
  ASSUME NEW b, NEW elsewhere, BundleOK(b, elsewhere), NEW r \in Reasons, b.active[r] = NoKey
  PROVE  Leads(b, Opened(b, r), elsewhere) /\ \A q \in Reasons \ {r} : Opened(b, r).active[q] = b.active[q]
  <1>1. PICK n : n = b.next
    OBVIOUS
  <1>2. /\ n \in Nat \ {0} /\ DOMAIN b.inc = 1..(n - 1) /\ b.inc \in Ledgers /\ b.of \in Trackers
        /\ b.active \in [Reasons -> Nat]
    BY <1>1 DEF BundleOK
  <1>3. PICK row : row = [of |-> b.of, reason |-> r, rev |-> 1, closed |-> FALSE]
    OBVIOUS
  <1>4. row \in IncidentShapes /\ row.of = b.of /\ row.reason = r /\ row.closed = FALSE
    BY <1>2, <1>3 DEF IncidentShapes
  <1>5. PICK i : i = [k \in DOMAIN b.inc \cup {n} |-> IF k = n THEN row ELSE b.inc[k]]
    OBVIOUS
  <1>6. DOMAIN i = 1..n /\ i[n] = row /\ n \notin DOMAIN b.inc /\ \A k \in DOMAIN b.inc : k \in DOMAIN i /\ i[k] = b.inc[k]
    BY <1>2, <1>5
  <1>7. i \in [1..n -> IncidentShapes]
    BY <1>2, <1>4, <1>5, <1>6, LedgerFacts
  <1>8. i \in Ledgers
    BY <1>2, <1>7 DEF Ledgers
  <1>9. PICK active : active = [b.active EXCEPT ![r] = n]
    OBVIOUS
  <1>10. active \in [Reasons -> Nat] /\ active[r] = n /\ \A q \in Reasons \ {r} : active[q] = b.active[q]
    BY <1>2, <1>9
  <1>11. PICK d : d = [of |-> b.of, active |-> active, pending |-> b.pending, next |-> n + 1, inc |-> i,
                       settled |-> b.settled]
    OBVIOUS
  <1>12. /\ d.of = b.of /\ d.active = active /\ d.pending = b.pending /\ d.next = n + 1 /\ d.inc = i
         /\ d.settled = b.settled
    BY <1>11
  <1>13. Opened(b, r) = d
    BY <1>1, <1>3, <1>5, <1>9, <1>11 DEF Opened
  <1>14. d \in [of: Trackers, active: [Reasons -> Nat], pending: Seq(Nat), inc: Ledgers, next: Nat \ {0},
                settled: SUBSET Nat]
    BY <1>2, <1>8, <1>10, <1>11 DEF BundleOK
  <1>15. BundleOK(d, elsewhere)
    <2>1. DOMAIN d.inc = 1..(d.next - 1) /\ Len(d.pending) <= PendingLimit
      BY <1>2, <1>6, <1>12 DEF BundleOK
    <2>2. \A k \in Elems(d.pending) : k \in DOMAIN d.inc /\ d.inc[k].closed /\ d.inc[k].of = d.of
      BY <1>6, <1>12 DEF BundleOK
    <2>3. ASSUME NEW q \in Reasons, d.active[q] # NoKey
          PROVE  /\ d.active[q] \in DOMAIN d.inc /\ ~d.inc[d.active[q]].closed
                 /\ d.inc[d.active[q]].of = d.of /\ d.inc[d.active[q]].reason = q
      <3>1. CASE q = r
        BY <1>2, <1>4, <1>6, <1>10, <1>12, <3>1
      <3>2. CASE q # r
        BY <1>6, <1>10, <1>12, <2>3, <3>2, SMTT(30) DEF BundleOK
      <3>. QED
        BY <3>1, <3>2
    <2>4. ASSUME NEW k \in DOMAIN d.inc, d.inc[k].closed, d.inc[k].of = d.of
          PROVE  k \in d.settled \cup Elems(d.pending) \cup elsewhere
      <3>1. k # n /\ k \in DOMAIN b.inc
        BY <1>2, <1>4, <1>6, <1>12, <2>4
      <3>. QED
        BY <1>6, <1>12, <2>4, <3>1 DEF BundleOK
    <2>5. d.settled \subseteq Keys \cup DOMAIN d.inc
      BY <1>6, <1>12 DEF BundleOK
    <2>. QED
      BY <1>14, <2>1, <2>2, <2>3, <2>4, <2>5 DEF BundleOK
  <1>16. Grows(b.inc, d.inc, b.of)
    <2>1. \A k \in DOMAIN i \ DOMAIN b.inc : k = n
      BY <1>2, <1>6
    <2>. QED
      BY <1>4, <1>6, <1>12, <2>1 DEF Grows
  <1>. QED
    BY <1>10, <1>12, <1>13, <1>15, <1>16 DEF Leads

\* The revision of an active incident.
LEMMA SeenLeads ==
  ASSUME NEW b, NEW elsewhere, BundleOK(b, elsewhere), NEW r \in Reasons
  PROVE  Leads(b, Seen(b, r), elsewhere) /\ \A q \in Reasons \ {r} : Seen(b, r).active[q] = b.active[q]
  <1>1. CASE b.active[r] = NoKey
    BY <1>1, OpenedLeads DEF Seen
  <1>2. CASE b.active[r] # NoKey
    <2>1. PICK k : k = b.active[r]
      OBVIOUS
    <2>2. k \in DOMAIN b.inc /\ ~b.inc[k].closed /\ b.inc[k].of = b.of /\ b.inc[k].reason = r /\ b.inc \in Ledgers
      BY <1>2, <2>1 DEF BundleOK
    <2>3. PICK i : i = Revised(b.inc, k, FALSE)
      OBVIOUS
    <2>4. /\ i \in Ledgers /\ DOMAIN i = DOMAIN b.inc /\ \A j \in DOMAIN b.inc : j # k => i[j] = b.inc[j]
          /\ i[k].of = b.of /\ i[k].reason = r /\ i[k].rev = b.inc[k].rev + 1 /\ i[k].closed = FALSE
      BY <2>2, <2>3, RevisedFacts
    <2>5. PICK d : d = [b EXCEPT !.inc = i]
      OBVIOUS
    <2>6. /\ d \in [of: Trackers, active: [Reasons -> Nat], pending: Seq(Nat), inc: Ledgers, next: Nat \ {0},
                    settled: SUBSET Nat]
          /\ d.of = b.of /\ d.active = b.active /\ d.pending = b.pending /\ d.next = b.next /\ d.inc = i
          /\ d.settled = b.settled
      BY <2>4, <2>5 DEF BundleOK
    <2>7. Seen(b, r) = d
      BY <1>2, <2>1, <2>3, <2>5 DEF Seen
    <2>8. BundleOK(d, elsewhere)
      <3>1. DOMAIN d.inc = 1..(d.next - 1) /\ Len(d.pending) <= PendingLimit
        BY <2>4, <2>6 DEF BundleOK
      <3>2. ASSUME NEW j \in Elems(d.pending)
            PROVE  j \in DOMAIN d.inc /\ d.inc[j].closed /\ d.inc[j].of = d.of
        <4>1. j \in DOMAIN b.inc /\ b.inc[j].closed /\ b.inc[j].of = b.of
          BY <2>6, <3>2 DEF BundleOK
        <4>. QED
          BY <2>2, <2>4, <2>6, <4>1
      <3>3. ASSUME NEW q \in Reasons, d.active[q] # NoKey
            PROVE  /\ d.active[q] \in DOMAIN d.inc /\ ~d.inc[d.active[q]].closed
                   /\ d.inc[d.active[q]].of = d.of /\ d.inc[d.active[q]].reason = q
        <4>1. PICK j : j = d.active[q]
          OBVIOUS
        <4>2. j \in DOMAIN b.inc /\ ~b.inc[j].closed /\ b.inc[j].of = b.of /\ b.inc[j].reason = q
          BY <2>6, <3>3, <4>1 DEF BundleOK
        <4>. QED
          BY <2>2, <2>4, <2>6, <4>1, <4>2
      <3>4. ASSUME NEW j \in DOMAIN d.inc, d.inc[j].closed, d.inc[j].of = d.of
            PROVE  j \in d.settled \cup Elems(d.pending) \cup elsewhere
        <4>1. j # k /\ j \in DOMAIN b.inc /\ b.inc[j].closed /\ b.inc[j].of = b.of
          BY <2>4, <2>6, <3>4
        <4>. QED
          BY <2>6, <4>1 DEF BundleOK
      <3>5. d.settled \subseteq Keys \cup DOMAIN d.inc
        BY <2>4, <2>6 DEF BundleOK
      <3>. QED
        BY <2>6, <3>1, <3>2, <3>3, <3>4, <3>5 DEF BundleOK
    <2>9. Grows(b.inc, d.inc, b.of)
      <3>1. b.inc[k].rev \in Nat
        BY <2>2, LedgerFacts DEF IncidentShapes
      <3>. QED
        BY <2>2, <2>4, <2>6, <3>1 DEF Grows
    <2>. QED
      BY <2>6, <2>7, <2>8, <2>9 DEF Leads
  <1>. QED
    BY <1>1, <1>2

\* What appending to a sequence, or to its tail, does to the elements.
LEMMA AppendElems ==
  ASSUME NEW S, NEW s \in Seq(S), NEW x \in S
  PROVE  Append(s, x) \in Seq(S) /\ Elems(Append(s, x)) = Elems(s) \cup {x} /\ Len(Append(s, x)) = Len(s) + 1
  <1>1. PICK t : t = Append(s, x)
    OBVIOUS
  <1>2. t \in Seq(S) /\ Len(t) = Len(s) + 1 /\ Len(s) \in Nat
    BY <1>1
  <1>3. DOMAIN t = 1..(Len(s) + 1) /\ DOMAIN s = 1..Len(s)
    BY <1>2
  <1>4. t[Len(s) + 1] = x /\ \A i \in 1..Len(s) : t[i] = s[i]
    BY <1>1, <1>2
  <1>5. ASSUME NEW y \in Elems(t)
        PROVE  y \in Elems(s) \cup {x}
    <2>1. PICK i \in 1..(Len(s) + 1) : y = t[i]
      BY <1>3 DEF Elems
    <2>2. CASE i = Len(s) + 1
      BY <1>4, <2>1, <2>2
    <2>3. CASE i # Len(s) + 1
      <3>1. i \in 1..Len(s)
        BY <1>2, <2>3
      <3>. QED
        BY <1>3, <1>4, <2>1, <3>1 DEF Elems
    <2>. QED
      BY <2>2, <2>3
  <1>6. ASSUME NEW y \in Elems(s)
        PROVE  y \in Elems(t)
    <2>1. PICK i \in 1..Len(s) : y = s[i]
      BY <1>3 DEF Elems
    <2>2. i \in DOMAIN t /\ y = t[i]
      BY <1>2, <1>3, <1>4, <2>1
    <2>. QED
      BY <2>2 DEF Elems
  <1>7. x \in Elems(t)
    BY <1>2, <1>3, <1>4 DEF Elems
  <1>8. Elems(t) = Elems(s) \cup {x}
    BY <1>5, <1>6, <1>7
  <1>. QED
    BY <1>1, <1>2, <1>8

LEMMA TailElems ==
  ASSUME NEW S, NEW s \in Seq(S), Len(s) > 0
  PROVE  /\ Tail(s) \in Seq(S) /\ Elems(s) = Elems(Tail(s)) \cup {Head(s)} /\ Len(Tail(s)) = Len(s) - 1
         /\ Head(s) \in Elems(s)
  <1>1. Tail(s) \in Seq(S) /\ Len(Tail(s)) = Len(s) - 1 /\ \A i \in 1..(Len(s) - 1) : Tail(s)[i] = s[i + 1]
    OBVIOUS
  <1>2. Head(s) = s[1] /\ 1 \in DOMAIN s
    OBVIOUS
  <1>3. ASSUME NEW x \in Elems(s)
        PROVE  x \in Elems(Tail(s)) \cup {Head(s)}
    <2>1. PICK i \in 1..Len(s) : x = s[i]
      BY DEF Elems
    <2>2. CASE i = 1
      BY <1>2, <2>1, <2>2
    <2>3. CASE i # 1
      <3>1. i - 1 \in 1..(Len(s) - 1) /\ Tail(s)[i - 1] = s[i]
        BY <1>1, <2>3
      <3>2. i - 1 \in DOMAIN Tail(s)
        BY <1>1, <3>1
      <3>. QED
        BY <2>1, <3>1, <3>2 DEF Elems
    <2>. QED
      BY <2>2, <2>3
  <1>4. ASSUME NEW x \in Elems(Tail(s))
        PROVE  x \in Elems(s)
    <2>1. PICK i \in 1..(Len(s) - 1) : x = Tail(s)[i]
      BY <1>1 DEF Elems
    <2>2. x = s[i + 1] /\ i + 1 \in DOMAIN s
      BY <1>1, <2>1
    <2>. QED
      BY <2>2 DEF Elems
  <1>. QED
    BY <1>1, <1>2, <1>3, <1>4 DEF Elems

\* The pending incidents once the oldest has made room for another.
Pushed(s, x) == Append(IF Len(s) >= PendingLimit THEN Tail(s) ELSE s, x)

DroppedOf(s) == IF Len(s) >= PendingLimit THEN {Head(s)} ELSE {}

LEMMA PendingMoves ==
  ASSUME NEW s \in Seq(Nat), NEW x \in Nat, Len(s) <= PendingLimit
  PROVE  /\ Pushed(s, x) \in Seq(Nat) /\ Len(Pushed(s, x)) <= PendingLimit /\ x \in Elems(Pushed(s, x))
         /\ Elems(Pushed(s, x)) \subseteq Elems(s) \cup {x}
         /\ Elems(s) \subseteq Elems(Pushed(s, x)) \cup DroppedOf(s) /\ DroppedOf(s) \subseteq Elems(s)
  <1>3. PICK t : t = Pushed(s, x)
    OBVIOUS
  <1>0. PendingLimit \in Nat \ {0} /\ Len(s) \in Nat
    BY IncidentAssumption
  <1>1. CASE Len(s) >= PendingLimit
    <2>1. Len(s) > 0
      BY <1>0, <1>1
    <2>2. PICK u : u = Tail(s)
      OBVIOUS
    <2>3. u \in Seq(Nat) /\ Elems(s) = Elems(u) \cup {Head(s)} /\ Len(u) = Len(s) - 1 /\ Head(s) \in Elems(s)
      BY <2>1, <2>2, TailElems
    <2>4. u \in Seq(Nat)
      BY <2>3
    <2>5. Append(u, x) \in Seq(Nat) /\ Elems(Append(u, x)) = Elems(u) \cup {x} /\ Len(Append(u, x)) = Len(u) + 1
      BY <2>4, AppendElems, Zenon
    <2>8. t = Append(u, x)
      BY <1>1, <1>3, <2>2 DEF Pushed
    <2>9. t \in Seq(Nat) /\ Elems(t) = Elems(u) \cup {x} /\ Len(t) = Len(u) + 1
      BY <2>5, <2>8, Zenon
    <2>6. Len(t) <= PendingLimit
      BY <1>0, <1>1, <2>3, <2>9
    <2>7. x \in Elems(t) /\ Elems(t) \subseteq Elems(s) \cup {x} /\ Elems(s) \subseteq Elems(t) \cup {Head(s)}
      BY <2>3, <2>9, Zenon
    <2>. QED
      BY <1>1, <1>3, <2>3, <2>6, <2>7, <2>9 DEF DroppedOf
  <1>2. CASE ~(Len(s) >= PendingLimit)
    <2>1. t = Append(s, x)
      BY <1>2, <1>3 DEF Pushed
    <2>5. Append(s, x) \in Seq(Nat) /\ Elems(Append(s, x)) = Elems(s) \cup {x} /\ Len(Append(s, x)) = Len(s) + 1
      BY AppendElems, Zenon
    <2>2. t \in Seq(Nat) /\ Elems(t) = Elems(s) \cup {x} /\ Len(t) = Len(s) + 1
      BY <2>1, <2>5, Zenon
    <2>3. Len(t) <= PendingLimit
      BY <1>0, <1>2, <2>2
    <2>4. x \in Elems(t) /\ Elems(t) \subseteq Elems(s) \cup {x} /\ Elems(s) \subseteq Elems(t)
      BY <2>2, Zenon
    <2>. QED
      BY <1>2, <1>3, <2>2, <2>3, <2>4 DEF DroppedOf
  <1>. QED
    BY <1>1, <1>2

LEMMA MovedLeads ==
  ASSUME NEW b, NEW elsewhere, BundleOK(b, elsewhere), NEW r \in Reasons, b.active[r] # NoKey
  PROVE  /\ Leads(b, MovedToPending(b, r), elsewhere) /\ MovedToPending(b, r).active[r] = NoKey
         /\ \A q \in Reasons \ {r} : MovedToPending(b, r).active[q] = b.active[q]
  <1>1. PICK k : k = b.active[r]
    OBVIOUS
  <1>2. /\ k \in DOMAIN b.inc /\ ~b.inc[k].closed /\ b.inc[k].of = b.of /\ b.inc[k].reason = r /\ b.inc \in Ledgers
        /\ k \in Nat /\ b.pending \in Seq(Nat) /\ Len(b.pending) <= PendingLimit /\ b.active \in [Reasons -> Nat]
        /\ b.settled \subseteq Nat
    BY <1>1 DEF BundleOK
  <1>3. PICK i : i = Revised(b.inc, k, TRUE)
    OBVIOUS
  <1>4. /\ i \in Ledgers /\ DOMAIN i = DOMAIN b.inc /\ \A j \in DOMAIN b.inc : j # k => i[j] = b.inc[j]
        /\ i[k].of = b.of /\ i[k].reason = r /\ i[k].rev = b.inc[k].rev + 1 /\ i[k].closed = TRUE
    BY <1>2, <1>3, RevisedFacts
  <1>0. PICK p : p = b.pending
    OBVIOUS
  <1>5. PICK t : t = Pushed(p, k)
    OBVIOUS
  <1>6. PICK dropped : dropped = DroppedOf(p)
    OBVIOUS
  <1>7. /\ t \in Seq(Nat) /\ Len(t) <= PendingLimit /\ k \in Elems(t) /\ Elems(t) \subseteq Elems(b.pending) \cup {k}
        /\ Elems(b.pending) \subseteq Elems(t) \cup dropped /\ dropped \subseteq Elems(b.pending)
    <2>1. p \in Seq(Nat)
      BY <1>0, <1>2
    <2>4. Len(p) <= PendingLimit
      BY <1>0, <1>2
    <2>5. k \in Nat
      BY <1>2
    <2>. QED
      BY <1>0, <1>5, <1>6, <2>1, <2>4, <2>5, PendingMoves
  <1>8. Elems(b.pending) \subseteq Elems(t) \cup dropped /\ dropped \subseteq Elems(b.pending)
    BY <1>7
  <1>9. PICK active : active = [b.active EXCEPT ![r] = NoKey]
    OBVIOUS
  <1>10. active \in [Reasons -> Nat] /\ active[r] = NoKey /\ \A q \in Reasons \ {r} : active[q] = b.active[q]
    BY <1>2, <1>9 DEF NoKey
  <1>11. PICK d : d = [of |-> b.of, active |-> active, next |-> b.next, pending |-> t, inc |-> i,
                       settled |-> b.settled \cup dropped]
    OBVIOUS
  <1>12. /\ d.of = b.of /\ d.active = active /\ d.pending = t /\ d.next = b.next /\ d.inc = i
         /\ d.settled = b.settled \cup dropped
    BY <1>11
  <1>13. MovedToPending(b, r) = d
    BY <1>0, <1>1, <1>3, <1>5, <1>6, <1>9, <1>11 DEF MovedToPending, AtLimit, Pushed, DroppedOf
  <1>14. dropped \subseteq Nat
    <2>1. \A j \in DOMAIN b.pending : b.pending[j] \in Nat
      BY <1>2
    <2>2. Elems(b.pending) \subseteq Nat
      BY <2>1 DEF Elems
    <2>. QED
      BY <1>8, <2>2
  <1>15. d \in [of: Trackers, active: [Reasons -> Nat], pending: Seq(Nat), inc: Ledgers, next: Nat \ {0},
                settled: SUBSET Nat]
    BY <1>2, <1>4, <1>7, <1>10, <1>11, <1>14, ZenonT(60) DEF BundleOK
  <1>16. BundleOK(d, elsewhere)
    <2>1. DOMAIN d.inc = 1..(d.next - 1) /\ Len(d.pending) <= PendingLimit
      BY <1>4, <1>7, <1>12 DEF BundleOK
    <2>2. ASSUME NEW j \in Elems(d.pending)
          PROVE  j \in DOMAIN d.inc /\ d.inc[j].closed /\ d.inc[j].of = d.of
      <3>1. j \in Elems(b.pending) \cup {k}
        BY <1>7, <1>12, <2>2
      <3>2. CASE j = k
        BY <1>2, <1>4, <1>12, <3>2
      <3>3. CASE j # k
        <4>1. j \in DOMAIN b.inc /\ b.inc[j].closed /\ b.inc[j].of = b.of
          BY <3>1, <3>3 DEF BundleOK
        <4>. QED
          BY <1>4, <1>12, <3>3, <4>1
      <3>. QED
        BY <3>2, <3>3
    <2>3. ASSUME NEW q \in Reasons, d.active[q] # NoKey
          PROVE  /\ d.active[q] \in DOMAIN d.inc /\ ~d.inc[d.active[q]].closed
                 /\ d.inc[d.active[q]].of = d.of /\ d.inc[d.active[q]].reason = q
      <3>1. q # r
        BY <1>10, <1>12, <2>3
      <3>2. PICK j : j = d.active[q]
        OBVIOUS
      <3>3. j \in DOMAIN b.inc /\ ~b.inc[j].closed /\ b.inc[j].of = b.of /\ b.inc[j].reason = q
        BY <1>10, <1>12, <2>3, <3>1, <3>2 DEF BundleOK
      <3>. QED
        BY <1>2, <1>4, <1>12, <3>1, <3>2, <3>3
    <2>4. ASSUME NEW j \in DOMAIN d.inc, d.inc[j].closed, d.inc[j].of = d.of
          PROVE  j \in d.settled \cup Elems(d.pending) \cup elsewhere
      <3>1. CASE j = k
        BY <1>7, <1>12, <3>1
      <3>2. CASE j # k
        <4>1. j \in DOMAIN b.inc /\ b.inc[j].closed /\ b.inc[j].of = b.of
          BY <1>4, <1>12, <2>4, <3>2
        <4>2. j \in b.settled \cup Elems(b.pending) \cup elsewhere
          BY <4>1 DEF BundleOK
        <4>. QED
          BY <1>8, <1>12, <4>2
      <3>. QED
        BY <3>1, <3>2
    <2>5. d.settled \subseteq Keys \cup DOMAIN d.inc
      <3>1. dropped \subseteq DOMAIN b.inc
        BY <1>8 DEF BundleOK
      <3>2. b.settled \subseteq Keys \cup DOMAIN b.inc
        BY DEF BundleOK
      <3>. QED
        BY <1>4, <1>12, <3>1, <3>2
    <2>. QED
      BY <1>15, <2>1, <2>2, <2>3, <2>4, <2>5 DEF BundleOK
  <1>17. Grows(b.inc, d.inc, b.of)
    <2>1. b.inc[k].rev \in Nat
      BY <1>2, LedgerFacts DEF IncidentShapes
    <2>. QED
      BY <1>2, <1>4, <1>12, <2>1 DEF Grows
  <1>. QED
    BY <1>10, <1>12, <1>13, <1>16, <1>17 DEF Leads

LEMMA CloseLeads ==
  ASSUME NEW b, NEW elsewhere, BundleOK(b, elsewhere), NEW r \in Reasons, b.active[r] # NoKey
  PROVE  /\ Leads(b, CloseLocked(b, r), elsewhere) /\ CloseLocked(b, r).active[r] = NoKey
         /\ \A q \in Reasons \ {r} : b.active[q] # NoKey => CloseLocked(b, r).active[q] # NoKey
  <1>1. PICK d : d = MovedToPending(b, r)
    OBVIOUS
  <1>2. /\ Leads(b, d, elsewhere) /\ d.active[r] = NoKey
        /\ \A q \in Reasons \ {r} : d.active[q] = b.active[q]
    BY <1>1, MovedLeads
  <1>3. CASE CloseLocked(b, r) = d
    BY <1>2, <1>3
  <1>4. CASE r # "report_dropped" /\ CloseLocked(b, r) = Seen(d, "report_dropped")
    <2>1. PICK e : e = Seen(d, "report_dropped")
      OBVIOUS
    <2>2. BundleOK(d, elsewhere) /\ "report_dropped" \in Reasons
      BY <1>2 DEF Leads, Reasons
    <2>3. Leads(d, e, elsewhere) /\ \A q \in Reasons \ {"report_dropped"} : e.active[q] = d.active[q]
      BY <2>1, <2>2, SeenLeads
    <2>4. Leads(b, e, elsewhere)
      BY <1>2, <2>3, LeadsTrans
    <2>5. e.active[r] = NoKey
      BY <1>2, <1>4, <2>3
    <2>6. d.active["report_dropped"] # NoKey => e.active["report_dropped"] # NoKey
      <3>1. PICK i : i = Revised(d.inc, d.active["report_dropped"], FALSE)
        OBVIOUS
      <3>2. d.active["report_dropped"] # NoKey => e = [d EXCEPT !.inc = i]
        BY <2>1, <3>1 DEF Seen
      <3>3. d \in [of: Trackers, active: [Reasons -> Nat], pending: Seq(Nat), inc: Ledgers, next: Nat \ {0},
                   settled: SUBSET Nat]
        BY <2>2 DEF BundleOK
      <3>4. [d EXCEPT !.inc = i].active = d.active
        BY <3>3
      <3>. QED
        BY <3>2, <3>4
    <2>. QED
      BY <1>2, <1>4, <2>1, <2>3, <2>4, <2>5, <2>6
  <1>. QED
    BY <1>1, <1>3, <1>4 DEF CloseLocked

\* Without the element at place i, the others are left.
LEMMA RemoveAtFacts ==
  ASSUME NEW S, NEW p \in Seq(S), NEW i \in 1..Len(p)
  PROVE  /\ RemoveAt(p, i) \in Seq(S) /\ Len(RemoveAt(p, i)) = Len(p) - 1
         /\ Elems(RemoveAt(p, i)) \subseteq Elems(p) /\ Elems(p) \ {p[i]} \subseteq Elems(RemoveAt(p, i))
  <1>1. PICK s : s = SubSeq(p, 1, i - 1)
    OBVIOUS
  <1>2. PICK t : t = SubSeq(p, i + 1, Len(p))
    OBVIOUS
  <1>3. PICK n : n = Len(p)
    OBVIOUS
  <1>4. n \in Nat /\ i \in 1..n /\ DOMAIN p = 1..n
    BY <1>3
  <1>5. s \in Seq(S) /\ Len(s) = i - 1 /\ \A j \in 1..(i - 1) : s[j] = p[j]
    BY <1>1, <1>3, <1>4
  <1>6. t \in Seq(S) /\ Len(t) = n - i /\ \A j \in 1..(n - i) : t[j] = p[i + j]
    BY <1>2, <1>3, <1>4
  <1>7. PICK u : u = s \o t
    OBVIOUS
  <1>8. u \in Seq(S) /\ Len(u) = Len(s) + Len(t)
    BY <1>5, <1>6, <1>7, ConcatProperties
  <1>9. Len(u) = n - 1 /\ DOMAIN u = 1..(n - 1)
    BY <1>4, <1>5, <1>6, <1>8
  <1>10. \A j \in 1..(n - 1) : u[j] = IF j < i THEN p[j] ELSE p[j + 1]
    <2>1. SUFFICES ASSUME NEW j \in 1..(n - 1)
                   PROVE  u[j] = IF j < i THEN p[j] ELSE p[j + 1]
      OBVIOUS
    <2>2. u[j] = IF j <= i - 1 THEN s[j] ELSE t[j - (i - 1)]
      BY <1>4, <1>5, <1>6, <1>7, <1>9
    <2>3. CASE j < i
      BY <1>4, <1>5, <2>2, <2>3
    <2>4. CASE ~(j < i)
      <3>1. j - (i - 1) \in 1..(n - i) /\ i + (j - (i - 1)) = j + 1
        BY <1>4, <2>4
      <3>2. t[j - (i - 1)] = p[i + (j - (i - 1))]
        BY <1>6, <3>1
      <3>. QED
        BY <1>4, <2>2, <2>4, <3>1, <3>2
    <2>. QED
      BY <2>3, <2>4
  <1>11. ASSUME NEW x \in Elems(u)
         PROVE  x \in Elems(p)
    <2>1. PICK j \in 1..(n - 1) : x = u[j]
      BY <1>9 DEF Elems
    <2>2. PICK l \in 1..n : x = p[l]
      BY <1>4, <1>10, <2>1
    <2>. QED
      BY <1>4, <2>2 DEF Elems
  <1>12. ASSUME NEW x \in Elems(p), x # p[i]
         PROVE  x \in Elems(u)
    <2>1. PICK j \in 1..n : x = p[j]
      BY <1>4 DEF Elems
    <2>2. j # i
      BY <1>12, <2>1
    <2>3. PICK l \in 1..(n - 1) : x = u[l]
      <3>1. CASE j < i
        <4>1. j \in 1..(n - 1) /\ u[j] = p[j]
          BY <1>4, <1>10, <3>1
        <4>. QED
          BY <2>1, <4>1
      <3>2. CASE j > i
        <4>1. j - 1 \in 1..(n - 1) /\ u[j - 1] = p[j]
          BY <1>4, <1>10, <3>2
        <4>. QED
          BY <2>1, <4>1
      <3>. QED
        BY <1>4, <2>2, <3>1, <3>2
    <2>. QED
      BY <1>9, <2>3 DEF Elems
  <1>13. RemoveAt(p, i) = u
    BY <1>1, <1>2, <1>7 DEF RemoveAt
  <1>. QED
    BY <1>3, <1>8, <1>9, <1>11, <1>12, <1>13

\* An answer takes away no other incident, and none with a later revision.
LEMMA AcknowledgedFacts ==
  ASSUME NEW p \in Seq(Keys), NEW k, NEW rev
  PROVE  /\ Acknowledged(p, k, rev) \in Seq(Keys) /\ Len(Acknowledged(p, k, rev)) <= Len(p)
         /\ Elems(Acknowledged(p, k, rev)) \subseteq Elems(p)
         /\ Elems(p) \ {k} \subseteq Elems(Acknowledged(p, k, rev))
         /\ ~(inc[k].rev <= rev) => Acknowledged(p, k, rev) = p
  <1>1. CASE k \in Elems(p) /\ inc[k].rev <= rev
    <2>1. PICK i : i = CHOOSE j \in DOMAIN p : p[j] = k
      OBVIOUS
    <2>2. i \in DOMAIN p /\ p[i] = k
      BY <1>1, <2>1 DEF Elems
    <2>3. i \in 1..Len(p)
      BY <2>2
    <2>4. /\ RemoveAt(p, i) \in Seq(Keys) /\ Len(RemoveAt(p, i)) = Len(p) - 1
          /\ Elems(RemoveAt(p, i)) \subseteq Elems(p) /\ Elems(p) \ {p[i]} \subseteq Elems(RemoveAt(p, i))
      BY <2>3, RemoveAtFacts
    <2>5. Acknowledged(p, k, rev) = RemoveAt(p, i)
      BY <1>1, <2>1 DEF Acknowledged
    <2>6. Len(p) - 1 <= Len(p)
      OBVIOUS
    <2>. QED
      BY <1>1, <2>2, <2>4, <2>5, <2>6
  <1>2. CASE ~(k \in Elems(p) /\ inc[k].rev <= rev)
    <2>1. Acknowledged(p, k, rev) = p
      BY <1>2 DEF Acknowledged
    <2>2. Len(p) <= Len(p)
      OBVIOUS
    <2>. QED
      BY <2>1, <2>2
  <1>. QED
    BY <1>1, <1>2

-----------------------------------------------------------------------------
(***************************************************************************)
(* From bundles back to the state                                          *)
(***************************************************************************)
\* The part of the type invariant that trackers write, and the rest of it.
LedgerTypeOK ==
  /\ nextKey \in 1..(MaxKeys + 1)
  /\ inc \in [1..(nextKey - 1) -> Incidents]
  /\ tracker \in [Trackers -> Pending]
  /\ \A c \in Trackers : Len(tracker[c].pending) <= PendingLimit
  /\ \A c \in Trackers : \A k \in Elems(tracker[c].pending) : k \in DOMAIN inc /\ inc[k].closed /\ inc[k].of = c
  /\ \A c \in Trackers : \A r \in Reasons : tracker[c].active[r] # NoKey =>
       /\ tracker[c].active[r] \in DOMAIN inc /\ ~inc[tracker[c].active[r]].closed
       /\ inc[tracker[c].active[r]].of = c /\ inc[tracker[c].active[r]].reason = r
  /\ settled \subseteq Keys

TransitTypeOK ==
  /\ snap \in [Trackers -> SUBSET Reports]
  /\ DOMAIN queue \subseteq Keys /\ queue \in [DOMAIN queue -> QueueEntries]
  /\ Cardinality(DOMAIN queue) <= IncidentCap
  /\ toHub \subseteq Reports /\ toMember \subseteq [key: Keys, rev: 1..MaxRevision, status: Statuses]
  /\ DOMAIN rows \subseteq Keys /\ rows \in [DOMAIN rows -> [rev: 1..MaxRevision, closed: BOOLEAN]]
  /\ obsOn \in BOOLEAN /\ troubles \in 0..MaxTroubles

LEMMA TypeParts ==
  IncidentTypeOK <=> LedgerTypeOK /\ TransitTypeOK
  BY DEF IncidentTypeOK, LedgerTypeOK, TransitTypeOK

LEMMA SeqWithin ==
  ASSUME NEW S, NEW T, NEW s \in Seq(S), \A i \in DOMAIN s : s[i] \in T
  PROVE  s \in Seq(T)
  <1>1. s \in [1..Len(s) -> T] /\ Len(s) \in Nat
    OBVIOUS
  <1>. QED
    BY <1>1

LEMMA BundleStart ==
  ASSUME IncidentIInv, NEW c \in Trackers
  PROVE  BundleOK(Bundle(c), Elsewhere)
  <1>1. LedgerTypeOK
    BY TypeParts DEF IncidentIInv
  <1>2. PICK active, pending : active = tracker[c].active /\ pending = tracker[c].pending
    OBVIOUS
  <1>3. PICK b : b = [of |-> c, active |-> active, pending |-> pending, inc |-> inc, next |-> nextKey,
                      settled |-> settled]
    OBVIOUS
  <1>4. b = Bundle(c) /\ b.of = c /\ b.active = active /\ b.pending = pending /\ b.inc = inc /\ b.next = nextKey
        /\ b.settled = settled
    BY <1>2, <1>3 DEF Bundle
  <1>5. MaxKeys \in Nat /\ MaxRevision \in Nat
    BY IncidentAssumption
  <1>6. Keys \subseteq Nat /\ nextKey \in Nat \ {0} /\ nextKey - 1 \in Nat
    BY <1>1, <1>5 DEF LedgerTypeOK, Keys
  <1>7. inc \in Ledgers
    <2>1. Incidents \subseteq IncidentShapes
      BY <1>5 DEF Incidents, IncidentShapes
    <2>2. inc \in [1..(nextKey - 1) -> IncidentShapes]
      BY <1>1, <2>1 DEF LedgerTypeOK
    <2>. QED
      BY <1>6, <2>2 DEF Ledgers
  <1>8. tracker[c] \in Pending
    BY <1>1 DEF LedgerTypeOK
  <1>9. active \in [Reasons -> Nat]
    <2>1. active \in [Reasons -> Keys \cup {NoKey}]
      BY <1>2, <1>8 DEF Pending
    <2>2. Keys \cup {NoKey} \subseteq Nat
      BY <1>6 DEF NoKey
    <2>. QED
      BY <2>1, <2>2
  <1>10. pending \in Seq(Nat)
    <2>1. pending \in Seq(Keys)
      BY <1>2, <1>8 DEF Pending
    <2>3. \A i \in DOMAIN pending : pending[i] \in Keys
      BY <2>1
    <2>2. \A i \in DOMAIN pending : pending[i] \in Nat
      BY <1>6, <2>3
    <2>. QED
      BY <2>1, <2>2, SeqWithin
  <1>11. settled \subseteq Keys
    BY <1>1 DEF LedgerTypeOK
  <1>12. settled \subseteq Nat
    BY <1>6, <1>11
  <1>13. b \in [of: Trackers, active: [Reasons -> Nat], pending: Seq(Nat), inc: Ledgers, next: Nat \ {0},
                 settled: SUBSET Nat]
    BY <1>3, <1>6, <1>7, <1>9, <1>10, <1>12
  <1>14. DOMAIN b.inc = 1..(b.next - 1) /\ Len(b.pending) <= PendingLimit /\ b.settled \subseteq Keys \cup DOMAIN b.inc
    BY <1>1, <1>2, <1>4, <1>11 DEF LedgerTypeOK
  <1>15. \A k \in Elems(b.pending) : k \in DOMAIN b.inc /\ b.inc[k].closed /\ b.inc[k].of = b.of
    BY <1>1, <1>2, <1>4 DEF LedgerTypeOK
  <1>16. \A r \in Reasons : b.active[r] # NoKey =>
           /\ b.active[r] \in DOMAIN b.inc /\ ~b.inc[b.active[r]].closed
           /\ b.inc[b.active[r]].of = b.of /\ b.inc[b.active[r]].reason = r
    BY <1>1, <1>2, <1>4 DEF LedgerTypeOK
  <1>17. ASSUME NEW k \in DOMAIN b.inc, b.inc[k].closed, b.inc[k].of = b.of
         PROVE  k \in b.settled \cup Elems(b.pending) \cup Elsewhere
    <2>1. k \in DOMAIN inc /\ inc[k].closed /\ inc[k].of = c
      BY <1>4, <1>17
    <2>2. \/ k \in settled
          \/ k \in Elems(pending)
          \/ k \in DOMAIN queue /\ queue[k].closed
          \/ k \in DOMAIN rows /\ rows[k].closed
      <3>1. \/ k \in settled
            \/ k \in Elems(tracker[inc[k].of].pending)
            \/ k \in DOMAIN queue /\ queue[k].closed
            \/ k \in DOMAIN rows /\ rows[k].closed
        BY <2>1, Zenon DEF IncidentIInv, ClosedIncidentIsKept
      <3>2. Elems(tracker[inc[k].of].pending) = Elems(pending)
        BY <1>2, <2>1
      <3>. QED
        BY <3>1, <3>2, Zenon
    <2>3. k \in Keys
      <3>1. DOMAIN inc = 1..(nextKey - 1) /\ nextKey \in 1..(MaxKeys + 1)
        BY <1>1 DEF LedgerTypeOK
      <3>. QED
        BY <1>5, <2>1, <3>1 DEF Keys
    <2>. QED
      BY <1>4, <2>2, <2>3 DEF Elsewhere
  <1>18. BundleOK(b, Elsewhere)
    BY <1>13, <1>14, <1>15, <1>16, <1>17 DEF BundleOK
  <1>. QED
    BY <1>4, <1>18

LEMMA RecordLeads ==
  ASSUME IncidentIInv, NEW c \in Trackers, NEW r \in Reasons, NEW silent \in BOOLEAN, Record(c, r, silent)
  PROVE  \E d : Leads(Bundle(c), d, Elsewhere) /\ Unbundle(d)
  <1>1. PICK b : b = Bundle(c)
    OBVIOUS
  <1>2. PICK elsewhere : elsewhere = Elsewhere
    OBVIOUS
  <1>3. BundleOK(b, elsewhere)
    BY <1>1, <1>2, BundleStart
  <1>4. CASE silent /\ b.active[r] # NoKey
    <2>1. PICK e : e = CloseLocked(b, r)
      OBVIOUS
    <2>2. Leads(b, e, elsewhere) /\ e.active[r] = NoKey
      BY <1>3, <1>4, <2>1, CloseLeads
    <2>3. BundleOK(e, elsewhere)
      BY <2>2 DEF Leads
    <2>4. PICK d : d = Opened(e, r)
      OBVIOUS
    <2>5. Leads(e, d, elsewhere)
      BY <2>2, <2>3, <2>4, OpenedLeads
    <2>6. Leads(b, d, elsewhere)
      BY <1>3, <2>2, <2>5, LeadsTrans
    <2>7. Unbundle(d)
      BY <1>1, <1>4, <2>1, <2>4 DEF Record
    <2>. QED
      BY <1>1, <1>2, <2>6, <2>7
  <1>5. CASE ~(silent /\ b.active[r] # NoKey)
    <2>1. PICK d : d = Seen(b, r)
      OBVIOUS
    <2>2. Leads(b, d, elsewhere)
      BY <1>3, <2>1, SeenLeads
    <2>3. Unbundle(d)
      BY <1>1, <1>5, <2>1 DEF Record
    <2>. QED
      BY <1>1, <1>2, <2>2, <2>3
  <1>. QED
    BY <1>4, <1>5

\* The reports of a snapshot.
ReportsOf(d) == {Report(d.inc, k) : k \in ({d.active[q] : q \in Reasons} \cup Elems(d.pending)) \ {NoKey}}

LEMMA SnapshotLeads ==
  ASSUME IncidentIInv, NEW c \in Trackers, NEW first \in Reasons \cup {"none"}, NEW second \in Reasons \cup {"none"},
         first # second \/ first = "none", Snapshot(c, first, second)
  PROVE  \E d : Leads(Bundle(c), d, Elsewhere) /\ Unbundle(d) /\ snap' = [snap EXCEPT ![c] = ReportsOf(d)]
  <1>1. PICK b : b = Bundle(c)
    OBVIOUS
  <1>2. PICK elsewhere : elsewhere = Elsewhere
    OBVIOUS
  <1>3. BundleOK(b, elsewhere)
    BY <1>1, <1>2, BundleStart
  <1>4. \A r \in {first, second} \cap Reasons : b.active[r] # NoKey
    BY <1>1 DEF Snapshot
  <1>5. PICK e : e = CloseSilent(b, first)
    OBVIOUS
  <1>6. PICK d : d = CloseSilent(e, second)
    OBVIOUS
  <1>7. "none" \notin Reasons
    BY DEF Reasons
  <1>8. Leads(b, e, elsewhere) /\ (second \in Reasons => e.active[second] # NoKey)
    <2>1. CASE first \in Reasons
      <3>1. e = CloseLocked(b, first) /\ b.active[first] # NoKey
        BY <1>4, <1>5, <2>1 DEF CloseSilent
      <3>2. second \in Reasons => second \in Reasons \ {first} /\ b.active[second] # NoKey
        BY <1>4, <1>7, <2>1
      <3>. QED
        BY <1>3, <2>1, <3>1, <3>2, CloseLeads
    <2>2. CASE first \notin Reasons
      <3>1. e = b
        BY <1>5, <2>2 DEF CloseSilent
      <3>. QED
        BY <1>3, <1>4, <3>1, LeadsSelf
    <2>. QED
      BY <2>1, <2>2
  <1>9. BundleOK(e, elsewhere)
    BY <1>8 DEF Leads
  <1>10. Leads(e, d, elsewhere)
    <2>1. CASE second \in Reasons
      <3>1. d = CloseLocked(e, second)
        BY <1>6, <2>1 DEF CloseSilent
      <3>. QED
        BY <1>8, <1>9, <2>1, <3>1, CloseLeads
    <2>2. CASE second \notin Reasons
      <3>1. d = e
        BY <1>6, <2>2 DEF CloseSilent
      <3>. QED
        BY <1>9, <3>1, LeadsSelf
    <2>. QED
      BY <2>1, <2>2
  <1>11. Leads(b, d, elsewhere)
    BY <1>3, <1>8, <1>10, LeadsTrans
  <1>12. Unbundle(d) /\ snap' = [snap EXCEPT ![c] = ReportsOf(d)]
    BY <1>1, <1>5, <1>6 DEF Snapshot, ReportsOf
  <1>. QED
    BY <1>1, <1>2, <1>11, <1>12

\* A report that was true stays true: only open incidents move on.
LEMMA ToldGrows ==
  ASSUME NEW i \in Ledgers, NEW j \in Ledgers, NEW c, Grows(i, j, c), NEW k, NEW rev \in Nat, NEW closed \in BOOLEAN,
         Tells(i, k, rev, closed)
  PROVE  Tells(j, k, rev, closed)
  <1>1. k \in DOMAIN i /\ k \in DOMAIN j
    BY DEF Tells, Grows
  <1>2. i[k].rev \in Nat /\ j[k].rev \in Nat
    BY <1>1, LedgerFacts DEF IncidentShapes
  <1>3. CASE j[k] = i[k]
    BY <1>1, <1>3 DEF Tells
  <1>4. CASE j[k] # i[k]
    <2>1. ~i[k].closed /\ j[k].rev > i[k].rev
      BY <1>1, <1>4 DEF Grows
    <2>2. rev <= i[k].rev /\ ~closed
      BY <2>1 DEF Tells
    <2>3. rev <= j[k].rev /\ rev # j[k].rev
      BY <1>2, <2>1, <2>2
    <2>. QED
      BY <1>1, <2>2, <2>3 DEF Tells
  <1>. QED
    BY <1>3, <1>4

LEMMA InBundles ==
  ASSUME LedgerTypeOK
  PROVE  inc \in Ledgers /\ DOMAIN inc = 1..(nextKey - 1) /\ DOMAIN inc \subseteq Keys
  <1>1. MaxKeys \in Nat /\ MaxRevision \in Nat
    BY IncidentAssumption
  <1>2. Incidents \subseteq IncidentShapes
    BY <1>1 DEF Incidents, IncidentShapes
  <1>3. nextKey \in 1..(MaxKeys + 1) /\ inc \in [1..(nextKey - 1) -> Incidents]
    BY DEF LedgerTypeOK
  <1>4. inc \in [1..(nextKey - 1) -> IncidentShapes] /\ nextKey - 1 \in Nat
    BY <1>1, <1>2, <1>3
  <1>5. inc \in Ledgers
    BY <1>4 DEF Ledgers
  <1>. QED
    BY <1>1, <1>3, <1>5 DEF Keys

LEMMA UnbundleStep ==
  ASSUME IncidentIInv, NEW c \in Trackers, NEW d, Leads(Bundle(c), d, Elsewhere), Unbundle(d)
  PROVE  /\ LedgerTypeOK' /\ Grows(inc, inc', c) /\ settled \subseteq settled' /\ inc' = d.inc
         /\ \A k \in DOMAIN inc' : inc'[k].closed =>
              k \in settled' \/ k \in Elems(tracker'[inc'[k].of].pending) \/ k \in Elsewhere
  <1>1. LedgerTypeOK
    BY TypeParts DEF IncidentIInv
  <1>2. Bundle(c).of = c /\ Bundle(c).inc = inc /\ Bundle(c).settled = settled
    BY DEF Bundle
  <1>3. BundleOK(d, Elsewhere) /\ d.of = c /\ settled \subseteq d.settled /\ Grows(inc, d.inc, c)
    BY <1>2 DEF Leads
  <1>4. WithinBounds(d) /\ inc' = d.inc /\ nextKey' = d.next /\ settled' = d.settled
    BY DEF Unbundle
  <1>5. tracker' = [tracker EXCEPT ![c] = [active |-> d.active, pending |-> d.pending]]
    BY <1>3 DEF Unbundle
  <1>6. tracker \in [Trackers -> Pending]
    BY <1>1 DEF LedgerTypeOK
  <1>7. /\ tracker'[c].active = d.active /\ tracker'[c].pending = d.pending
        /\ \A q \in Trackers \ {c} : tracker'[q] = tracker[q]
    BY <1>5, <1>6
  <1>8. MaxKeys \in Nat /\ MaxRevision \in Nat
    BY IncidentAssumption
  <1>9. PICK n : n = d.next
    OBVIOUS
  <1>10. n \in Nat \ {0} /\ n <= MaxKeys + 1 /\ DOMAIN d.inc = 1..(n - 1)
    BY <1>3, <1>4, <1>9 DEF BundleOK, WithinBounds
  <1>11. nextKey' \in 1..(MaxKeys + 1)
    BY <1>4, <1>8, <1>9, <1>10
  <1>12. 1..(n - 1) \subseteq Keys /\ DOMAIN inc' = 1..(n - 1)
    BY <1>4, <1>8, <1>10 DEF Keys
  <1>13. d.inc \in Ledgers
    BY <1>3 DEF BundleOK
  <1>14. inc' \in [1..(nextKey' - 1) -> Incidents]
    <2>1. ASSUME NEW k \in DOMAIN d.inc
          PROVE  d.inc[k] \in Incidents
      <3>1. d.inc[k] \in IncidentShapes
        BY <1>13, LedgerFacts
      <3>2. d.inc[k].rev + (IF d.inc[k].closed THEN 0 ELSE 1) <= MaxRevision
        BY <1>4 DEF WithinBounds
      <3>3. d.inc[k].rev \in 1..MaxRevision
        BY <1>8, <3>1, <3>2 DEF IncidentShapes
      <3>. QED
        BY <3>1, <3>3 DEF IncidentShapes, Incidents
    <2>2. d.inc \in [DOMAIN d.inc -> Incidents]
      BY <1>13, <2>1 DEF Ledgers
    <2>. QED
      BY <1>4, <1>9, <1>10, <2>2
  <1>15. tracker' \in [Trackers -> Pending]
    <2>1. d.active \in [Reasons -> Keys \cup {NoKey}]
      <3>1. d.active \in [Reasons -> Nat] /\ \A r \in Reasons : d.active[r] # NoKey => d.active[r] \in DOMAIN d.inc
        BY <1>3 DEF BundleOK
      <3>2. \A r \in Reasons : d.active[r] \in Keys \cup {NoKey}
        BY <1>10, <1>12, <3>1
      <3>. QED
        BY <3>1, <3>2
    <2>2. d.pending \in Seq(Keys)
      <3>1. d.pending \in Seq(Nat) /\ \A k \in Elems(d.pending) : k \in DOMAIN d.inc
        BY <1>3 DEF BundleOK
      <3>2. \A j \in DOMAIN d.pending : d.pending[j] \in Elems(d.pending)
        BY DEF Elems
      <3>3. \A j \in DOMAIN d.pending : d.pending[j] \in Keys
        BY <1>10, <1>12, <3>1, <3>2
      <3>. QED
        BY <3>1, <3>3, SeqWithin
    <2>3. [active |-> d.active, pending |-> d.pending] \in Pending
      BY <2>1, <2>2 DEF Pending
    <2>. QED
      BY <1>5, <1>6, <2>3
  <1>16. \A q \in Trackers : Len(tracker'[q].pending) <= PendingLimit
    BY <1>1, <1>3, <1>7 DEF LedgerTypeOK, BundleOK
  <1>17. ASSUME NEW k \in DOMAIN inc, inc[k].of # c \/ inc[k].closed
         PROVE  k \in DOMAIN inc' /\ inc'[k] = inc[k]
    BY <1>3, <1>4, <1>17 DEF Grows
  <1>18. ASSUME NEW q \in Trackers, NEW k \in Elems(tracker'[q].pending)
         PROVE  k \in DOMAIN inc' /\ inc'[k].closed /\ inc'[k].of = q
    <2>1. CASE q = c
      <3>1. k \in Elems(d.pending)
        BY <1>7, <1>18, <2>1
      <3>. QED
        BY <1>3, <1>4, <2>1, <3>1 DEF BundleOK
    <2>2. CASE q # c
      <3>1. k \in Elems(tracker[q].pending)
        BY <1>7, <1>18, <2>2
      <3>2. k \in DOMAIN inc /\ inc[k].closed /\ inc[k].of = q
        BY <1>1, <3>1 DEF LedgerTypeOK
      <3>. QED
        BY <1>17, <3>2
    <2>. QED
      BY <2>1, <2>2
  <1>19. ASSUME NEW q \in Trackers, NEW r \in Reasons, tracker'[q].active[r] # NoKey
         PROVE  /\ tracker'[q].active[r] \in DOMAIN inc' /\ ~inc'[tracker'[q].active[r]].closed
                /\ inc'[tracker'[q].active[r]].of = q /\ inc'[tracker'[q].active[r]].reason = r
    <2>1. CASE q = c
      BY <1>3, <1>4, <1>7, <1>19, <2>1 DEF BundleOK
    <2>2. CASE q # c
      <3>1. PICK k : k = tracker[q].active[r]
        OBVIOUS
      <3>2. tracker'[q].active[r] = k
        BY <1>7, <2>2, <3>1
      <3>3. k \in DOMAIN inc /\ ~inc[k].closed /\ inc[k].of = q /\ inc[k].reason = r
        BY <1>1, <1>19, <3>1, <3>2 DEF LedgerTypeOK
      <3>4. k \in DOMAIN inc' /\ inc'[k] = inc[k]
        BY <1>17, <2>2, <3>3
      <3>. QED
        BY <3>2, <3>3, <3>4
    <2>. QED
      BY <2>1, <2>2
  <1>20. settled' \subseteq Keys
    BY <1>3, <1>4, <1>10, <1>12 DEF BundleOK
  <1>21. LedgerTypeOK'
    BY <1>11, <1>14, <1>15, <1>16, <1>18, <1>19, <1>20 DEF LedgerTypeOK
  <1>22. ASSUME NEW k \in DOMAIN inc', inc'[k].closed
         PROVE  k \in settled' \/ k \in Elems(tracker'[inc'[k].of].pending) \/ k \in Elsewhere
    <2>1. CASE inc'[k].of = c
      <3>1. k \in d.settled \cup Elems(d.pending) \cup Elsewhere
        BY <1>3, <1>4, <1>22, <2>1 DEF BundleOK
      <3>. QED
        BY <1>4, <1>7, <2>1, <3>1
    <2>2. CASE inc'[k].of # c
      <3>1. k \in DOMAIN inc /\ inc'[k] = inc[k]
        BY <1>3, <1>4, <2>2 DEF Grows
      <3>2. inc[k].of \in Trackers \ {c}
        BY <1>1, <2>2, <3>1 DEF LedgerTypeOK, Incidents
      <3>3. tracker'[inc'[k].of] = tracker[inc[k].of]
        BY <1>7, <3>1, <3>2
      <3>4. \/ k \in settled
            \/ k \in Elems(tracker[inc[k].of].pending)
            \/ k \in DOMAIN queue /\ queue[k].closed
            \/ k \in DOMAIN rows /\ rows[k].closed
        BY <1>22, <3>1 DEF IncidentIInv, ClosedIncidentIsKept
      <3>5. k \in Keys
        BY <1>12
      <3>. QED
        BY <1>3, <1>4, <3>3, <3>4, <3>5 DEF Elsewhere
    <2>. QED
      BY <2>1, <2>2
  <1>. QED
    BY <1>3, <1>4, <1>21, <1>22

\* Every tracker operation keeps the invariant, whatever it reports, if the reports are true.
LEMMA TrackerStep ==
  ASSUME IncidentIInv, NEW c \in Trackers, NEW d, Leads(Bundle(c), d, Elsewhere), Unbundle(d),
         TransitTypeOK', rows' = rows, toHub' = toHub, toMember' = toMember,
         DOMAIN queue' = DOMAIN queue,
         \A k \in DOMAIN queue : queue'[k].rev = queue[k].rev /\ queue'[k].closed = queue[k].closed,
         \A q \in Trackers : \A m \in snap'[q] : m \in snap[q] \/ Tells(inc', m.key, m.rev, m.closed)
  PROVE  IncidentIInv'
  <1>1. LedgerTypeOK /\ TransitTypeOK
    BY TypeParts DEF IncidentIInv
  <1>2. /\ LedgerTypeOK' /\ Grows(inc, inc', c) /\ settled \subseteq settled'
        /\ \A k \in DOMAIN inc' : inc'[k].closed =>
             k \in settled' \/ k \in Elems(tracker'[inc'[k].of].pending) \/ k \in Elsewhere
    BY UnbundleStep
  <1>3. inc \in Ledgers /\ inc' \in Ledgers
    <2>1. inc \in Ledgers
      BY <1>1, InBundles
    <2>2. inc' = d.inc /\ d.inc \in Ledgers
      BY DEF Leads, BundleOK, Unbundle
    <2>. QED
      BY <2>1, <2>2
  <1>4. MaxRevision \in Nat
    BY IncidentAssumption
  <1>5. ASSUME NEW k, NEW rev \in Nat, NEW closed \in BOOLEAN, Tells(inc, k, rev, closed)
        PROVE  Tells(inc', k, rev, closed)
    BY <1>2, <1>3, <1>5, ToldGrows
  <1>6. ReportsTrue'
    <2>1. ASSUME NEW q \in Trackers, NEW m \in snap'[q]
          PROVE  Tells(inc', m.key, m.rev, m.closed)
      <3>1. CASE m \in snap[q]
        <4>1. m \in Reports
          BY <1>1, <3>1 DEF TransitTypeOK
        <4>2. m.rev \in Nat /\ m.closed \in BOOLEAN
          BY <1>4, <4>1 DEF Reports
        <4>3. Tells(inc, m.key, m.rev, m.closed)
          BY <3>1 DEF IncidentIInv, ReportsTrue
        <4>. QED
          BY <1>5, <4>2, <4>3
      <3>. QED
        BY <2>1, <3>1
    <2>2. ASSUME NEW m \in toHub
          PROVE  Tells(inc', m.key, m.rev, m.closed)
      <3>1. m \in Reports
        BY <1>1, <2>2 DEF TransitTypeOK
      <3>2. m.rev \in Nat /\ m.closed \in BOOLEAN
        BY <1>4, <3>1 DEF Reports
      <3>3. Tells(inc, m.key, m.rev, m.closed)
        BY <2>2 DEF IncidentIInv, ReportsTrue
      <3>. QED
        BY <1>5, <3>2, <3>3
    <2>3. ASSUME NEW k \in DOMAIN queue
          PROVE  Tells(inc', k, queue[k].rev, queue[k].closed)
      <3>1. queue[k] \in QueueEntries
        BY <1>1 DEF TransitTypeOK
      <3>2. queue[k].rev \in Nat /\ queue[k].closed \in BOOLEAN
        BY <1>4, <3>1 DEF QueueEntries
      <3>3. Tells(inc, k, queue[k].rev, queue[k].closed)
        BY DEF IncidentIInv, ReportsTrue
      <3>. QED
        BY <1>5, <3>2, <3>3
    <2>4. \A k \in DOMAIN queue' : Tells(inc', k, queue'[k].rev, queue'[k].closed)
      BY <2>3
    <2>. QED
      BY <2>1, <2>2, <2>4 DEF ReportsTrue
  <1>7. AcksTrue'
    <2>1. ASSUME NEW a \in toMember
          PROVE  /\ a.key \in DOMAIN inc' /\ a.rev <= inc'[a.key].rev
                 /\ a.status # "retryable" /\ inc'[a.key].closed /\ a.rev = inc'[a.key].rev => EndStored(a.key)'
      <3>1. PICK k : k = a.key
        OBVIOUS
      <3>2. /\ k \in DOMAIN inc /\ a.rev <= inc[k].rev
            /\ a.status # "retryable" /\ inc[k].closed /\ a.rev = inc[k].rev => EndStored(k)
        BY <3>1 DEF IncidentIInv, AcksTrue
      <3>3. a \in [key: Keys, rev: 1..MaxRevision, status: Statuses]
        BY <1>1, <2>1 DEF TransitTypeOK
      <3>4. a.rev \in Nat
        BY <1>4, <3>3
      <3>5. k \in DOMAIN inc'
        BY <1>2, <3>2 DEF Grows
      <3>6. inc[k].rev \in Nat /\ inc'[k].rev \in Nat
        BY <1>3, <3>2, <3>5, LedgerFacts DEF IncidentShapes
      <3>7. CASE inc'[k] = inc[k]
        <4>1. EndStored(k) => EndStored(k)'
          BY <1>2 DEF EndStored
        <4>. QED
          BY <3>1, <3>2, <3>5, <3>7, <4>1
      <3>8. CASE inc'[k] # inc[k]
        <4>1. inc'[k].rev > inc[k].rev
          BY <1>2, <3>2, <3>8 DEF Grows
        <4>2. a.rev <= inc'[k].rev /\ a.rev # inc'[k].rev
          BY <3>2, <3>4, <3>6, <4>1
        <4>. QED
          BY <3>1, <3>5, <4>2
      <3>. QED
        BY <3>7, <3>8
    <2>. QED
      BY <2>1 DEF AcksTrue
  <1>8. ClosedIncidentIsKept'
    <2>1. \A k \in Elsewhere : (k \in DOMAIN queue' /\ queue'[k].closed) \/ (k \in DOMAIN rows' /\ rows'[k].closed)
      BY DEF Elsewhere
    <2>. QED
      BY <1>2, <2>1 DEF ClosedIncidentIsKept
  <1>9. IncidentTypeOK'
    <2>1. LedgerTypeOK' /\ TransitTypeOK' => IncidentTypeOK'
      BY TypeParts DEF IncidentTypeOK, LedgerTypeOK, TransitTypeOK
    <2>. QED
      BY <1>2, <2>1
  <1>. QED
    BY <1>6, <1>7, <1>8, <1>9 DEF IncidentIInv

LEMMA RecordStep ==
  ASSUME IncidentIInv, NEW c \in Trackers, NEW r \in Reasons, NEW silent \in BOOLEAN, Record(c, r, silent),
         TransitTypeOK', rows' = rows, toHub' = toHub, toMember' = toMember,
         DOMAIN queue' = DOMAIN queue,
         \A k \in DOMAIN queue : queue'[k].rev = queue[k].rev /\ queue'[k].closed = queue[k].closed,
         \A q \in Trackers : snap'[q] \subseteq snap[q]
  PROVE  IncidentIInv'
  <1>1. PICK d : Leads(Bundle(c), d, Elsewhere) /\ Unbundle(d)
    BY RecordLeads
  <1>2. \A q \in Trackers : \A m \in snap'[q] : m \in snap[q] \/ Tells(inc', m.key, m.rev, m.closed)
    OBVIOUS
  <1>. QED
    BY <1>1, <1>2, TrackerStep

\* A snapshot tells what the incidents are.
LEMMA SnapshotStep ==
  ASSUME IncidentIInv, NEW c \in Trackers, NEW first \in Reasons \cup {"none"}, NEW second \in Reasons \cup {"none"},
         TakeSnapshot(c, first, second)
  PROVE  IncidentIInv'
  <1>1. /\ first # second \/ first = "none"
        /\ Snapshot(c, first, second)
        /\ queue' = queue /\ toHub' = toHub /\ toMember' = toMember /\ rows' = rows /\ obsOn' = obsOn
        /\ troubles' = troubles
    BY DEF TakeSnapshot
  <1>2. PICK d : Leads(Bundle(c), d, Elsewhere) /\ Unbundle(d) /\ snap' = [snap EXCEPT ![c] = ReportsOf(d)]
    BY <1>1, SnapshotLeads
  <1>3. LedgerTypeOK' /\ inc' = d.inc
    BY <1>2, UnbundleStep
  <1>4. TransitTypeOK
    BY TypeParts DEF IncidentIInv
  <1>5. inc' \in [DOMAIN inc' -> Incidents] /\ DOMAIN inc' \subseteq Keys
    <2>1. nextKey' \in 1..(MaxKeys + 1) /\ inc' \in [1..(nextKey' - 1) -> Incidents] /\ MaxKeys \in Nat
      BY <1>3, IncidentAssumption DEF LedgerTypeOK
    <2>2. 1..(nextKey' - 1) \subseteq Keys
      <3>1. PICK n : n = nextKey'
        OBVIOUS
      <3>2. n \in 1..(MaxKeys + 1) /\ MaxKeys \in Nat
        BY <2>1, <3>1
      <3>3. 1..(n - 1) \subseteq 1..MaxKeys
        BY <3>2
      <3>. QED
        BY <3>1, <3>3 DEF Keys
    <2>3. DOMAIN inc' = 1..(nextKey' - 1)
      BY <2>1
    <2>. QED
      BY <2>1, <2>2, <2>3
  <1>6. \A k \in ({d.active[q] : q \in Reasons} \cup Elems(d.pending)) \ {NoKey} : k \in DOMAIN inc'
    BY <1>2, <1>3 DEF Leads, BundleOK
  <1>7. ASSUME NEW m \in ReportsOf(d)
        PROVE  m \in Reports /\ Tells(inc', m.key, m.rev, m.closed)
    <2>1. PICK k \in ({d.active[q] : q \in Reasons} \cup Elems(d.pending)) \ {NoKey} : m = Report(d.inc, k)
      BY <1>7 DEF ReportsOf
    <2>2. k \in DOMAIN inc' /\ m = [key |-> k, rev |-> inc'[k].rev, closed |-> inc'[k].closed]
      BY <1>3, <1>6, <2>1 DEF Report
    <2>3. inc'[k] \in Incidents /\ k \in Keys
      BY <1>5, <2>2
    <2>4. inc'[k].rev \in 1..MaxRevision /\ inc'[k].closed \in BOOLEAN /\ MaxRevision \in Nat
      BY <2>3, IncidentAssumption DEF Incidents
    <2>5. m \in Reports
      BY <2>2, <2>3, <2>4 DEF Reports
    <2>6. m.key = k /\ m.rev = inc'[k].rev /\ m.closed = inc'[k].closed /\ inc'[k].rev <= inc'[k].rev
      BY <2>2, <2>4
    <2>. QED
      BY <2>2, <2>5, <2>6 DEF Tells
  <1>8. snap \in [Trackers -> SUBSET Reports]
    BY <1>4 DEF TransitTypeOK
  <1>9. snap' \in [Trackers -> SUBSET Reports]
    BY <1>2, <1>7, <1>8
  <1>10. TransitTypeOK'
    BY <1>1, <1>4, <1>9 DEF TransitTypeOK
  <1>11. \A q \in Trackers : \A m \in snap'[q] : m \in snap[q] \/ Tells(inc', m.key, m.rev, m.closed)
    BY <1>2, <1>7, <1>8
  <1>. QED
    BY <1>1, <1>2, <1>10, <1>11, TrackerStep

-----------------------------------------------------------------------------
(***************************************************************************)
(* The operators of the queue, the rows and the acknowledgements           *)
(***************************************************************************)
\* Keys of anything reported are keys of incidents; the reported end is the last revision.
LEMMA ToldFacts ==
  ASSUME LedgerTypeOK, NEW k, NEW rev \in Nat, NEW closed \in BOOLEAN, Tells(inc, k, rev, closed)
  PROVE  /\ k \in DOMAIN inc /\ inc[k].rev \in Nat /\ inc[k].closed \in BOOLEAN /\ rev <= inc[k].rev
         /\ inc[k].closed /\ inc[k].rev <= rev => closed
         /\ closed => inc[k].closed /\ rev = inc[k].rev
  <1>1. k \in DOMAIN inc /\ rev <= inc[k].rev /\ (closed <=> inc[k].closed /\ rev = inc[k].rev)
    BY DEF Tells
  <1>2. inc[k] \in IncidentShapes
    BY <1>1, InBundles, LedgerFacts
  <1>3. inc[k].rev \in Nat /\ inc[k].closed \in BOOLEAN
    BY <1>2 DEF IncidentShapes
  <1>4. inc[k].rev <= rev => rev = inc[k].rev
    BY <1>1, <1>3
  <1>. QED
    BY <1>1, <1>3, <1>4

LEMMA QueueIsFinite ==
  ASSUME NEW S, S \subseteq Keys
  PROVE  IsFiniteSet(S) /\ Cardinality(S) \in Nat
  <1>1. IsFiniteSet(Keys)
    BY IncidentAssumption, FS_Interval DEF Keys
  <1>2. IsFiniteSet(S)
    BY <1>1, FS_Subset
  <1>. QED
    BY <1>2, FS_CardinalityType

\* Enqueueing a true report leaves a queue of true reports and no end behind.
LEMMA EnqueuedFacts ==
  ASSUME IncidentIInv, NEW m \in Reports, Tells(inc, m.key, m.rev, m.closed), Accepts(m)
  PROVE  /\ DOMAIN Enqueued(m) \subseteq Keys /\ Enqueued(m) \in [DOMAIN Enqueued(m) -> QueueEntries]
         /\ Cardinality(DOMAIN Enqueued(m)) <= IncidentCap
         /\ \A k \in DOMAIN Enqueued(m) : Tells(inc, k, Enqueued(m)[k].rev, Enqueued(m)[k].closed)
         /\ \A k \in DOMAIN queue : queue[k].closed => k \in DOMAIN Enqueued(m) /\ Enqueued(m)[k].closed
         /\ m.closed => m.key \in DOMAIN Enqueued(m) /\ Enqueued(m)[m.key].closed
  <1>1. LedgerTypeOK /\ TransitTypeOK
    BY TypeParts DEF IncidentIInv
  <1>2. PICK k, rev, closed : k = m.key /\ rev = m.rev /\ closed = m.closed
    OBVIOUS
  <1>3. MaxRevision \in Nat /\ IncidentCap \in Nat
    BY IncidentAssumption
  <1>4. k \in Keys /\ rev \in 1..MaxRevision /\ closed \in BOOLEAN /\ Tells(inc, k, rev, closed)
    BY <1>2 DEF Reports
  <1>5. rev \in Nat
    BY <1>3, <1>4
  <1>6. DOMAIN queue \subseteq Keys /\ queue \in [DOMAIN queue -> QueueEntries] /\ Cardinality(DOMAIN queue) <= IncidentCap
    BY <1>1 DEF TransitTypeOK
  <1>7. \A j \in DOMAIN queue : Tells(inc, j, queue[j].rev, queue[j].closed)
    BY DEF IncidentIInv, ReportsTrue
  <1>8. PICK e : e = Enqueued(m)
    OBVIOUS
  <1>9. CASE k \in DOMAIN queue
    <2>1. queue[k] \in QueueEntries
      BY <1>6, <1>9
    <2>2. queue[k].rev \in Nat /\ queue[k].closed \in BOOLEAN
      BY <1>3, <2>1 DEF QueueEntries
    <2>3. CASE rev > queue[k].rev
      <3>1. PICK entry : entry = [queue[k] EXCEPT !.rev = rev, !.closed = closed]
        OBVIOUS
      <3>2. entry \in QueueEntries /\ entry.rev = rev /\ entry.closed = closed
        BY <1>4, <2>1, <3>1 DEF QueueEntries
      <3>3. e = [queue EXCEPT ![k] = entry]
        BY <1>2, <1>8, <1>9, <2>3, <3>1 DEF Enqueued
      <3>4. /\ DOMAIN e = DOMAIN queue /\ e \in [DOMAIN e -> QueueEntries] /\ e[k] = entry
            /\ \A j \in DOMAIN queue \ {k} : e[j] = queue[j]
        BY <1>6, <1>9, <3>2, <3>3
      <3>5. ~queue[k].closed
        <4>1. Tells(inc, k, queue[k].rev, queue[k].closed)
          BY <1>7, <1>9
        <4>2. queue[k].closed => queue[k].rev = inc[k].rev
          BY <1>1, <2>2, <4>1, ToldFacts
        <4>3. rev <= inc[k].rev /\ inc[k].rev \in Nat
          BY <1>1, <1>4, <1>5, ToldFacts
        <4>. QED
          BY <1>5, <2>2, <2>3, <4>2, <4>3
      <3>6. \A j \in DOMAIN e : Tells(inc, j, e[j].rev, e[j].closed)
        BY <1>4, <1>7, <3>2, <3>4
      <3>7. \A j \in DOMAIN queue : queue[j].closed => j \in DOMAIN e /\ e[j].closed
        BY <3>4, <3>5
      <3>. QED
        BY <1>2, <1>6, <1>8, <1>9, <3>2, <3>4, <3>6, <3>7
    <2>4. CASE ~(rev > queue[k].rev)
      <3>1. e = queue
        BY <1>2, <1>8, <1>9, <2>4 DEF Enqueued
      <3>2. closed => queue[k].closed
        <4>1. closed => inc[k].closed /\ rev = inc[k].rev
          BY <1>1, <1>4, <1>5, ToldFacts
        <4>2. Tells(inc, k, queue[k].rev, queue[k].closed)
          BY <1>7, <1>9
        <4>3. inc[k].closed /\ inc[k].rev <= queue[k].rev => queue[k].closed
          BY <1>1, <2>2, <4>2, ToldFacts
        <4>4. closed => inc[k].rev <= queue[k].rev
          BY <1>5, <2>2, <2>4, <4>1
        <4>. QED
          BY <4>1, <4>3, <4>4
      <3>. QED
        BY <1>2, <1>6, <1>7, <1>8, <1>9, <3>1, <3>2
    <2>. QED
      BY <2>3, <2>4
  <1>10. CASE k \notin DOMAIN queue
    <2>1. PICK entry : entry = [rev |-> rev, closed |-> closed, inFlight |-> FALSE, sentRev |-> 0]
      OBVIOUS
    <2>2. entry \in QueueEntries /\ entry.rev = rev /\ entry.closed = closed
      BY <1>3, <1>4, <2>1 DEF QueueEntries
    <2>3. e = [j \in DOMAIN queue \cup {k} |-> IF j = k THEN entry ELSE queue[j]]
      BY <1>2, <1>8, <1>10, <2>1 DEF Enqueued, Queued
    <2>4. /\ DOMAIN e = DOMAIN queue \cup {k} /\ e \in [DOMAIN e -> QueueEntries] /\ e[k] = entry
          /\ \A j \in DOMAIN queue : e[j] = queue[j]
      BY <1>6, <1>10, <2>2, <2>3
    <2>5. Cardinality(DOMAIN e) <= IncidentCap
      <3>1. IsFiniteSet(DOMAIN queue) /\ Cardinality(DOMAIN queue) \in Nat
        BY <1>6, QueueIsFinite
      <3>2. Cardinality(DOMAIN queue) < IncidentCap
        BY <1>2, <1>10 DEF Accepts
      <3>3. Cardinality(DOMAIN queue \cup {k}) = Cardinality(DOMAIN queue) + 1
        BY <1>10, <3>1, FS_AddElement
      <3>. QED
        BY <1>3, <2>4, <3>1, <3>2, <3>3
    <2>6. \A j \in DOMAIN e : Tells(inc, j, e[j].rev, e[j].closed)
      BY <1>4, <1>7, <2>2, <2>4
    <2>. QED
      BY <1>2, <1>4, <1>6, <1>8, <2>2, <2>4, <2>5, <2>6
  <1>. QED
    BY <1>9, <1>10

\* Merging a report leaves no stored end behind, whatever the order.
LEMMA UpsertedFacts ==
  ASSUME TransitTypeOK, NEW m \in Reports
  PROVE  /\ DOMAIN Upserted(m) \subseteq Keys
         /\ Upserted(m) \in [DOMAIN Upserted(m) -> [rev: 1..MaxRevision, closed: BOOLEAN]]
         /\ \A k \in DOMAIN rows : k \in DOMAIN Upserted(m) /\ (rows[k].closed => Upserted(m)[k].closed)
         /\ m.key \in DOMAIN Upserted(m) /\ (m.closed => Upserted(m)[m.key].closed)
  <1>1. PICK k, rev, closed : k = m.key /\ rev = m.rev /\ closed = m.closed
    OBVIOUS
  <1>2. k \in Keys /\ rev \in 1..MaxRevision /\ closed \in BOOLEAN
    BY <1>1 DEF Reports
  <1>3. DOMAIN rows \subseteq Keys /\ rows \in [DOMAIN rows -> [rev: 1..MaxRevision, closed: BOOLEAN]]
    BY DEF TransitTypeOK
  <1>4. PICK old : old = IF k \in DOMAIN rows THEN rows[k] ELSE [rev |-> rev, closed |-> closed]
    OBVIOUS
  <1>5. old \in [rev: 1..MaxRevision, closed: BOOLEAN]
    BY <1>2, <1>3, <1>4
  <1>6. PICK row : row = [rev |-> IF rev > old.rev THEN rev ELSE old.rev, closed |-> old.closed \/ closed]
    OBVIOUS
  <1>7. row \in [rev: 1..MaxRevision, closed: BOOLEAN] /\ row.closed = (old.closed \/ closed)
    BY <1>2, <1>5, <1>6
  <1>8. PICK e : e = [j \in DOMAIN rows \cup {k} |-> IF j # k THEN rows[j] ELSE row]
    OBVIOUS
  <1>9. e = Upserted(m)
    BY <1>1, <1>4, <1>6, <1>8 DEF Upserted
  <1>10. /\ DOMAIN e = DOMAIN rows \cup {k} /\ e \in [DOMAIN e -> [rev: 1..MaxRevision, closed: BOOLEAN]]
         /\ e[k] = row /\ \A j \in DOMAIN rows \ {k} : e[j] = rows[j]
    BY <1>3, <1>7, <1>8
  <1>11. k \in DOMAIN rows /\ rows[k].closed => e[k].closed
    BY <1>4, <1>7, <1>10
  <1>. QED
    BY <1>1, <1>2, <1>3, <1>7, <1>9, <1>10, <1>11

\* An acknowledgement takes one closed incident from one tracker, and only at its last revision.
LEMMA AcknowledgeStep ==
  ASSUME LedgerTypeOK, NEW c \in Trackers, NEW k, NEW rev, tracker' = Acknowledge(c, k, rev),
         inc' = inc, nextKey' = nextKey, settled' \subseteq Keys
  PROVE  /\ LedgerTypeOK'
         /\ \A j \in DOMAIN inc : j # k \/ ~(inc[j].rev <= rev) =>
              (j \in Elems(tracker[inc[j].of].pending) => j \in Elems(tracker'[inc[j].of].pending))
  <1>1. tracker \in [Trackers -> Pending]
    BY DEF LedgerTypeOK
  <1>2. tracker[c] \in Pending
    BY <1>1
  <1>3. PICK active, pending : active = tracker[c].active /\ pending = tracker[c].pending
    OBVIOUS
  <1>4. active \in [Reasons -> Keys \cup {NoKey}] /\ pending \in Seq(Keys)
    BY <1>2, <1>3 DEF Pending
  <1>5. PICK p : p = Acknowledged(pending, k, rev)
    OBVIOUS
  <1>6. /\ p \in Seq(Keys) /\ Len(p) <= Len(pending) /\ Elems(p) \subseteq Elems(pending)
        /\ Elems(pending) \ {k} \subseteq Elems(p) /\ (~(inc[k].rev <= rev) => p = pending)
    BY <1>4, <1>5, AcknowledgedFacts
  <1>7. tracker' = [tracker EXCEPT ![c] = [active |-> active, pending |-> p]]
    BY <1>1, <1>3, <1>5 DEF Acknowledge
  <1>8. [active |-> active, pending |-> p] \in Pending
    BY <1>4, <1>6 DEF Pending
  <1>9. /\ tracker' \in [Trackers -> Pending] /\ tracker'[c].active = active /\ tracker'[c].pending = p
        /\ \A q \in Trackers \ {c} : tracker'[q] = tracker[q]
    BY <1>1, <1>7, <1>8
  <1>10. \A q \in Trackers : Len(tracker'[q].pending) <= PendingLimit
    <2>1. Len(pending) <= PendingLimit /\ Len(p) \in Nat /\ Len(pending) \in Nat /\ PendingLimit \in Nat
      BY <1>3, <1>4, <1>6, IncidentAssumption DEF LedgerTypeOK
    <2>2. Len(p) <= PendingLimit
      BY <1>6, <2>1
    <2>. QED
      BY <1>9, <2>2 DEF LedgerTypeOK
  <1>11. \A q \in Trackers : \A j \in Elems(tracker'[q].pending) : j \in Elems(tracker[q].pending)
    BY <1>3, <1>6, <1>9
  <1>12. \A q \in Trackers : tracker'[q].active = tracker[q].active
    BY <1>3, <1>9
  <1>13. LedgerTypeOK'
    <2>1. nextKey' \in 1..(MaxKeys + 1) /\ inc' \in [1..(nextKey' - 1) -> Incidents]
      BY DEF LedgerTypeOK
    <2>2. \A q \in Trackers : \A j \in Elems(tracker'[q].pending) : j \in DOMAIN inc' /\ inc'[j].closed /\ inc'[j].of = q
      BY <1>11 DEF LedgerTypeOK
    <2>3. \A q \in Trackers : \A r \in Reasons : tracker'[q].active[r] # NoKey =>
            /\ tracker'[q].active[r] \in DOMAIN inc' /\ ~inc'[tracker'[q].active[r]].closed
            /\ inc'[tracker'[q].active[r]].of = q /\ inc'[tracker'[q].active[r]].reason = r
      BY <1>12 DEF LedgerTypeOK
    <2>. QED
      BY <1>9, <1>10, <2>1, <2>2, <2>3 DEF LedgerTypeOK
  <1>14. ASSUME NEW j \in DOMAIN inc, j # k \/ ~(inc[j].rev <= rev), j \in Elems(tracker[inc[j].of].pending)
         PROVE  j \in Elems(tracker'[inc[j].of].pending)
    <2>1. inc[j].of \in Trackers
      BY DEF LedgerTypeOK, Incidents
    <2>2. CASE inc[j].of # c
      BY <1>9, <1>14, <2>1, <2>2
    <2>3. CASE inc[j].of = c
      <3>1. j \in Elems(pending)
        BY <1>3, <1>14, <2>3
      <3>2. j \in Elems(p)
        BY <1>6, <1>14, <3>1
      <3>. QED
        BY <1>9, <2>3, <3>2
    <2>. QED
      BY <2>2, <2>3
  <1>. QED
    BY <1>13, <1>14

-----------------------------------------------------------------------------
(***************************************************************************)
(* One lemma per action.  A step that leaves the incidents as they are     *)
(* keeps the invariant if the reports and answers it leaves are true and   *)
(* no end is lost.                                                         *)
(***************************************************************************)
LEMMA Unpacked ==
  ASSUME IncidentIInv
  PROVE  /\ LedgerTypeOK /\ TransitTypeOK
         /\ \A c \in Trackers : \A m \in snap[c] : m \in Reports /\ Tells(inc, m.key, m.rev, m.closed)
         /\ \A m \in toHub : m \in Reports /\ Tells(inc, m.key, m.rev, m.closed)
         /\ \A k \in DOMAIN queue : Tells(inc, k, queue[k].rev, queue[k].closed)
  <1>1. LedgerTypeOK /\ TransitTypeOK
    BY TypeParts DEF IncidentIInv
  <1>2. (\A c \in Trackers : \A m \in snap[c] : m \in Reports) /\ (\A m \in toHub : m \in Reports)
    BY <1>1 DEF TransitTypeOK
  <1>. QED
    BY <1>1, <1>2 DEF IncidentIInv, ReportsTrue

LEMMA Packed ==
  ASSUME LedgerTypeOK', TransitTypeOK', ReportsTrue', AcksTrue', ClosedIncidentIsKept'
  PROVE  IncidentIInv'
  BY DEF IncidentIInv, IncidentTypeOK, LedgerTypeOK, TransitTypeOK

\* The reports on their way are a part of those there were.
LEMMA FewerReports ==
  ASSUME IncidentIInv, inc' = inc, \A c \in Trackers : snap'[c] \subseteq snap[c], toHub' \subseteq toHub,
         DOMAIN queue' \subseteq DOMAIN queue,
         \A k \in DOMAIN queue' : queue'[k].rev = queue[k].rev /\ queue'[k].closed = queue[k].closed
  PROVE  ReportsTrue'
  BY Unpacked DEF ReportsTrue

\* The answers on their way are a part of those there were, and stored ends stay stored.
LEMMA FewerAnswers ==
  ASSUME IncidentIInv, inc' = inc, toMember' \subseteq toMember, \A k : EndStored(k) => EndStored(k)'
  PROVE  AcksTrue'
  BY DEF IncidentIInv, AcksTrue

LEMMA SameLedger ==
  ASSUME LedgerTypeOK, inc' = inc, nextKey' = nextKey, tracker' = tracker, settled' \subseteq Keys
  PROVE  LedgerTypeOK'
  BY DEF LedgerTypeOK

LEMMA FreshTracker ==
  EmptyTracker \in Pending /\ Elems(EmptyTracker.pending) = {} /\ Len(EmptyTracker.pending) = 0
  /\ \A r \in Reasons : EmptyTracker.active[r] = NoKey
  BY DEF EmptyTracker, Pending, Elems

LEMMA RecordIncidentKeeps ==
  ASSUME IncidentIInv, NEW c \in Trackers, NEW silent \in BOOLEAN, RecordIncident(c, silent)
  PROVE  IncidentIInv'
  <1>1. /\ Record(c, "link_failure", silent) /\ snap' = snap /\ queue' = queue /\ toHub' = toHub /\ toMember' = toMember
        /\ rows' = rows /\ obsOn' = obsOn /\ troubles' = troubles
    BY DEF RecordIncident
  <1>2. TransitTypeOK'
    BY <1>1, Unpacked DEF TransitTypeOK
  <1>3. "link_failure" \in Reasons
    BY DEF Reasons
  <1>. QED
    BY <1>1, <1>2, <1>3, RecordStep

LEMMA PostIncidentKeeps ==
  ASSUME IncidentIInv, NEW m \in Reports, NEW replied \in BOOLEAN, PostIncident(m, replied)
  PROVE  IncidentIInv'
  <1>0. "webhook" \in Trackers
    BY DEF Trackers
  <1>1. LedgerTypeOK /\ TransitTypeOK /\ Tells(inc, m.key, m.rev, m.closed)
    BY <1>0, Unpacked DEF PostIncident
  <1>2. /\ inc' = inc /\ nextKey' = nextKey /\ toHub' = toHub /\ toMember' = toMember /\ rows' = rows /\ obsOn' = obsOn
        /\ settled' = IF obsOn THEN settled ELSE settled \cup {m.key}
        /\ queue' = IF obsOn /\ Accepts(m) THEN Enqueued(m) ELSE queue
    BY DEF PostIncident
  <1>3. m.key \in Keys /\ m.rev \in Nat /\ m.closed \in BOOLEAN
    BY IncidentAssumption DEF Reports
  <1>4. settled' \subseteq Keys /\ settled \subseteq settled'
    BY <1>1, <1>2, <1>3 DEF LedgerTypeOK
  <1>5. /\ DOMAIN queue' \subseteq Keys /\ queue' \in [DOMAIN queue' -> QueueEntries]
        /\ Cardinality(DOMAIN queue') <= IncidentCap
        /\ \A k \in DOMAIN queue' : Tells(inc, k, queue'[k].rev, queue'[k].closed)
        /\ \A k \in DOMAIN queue : queue[k].closed => k \in DOMAIN queue' /\ queue'[k].closed
    <2>1. CASE obsOn /\ Accepts(m)
      <3>1. queue' = Enqueued(m)
        BY <1>2, <2>1
      <3>. QED
        BY <1>1, <2>1, <3>1, EnqueuedFacts
    <2>2. CASE ~(obsOn /\ Accepts(m))
      <3>1. queue' = queue
        BY <1>2, <2>2
      <3>2. /\ DOMAIN queue \subseteq Keys /\ queue \in [DOMAIN queue -> QueueEntries]
            /\ Cardinality(DOMAIN queue) <= IncidentCap
        BY <1>1 DEF TransitTypeOK
      <3>. QED
        BY <3>1, <3>2, Unpacked
    <2>. QED
      BY <2>1, <2>2
  <1>6. snap' \in [Trackers -> SUBSET Reports] /\ \A c \in Trackers : snap'[c] \subseteq snap[c]
    <2>1. snap' = [snap EXCEPT !["webhook"] = IF replied THEN snap["webhook"] \ {m} ELSE {}]
      BY DEF PostIncident
    <2>2. snap \in [Trackers -> SUBSET Reports]
      BY <1>1 DEF TransitTypeOK
    <2>. QED
      BY <1>0, <2>1, <2>2
  <1>7. troubles' \in 0..MaxTroubles
    BY <1>1, IncidentAssumption DEF PostIncident, Trouble, TransitTypeOK
  <1>8. TransitTypeOK'
    BY <1>1, <1>2, <1>5, <1>6, <1>7 DEF TransitTypeOK
  <1>9. ReportsTrue'
    BY <1>2, <1>5, <1>6, Unpacked DEF ReportsTrue
  <1>10. AcksTrue'
    BY <1>2, <1>4, FewerAnswers DEF EndStored
  <1>11. /\ LedgerTypeOK'
         /\ \A k \in DOMAIN inc : inc[k].closed /\ k \in Elems(tracker[inc[k].of].pending) =>
              \/ k \in Elems(tracker'[inc[k].of].pending)
              \/ k \in settled'
              \/ k \in DOMAIN queue' /\ queue'[k].closed
    <2>1. CASE replied /\ (~obsOn \/ Accepts(m))
      <3>1. tracker' = Acknowledge("webhook", m.key, m.rev)
        BY <2>1 DEF PostIncident
      <3>2. LedgerTypeOK' /\ \A j \in DOMAIN inc : j # m.key \/ ~(inc[j].rev <= m.rev) =>
              (j \in Elems(tracker[inc[j].of].pending) => j \in Elems(tracker'[inc[j].of].pending))
        BY <1>0, <1>1, <1>2, <1>4, <3>1, AcknowledgeStep
      <3>3. inc[m.key].closed /\ inc[m.key].rev <= m.rev => m.closed
        BY <1>1, <1>3, ToldFacts
      <3>4. m.closed => \/ m.key \in settled'
                        \/ m.key \in DOMAIN queue' /\ queue'[m.key].closed
        <4>1. CASE obsOn
          <5>1. queue' = Enqueued(m) /\ Accepts(m)
            BY <1>2, <2>1, <4>1
          <5>. QED
            BY <1>1, <5>1, EnqueuedFacts
        <4>2. CASE ~obsOn
          BY <1>2, <4>2
        <4>. QED
          BY <4>1, <4>2
      <3>. QED
        BY <3>2, <3>3, <3>4
    <2>2. CASE ~(replied /\ (~obsOn \/ Accepts(m)))
      <3>1. tracker' = tracker
        BY <2>2 DEF PostIncident
      <3>. QED
        BY <1>1, <1>2, <1>4, <3>1, SameLedger
    <2>. QED
      BY <2>1, <2>2
  <1>12. ClosedIncidentIsKept'
    <2>1. ASSUME NEW k \in DOMAIN inc, inc[k].closed
          PROVE  \/ k \in settled'
                 \/ k \in Elems(tracker'[inc[k].of].pending)
                 \/ k \in DOMAIN queue' /\ queue'[k].closed
                 \/ k \in DOMAIN rows /\ rows[k].closed
      <3>1. \/ k \in settled
            \/ k \in Elems(tracker[inc[k].of].pending)
            \/ k \in DOMAIN queue /\ queue[k].closed
            \/ k \in DOMAIN rows /\ rows[k].closed
        BY <2>1 DEF IncidentIInv, ClosedIncidentIsKept
      <3>. QED
        BY <1>4, <1>5, <1>11, <2>1, <3>1, Zenon
    <2>. QED
      BY <1>2, <2>1 DEF ClosedIncidentIsKept
  <1>. QED
    BY <1>8, <1>9, <1>10, <1>11, <1>12, Packed

LEMMA EnqueueLocalKeeps ==
  ASSUME IncidentIInv, NEW m \in Reports, EnqueueLocal(m)
  PROVE  IncidentIInv'
  <1>0. "operator" \in Trackers /\ "report_dropped" \in Reasons
    BY DEF Trackers, Reasons
  <1>1. LedgerTypeOK /\ TransitTypeOK /\ Tells(inc, m.key, m.rev, m.closed)
    BY <1>0, Unpacked DEF EnqueueLocal
  <1>2. toHub' = toHub /\ toMember' = toMember /\ rows' = rows /\ obsOn' = obsOn /\ troubles' = troubles
    BY DEF EnqueueLocal
  <1>3. snap \in [Trackers -> SUBSET Reports]
    BY <1>1 DEF TransitTypeOK
  <1>4. CASE Accepts(m)
    <2>1. /\ queue' = Enqueued(m) /\ snap' = [snap EXCEPT !["operator"] = snap["operator"] \ {m}]
          /\ inc' = inc /\ nextKey' = nextKey /\ tracker' = tracker /\ settled' = settled
      BY <1>4 DEF EnqueueLocal
    <2>2. /\ DOMAIN queue' \subseteq Keys /\ queue' \in [DOMAIN queue' -> QueueEntries]
          /\ Cardinality(DOMAIN queue') <= IncidentCap
          /\ \A k \in DOMAIN queue' : Tells(inc, k, queue'[k].rev, queue'[k].closed)
          /\ \A k \in DOMAIN queue : queue[k].closed => k \in DOMAIN queue' /\ queue'[k].closed
      BY <1>1, <1>4, <2>1, EnqueuedFacts
    <2>3. snap' \in [Trackers -> SUBSET Reports] /\ \A c \in Trackers : snap'[c] \subseteq snap[c]
      BY <1>0, <1>3, <2>1
    <2>4. LedgerTypeOK'
      BY <1>1, <2>1 DEF LedgerTypeOK
    <2>5. TransitTypeOK'
      BY <1>1, <1>2, <2>2, <2>3 DEF TransitTypeOK
    <2>6. ReportsTrue'
      BY <1>2, <2>1, <2>2, <2>3, Unpacked DEF ReportsTrue
    <2>7. AcksTrue'
      BY <1>2, <2>1, FewerAnswers DEF EndStored
    <2>8. ClosedIncidentIsKept'
      BY <1>2, <2>1, <2>2 DEF IncidentIInv, ClosedIncidentIsKept
    <2>. QED
      BY <2>4, <2>5, <2>6, <2>7, <2>8, Packed
  <1>5. CASE ~Accepts(m)
    <2>1. Record("operator", "report_dropped", FALSE) /\ snap' = [snap EXCEPT !["operator"] = {}] /\ queue' = queue
      BY <1>5 DEF EnqueueLocal
    <2>2. snap' \in [Trackers -> SUBSET Reports] /\ \A c \in Trackers : snap'[c] \subseteq snap[c]
      BY <1>0, <1>3, <2>1
    <2>3. TransitTypeOK'
      BY <1>1, <1>2, <2>1, <2>2 DEF TransitTypeOK
    <2>. QED
      BY <1>0, <1>2, <2>1, <2>2, <2>3, RecordStep
  <1>. QED
    BY <1>4, <1>5

\* A queue whose entries changed at most in how they are sent.
LEMMA NotInFlightFacts ==
  ASSUME NEW e \in QueueEntries
  PROVE  NotInFlight(e) \in QueueEntries /\ NotInFlight(e).rev = e.rev /\ NotInFlight(e).closed = e.closed
  BY DEF NotInFlight, QueueEntries

LEMMA SendIncidentKeeps ==
  ASSUME IncidentIInv, NEW k \in Keys, SendIncident(k)
  PROVE  IncidentIInv'
  <1>1. LedgerTypeOK /\ TransitTypeOK /\ k \in DOMAIN queue
    BY Unpacked DEF SendIncident
  <1>2. /\ inc' = inc /\ nextKey' = nextKey /\ tracker' = tracker /\ snap' = snap /\ toMember' = toMember /\ rows' = rows
        /\ settled' = settled /\ obsOn' = obsOn /\ troubles' = troubles
        /\ toHub' = toHub \cup {[key |-> k, rev |-> queue[k].rev, closed |-> queue[k].closed]}
    BY DEF SendIncident
  <1>3. queue \in [DOMAIN queue -> QueueEntries]
    BY <1>1 DEF TransitTypeOK
  <1>4. PICK entry : entry = [queue[k] EXCEPT !.inFlight = TRUE, !.sentRev = queue[k].rev]
    OBVIOUS
  <1>5. queue[k] \in QueueEntries /\ MaxRevision \in Nat
    BY <1>1, <1>3, IncidentAssumption
  <1>6. entry \in QueueEntries /\ entry.rev = queue[k].rev /\ entry.closed = queue[k].closed
    <2>1. queue[k].rev \in 0..MaxRevision
      BY <1>5 DEF QueueEntries
    <2>. QED
      BY <1>4, <1>5, <2>1 DEF QueueEntries
  <1>7. queue' = [queue EXCEPT ![k] = entry]
    BY <1>4 DEF SendIncident
  <1>8. /\ DOMAIN queue' = DOMAIN queue /\ queue' \in [DOMAIN queue' -> QueueEntries]
        /\ \A j \in DOMAIN queue : queue'[j].rev = queue[j].rev /\ queue'[j].closed = queue[j].closed
    BY <1>1, <1>3, <1>6, <1>7
  <1>9. PICK m : m = [key |-> k, rev |-> queue[k].rev, closed |-> queue[k].closed]
    OBVIOUS
  <1>10. m \in Reports /\ m.key = k /\ m.rev = queue[k].rev /\ m.closed = queue[k].closed
    BY <1>5, <1>9 DEF QueueEntries, Reports
  <1>11. LedgerTypeOK'
    BY <1>1, <1>2 DEF LedgerTypeOK
  <1>12. TransitTypeOK'
    BY <1>1, <1>2, <1>8, <1>9, <1>10 DEF TransitTypeOK
  <1>13. ReportsTrue'
    <2>1. Tells(inc, m.key, m.rev, m.closed)
      BY <1>1, <1>10, Unpacked
    <2>2. \A n \in toHub' : Tells(inc', n.key, n.rev, n.closed)
      BY <1>2, <1>9, <2>1, Unpacked
    <2>. QED
      BY <1>2, <1>8, <2>2, Unpacked DEF ReportsTrue
  <1>14. AcksTrue'
    BY <1>2, FewerAnswers DEF EndStored
  <1>15. ClosedIncidentIsKept'
    BY <1>2, <1>8 DEF IncidentIInv, ClosedIncidentIsKept
  <1>. QED
    BY <1>11, <1>12, <1>13, <1>14, <1>15, Packed

LEMMA AckTimeoutKeeps ==
  ASSUME IncidentIInv, NEW k \in Keys, AckTimeout(k)
  PROVE  IncidentIInv'
  <1>1. TransitTypeOK /\ k \in DOMAIN queue
    BY Unpacked DEF AckTimeout
  <1>2. /\ snap' = snap /\ toHub' = toHub /\ toMember' = toMember /\ rows' = rows /\ obsOn' = obsOn
        /\ Record("operator", "link_failure", FALSE)
    BY DEF AckTimeout
  <1>3. queue \in [DOMAIN queue -> QueueEntries]
    BY <1>1 DEF TransitTypeOK
  <1>4. PICK entry : entry = NotInFlight(queue[k])
    OBVIOUS
  <1>5. entry \in QueueEntries /\ entry.rev = queue[k].rev /\ entry.closed = queue[k].closed
    BY <1>1, <1>3, <1>4, NotInFlightFacts
  <1>6. queue' = [queue EXCEPT ![k] = entry]
    BY <1>4 DEF AckTimeout
  <1>7. /\ DOMAIN queue' = DOMAIN queue /\ queue' \in [DOMAIN queue' -> QueueEntries]
        /\ \A j \in DOMAIN queue : queue'[j].rev = queue[j].rev /\ queue'[j].closed = queue[j].closed
    BY <1>1, <1>3, <1>5, <1>6
  <1>8. troubles' \in 0..MaxTroubles
    BY <1>1, IncidentAssumption DEF AckTimeout, Trouble, TransitTypeOK
  <1>9. TransitTypeOK'
    BY <1>1, <1>2, <1>7, <1>8 DEF TransitTypeOK
  <1>10. "operator" \in Trackers /\ "link_failure" \in Reasons
    BY DEF Trackers, Reasons
  <1>. QED
    BY <1>2, <1>7, <1>9, <1>10, RecordStep

LEMMA AckIncidentKeeps ==
  ASSUME IncidentIInv, NEW a \in toMember, AckIncident(a)
  PROVE  IncidentIInv'
  <1>1. LedgerTypeOK /\ TransitTypeOK /\ settled \subseteq Keys /\ "operator" \in Trackers
    BY Unpacked DEF LedgerTypeOK, Trackers
  <1>2. /\ inc' = inc /\ nextKey' = nextKey /\ snap' = snap /\ toHub' = toHub /\ rows' = rows /\ settled' = settled
        /\ obsOn' = obsOn /\ troubles' = troubles /\ toMember' = toMember \ {a}
    BY DEF AckIncident
  <1>3. PICK k : k = a.key
    OBVIOUS
  <1>4. a \in [key: Keys, rev: 1..MaxRevision, status: Statuses] /\ MaxRevision \in Nat
    BY <1>1, IncidentAssumption DEF TransitTypeOK
  <1>5. k \in Keys /\ a.rev \in Nat
    BY <1>3, <1>4
  <1>6. /\ k \in DOMAIN inc /\ a.rev <= inc[k].rev
        /\ a.status # "retryable" /\ inc[k].closed /\ a.rev = inc[k].rev => EndStored(k)
    BY <1>3 DEF IncidentIInv, AcksTrue
  <1>7. inc[k].rev \in Nat
    BY <1>1, <1>6, InBundles, LedgerFacts DEF IncidentShapes
  <1>8. queue \in [DOMAIN queue -> QueueEntries] /\ DOMAIN queue \subseteq Keys /\ Cardinality(DOMAIN queue) <= IncidentCap
    BY <1>1 DEF TransitTypeOK
  <1>9. /\ DOMAIN queue' \subseteq DOMAIN queue /\ queue' \in [DOMAIN queue' -> QueueEntries]
        /\ \A j \in DOMAIN queue' : queue'[j].rev = queue[j].rev /\ queue'[j].closed = queue[j].closed
        /\ \A j \in DOMAIN queue \ DOMAIN queue' : j = k /\ a.status # "retryable" /\ queue[k].rev <= a.rev
    <2>1. CASE k \notin DOMAIN queue \/ a.rev < queue[k].sentRev
      <3>1. queue' = queue
        BY <1>3, <2>1 DEF AckIncident
      <3>. QED
        BY <1>8, <3>1
    <2>2. CASE ~(k \notin DOMAIN queue \/ a.rev < queue[k].sentRev)
      <3>1. queue' = IF a.status # "retryable" /\ queue[k].rev <= a.rev
                       THEN [j \in DOMAIN queue \ {k} |-> queue[j]] ELSE [queue EXCEPT ![k] = NotInFlight(queue[k])]
        BY <1>3, <2>2 DEF AckIncident
      <3>2. CASE a.status # "retryable" /\ queue[k].rev <= a.rev
        <4>1. queue' = [j \in DOMAIN queue \ {k} |-> queue[j]]
          BY <3>1, <3>2
        <4>. QED
          BY <1>8, <3>2, <4>1
      <3>3. CASE ~(a.status # "retryable" /\ queue[k].rev <= a.rev)
        <4>1. PICK entry : entry = NotInFlight(queue[k])
          OBVIOUS
        <4>2. entry \in QueueEntries /\ entry.rev = queue[k].rev /\ entry.closed = queue[k].closed
          BY <1>8, <2>2, <4>1, NotInFlightFacts
        <4>3. queue' = [queue EXCEPT ![k] = entry]
          BY <3>1, <3>3, <4>1
        <4>. QED
          BY <1>8, <2>2, <4>2, <4>3
      <3>. QED
        BY <3>2, <3>3
    <2>. QED
      BY <2>1, <2>2
  <1>10. Cardinality(DOMAIN queue') <= IncidentCap
    <2>1. IsFiniteSet(DOMAIN queue) /\ Cardinality(DOMAIN queue) \in Nat
      BY <1>8, QueueIsFinite
    <2>2. Cardinality(DOMAIN queue') <= Cardinality(DOMAIN queue)
      BY <1>9, <2>1, FS_Subset
    <2>3. Cardinality(DOMAIN queue') \in Nat
      BY <1>8, <1>9, QueueIsFinite
    <2>. QED
      BY <1>8, <2>1, <2>2, <2>3, IncidentAssumption
  <1>11. TransitTypeOK'
    BY <1>1, <1>2, <1>8, <1>9, <1>10 DEF TransitTypeOK
  <1>12. ReportsTrue'
    BY <1>2, <1>9, FewerReports
  <1>13. AcksTrue'
    BY <1>2, FewerAnswers DEF EndStored
  <1>14. /\ LedgerTypeOK'
         /\ \A j \in DOMAIN inc : inc[j].closed /\ j \in Elems(tracker[inc[j].of].pending) =>
              j \in Elems(tracker'[inc[j].of].pending) \/ EndStored(j)
    <2>1. CASE tracker' = tracker
      BY <1>1, <1>2, <2>1, SameLedger
    <2>2. CASE a.status # "retryable" /\ tracker' = Acknowledge("operator", k, a.rev)
      <3>1. LedgerTypeOK' /\ \A j \in DOMAIN inc : j # k \/ ~(inc[j].rev <= a.rev) =>
              (j \in Elems(tracker[inc[j].of].pending) => j \in Elems(tracker'[inc[j].of].pending))
        BY <1>1, <1>2, <2>2, AcknowledgeStep
      <3>2. inc[k].closed /\ inc[k].rev <= a.rev => EndStored(k)
        BY <1>5, <1>6, <1>7, <2>2
      <3>. QED
        BY <3>1, <3>2
    <2>3. tracker' = tracker \/ (a.status # "retryable" /\ tracker' = Acknowledge("operator", k, a.rev))
      BY <1>3 DEF AckIncident
    <2>. QED
      BY <2>1, <2>2, <2>3
  <1>15. ASSUME NEW j \in DOMAIN queue, queue[j].closed
         PROVE  EndStored(j) \/ (j \in DOMAIN queue' /\ queue'[j].closed)
    <2>1. CASE j \in DOMAIN queue'
      BY <1>9, <1>15, <2>1
    <2>2. CASE j \notin DOMAIN queue'
      <3>1. j = k /\ a.status # "retryable" /\ queue[k].rev <= a.rev
        BY <1>9, <2>2
      <3>2. queue[k] \in QueueEntries
        BY <1>8, <3>1
      <3>3. queue[k].rev \in Nat /\ queue[k].closed \in BOOLEAN
        BY <1>4, <3>2 DEF QueueEntries
      <3>4. Tells(inc, k, queue[k].rev, queue[k].closed)
        BY <3>1, Unpacked
      <3>5. inc[k].closed /\ queue[k].rev = inc[k].rev
        BY <1>1, <1>15, <3>1, <3>3, <3>4, ToldFacts
      <3>6. a.rev = inc[k].rev
        BY <1>5, <1>6, <1>7, <3>1, <3>5
      <3>. QED
        BY <1>6, <3>1, <3>5, <3>6
    <2>. QED
      BY <2>1, <2>2
  <1>16. ClosedIncidentIsKept'
    <2>1. ASSUME NEW j \in DOMAIN inc, inc[j].closed
          PROVE  \/ EndStored(j)
                 \/ j \in Elems(tracker'[inc[j].of].pending)
                 \/ j \in DOMAIN queue' /\ queue'[j].closed
      <3>1. \/ EndStored(j)
            \/ j \in Elems(tracker[inc[j].of].pending)
            \/ j \in DOMAIN queue /\ queue[j].closed
        BY <2>1 DEF IncidentIInv, ClosedIncidentIsKept, EndStored
      <3>. QED
        BY <1>14, <1>15, <2>1, <3>1, Zenon
    <2>. QED
      BY <1>2, <2>1 DEF ClosedIncidentIsKept, EndStored
  <1>. QED
    BY <1>11, <1>12, <1>13, <1>14, <1>16, Packed

LEMMA StreamBreaksKeeps ==
  ASSUME IncidentIInv, StreamBreaks
  PROVE  IncidentIInv'
  <1>1. LedgerTypeOK /\ TransitTypeOK
    BY Unpacked
  <1>2. /\ inc' = inc /\ nextKey' = nextKey /\ tracker' = tracker /\ snap' = snap /\ rows' = rows /\ settled' = settled
        /\ obsOn' = obsOn /\ toHub' = {} /\ toMember' = {} /\ queue' = [k \in DOMAIN queue |-> NotInFlight(queue[k])]
    BY DEF StreamBreaks
  <1>3. queue \in [DOMAIN queue -> QueueEntries]
    BY <1>1 DEF TransitTypeOK
  <1>4. \A k \in DOMAIN queue : /\ NotInFlight(queue[k]) \in QueueEntries /\ NotInFlight(queue[k]).rev = queue[k].rev
                                /\ NotInFlight(queue[k]).closed = queue[k].closed
    BY <1>3, NotInFlightFacts
  <1>5. /\ DOMAIN queue' = DOMAIN queue /\ queue' \in [DOMAIN queue' -> QueueEntries]
        /\ \A j \in DOMAIN queue : queue'[j].rev = queue[j].rev /\ queue'[j].closed = queue[j].closed
    BY <1>2, <1>4
  <1>6. troubles' \in 0..MaxTroubles
    BY <1>1, IncidentAssumption DEF StreamBreaks, Trouble, TransitTypeOK
  <1>7. LedgerTypeOK'
    BY <1>1, <1>2 DEF LedgerTypeOK
  <1>8. TransitTypeOK'
    BY <1>1, <1>2, <1>5, <1>6 DEF TransitTypeOK
  <1>9. ReportsTrue'
    BY <1>2, <1>5, FewerReports
  <1>10. AcksTrue'
    BY <1>2 DEF AcksTrue
  <1>11. ClosedIncidentIsKept'
    BY <1>2, <1>5 DEF IncidentIInv, ClosedIncidentIsKept
  <1>. QED
    BY <1>7, <1>8, <1>9, <1>10, <1>11, Packed

\* What the hub does with a report: merge it, or settle the incident; stored ends stay stored.
LEMMA HandleIncidentKeeps ==
  ASSUME IncidentIInv, NEW m \in Reports, HandleIncident(m)
  PROVE  IncidentIInv'
  <1>1. LedgerTypeOK /\ TransitTypeOK /\ Tells(inc, m.key, m.rev, m.closed)
    BY Unpacked DEF HandleIncident
  <1>2. /\ inc' = inc /\ nextKey' = nextKey /\ tracker' = tracker /\ snap' = snap /\ queue' = queue /\ obsOn' = obsOn
        /\ toHub' = toHub \ {m}
    BY DEF HandleIncident
  <1>3. m.key \in Keys /\ m.rev \in 1..MaxRevision /\ m.rev \in Nat /\ m.closed \in BOOLEAN
    BY IncidentAssumption DEF Reports
  <1>4. /\ DOMAIN Upserted(m) \subseteq Keys
        /\ Upserted(m) \in [DOMAIN Upserted(m) -> [rev: 1..MaxRevision, closed: BOOLEAN]]
        /\ \A k \in DOMAIN rows : k \in DOMAIN Upserted(m) /\ (rows[k].closed => Upserted(m)[k].closed)
        /\ m.key \in DOMAIN Upserted(m) /\ (m.closed => Upserted(m)[m.key].closed)
    BY <1>1, UpsertedFacts
  <1>5. PICK status \in Statuses : /\ AnswerReport(m, status)
                                  /\ \/ status = "accepted" /\ rows' = Upserted(m) /\ settled' = settled
                                     \/ status = "discarded" /\ rows' = rows /\ settled' = settled \cup {m.key}
                                     \/ status = "retryable" /\ rows' = rows /\ settled' = settled
    BY DEF HandleIncident, Statuses
  <1>6. PICK a : a = [key |-> m.key, rev |-> m.rev, status |-> status]
    OBVIOUS
  <1>7. /\ toMember' = toMember \cup {a} /\ a.key = m.key /\ a.rev = m.rev /\ a.status = status
        /\ a \in [key: Keys, rev: 1..MaxRevision, status: Statuses]
    BY <1>3, <1>5, <1>6 DEF AnswerReport
  <1>8. rows' = rows \/ rows' = Upserted(m)
    BY <1>5
  <1>9. /\ DOMAIN rows' \subseteq Keys /\ rows' \in [DOMAIN rows' -> [rev: 1..MaxRevision, closed: BOOLEAN]]
        /\ \A k \in DOMAIN rows : k \in DOMAIN rows' /\ (rows[k].closed => rows'[k].closed)
    <2>1. DOMAIN rows \subseteq Keys /\ rows \in [DOMAIN rows -> [rev: 1..MaxRevision, closed: BOOLEAN]]
      BY <1>1 DEF TransitTypeOK
    <2>2. CASE rows' = rows
      BY <2>1, <2>2
    <2>3. CASE rows' = Upserted(m)
      BY <1>4, <2>3
    <2>. QED
      BY <1>8, <2>2, <2>3
  <1>10. settled \subseteq settled' /\ settled' \subseteq Keys
    BY <1>1, <1>3, <1>5 DEF LedgerTypeOK
  <1>11. \A k : EndStored(k) => EndStored(k)'
    BY <1>9, <1>10 DEF EndStored
  <1>12. troubles' \in 0..MaxTroubles
    BY <1>1, IncidentAssumption DEF HandleIncident, Trouble, TransitTypeOK
  <1>13. LedgerTypeOK'
    BY <1>1, <1>2, <1>10, SameLedger
  <1>14. TransitTypeOK'
    BY <1>1, <1>2, <1>7, <1>9, <1>12 DEF TransitTypeOK
  <1>15. ReportsTrue'
    BY <1>2, FewerReports
  <1>16. AcksTrue'
    <2>1. m.key \in DOMAIN inc /\ m.rev <= inc[m.key].rev
      BY <1>1 DEF Tells
    <2>2. status # "retryable" /\ inc[m.key].closed /\ m.rev = inc[m.key].rev => EndStored(m.key)'
      <3>1. CASE status = "accepted"
        <4>1. inc[m.key].closed /\ m.rev = inc[m.key].rev => m.closed
          BY <1>1 DEF Tells
        <4>2. rows' = Upserted(m)
          BY <1>5, <3>1
        <4>. QED
          BY <1>4, <4>1, <4>2 DEF EndStored
      <3>2. CASE status = "discarded"
        BY <1>5, <3>2 DEF EndStored
      <3>. QED
        BY <1>5, <3>1, <3>2
    <2>3. ASSUME NEW b \in toMember
          PROVE  /\ b.key \in DOMAIN inc /\ b.rev <= inc[b.key].rev
                 /\ b.status # "retryable" /\ inc[b.key].closed /\ b.rev = inc[b.key].rev => EndStored(b.key)'
      BY <1>11 DEF IncidentIInv, AcksTrue
    <2>4. ASSUME NEW b \in toMember'
          PROVE  /\ b.key \in DOMAIN inc /\ b.rev <= inc[b.key].rev
                 /\ b.status # "retryable" /\ inc[b.key].closed /\ b.rev = inc[b.key].rev => EndStored(b.key)'
      <3>1. CASE b = a
        BY <1>7, <2>1, <2>2, <3>1
      <3>2. CASE b \in toMember
        BY <2>3, <3>2
      <3>. QED
        BY <1>7, <3>1, <3>2
    <2>. QED
      BY <1>2, <2>4 DEF AcksTrue
  <1>17. ClosedIncidentIsKept'
    BY <1>2, <1>9, <1>10 DEF IncidentIInv, ClosedIncidentIsKept
  <1>. QED
    BY <1>13, <1>14, <1>15, <1>16, <1>17, Packed

LEMMA FlushGatewayKeeps ==
  ASSUME IncidentIInv, NEW m \in Reports, NEW ok \in BOOLEAN, FlushGateway(m, ok)
  PROVE  IncidentIInv'
  <1>0. "gateway" \in Trackers
    BY DEF Trackers
  <1>1. LedgerTypeOK /\ TransitTypeOK /\ Tells(inc, m.key, m.rev, m.closed) /\ settled \subseteq Keys
    BY <1>0, Unpacked DEF FlushGateway, LedgerTypeOK
  <1>2. /\ inc' = inc /\ nextKey' = nextKey /\ queue' = queue /\ toHub' = toHub /\ toMember' = toMember
        /\ settled' = settled /\ obsOn' = obsOn
    BY DEF FlushGateway
  <1>3. snap \in [Trackers -> SUBSET Reports]
    BY <1>1 DEF TransitTypeOK
  <1>4. snap' \in [Trackers -> SUBSET Reports] /\ \A c \in Trackers : snap'[c] \subseteq snap[c]
    <2>1. snap' = [snap EXCEPT !["gateway"] = snap["gateway"] \ {m}] \/ snap' = [snap EXCEPT !["gateway"] = {}]
      BY DEF FlushGateway
    <2>. QED
      BY <1>0, <1>3, <2>1
  <1>5. troubles' \in 0..MaxTroubles
    BY <1>1, IncidentAssumption DEF FlushGateway, Trouble, TransitTypeOK
  <1>6. /\ DOMAIN Upserted(m) \subseteq Keys
        /\ Upserted(m) \in [DOMAIN Upserted(m) -> [rev: 1..MaxRevision, closed: BOOLEAN]]
        /\ \A k \in DOMAIN rows : k \in DOMAIN Upserted(m) /\ (rows[k].closed => Upserted(m)[k].closed)
        /\ m.key \in DOMAIN Upserted(m) /\ (m.closed => Upserted(m)[m.key].closed)
    BY <1>1, UpsertedFacts
  <1>7. (rows' = rows /\ tracker' = tracker)
        \/ (rows' = Upserted(m) /\ tracker' = IF m.closed THEN Acknowledge("gateway", m.key, m.rev) ELSE tracker)
    BY DEF FlushGateway
  <1>8. /\ DOMAIN rows' \subseteq Keys /\ rows' \in [DOMAIN rows' -> [rev: 1..MaxRevision, closed: BOOLEAN]]
        /\ \A k \in DOMAIN rows : k \in DOMAIN rows' /\ (rows[k].closed => rows'[k].closed)
    <2>1. DOMAIN rows \subseteq Keys /\ rows \in [DOMAIN rows -> [rev: 1..MaxRevision, closed: BOOLEAN]]
      BY <1>1 DEF TransitTypeOK
    <2>2. CASE rows' = rows
      BY <2>1, <2>2
    <2>3. CASE rows' = Upserted(m)
      BY <1>6, <2>3
    <2>. QED
      BY <1>7, <2>2, <2>3
  <1>9. /\ LedgerTypeOK'
        /\ \A j \in DOMAIN inc : j \in Elems(tracker[inc[j].of].pending) =>
             j \in Elems(tracker'[inc[j].of].pending) \/ (j \in DOMAIN rows' /\ rows'[j].closed)
    <2>1. CASE tracker' = tracker
      BY <1>1, <1>2, <2>1, SameLedger
    <2>2. CASE m.closed /\ rows' = Upserted(m) /\ tracker' = Acknowledge("gateway", m.key, m.rev)
      <3>1. LedgerTypeOK' /\ \A j \in DOMAIN inc : j # m.key \/ ~(inc[j].rev <= m.rev) =>
              (j \in Elems(tracker[inc[j].of].pending) => j \in Elems(tracker'[inc[j].of].pending))
        BY <1>0, <1>1, <1>2, <2>2, AcknowledgeStep
      <3>. QED
        BY <1>6, <2>2, <3>1
    <2>. QED
      BY <1>7, <2>1, <2>2
  <1>10. TransitTypeOK'
    BY <1>1, <1>2, <1>4, <1>5, <1>8 DEF TransitTypeOK
  <1>11. ReportsTrue'
    BY <1>2, <1>4, FewerReports
  <1>12. AcksTrue'
    <2>1. \A k : EndStored(k) => EndStored(k)'
      BY <1>2, <1>8 DEF EndStored
    <2>. QED
      BY <1>2, <2>1, FewerAnswers
  <1>13. ClosedIncidentIsKept'
    BY <1>2, <1>8, <1>9 DEF IncidentIInv, ClosedIncidentIsKept
  <1>. QED
    BY <1>9, <1>10, <1>11, <1>12, <1>13, Packed

LEMMA CleanupIncidentKeeps ==
  ASSUME IncidentIInv, NEW k \in Keys, CleanupIncident(k)
  PROVE  IncidentIInv'
  <1>1. LedgerTypeOK /\ TransitTypeOK
    BY Unpacked
  <1>2. /\ inc' = inc /\ nextKey' = nextKey /\ tracker' = tracker /\ snap' = snap /\ queue' = queue /\ toHub' = toHub
        /\ toMember' = toMember /\ obsOn' = obsOn /\ rows' = [j \in DOMAIN rows \ {k} |-> rows[j]]
        /\ settled' = settled \cup {k}
    BY DEF CleanupIncident
  <1>3. DOMAIN rows \subseteq Keys /\ rows \in [DOMAIN rows -> [rev: 1..MaxRevision, closed: BOOLEAN]]
    BY <1>1 DEF TransitTypeOK
  <1>4. /\ DOMAIN rows' = DOMAIN rows \ {k} /\ rows' \in [DOMAIN rows' -> [rev: 1..MaxRevision, closed: BOOLEAN]]
        /\ \A j \in DOMAIN rows' : rows'[j] = rows[j]
    BY <1>2, <1>3
  <1>5. troubles' \in 0..MaxTroubles
    BY <1>1, IncidentAssumption DEF CleanupIncident, Trouble, TransitTypeOK
  <1>6. settled' \subseteq Keys
    BY <1>1, <1>2 DEF LedgerTypeOK
  <1>7. LedgerTypeOK'
    BY <1>1, <1>2, <1>6, SameLedger
  <1>8. TransitTypeOK'
    BY <1>1, <1>2, <1>3, <1>4, <1>5 DEF TransitTypeOK
  <1>9. ReportsTrue'
    BY <1>2, FewerReports
  <1>10. AcksTrue'
    <2>1. \A j : EndStored(j) => EndStored(j)'
      BY <1>2, <1>4 DEF EndStored
    <2>. QED
      BY <1>2, <2>1, FewerAnswers
  <1>11. ClosedIncidentIsKept'
    BY <1>2, <1>4 DEF IncidentIInv, ClosedIncidentIsKept
  <1>. QED
    BY <1>7, <1>8, <1>9, <1>10, <1>11, Packed

HeldBy(c) == Elems(tracker[c].pending) \cup {tracker[c].active[r] : r \in Reasons}

LEMMA MemoryKeys ==
  ASSUME LedgerTypeOK, NEW cs \in SUBSET Trackers
  PROVE  /\ Memory(cs) \subseteq Keys
         /\ \A c \in cs : Elems(tracker[c].pending) \subseteq Memory(cs)
  <1>1. DOMAIN inc \subseteq Keys /\ NoKey \notin Keys
    BY InBundles DEF Keys, NoKey
  <1>2. \A c \in cs : Elems(tracker[c].pending) \subseteq Keys
    BY <1>1 DEF LedgerTypeOK
  <1>3. \A c \in cs : \A r \in Reasons : tracker[c].active[r] \in Keys \cup {NoKey}
    BY <1>1 DEF LedgerTypeOK
  <1>6. Memory(cs) = (UNION {HeldBy(c) : c \in cs}) \ {NoKey}
    BY Zenon DEF Memory, HeldBy
  <1>4. ASSUME NEW k \in Memory(cs)
        PROVE  k \in Keys
    <2>1. k # NoKey /\ k \in UNION {HeldBy(c) : c \in cs}
      BY <1>4, <1>6
    <2>2. PICK c \in cs : k \in HeldBy(c)
      BY <2>1
    <2>. QED
      BY <1>2, <1>3, <2>1, <2>2 DEF HeldBy
  <1>5. ASSUME NEW c \in cs, NEW k \in Elems(tracker[c].pending)
        PROVE  k \in Memory(cs)
    <2>1. k # NoKey
      BY <1>1, <1>2, <1>5
    <2>2. k \in HeldBy(c)
      BY <1>5 DEF HeldBy
    <2>. QED
      BY <1>6, <2>1, <2>2
  <1>. QED
    BY <1>4, <1>5

\* Trackers are emptied and what they and the queue held is settled.
LEMMA EmptiedStep ==
  ASSUME IncidentIInv, NEW cs \in SUBSET Trackers, inc' = inc, nextKey' = nextKey, rows' = rows,
         tracker' = [c \in Trackers |-> IF c \in cs THEN EmptyTracker ELSE tracker[c]],
         snap' \in [Trackers -> SUBSET Reports], \A c \in Trackers : snap'[c] \subseteq snap[c],
         queue' = [k \in {} |-> [rev |-> 0]], toHub' \subseteq toHub, toMember' \subseteq toMember,
         settled' = settled \cup Memory(cs) \cup DOMAIN queue, obsOn' \in BOOLEAN, troubles' \in 0..MaxTroubles
  PROVE  IncidentIInv'
  <1>1. LedgerTypeOK /\ TransitTypeOK
    BY Unpacked
  <1>2. Memory(cs) \subseteq Keys /\ \A c \in cs : Elems(tracker[c].pending) \subseteq Memory(cs)
    BY <1>1, MemoryKeys
  <1>3. settled' \subseteq Keys /\ settled \subseteq settled'
    BY <1>1, <1>2 DEF LedgerTypeOK, TransitTypeOK
  <1>4. tracker \in [Trackers -> Pending]
    BY <1>1 DEF LedgerTypeOK
  <1>5. /\ tracker' \in [Trackers -> Pending]
        /\ \A c \in Trackers : tracker'[c] = EmptyTracker \/ tracker'[c] = tracker[c]
        /\ \A c \in Trackers \ cs : tracker'[c] = tracker[c]
    BY <1>4, FreshTracker
  <1>6. LedgerTypeOK'
    <2>1. nextKey' \in 1..(MaxKeys + 1) /\ inc' \in [1..(nextKey' - 1) -> Incidents]
      BY <1>1 DEF LedgerTypeOK
    <2>2. \A c \in Trackers : Len(tracker'[c].pending) <= PendingLimit
      <3>1. 0 <= PendingLimit
        BY IncidentAssumption
      <3>. QED
        BY <1>1, <1>5, <3>1, FreshTracker DEF LedgerTypeOK
    <2>3. ASSUME NEW c \in Trackers, NEW k \in Elems(tracker'[c].pending)
          PROVE  k \in DOMAIN inc' /\ inc'[k].closed /\ inc'[k].of = c
      <3>1. tracker'[c] = tracker[c]
        BY <1>5, <2>3, FreshTracker
      <3>. QED
        BY <1>1, <2>3, <3>1 DEF LedgerTypeOK
    <2>4. ASSUME NEW c \in Trackers, NEW r \in Reasons, tracker'[c].active[r] # NoKey
          PROVE  /\ tracker'[c].active[r] \in DOMAIN inc' /\ ~inc'[tracker'[c].active[r]].closed
                 /\ inc'[tracker'[c].active[r]].of = c /\ inc'[tracker'[c].active[r]].reason = r
      <3>1. tracker'[c] = tracker[c]
        BY <1>5, <2>4, FreshTracker
      <3>. QED
        BY <1>1, <2>4, <3>1 DEF LedgerTypeOK
    <2>. QED
      BY <1>3, <1>5, <2>1, <2>2, <2>3, <2>4 DEF LedgerTypeOK
  <1>7. DOMAIN queue' = {} /\ queue' \in [DOMAIN queue' -> QueueEntries] /\ Cardinality(DOMAIN queue') <= IncidentCap
    <2>1. Cardinality({}) = 0
      BY FS_EmptySet
    <2>2. DOMAIN queue' = {}
      OBVIOUS
    <2>3. 0 <= IncidentCap
      BY IncidentAssumption
    <2>. QED
      BY <2>1, <2>2, <2>3
  <1>8. TransitTypeOK'
    BY <1>1, <1>7 DEF TransitTypeOK
  <1>9. ReportsTrue'
    BY <1>7, FewerReports
  <1>10. AcksTrue'
    <2>1. \A j : EndStored(j) => EndStored(j)'
      BY <1>3 DEF EndStored
    <2>. QED
      BY <2>1, FewerAnswers
  <1>11. ClosedIncidentIsKept'
    <2>1. ASSUME NEW k \in DOMAIN inc, inc[k].closed
          PROVE  \/ k \in settled'
                 \/ k \in Elems(tracker'[inc[k].of].pending)
                 \/ k \in DOMAIN rows /\ rows[k].closed
      <3>1. inc[k].of \in Trackers
        BY <1>1 DEF LedgerTypeOK, Incidents
      <3>2. \/ k \in settled
            \/ k \in Elems(tracker[inc[k].of].pending)
            \/ k \in DOMAIN queue /\ queue[k].closed
            \/ k \in DOMAIN rows /\ rows[k].closed
        BY <2>1 DEF IncidentIInv, ClosedIncidentIsKept
      <3>3. k \in Elems(tracker[inc[k].of].pending) => k \in settled' \/ k \in Elems(tracker'[inc[k].of].pending)
        BY <1>2, <1>5, <3>1
      <3>4. k \in DOMAIN queue => k \in settled'
        OBVIOUS
      <3>. QED
        BY <1>3, <3>2, <3>3, <3>4, Zenon
    <2>. QED
      BY <2>1 DEF ClosedIncidentIsKept
  <1>. QED
    BY <1>6, <1>8, <1>9, <1>10, <1>11, Packed

LEMMA SwitchOffKeeps ==
  ASSUME IncidentIInv, SwitchOff
  PROVE  IncidentIInv'
  <1>1. /\ tracker' = [c \in Trackers |-> EmptyTracker] /\ snap' = [c \in Trackers |-> {}]
        /\ queue' = [k \in {} |-> [rev |-> 0]] /\ settled' = settled \cup Memory(Trackers) \cup DOMAIN queue
        /\ inc' = inc /\ nextKey' = nextKey /\ toHub' = toHub /\ toMember' = toMember /\ rows' = rows /\ obsOn' = FALSE
    BY DEF SwitchOff
  <1>2. tracker' = [c \in Trackers |-> IF c \in Trackers THEN EmptyTracker ELSE tracker[c]]
    BY <1>1
  <1>3. snap' \in [Trackers -> SUBSET Reports] /\ \A c \in Trackers : snap'[c] \subseteq snap[c]
    BY <1>1
  <1>4. troubles' \in 0..MaxTroubles
    BY Unpacked, IncidentAssumption DEF SwitchOff, Trouble, TransitTypeOK
  <1>5. obsOn' \in BOOLEAN /\ toHub' \subseteq toHub /\ toMember' \subseteq toMember /\ Trackers \in SUBSET Trackers
    BY <1>1
  <1>. QED
    BY <1>1, <1>2, <1>3, <1>4, <1>5, EmptiedStep

LEMMA SwitchOnKeeps ==
  ASSUME IncidentIInv, SwitchOn
  PROVE  IncidentIInv'
  BY DEF SwitchOn, IncidentIInv, IncidentTypeOK, ReportsTrue, AcksTrue, EndStored, ClosedIncidentIsKept

LEMMA OperatorRestartsKeeps ==
  ASSUME IncidentIInv, OperatorRestarts
  PROVE  IncidentIInv'
  <1>0. "operator" \in Trackers
    BY DEF Trackers
  <1>1. /\ tracker' = [tracker EXCEPT !["operator"] = EmptyTracker] /\ snap' = [snap EXCEPT !["operator"] = {}]
        /\ queue' = [k \in {} |-> [rev |-> 0]] /\ settled' = settled \cup Memory({"operator"}) \cup DOMAIN queue
        /\ inc' = inc /\ nextKey' = nextKey /\ toHub' = {} /\ toMember' = {} /\ rows' = rows /\ obsOn' = obsOn
    BY DEF OperatorRestarts
  <1>2. tracker \in [Trackers -> Pending] /\ snap \in [Trackers -> SUBSET Reports] /\ obsOn \in BOOLEAN
    BY Unpacked DEF LedgerTypeOK, TransitTypeOK
  <1>3. tracker' = [c \in Trackers |-> IF c \in {"operator"} THEN EmptyTracker ELSE tracker[c]]
    BY <1>1, <1>2
  <1>4. snap' \in [Trackers -> SUBSET Reports] /\ \A c \in Trackers : snap'[c] \subseteq snap[c]
    BY <1>0, <1>1, <1>2
  <1>5. troubles' \in 0..MaxTroubles
    BY Unpacked, IncidentAssumption DEF OperatorRestarts, Trouble, TransitTypeOK
  <1>6. obsOn' \in BOOLEAN /\ toHub' \subseteq toHub /\ toMember' \subseteq toMember /\ {"operator"} \in SUBSET Trackers
    BY <1>0, <1>1, <1>2
  <1>. QED
    BY <1>1, <1>3, <1>4, <1>5, <1>6, EmptiedStep

LEMMA IncidentStart ==
  IncidentInit => IncidentIInv
  <1> SUFFICES ASSUME IncidentInit PROVE IncidentIInv
    OBVIOUS
  <1>1. /\ DOMAIN inc = {} /\ nextKey = 1 /\ DOMAIN queue = {} /\ DOMAIN rows = {} /\ toHub = {} /\ toMember = {}
        /\ settled = {} /\ obsOn = TRUE /\ troubles = 0 /\ \A c \in Trackers : snap[c] = {} /\ tracker[c] = EmptyTracker
    BY DEF IncidentInit
  <1>2. 1..(nextKey - 1) = {} /\ nextKey \in 1..(MaxKeys + 1) /\ troubles \in 0..MaxTroubles /\ 0 <= PendingLimit
        /\ 0 <= IncidentCap
    BY <1>1, IncidentAssumption
  <1>3. inc \in [1..(nextKey - 1) -> Incidents]
    BY <1>2 DEF IncidentInit
  <1>4. queue \in [DOMAIN queue -> QueueEntries] /\ rows \in [DOMAIN rows -> [rev: 1..MaxRevision, closed: BOOLEAN]]
    BY DEF IncidentInit
  <1>5. tracker \in [Trackers -> Pending] /\ snap \in [Trackers -> SUBSET Reports]
    BY FreshTracker DEF IncidentInit
  <1>6. LedgerTypeOK
    BY <1>1, <1>2, <1>3, <1>5, FreshTracker DEF LedgerTypeOK
  <1>7. Cardinality(DOMAIN queue) <= IncidentCap
    BY <1>1, <1>2, FS_EmptySet
  <1>8. TransitTypeOK
    BY <1>1, <1>2, <1>4, <1>5, <1>7 DEF TransitTypeOK
  <1>9. IncidentTypeOK
    BY <1>6, <1>8, TypeParts
  <1>. QED
    BY <1>1, <1>9 DEF IncidentIInv, ReportsTrue, AcksTrue, ClosedIncidentIsKept

LEMMA IncidentStep ==
  IncidentIInv /\ [IncidentNext]_incidentVars => IncidentIInv'
  <1> SUFFICES ASSUME IncidentIInv, [IncidentNext]_incidentVars PROVE IncidentIInv'
    OBVIOUS
  <1>1. CASE UNCHANGED incidentVars
    BY <1>1 DEF incidentVars, IncidentIInv, IncidentTypeOK, ReportsTrue, AcksTrue, EndStored, ClosedIncidentIsKept
  <1>2. ASSUME NEW c \in Trackers, NEW silent \in BOOLEAN, RecordIncident(c, silent) PROVE IncidentIInv'
    BY <1>2, RecordIncidentKeeps
  <1>3. ASSUME NEW c \in Trackers, NEW first \in Reasons \cup {"none"}, NEW second \in Reasons \cup {"none"},
               TakeSnapshot(c, first, second)
        PROVE  IncidentIInv'
    BY <1>3, SnapshotStep
  <1>4. ASSUME NEW m \in Reports, NEW replied \in BOOLEAN, PostIncident(m, replied) PROVE IncidentIInv'
    BY <1>4, PostIncidentKeeps
  <1>5. ASSUME NEW m \in Reports, EnqueueLocal(m) PROVE IncidentIInv'
    BY <1>5, EnqueueLocalKeeps
  <1>6. ASSUME NEW m \in Reports, HandleIncident(m) PROVE IncidentIInv'
    BY <1>6, HandleIncidentKeeps
  <1>7. ASSUME NEW m \in Reports, NEW ok \in BOOLEAN, FlushGateway(m, ok) PROVE IncidentIInv'
    BY <1>7, FlushGatewayKeeps
  <1>8. ASSUME NEW k \in Keys, SendIncident(k) PROVE IncidentIInv'
    BY <1>8, SendIncidentKeeps
  <1>9. ASSUME NEW k \in Keys, AckTimeout(k) PROVE IncidentIInv'
    BY <1>9, AckTimeoutKeeps
  <1>10. ASSUME NEW k \in Keys, CleanupIncident(k) PROVE IncidentIInv'
    BY <1>10, CleanupIncidentKeeps
  <1>11. ASSUME NEW a \in toMember, AckIncident(a) PROVE IncidentIInv'
    BY <1>11, AckIncidentKeeps
  <1>12. CASE StreamBreaks
    BY <1>12, StreamBreaksKeeps
  <1>13. CASE SwitchOff
    BY <1>13, SwitchOffKeeps
  <1>14. CASE SwitchOn
    BY <1>14, SwitchOnKeeps
  <1>15. CASE OperatorRestarts
    BY <1>15, OperatorRestartsKeeps
  <1>. QED
    BY <1>1, <1>2, <1>3, <1>4, <1>5, <1>6, <1>7, <1>8, <1>9, <1>10, <1>11, <1>12, <1>13, <1>14, <1>15 DEF IncidentNext

(***************************************************************************)
(* Trackers, queue, stream and rows keep to their types and limits: what a *)
(* tracker keeps open is an open incident of its own and its reason, what  *)
(* it keeps pending is closed, and the operator's queue stays within its   *)
(* capacity (Tracker, enqueueLocalIncidents, SubmitLinkIncidents).         *)
(***************************************************************************)
THEOREM IncidentTypeCorrect ==
  IncidentSpec => []IncidentTypeOK
  <1>1. IncidentIInv => IncidentTypeOK
    BY DEF IncidentIInv
  <1>. QED
    BY <1>1, IncidentStart, IncidentStep, PTL DEF IncidentSpec

(***************************************************************************)
(* The end of an incident is kept until the hub has it, for every limit,   *)
(* number of incidents, revisions and failures: an answer to an older      *)
(* revision, a lost reply, a broken stream or a report merged out of order *)
(* settles nothing (Acknowledge, ackLinkIncidents, IncidentRepo.Upsert).   *)
(***************************************************************************)
THEOREM EndsAreKept ==
  IncidentSpec => []ClosedIncidentIsKept
  <1>1. IncidentIInv => ClosedIncidentIsKept
    BY DEF IncidentIInv
  <1>. QED
    BY <1>1, IncidentStart, IncidentStep, PTL DEF IncidentSpec

-----------------------------------------------------------------------------
(***************************************************************************)
(* Smallest and greatest members of sets of numbers                        *)
(***************************************************************************)
LEMMA LeastMember ==
  ASSUME NEW T \in SUBSET Nat, T # {}
  PROVE  \E m \in T : \A x \in T : m <= x
  <1>1. PICK m \in T : \A x \in T : ~(<<x, m>> \in OpToRel(<, Nat))
    BY NatLessThanWellFounded, WFMin, Zenon
  <1>2. \A x \in T : ~(x < m)
    BY <1>1 DEF OpToRel
  <1>. QED
    BY <1>2

LEMMA GreatestMember ==
  ASSUME NEW T \in SUBSET Nat, T # {}, NEW n \in Nat, \A x \in T : x <= n
  PROVE  \E m \in T : \A x \in T : x <= m
  <1>1. PICK U : U = {b \in Nat : \A x \in T : x <= b}
    OBVIOUS
  <1>2. U \in SUBSET Nat /\ n \in U
    BY <1>1
  <1>3. PICK m \in U : \A b \in U : m <= b
    BY <1>2, LeastMember
  <1>4. m \in Nat /\ \A x \in T : x <= m
    BY <1>1
  <1>5. m \in T
    <2>1. SUFFICES ASSUME m \notin T PROVE FALSE
      OBVIOUS
    <2>2. \A x \in T : x <= m - 1
      BY <1>4, <2>1
    <2>3. m - 1 \in Nat
      <3>1. PICK x \in T : TRUE
        OBVIOUS
      <3>. QED
        BY <1>4, <2>2, <3>1
    <2>4. m - 1 \in U
      BY <1>1, <2>2, <2>3
    <2>. QED
      BY <1>3, <1>4, <2>4
  <1>. QED
    BY <1>4, <1>5

LEMMA MaxFacts ==
  ASSUME NEW T \in SUBSET Nat, T # {}, NEW n \in Nat, \A x \in T : x <= n
  PROVE  Max(T) \in T /\ \A x \in T : x <= Max(T)
  <1>1. PICK m \in T : \A x \in T : x <= m
    BY GreatestMember
  <1>2. \A x \in T : m >= x
    BY <1>1
  <1>. QED
    BY <1>2 DEF Max

\* The first n members of a set of numbers: whoever is not among them comes after n others.
LEMMA FirstMembers ==
  ASSUME NEW A \in SUBSET Nat, IsFiniteSet(A), NEW n \in Nat, NEW r \in A,
         NEW B, B = {q \in A : Cardinality({x \in A : x < q}) < n}, r \notin B
  PROVE  Cardinality(B) >= n /\ \A q \in B : q < r
  <1>1. ASSUME NEW q \in A, NEW p \in A, q <= p, p \in B
        PROVE  q \in B
    <2>1. PICK Q : Q = {x \in A : x < q}
      OBVIOUS
    <2>2. PICK P : P = {x \in A : x < p}
      OBVIOUS
    <2>3. Q \subseteq P /\ P \subseteq A
      <3>1. q \in Nat /\ p \in Nat /\ \A x \in A : x \in Nat
        OBVIOUS
      <3>2. \A x \in A : x < q => x < p
        BY <1>1, <3>1
      <3>. QED
        BY <2>1, <2>2, <3>2
    <2>4. IsFiniteSet(P)
      BY <2>3, FS_Subset
    <2>5. IsFiniteSet(Q) /\ Cardinality(Q) <= Cardinality(P)
      BY <2>3, <2>4, FS_Subset
    <2>6. Cardinality(P) \in Nat /\ Cardinality(Q) \in Nat
      BY <2>4, <2>5, FS_CardinalityType
    <2>7. Cardinality(P) < n
      BY <1>1, <2>2
    <2>8. Cardinality(Q) < n
      BY <2>5, <2>6, <2>7
    <2>. QED
      BY <2>1, <2>8
  <1>2. PICK T : T = A \ B
    OBVIOUS
  <1>3. T \in SUBSET Nat /\ r \in T
    BY <1>2
  <1>4. PICK m \in T : \A x \in T : m <= x
    BY <1>3, LeastMember
  <1>5. m \in A /\ m \notin B
    BY <1>2
  <1>6. {x \in A : x < m} = B
    <2>1. ASSUME NEW x \in A, x < m
          PROVE  x \in B
      BY <1>2, <1>4, <1>5, <2>1
    <2>2. ASSUME NEW x \in B
          PROVE  x \in A /\ x < m
      <3>1. x \in A
        OBVIOUS
      <3>2. ~(m <= x)
        BY <1>1, <1>5, <2>2, <3>1
      <3>. QED
        BY <1>5, <3>1, <3>2
    <2>. QED
      BY <2>1, <2>2
  <1>7. ~(Cardinality(B) < n)
    BY <1>5, <1>6
  <1>8. Cardinality(B) \in Nat
    <2>1. B \in SUBSET A
      OBVIOUS
    <2>2. IsFiniteSet(B)
      BY <2>1, FS_Subset
    <2>. QED
      BY <2>2, FS_CardinalityType
  <1>9. ASSUME NEW q \in B
        PROVE  q < r
    <2>1. q \in A
      OBVIOUS
    <2>2. ~(r <= q)
      BY <1>1, <1>9, <2>1
    <2>. QED
      BY <2>1, <2>2
  <1>. QED
    BY <1>7, <1>8, <1>9

-----------------------------------------------------------------------------
(***************************************************************************)
(* The stored events                                                       *)
(*                                                                         *)
(* The version stands for the rules: a pass or a batch that remembers the  *)
(* version in force remembers what the rules in force say.  And a batch of *)
(* the cleaner that leaves a row in reach out is full and ends before it.  *)
(***************************************************************************)
PassRight ==
  pass.at = "scan" =>
    /\ pass.version <= config.version
    /\ pass.version = config.version => pass.rules = config.rules

BatchRight ==
  batch.at = "write" =>
    /\ batch.version <= config.version
    /\ batch.version = config.version => ShouldStore(config.rules, batch.event)

StoreIInv == StoreTypeOK /\ PassRight /\ BatchRight /\ RulesReachStoredRows

\* The kinds of a pass and of a batch.
LEMMA PassKinds ==
  ASSUME StoreTypeOK
  PROVE  /\ pass.at = "idle" => pass = NoPass
         /\ pass.at = "rules" =>
              pass \in [at: {"rules"}, full: BOOLEAN, today: 1..day, retention: 1..MaxRetention, newest: 0..lastRow]
         /\ pass.at = "scan" =>
              pass \in [at: {"scan"}, full: BOOLEAN, today: 1..day, retention: 1..MaxRetention, newest: 0..lastRow,
                       cursor: 0..lastRow, rules: Seq(Rules), version: 0..MaxSaves]
         /\ pass.at \in {"idle", "rules", "scan"}
  BY DEF StoreTypeOK, Passes, NoPass

LEMMA BatchKinds ==
  ASSUME StoreTypeOK
  PROVE  /\ batch.at = "rules" => batch \in [at: {"rules"}, event: EventInputs, retention: 1..MaxRetention]
         /\ batch.at = "write" => batch \in [at: {"write"}, event: EventInputs, version: 0..MaxSaves]
  BY DEF StoreTypeOK, Batches, NoBatch

LEMMA ConfigFacts ==
  ASSUME StoreTypeOK
  PROVE  /\ config.retention \in 1..MaxRetention /\ config.version \in 0..MaxSaves /\ config.rules \in Seq(Rules)
         /\ config.version \in Nat /\ day \in Nat \ {0} /\ lastRow \in Nat
         /\ NoPass \in Passes /\ NoBatch \in Batches /\ NoPass.at = "idle" /\ NoBatch.at = "idle"
  BY StoreAssumption DEF StoreTypeOK, Passes, Batches, NoPass, NoBatch

\* Passes stay what they are while the clock and the rows go on.
LEMMA PassesGrow ==
  ASSUME StoreTypeOK, day' \in Nat, day' >= day, lastRow' \in Nat, lastRow' >= lastRow
  PROVE  pass \in Passes'
  <1>1. day \in Nat /\ lastRow \in Nat
    BY DEF StoreTypeOK
  <1>2. 1..day \subseteq 1..day' /\ 0..lastRow \subseteq 0..lastRow'
    BY <1>1
  <1>3. CASE pass.at = "idle"
    BY <1>3, PassKinds DEF Passes
  <1>4. CASE pass.at = "rules"
    <2>1. pass \in [at: {"rules"}, full: BOOLEAN, today: 1..day', retention: 1..MaxRetention, newest: 0..lastRow']
      BY <1>2, <1>4, PassKinds
    <2>. QED
      BY <2>1 DEF Passes
  <1>5. CASE pass.at = "scan"
    <2>1. pass \in [at: {"scan"}, full: BOOLEAN, today: 1..day', retention: 1..MaxRetention, newest: 0..lastRow',
                   cursor: 0..lastRow', rules: Seq(Rules), version: 0..MaxSaves]
      BY <1>2, <1>5, PassKinds
    <2>. QED
      BY <2>1 DEF Passes
  <1>. QED
    BY <1>3, <1>4, <1>5, PassKinds

LEMMA RulesAreSaved ==
  ASSUME NEW days, NEW rules \in RuleInputs, ValidSettings(days, rules),
         NEW saved, saved = [i \in DOMAIN rules |-> normalizeAdmissionStoragePolicy(rules[i])]
  PROVE  /\ saved \in Seq(Rules)
         /\ \A i \in DOMAIN saved : /\ saved[i].mode \in {"include", "exclude"}
                                   /\ saved[i].verdicts \subseteq {"audit", "deny"}
  <1>1. rules \in Seq(Rules)
    BY StoreAssumption
  <1>2. DOMAIN rules = 1..Len(rules) /\ Len(rules) \in Nat /\ \A i \in DOMAIN rules : rules[i] \in Rules
    BY <1>1
  <1>3. ASSUME NEW i \in DOMAIN rules
        PROVE  /\ saved[i] \in Rules /\ saved[i].mode \in {"include", "exclude"}
               /\ saved[i].verdicts \subseteq {"audit", "deny"}
    <2>1. rules[i] \in Rules /\ rules[i].mode \in {"", "include", "exclude"} /\ rules[i].verdicts \subseteq {"audit", "deny"}
      BY <1>2 DEF ValidSettings
    <2>2. saved[i] = normalizeAdmissionStoragePolicy(rules[i])
      OBVIOUS
    <2>3. CASE rules[i].mode = ""
      <3>1. saved[i] = [rules[i] EXCEPT !.mode = "include"]
        BY <2>2, <2>3 DEF normalizeAdmissionStoragePolicy
      <3>. QED
        BY <2>1, <3>1 DEF Rules
    <2>4. CASE rules[i].mode # ""
      BY <2>1, <2>2, <2>4 DEF normalizeAdmissionStoragePolicy
    <2>. QED
      BY <2>3, <2>4
  <1>4. saved \in [1..Len(rules) -> Rules]
    BY <1>2, <1>3
  <1>5. saved \in Seq(Rules)
    BY <1>2, <1>4
  <1>. QED
    BY <1>3, <1>5

LEMMA UpdateSettingsKeeps ==
  ASSUME StoreIInv, NEW days, NEW rules \in RuleInputs, UpdateSettings(days, rules)
  PROVE  StoreIInv'
  <1>1. /\ config.version < MaxSaves /\ ValidSettings(days, rules) /\ notice' = TRUE /\ cut' = FALSE /\ day' = day
        /\ stored' = stored /\ lastRow' = lastRow /\ batch' = batch /\ full' = full /\ pass' = pass /\ losses' = losses
    BY DEF UpdateSettings
  <1>2. StoreTypeOK
    BY DEF StoreIInv
  <1>3. PICK saved : saved = [i \in DOMAIN rules |-> normalizeAdmissionStoragePolicy(rules[i])]
    OBVIOUS
  <1>4. config' = [retention |-> days, version |-> config.version + 1, rules |-> saved]
    BY <1>3 DEF UpdateSettings
  <1>5. config'.version = config.version + 1 /\ config'.rules = saved
    BY <1>4
  <1>6. saved \in Seq(Rules) /\ \A i \in DOMAIN saved : /\ saved[i].mode \in {"include", "exclude"}
                                                       /\ saved[i].verdicts \subseteq {"audit", "deny"}
    BY <1>1, <1>3, RulesAreSaved
  <1>7. days \in 1..MaxRetention /\ config.version + 1 \in 0..MaxSaves /\ config.version \in Nat
    <2>1. config.version \in Nat /\ MaxSaves \in Nat
      BY <1>2, ConfigFacts, StoreAssumption
    <2>2. config.version + 1 \in 0..MaxSaves
      BY <1>1, <2>1
    <2>. QED
      BY <1>1, <2>1, <2>2 DEF ValidSettings
  <1>8. config' \in [retention: 1..MaxRetention, version: 0..MaxSaves, rules: Seq(Rules)]
    BY <1>4, <1>6, <1>7
  <1>9. pass' \in Passes' /\ batch' \in Batches'
    BY <1>1, <1>2, ConfigFacts, PassesGrow DEF StoreTypeOK, Batches
  <1>10. StoreTypeOK'
    BY <1>1, <1>2, <1>5, <1>6, <1>8, <1>9 DEF StoreTypeOK
  <1>11. PassRight'
    <2>1. pass.at = "scan" => pass.version \in Nat /\ pass.version <= config.version
      BY <1>2, PassKinds DEF StoreIInv, PassRight
    <2>. QED
      BY <1>1, <1>5, <1>7, <2>1 DEF PassRight
  <1>12. BatchRight'
    <2>1. batch.at = "write" => batch.version \in Nat /\ batch.version <= config.version
      BY <1>2, BatchKinds DEF StoreIInv, BatchRight
    <2>. QED
      BY <1>1, <1>5, <1>7, <2>1 DEF BatchRight
  <1>13. RulesReachStoredRows'
    BY <1>1 DEF RulesReachStoredRows
  <1>. QED
    BY <1>10, <1>11, <1>12, <1>13 DEF StoreIInv

\* Steps that leave the configuration, the rows and what is remembered of them.
LEMMA NotifyKeeps ==
  ASSUME StoreIInv, NotifyChange \/ NotifyLost
  PROVE  StoreIInv'
  <1>1. /\ day' = day /\ config' = config /\ stored' = stored /\ lastRow' = lastRow /\ batch' = batch /\ pass' = pass
        /\ notice' = FALSE /\ full' \in BOOLEAN /\ cut' \in BOOLEAN /\ (full' \/ cut') /\ losses' \in 0..MaxLosses
    <2>1. losses \in 0..MaxLosses /\ full \in BOOLEAN /\ cut \in BOOLEAN /\ MaxLosses \in Nat
      BY StoreAssumption DEF StoreIInv, StoreTypeOK
    <2>2. CASE NotifyChange
      BY <2>1, <2>2 DEF NotifyChange, TriggerFullCleanup
    <2>3. CASE NotifyLost
      BY <2>1, <2>3 DEF NotifyLost
    <2>. QED
      BY <2>2, <2>3
  <1>2. StoreTypeOK'
    BY <1>1 DEF StoreIInv, StoreTypeOK, Passes, Batches
  <1>3. PassRight' /\ BatchRight'
    BY <1>1 DEF StoreIInv, PassRight, BatchRight
  <1>4. RulesReachStoredRows'
    BY <1>1 DEF RulesReachStoredRows
  <1>. QED
    BY <1>2, <1>3, <1>4 DEF StoreIInv

\* The batch moves on; the cleaner, the configuration and the rows stay.
LEMMA BatchMoves ==
  ASSUME StoreIInv, batch' \in Batches, BatchRight', losses' \in 0..MaxLosses, day' = day, config' = config, stored' = stored,
         lastRow' = lastRow, full' = full, pass' = pass, notice' = notice, cut' = cut
  PROVE  StoreIInv'
  <1>1. StoreTypeOK'
    BY DEF StoreIInv, StoreTypeOK, Passes, Batches
  <1>2. PassRight'
    BY DEF StoreIInv, PassRight
  <1>3. RulesReachStoredRows'
    BY DEF StoreIInv, RulesReachStoredRows, StillToJudge
  <1>. QED
    BY <1>1, <1>2, <1>3 DEF StoreIInv

LEMMA ReceiveBatchKeeps ==
  ASSUME StoreIInv, NEW event \in EventInputs, ReceiveBatch(event)
  PROVE  StoreIInv'
  <1>1. StoreTypeOK /\ losses \in 0..MaxLosses
    BY DEF StoreIInv, StoreTypeOK
  <1>2. PICK b : b = [at |-> "rules", event |-> event, retention |-> config.retention]
    OBVIOUS
  <1>3. batch' = b /\ b.at = "rules"
    BY <1>2 DEF ReceiveBatch
  <1>4. b \in [at: {"rules"}, event: EventInputs, retention: 1..MaxRetention]
    BY <1>1, <1>2, ConfigFacts
  <1>5. batch' \in Batches
    BY <1>3, <1>4 DEF Batches
  <1>6. BatchRight'
    BY <1>3 DEF BatchRight
  <1>. QED
    BY <1>1, <1>5, <1>6, BatchMoves DEF ReceiveBatch

LEMMA DecideBatchKeeps ==
  ASSUME StoreIInv, DecideBatch
  PROVE  StoreIInv'
  <1>1. StoreTypeOK /\ losses \in 0..MaxLosses /\ batch.at = "rules" /\ config' = config
    BY DEF StoreIInv, StoreTypeOK, DecideBatch
  <1>2. PICK b : b = [at |-> "write", event |-> batch.event, version |-> config.version]
    OBVIOUS
  <1>3. batch.event \in EventInputs
    BY <1>1, BatchKinds
  <1>4. b \in [at: {"write"}, event: EventInputs, version: 0..MaxSaves]
    BY <1>1, <1>2, <1>3, ConfigFacts
  <1>5. b.at = "write" /\ b.event = batch.event /\ b.version = config.version
    BY <1>2
  <1>6. CASE Decides(batch.event, config.rules, batch.retention, day)
    <2>1. batch' = b
      BY <1>2, <1>6 DEF DecideBatch
    <2>2. ShouldStore(config.rules, batch.event)
      BY <1>6 DEF Decides
    <2>3. config.version <= config.version
      BY <1>1, ConfigFacts
    <2>4. BatchRight'
      BY <1>1, <1>5, <2>1, <2>2, <2>3 DEF BatchRight
    <2>5. batch' \in Batches
      BY <1>4, <2>1 DEF Batches
    <2>. QED
      BY <1>1, <2>4, <2>5, BatchMoves DEF DecideBatch
  <1>7. CASE ~Decides(batch.event, config.rules, batch.retention, day)
    <2>1. batch' = NoBatch
      BY <1>7 DEF DecideBatch
    <2>2. BatchRight'
      BY <1>1, <2>1, ConfigFacts DEF BatchRight
    <2>3. batch' \in Batches
      BY <1>1, <2>1, ConfigFacts
    <2>. QED
      BY <1>1, <2>2, <2>3, BatchMoves DEF DecideBatch
  <1>. QED
    BY <1>6, <1>7

LEMMA AbandonBatchKeeps ==
  ASSUME StoreIInv, AbandonBatch
  PROVE  StoreIInv'
  <1>1. StoreTypeOK /\ losses \in 0..MaxLosses /\ batch' = NoBatch
    BY DEF StoreIInv, StoreTypeOK, AbandonBatch
  <1>2. losses' \in 0..MaxLosses
    BY <1>1, StoreAssumption DEF AbandonBatch
  <1>3. BatchRight'
    BY <1>1, ConfigFacts DEF BatchRight
  <1>4. batch' \in Batches
    BY <1>1, ConfigFacts
  <1>. QED
    BY <1>2, <1>3, <1>4, BatchMoves DEF AbandonBatch

LEMMA WriteBatchKeeps ==
  ASSUME StoreIInv, WriteBatch
  PROVE  StoreIInv'
  <1>1. StoreTypeOK /\ losses \in 0..MaxLosses /\ batch.at = "write"
    BY DEF StoreIInv, StoreTypeOK, WriteBatch
  <1>2. /\ batch' = NoBatch /\ day' = day /\ config' = config /\ full' = full /\ pass' = pass /\ notice' = notice
        /\ cut' = cut /\ losses' = losses /\ CreateEventsIdempotentCount(batch.event, batch.version)
    BY DEF WriteBatch
  <1>3. batch' \in Batches /\ BatchRight'
    BY <1>1, <1>2, ConfigFacts DEF BatchRight
  <1>4. CASE \E r \in DOMAIN stored : stored[r].event.id = batch.event.id
    <2>1. stored' = stored /\ lastRow' = lastRow
      BY <1>2, <1>4 DEF CreateEventsIdempotentCount
    <2>. QED
      BY <1>1, <1>2, <1>3, <2>1, BatchMoves
  <1>5. CASE ~\E r \in DOMAIN stored : stored[r].event.id = batch.event.id
    <2>1. PICK row : row = [event |-> batch.event, created |-> day, late |-> batch.version # config.version]
      OBVIOUS
    <2>2. /\ lastRow' = lastRow + 1
          /\ stored' = [r \in DOMAIN stored \cup {lastRow + 1} |-> IF r \in DOMAIN stored THEN stored[r] ELSE row]
      BY <1>2, <1>5, <2>1 DEF CreateEventsIdempotentCount
    <2>3. batch.event \in EventInputs /\ day \in 1..day /\ lastRow \in Nat /\ day \in Nat \ {0}
      BY <1>1, BatchKinds, ConfigFacts
    <2>4. row \in [event: EventInputs, created: 1..day, late: BOOLEAN] /\ row.event = batch.event
          /\ row.late = (batch.version # config.version)
      BY <2>1, <2>3
    <2>5. DOMAIN stored \subseteq 1..lastRow /\ stored \in [DOMAIN stored -> [event: EventInputs, created: 1..day, late: BOOLEAN]]
      BY <1>1 DEF StoreTypeOK
    <2>6. lastRow + 1 \notin DOMAIN stored /\ 1..lastRow \subseteq 1..(lastRow + 1) /\ lastRow + 1 \in 1..(lastRow + 1)
      BY <2>3, <2>5
    <2>7. /\ DOMAIN stored' = DOMAIN stored \cup {lastRow + 1} /\ stored'[lastRow + 1] = row
          /\ \A r \in DOMAIN stored : stored'[r] = stored[r]
          /\ stored' \in [DOMAIN stored' -> [event: EventInputs, created: 1..day, late: BOOLEAN]]
      BY <2>2, <2>4, <2>5, <2>6
    <2>8. pass' \in Passes'
      <3>1. day' \in Nat /\ day' >= day /\ lastRow' \in Nat /\ lastRow' >= lastRow
        BY <1>2, <2>2, <2>3
      <3>. QED
        BY <1>1, <1>2, <3>1, PassesGrow
    <2>9. DOMAIN stored' \subseteq 1..lastRow' /\ lastRow' \in Nat
      BY <2>2, <2>3, <2>5, <2>6, <2>7
    <2>10. StoreTypeOK'
      BY <1>1, <1>2, <1>3, <2>7, <2>8, <2>9 DEF StoreTypeOK, Batches
    <2>11. PassRight'
      BY <1>2 DEF StoreIInv, PassRight
    <2>12. RulesReachStoredRows'
      <3>1. \A r \in DOMAIN stored : \/ ShouldStore(config.rules, stored[r].event)
                                     \/ notice \/ full \/ StillToJudge(r)
                                     \/ cut \/ stored[r].late
        BY DEF StoreIInv, RulesReachStoredRows
      <3>2. \A r : StillToJudge(r) => StillToJudge(r)'
        BY <1>2 DEF StillToJudge
      <3>3. ShouldStore(config.rules, row.event) \/ row.late
        BY <1>1, <2>4 DEF StoreIInv, BatchRight
      <3>. QED
        BY <1>2, <2>7, <3>1, <3>2, <3>3 DEF RulesReachStoredRows
    <2>. QED
      BY <1>3, <2>10, <2>11, <2>12 DEF StoreIInv
  <1>. QED
    BY <1>4, <1>5

\* The pass moves on; rows may go, and the rest stays.
LEMMA PassMoves ==
  ASSUME StoreIInv, pass' \in Passes, PassRight', losses' \in 0..MaxLosses, full' \in BOOLEAN, cut' \in BOOLEAN,
         day' = day, config' = config, lastRow' = lastRow, batch' \in Batches, BatchRight', notice' = notice,
         DOMAIN stored' \subseteq DOMAIN stored, stored' = [r \in DOMAIN stored' |-> stored[r]],
         \A r \in DOMAIN stored' : (full \/ StillToJudge(r) \/ cut) /\ ~ShouldStore(config.rules, stored[r].event) =>
                                   full' \/ StillToJudge(r)' \/ cut'
  PROVE  StoreIInv'
  <1>1. StoreTypeOK
    BY DEF StoreIInv
  <1>2. \A r \in DOMAIN stored' : stored'[r] = stored[r] /\ r \in DOMAIN stored
    OBVIOUS
  <1>3. stored' \in [DOMAIN stored' -> [event: EventInputs, created: 1..day, late: BOOLEAN]]
    BY <1>1, <1>2 DEF StoreTypeOK
  <1>4. StoreTypeOK'
    BY <1>1, <1>3 DEF StoreTypeOK, Passes, Batches
  <1>5. \A r \in DOMAIN stored : \/ ShouldStore(config.rules, stored[r].event)
                                 \/ notice \/ full \/ StillToJudge(r)
                                 \/ cut \/ stored[r].late
    BY DEF StoreIInv, RulesReachStoredRows
  <1>6. ASSUME NEW r \in DOMAIN stored'
        PROVE  \/ ShouldStore(config'.rules, stored'[r].event)
               \/ notice' \/ full' \/ StillToJudge(r)'
               \/ cut' \/ stored'[r].late
    <2>1. stored'[r] = stored[r] /\ r \in DOMAIN stored
      BY <1>2
    <2>. QED
      BY <1>5, <2>1
  <1>7. RulesReachStoredRows'
    BY <1>6 DEF RulesReachStoredRows
  <1>. QED
    BY <1>4, <1>7 DEF StoreIInv

LEMMA BeginPassKeeps ==
  ASSUME StoreIInv, NEW isFull \in BOOLEAN, BeginPass(isFull)
  PROVE  StoreIInv'
  <1>1. StoreTypeOK /\ pass.at = "idle" /\ batch \in Batches /\ full \in BOOLEAN /\ cut \in BOOLEAN /\ losses \in 0..MaxLosses
        /\ DOMAIN stored \subseteq 1..lastRow /\ stored = [r \in DOMAIN stored |-> stored[r]] /\ BatchRight
    BY DEF StoreIInv, StoreTypeOK, BeginPass
  <1>2. PICK p : p = [at |-> "rules", full |-> isFull, today |-> day, retention |-> config.retention, newest |-> lastRow]
    OBVIOUS
  <1>3. /\ pass' = p /\ day' = day /\ config' = config /\ stored' = stored /\ lastRow' = lastRow /\ batch' = batch
        /\ notice' = notice /\ cut' = cut /\ losses' = losses
    BY <1>2 DEF BeginPass
  <1>4. p.at = "rules" /\ p.full = isFull /\ p.newest = lastRow
    BY <1>2
  <1>5. p \in [at: {"rules"}, full: BOOLEAN, today: 1..day, retention: 1..MaxRetention, newest: 0..lastRow]
    <2>1. day \in 1..day /\ lastRow \in 0..lastRow /\ config.retention \in 1..MaxRetention
      BY <1>1, ConfigFacts
    <2>. QED
      BY <1>2, <2>1
  <1>6. pass' \in Passes /\ PassRight'
    BY <1>3, <1>4, <1>5 DEF Passes, PassRight
  <1>7. full' \in BOOLEAN /\ (full => full' \/ isFull)
    BY <1>1 DEF BeginPass
  <1>8. \A r : ~StillToJudge(r)
    BY <1>1 DEF StillToJudge
  <1>9. ASSUME NEW r \in DOMAIN stored', isFull
        PROVE  StillToJudge(r)'
    <2>1. r <= lastRow
      BY <1>1, <1>3, ConfigFacts
    <2>. QED
      BY <1>3, <1>4, <1>9, <2>1 DEF StillToJudge
  <1>10. \A r \in DOMAIN stored' : (full \/ StillToJudge(r) \/ cut) /\ ~ShouldStore(config.rules, stored[r].event) =>
                                   full' \/ StillToJudge(r)' \/ cut'
    BY <1>3, <1>7, <1>8, <1>9
  <1>11. BatchRight' /\ stored' = [r \in DOMAIN stored' |-> stored[r]] /\ DOMAIN stored' \subseteq DOMAIN stored
    BY <1>1, <1>3 DEF BatchRight
  <1>. QED
    BY <1>1, <1>3, <1>6, <1>7, <1>10, <1>11, PassMoves

LEMMA ReadRulesKeeps ==
  ASSUME StoreIInv, ReadRules
  PROVE  StoreIInv'
  <1>1. StoreTypeOK /\ pass.at = "rules" /\ batch \in Batches /\ full \in BOOLEAN /\ cut \in BOOLEAN /\ losses \in 0..MaxLosses
        /\ DOMAIN stored \subseteq 1..lastRow /\ stored = [r \in DOMAIN stored |-> stored[r]] /\ BatchRight
    BY DEF StoreIInv, StoreTypeOK, ReadRules
  <1>2. PICK p : p = [at |-> "scan", full |-> pass.full, today |-> pass.today, cursor |-> 0, retention |-> pass.retention,
                      newest |-> pass.newest, rules |-> config.rules, version |-> config.version]
    OBVIOUS
  <1>3. /\ pass' = p /\ day' = day /\ config' = config /\ stored' = stored /\ lastRow' = lastRow /\ batch' = batch
        /\ notice' = notice /\ cut' = cut /\ losses' = losses /\ full' = full
    BY <1>2 DEF ReadRules
  <1>4. /\ p.at = "scan" /\ p.full = pass.full /\ p.newest = pass.newest /\ p.cursor = 0 /\ p.rules = config.rules
        /\ p.version = config.version
    BY <1>2
  <1>5. p \in [at: {"scan"}, full: BOOLEAN, today: 1..day, retention: 1..MaxRetention, newest: 0..lastRow,
               cursor: 0..lastRow, rules: Seq(Rules), version: 0..MaxSaves]
    <2>1. pass \in [at: {"rules"}, full: BOOLEAN, today: 1..day, retention: 1..MaxRetention, newest: 0..lastRow]
      BY <1>1, PassKinds
    <2>2. 0 \in 0..lastRow /\ config.version \in 0..MaxSaves /\ config.rules \in Seq(Rules)
      BY <1>1, ConfigFacts
    <2>. QED
      BY <1>2, <2>1, <2>2
  <1>6. pass' \in Passes
    BY <1>3, <1>5 DEF Passes
  <1>7. PassRight'
    <2>1. config.version <= config.version
      BY <1>1, ConfigFacts
    <2>. QED
      BY <1>3, <1>4, <2>1 DEF PassRight
  <1>8. ASSUME NEW r \in DOMAIN stored', StillToJudge(r)
        PROVE  StillToJudge(r)'
    <2>1. r > 0
      BY <1>1, <1>3, ConfigFacts
    <2>. QED
      BY <1>3, <1>4, <1>8, <2>1 DEF StillToJudge
  <1>9. \A r \in DOMAIN stored' : (full \/ StillToJudge(r) \/ cut) /\ ~ShouldStore(config.rules, stored[r].event) =>
                                  full' \/ StillToJudge(r)' \/ cut'
    BY <1>3, <1>8
  <1>10. BatchRight' /\ stored' = [r \in DOMAIN stored' |-> stored[r]] /\ DOMAIN stored' \subseteq DOMAIN stored
    BY <1>1, <1>3 DEF BatchRight
  <1>. QED
    BY <1>1, <1>3, <1>6, <1>7, <1>9, <1>10, PassMoves

LEMMA CleanupBatchKeeps ==
  ASSUME StoreIInv, CleanupBatch
  PROVE  StoreIInv'
  <1>1. StoreTypeOK /\ pass.at = "scan" /\ batch \in Batches /\ full \in BOOLEAN /\ cut \in BOOLEAN /\ losses \in 0..MaxLosses
        /\ DOMAIN stored \subseteq 1..lastRow /\ BatchRight /\ PassRight
    BY DEF StoreIInv, StoreTypeOK, CleanupBatch
  <1>2. pass \in [at: {"scan"}, full: BOOLEAN, today: 1..day, retention: 1..MaxRetention, newest: 0..lastRow,
                  cursor: 0..lastRow, rules: Seq(Rules), version: 0..MaxSaves]
    BY <1>1, PassKinds
  <1>3. lastRow \in Nat /\ CleanupBatchSize \in Nat \ {0}
    BY <1>1, ConfigFacts, StoreAssumption
  <1>4. PICK A : A = {r \in DOMAIN stored : r > pass.cursor /\ InRange(r)}
    OBVIOUS
  <1>5. PICK B : B = {r \in A : Cardinality({q \in A : q < r}) < CleanupBatchSize}
    OBVIOUS
  <1>6. B = Candidates
    BY <1>4, <1>5 DEF Candidates
  <1>7. PICK gone : gone = {r \in B : ExpiredRow(r)}
    OBVIOUS
  <1>8. /\ stored' = [r \in DOMAIN stored \ gone |-> stored[r]]
        /\ pass' = IF Cardinality(B) < CleanupBatchSize THEN NoPass ELSE [pass EXCEPT !.cursor = Max(B)]
        /\ day' = day /\ config' = config /\ lastRow' = lastRow /\ batch' = batch /\ full' = full /\ notice' = notice
        /\ cut' = cut /\ losses' = losses
    BY <1>6, <1>7 DEF CleanupBatch
  <1>9. A \in SUBSET Nat /\ IsFiniteSet(A) /\ B \in SUBSET A
    <2>1. A \in SUBSET (1..lastRow) /\ B \in SUBSET A
      BY <1>1, <1>4, <1>5
    <2>2. IsFiniteSet(1..lastRow)
      BY <1>3, FS_Interval
    <2>3. IsFiniteSet(A)
      BY <2>1, <2>2, FS_Subset
    <2>4. 1..lastRow \in SUBSET Nat
      BY <1>3
    <2>. QED
      BY <2>1, <2>3, <2>4
  <1>10. ASSUME ~(Cardinality(B) < CleanupBatchSize)
         PROVE  Max(B) \in B /\ Max(B) \in 0..lastRow /\ \A q \in B : q <= Max(B)
    <2>1. B # {}
      <3>1. Cardinality({}) = 0
        BY FS_EmptySet
      <3>. QED
        BY <1>3, <1>10, <3>1
    <2>2. B \in SUBSET DOMAIN stored
      BY <1>4, <1>5
    <2>3. B \in SUBSET (1..lastRow)
      BY <1>1, <2>2
    <2>4. B \in SUBSET Nat
      BY <1>9
    <2>5. \A q \in B : q <= lastRow
      BY <1>3, <2>3
    <2>6. Max(B) \in B /\ \A q \in B : q <= Max(B)
      BY <1>3, <2>1, <2>4, <2>5, MaxFacts
    <2>7. 1..lastRow \in SUBSET (0..lastRow)
      BY <1>3
    <2>8. PICK m : m = Max(B)
      OBVIOUS
    <2>9. m \in B /\ \A q \in B : q <= m
      BY <2>6, <2>8
    <2>10. m \in 0..lastRow
      BY <2>3, <2>7, <2>9
    <2>. QED
      BY <2>8, <2>9, <2>10
  <1>11. PICK p : p = [pass EXCEPT !.cursor = Max(B)]
    OBVIOUS
  <1>12. /\ p.at = "scan" /\ p.full = pass.full /\ p.newest = pass.newest /\ p.cursor = Max(B) /\ p.rules = pass.rules
         /\ p.version = pass.version
    BY <1>2, <1>11
  <1>13. pass' \in Passes /\ PassRight'
    <2>1. CASE Cardinality(B) < CleanupBatchSize
      BY <1>1, <1>8, <2>1, ConfigFacts DEF PassRight
    <2>2. CASE ~(Cardinality(B) < CleanupBatchSize)
      <3>1. pass' = p
        BY <1>8, <1>11, <2>2
      <3>2. Max(B) \in 0..lastRow
        BY <1>10, <2>2
      <3>3. p \in [at: {"scan"}, full: BOOLEAN, today: 1..day, retention: 1..MaxRetention, newest: 0..lastRow,
                   cursor: 0..lastRow, rules: Seq(Rules), version: 0..MaxSaves]
        BY <1>2, <1>11, <3>2
      <3>4. PassRight'
        BY <1>1, <1>8, <1>12, <3>1 DEF PassRight
      <3>. QED
        BY <3>1, <3>3, <3>4 DEF Passes
    <2>. QED
      BY <2>1, <2>2
  <1>14. DOMAIN stored' = DOMAIN stored \ gone
    BY <1>8
  <1>15. DOMAIN stored' \subseteq DOMAIN stored /\ stored' = [r \in DOMAIN stored' |-> stored[r]]
    BY <1>8, <1>14
  <1>16. BatchRight'
    BY <1>1, <1>8 DEF BatchRight
  <1>17. ASSUME NEW r \in DOMAIN stored', StillToJudge(r), ~ShouldStore(config.rules, stored[r].event)
         PROVE  StillToJudge(r)'
    <2>1. pass.full /\ r <= pass.newest /\ pass.version = config.version /\ r > pass.cursor
      BY <1>1, <1>17 DEF StillToJudge
    <2>2. r \in DOMAIN stored /\ r \notin gone
      BY <1>14, <1>17
    <2>3. r \in A
      BY <1>4, <2>1, <2>2 DEF InRange
    <2>4. ~ShouldStore(pass.rules, stored[r].event)
      BY <1>1, <1>17, <2>1 DEF PassRight
    <2>5. r \notin B
      BY <1>7, <2>2, <2>4 DEF ExpiredRow
    <2>6. Cardinality(B) >= CleanupBatchSize /\ \A q \in B : q < r
      <3>1. CleanupBatchSize \in Nat
        BY <1>3
      <3>. QED
        BY <1>5, <1>9, <2>3, <2>5, <3>1, FirstMembers
    <2>7. ~(Cardinality(B) < CleanupBatchSize)
      <3>1. IsFiniteSet(B)
        BY <1>9, FS_Subset
      <3>2. Cardinality(B) \in Nat
        BY <3>1, FS_CardinalityType
      <3>. QED
        BY <1>3, <2>6, <3>2
    <2>8. Max(B) < r
      BY <1>10, <2>6, <2>7
    <2>9. r > Max(B)
      BY <2>8
    <2>10. pass' = p
      BY <1>8, <1>11, <2>7
    <2>. QED
      BY <1>8, <1>12, <2>1, <2>9, <2>10 DEF StillToJudge
  <1>18. \A r \in DOMAIN stored' : (full \/ StillToJudge(r) \/ cut) /\ ~ShouldStore(config.rules, stored[r].event) =>
                                   full' \/ StillToJudge(r)' \/ cut'
    BY <1>8, <1>17
  <1>. QED
    BY <1>1, <1>8, <1>13, <1>15, <1>16, <1>18, PassMoves

LEMMA PassStopsKeeps ==
  ASSUME StoreIInv, PassFails \/ GatewayRestarts
  PROVE  StoreIInv'
  <1>1. StoreTypeOK /\ batch \in Batches /\ full \in BOOLEAN /\ cut \in BOOLEAN /\ losses \in 0..MaxLosses
        /\ stored = [r \in DOMAIN stored |-> stored[r]] /\ BatchRight
    BY DEF StoreIInv, StoreTypeOK
  <1>2. /\ pass' = NoPass /\ day' = day /\ config' = config /\ lastRow' = lastRow /\ stored' = stored /\ notice' = notice
        /\ (batch' = batch \/ batch' = NoBatch)
    BY DEF PassFails, GatewayRestarts
  <1>3. losses' \in 0..MaxLosses
    BY <1>1, StoreAssumption DEF PassFails, GatewayRestarts
  <1>4. /\ cut' \in BOOLEAN /\ full' \in BOOLEAN
        /\ full \/ cut \/ (pass.at # "idle" /\ pass.full) => full' \/ cut'
    <2>1. pass.at # "idle" => pass.full \in BOOLEAN
      BY <1>1, PassKinds
    <2>2. CASE PassFails
      BY <1>1, <2>1, <2>2 DEF PassFails
    <2>3. CASE GatewayRestarts
      BY <1>1, <2>1, <2>3 DEF GatewayRestarts
    <2>. QED
      BY <2>2, <2>3
  <1>5. batch' \in Batches /\ BatchRight'
    <2>1. CASE batch' = batch
      BY <1>1, <1>2, <2>1 DEF BatchRight
    <2>2. CASE batch' = NoBatch
      BY <1>1, <2>2, ConfigFacts DEF BatchRight
    <2>. QED
      BY <1>2, <2>1, <2>2
  <1>6. pass' \in Passes /\ PassRight'
    BY <1>1, <1>2, ConfigFacts DEF PassRight
  <1>7. \A r : StillToJudge(r) => pass.at # "idle" /\ pass.full
    BY DEF StillToJudge
  <1>8. \A r \in DOMAIN stored' : (full \/ StillToJudge(r) \/ cut) /\ ~ShouldStore(config.rules, stored[r].event) =>
                                  full' \/ StillToJudge(r)' \/ cut'
    BY <1>4, <1>7
  <1>9. stored' = [r \in DOMAIN stored' |-> stored[r]] /\ DOMAIN stored' \subseteq DOMAIN stored
    BY <1>1, <1>2
  <1>. QED
    BY <1>2, <1>3, <1>4, <1>5, <1>6, <1>8, <1>9, PassMoves

LEMMA NextDayKeeps ==
  ASSUME StoreIInv, NextDay
  PROVE  StoreIInv'
  <1>1. StoreTypeOK
    BY DEF StoreIInv
  <1>2. /\ day' = day + 1 /\ config' = config /\ stored' = stored /\ lastRow' = lastRow /\ batch' = batch /\ full' = full
        /\ pass' = pass /\ notice' = notice /\ cut' = cut /\ losses' = losses
    BY DEF NextDay
  <1>3. day \in Nat \ {0} /\ day' \in Nat \ {0} /\ day' >= day /\ 1..day \subseteq 1..day' /\ lastRow \in Nat
    BY <1>1, <1>2, ConfigFacts
  <1>4. pass' \in Passes'
    <2>1. lastRow' \in Nat /\ lastRow' >= lastRow
      BY <1>2, <1>3
    <2>. QED
      BY <1>1, <1>2, <1>3, <2>1, PassesGrow
  <1>5. stored' \in [DOMAIN stored' -> [event: EventInputs, created: 1..day', late: BOOLEAN]]
    <2>1. stored \in [DOMAIN stored -> [event: EventInputs, created: 1..day, late: BOOLEAN]]
      BY <1>1 DEF StoreTypeOK
    <2>2. [event: EventInputs, created: 1..day, late: BOOLEAN] \subseteq [event: EventInputs, created: 1..day', late: BOOLEAN]
      BY <1>3
    <2>. QED
      BY <1>2, <2>1, <2>2
  <1>6. StoreTypeOK'
    BY <1>1, <1>2, <1>3, <1>4, <1>5 DEF StoreTypeOK, Batches
  <1>7. PassRight' /\ BatchRight'
    BY <1>2 DEF StoreIInv, PassRight, BatchRight
  <1>8. RulesReachStoredRows'
    BY <1>2 DEF StoreIInv, RulesReachStoredRows, StillToJudge
  <1>. QED
    BY <1>6, <1>7, <1>8 DEF StoreIInv

LEMMA StoreStart ==
  StoreInit => StoreIInv
  <1> SUFFICES ASSUME StoreInit PROVE StoreIInv
    OBVIOUS
  <1>1. /\ day = 1 /\ config = [retention |-> DefaultRetention, version |-> 0, rules |-> <<>>] /\ DOMAIN stored = {}
        /\ lastRow = 0 /\ batch = NoBatch /\ full = FALSE /\ pass = NoPass /\ notice = FALSE /\ cut = FALSE /\ losses = 0
    BY DEF StoreInit
  <1>2. stored \in [DOMAIN stored -> [event: EventInputs, created: 1..day, late: BOOLEAN]] /\ DOMAIN stored \subseteq 1..lastRow
    BY <1>1 DEF StoreInit
  <1>3. config \in [retention: 1..MaxRetention, version: 0..MaxSaves, rules: Seq(Rules)] /\ DOMAIN config.rules = {}
    <2>1. 0 \in 0..MaxSaves /\ DefaultRetention \in 1..MaxRetention
      BY StoreAssumption
    <2>2. PICK rules : rules = <<>>
      OBVIOUS
    <2>3. rules \in Seq(Rules) /\ DOMAIN rules = {}
      BY <2>2
    <2>4. config = [retention |-> DefaultRetention, version |-> 0, rules |-> rules]
      BY <1>1, <2>2
    <2>. QED
      BY <2>1, <2>3, <2>4
  <1>4. batch \in Batches /\ pass \in Passes /\ batch.at = "idle" /\ pass.at = "idle"
    BY <1>1 DEF Batches, Passes, NoBatch, NoPass
  <1>5. losses \in 0..MaxLosses
    BY <1>1, StoreAssumption
  <1>6. StoreTypeOK
    <2>1. full \in BOOLEAN /\ notice \in BOOLEAN /\ cut \in BOOLEAN
      BY <1>1, Zenon
    <2>2. day = 1 /\ lastRow = 0
      BY <1>1, Zenon
    <2>3. day \in Nat \ {0} /\ lastRow \in Nat
      BY <2>2
    <2>4. \A i \in DOMAIN config.rules : /\ config.rules[i].mode \in {"include", "exclude"}
                                         /\ config.rules[i].verdicts \subseteq {"audit", "deny"}
      BY <1>3
    <2>5. config \in [retention: 1..MaxRetention, version: 0..MaxSaves, rules: Seq(Rules)]
      BY <1>3
    <2>. QED
      BY <1>2, <1>4, <1>5, <2>1, <2>3, <2>4, <2>5 DEF StoreTypeOK
  <1>. QED
    BY <1>1, <1>4, <1>6 DEF StoreIInv, PassRight, BatchRight, RulesReachStoredRows

LEMMA StoreStep ==
  StoreIInv /\ [StoreNext]_storeVars => StoreIInv'
  <1> SUFFICES ASSUME StoreIInv, [StoreNext]_storeVars PROVE StoreIInv'
    OBVIOUS
  <1>1. CASE UNCHANGED storeVars
    BY <1>1 DEF storeVars, StoreIInv, StoreTypeOK, Passes, Batches, PassRight, BatchRight, RulesReachStoredRows, StillToJudge
  <1>2. ASSUME NEW days \in RetentionInputs, NEW rules \in RuleInputs, UpdateSettings(days, rules) PROVE StoreIInv'
    BY <1>2, UpdateSettingsKeeps
  <1>3. CASE NotifyChange \/ NotifyLost
    BY <1>3, NotifyKeeps
  <1>4. ASSUME NEW event \in EventInputs, ReceiveBatch(event) PROVE StoreIInv'
    BY <1>4, ReceiveBatchKeeps
  <1>5. CASE DecideBatch
    BY <1>5, DecideBatchKeeps
  <1>6. CASE WriteBatch
    BY <1>6, WriteBatchKeeps
  <1>7. CASE AbandonBatch
    BY <1>7, AbandonBatchKeeps
  <1>8. ASSUME NEW isFull \in BOOLEAN, BeginPass(isFull) PROVE StoreIInv'
    BY <1>8, BeginPassKeeps
  <1>9. CASE ReadRules
    BY <1>9, ReadRulesKeeps
  <1>10. CASE CleanupBatch
    BY <1>10, CleanupBatchKeeps
  <1>11. CASE PassFails \/ GatewayRestarts
    BY <1>11, PassStopsKeeps
  <1>12. CASE NextDay
    BY <1>12, NextDayKeeps
  <1>. QED
    BY <1>1, <1>2, <1>3, <1>4, <1>5, <1>6, <1>7, <1>8, <1>9, <1>10, <1>11, <1>12 DEF StoreNext

(***************************************************************************)
(* The rows, the batch and the cleaner's pass keep to their types, and the *)
(* saved rules have the modes and verdicts the console lets through        *)
(* (UpdateSettings, handleAdmissionEventBatch, cleanup).                   *)
(***************************************************************************)
THEOREM StoreTypeCorrect ==
  StoreSpec => []StoreTypeOK
  <1>1. StoreIInv => StoreTypeOK
    BY DEF StoreIInv
  <1>. QED
    BY <1>1, StoreStart, StoreStep, PTL DEF StoreSpec

(***************************************************************************)
(* A changed rule set reaches every row already stored, for every rule     *)
(* set, batch size and order of saves, batches, passes and failures: what  *)
(* the rules in force do not store is still to be judged, unless a trigger *)
(* was lost or the row was written after the change that forbids it        *)
(* (TriggerFullCleanup, CleanupAll, CreateEventsIdempotentCount).          *)
(***************************************************************************)
THEOREM ChangedRulesReachRows ==
  StoreSpec => []RulesReachStoredRows
  <1>1. StoreIInv => RulesReachStoredRows
    BY DEF StoreIInv
  <1>. QED
    BY <1>1, StoreStart, StoreStep, PTL DEF StoreSpec


-----------------------------------------------------------------------------
(***************************************************************************)
(* PlatformSamples.  Every fault, election and change of the switch moves  *)
(* lastFault to the present minute, so what has been stored since then is  *)
(* what the processes are now.  The invariant says so of the rows, of the  *)
(* samples under way and of the copies of roles and switch, and that no    *)
(* minute since then lacks a row: an instance that had none in the minute  *)
(* before the health range would be compared with a row of an earlier      *)
(* process.  Retention takes rows from the oldest bucket on, so the minute *)
(* of a missing row is before every row that is left.                      *)
(***************************************************************************)
StartOf(i) == [at |-> proc[i].starts, nanos |-> 0]

HasLeader(i) ==
  \E p \in PInstances : Component(p) = Component(i) /\ proc[p].up /\ proc[p].role = "leader"

\* Roles, switch and samples under way, in a minute without a fault.
MinuteSteady ==
  now > lastFault =>
    /\ platOn.stored = platOn.gateway /\ platOn.operators = platOn.gateway
    /\ \A o \in Operators : proc[o].up => sessRole[o] = proc[o].role
    /\ \A i \in PInstances : HasLeader(i)
    /\ \A o \in Operators : samples[o] = <<>> \/ (proc[o].up /\ o \in sampled /\ samples[o] = <<Collect(o)>>)

Recent(r) == r.inst \in PInstances /\ r.seen > lastFault

\* A row stored since the latest fault is what its process is.
RowsTrue ==
  \A r \in platRows : Recent(r) =>
    /\ proc[r.inst].up /\ r.role = proc[r.inst].role /\ r.started = StartOf(r.inst)
    /\ r.pressure = Pressure(r.inst) /\ r.healthy = TRUE /\ r.bucket = r.seen

RestartsAgree == \A r, q \in platRows : Recent(r) /\ Recent(q) /\ r.inst = q.inst => r.restarts = q.restarts

\* No minute since the latest fault lacks a row, but for retention.
MinutesKept ==
  platOn.stored = TRUE =>
    \A i \in PInstances : proc[i].up =>
      \A m \in (lastFault + 1)..(now - 1) :
        (\E r \in platRows : r.inst = i /\ r.seen = m) \/ (\A r \in platRows : r.inst = i => r.bucket > m)

\* The sample of this minute has become a row.
Delivered(i) == i \in sampled /\ (i \in Operators => samples[i] = <<>>)

ThisMinuteKept ==
  platOn.stored = TRUE /\ now > lastFault =>
    \A i \in PInstances : proc[i].up /\ Delivered(i) => \E r \in platRows : r.inst = i /\ r.seen = now

PlatformIInv == PlatformTypeOK /\ MinuteSteady /\ RowsTrue /\ RestartsAgree /\ MinutesKept /\ ThisMinuteKept

LEMMA ComponentFacts ==
  /\ \A i \in Gateways : i \in PInstances /\ i \notin Operators /\ Component(i) = "gateway"
  /\ \A i \in Operators : i \in PInstances /\ i \notin Gateways /\ Component(i) = "operator"
  /\ "postgres" \notin PInstances /\ Component("postgres") = "postgres"
  /\ \A i \in PInstances : Component(i) \in {"gateway", "operator"}
  BY PlatformAssumption DEF PInstances, Component

LEMMA ClockFacts ==
  ASSUME PlatformTypeOK
  PROVE  /\ now \in Nat /\ lastFault \in Nat /\ lastFault <= now /\ faulty \in Nat /\ faulty <= MaxFaulty
         /\ now <= MaxMinutes /\ pgStart \in Nat
         /\ MaxFaulty \in Nat /\ MaxMinutes \in Nat /\ BucketSkew \in Nat /\ SampleCap \in Nat \ {0}
         /\ SampleRetention \in Nat /\ NoDataAfter \in Nat /\ HealthRange \in Nat
  BY PlatformAssumption DEF PlatformTypeOK

LEMMA ProcFacts ==
  ASSUME PlatformTypeOK, NEW i \in PInstances
  PROVE  /\ proc[i].up \in BOOLEAN /\ proc[i].starts \in Nat /\ proc[i].role \in {"leader", "standby"}
         /\ proc[i].pressure \in Nat
         /\ Pressure(i) \in Nat \cup {-1}
  <1>1. proc[i] \in [up: BOOLEAN, starts: 0..faulty, role: {"leader", "standby"}, pressure: 0..faulty]
    BY DEF PlatformTypeOK
  <1>2. faulty \in Nat
    BY ClockFacts
  <1>3. proc[i].starts \in Nat /\ proc[i].pressure \in Nat
    BY <1>1, <1>2
  <1>. QED
    BY <1>1, <1>3 DEF Pressure

LEMMA CollectFacts ==
  ASSUME PlatformTypeOK, NEW i \in PInstances
  PROVE  /\ Collect(i) \in SampleRecords
         /\ Collect(i).inst = i /\ Collect(i).at = now /\ Collect(i).role = proc[i].role
         /\ Collect(i).started = StartOf(i) /\ Collect(i).pressure = Pressure(i) /\ Collect(i).healthy = TRUE
  <1>1. PICK st : st = NormalizeProcessStart(ProcessStart(proc[i].starts))
    OBVIOUS
  <1>2. st = StartOf(i) /\ st \in [at: Nat, nanos: {0, 1}]
    BY <1>1, ProcFacts DEF NormalizeProcessStart, ProcessStart, StartOf
  <1>3. PICK u : u = UnavailableSample(i)
    OBVIOUS
  <1>4. PICK s : s = [u EXCEPT !.role = proc[i].role, !.started = st, !.pressure = Pressure(i)]
    OBVIOUS
  <1>5. Collect(i) = s
    BY <1>1, <1>3, <1>4 DEF Collect
  <1>6. PICK z : z = NormalizeProcessStart(ProcessStart(0))
    OBVIOUS
  <1>7. u = [inst |-> i, at |-> now, role |-> "none", started |-> z, pressure |-> -1, healthy |-> TRUE]
    BY <1>3, <1>6 DEF UnavailableSample
  <1>8. /\ s.inst = i /\ s.at = now /\ s.role = proc[i].role /\ s.started = st /\ s.pressure = Pressure(i)
        /\ s.healthy = TRUE
    BY <1>4, <1>7
  <1>9. s = [inst |-> s.inst, at |-> s.at, role |-> s.role, started |-> s.started, pressure |-> s.pressure, healthy |-> s.healthy]
    BY <1>4, <1>7
  <1>10. now \in 0..now
    BY ClockFacts
  <1>11. s \in SampleRecords
    BY <1>2, <1>8, <1>9, <1>10, ProcFacts DEF SampleRecords
  <1>. QED
    BY <1>2, <1>5, <1>8, <1>11

LEMMA PostgresFacts ==
  ASSUME PlatformTypeOK, NEW g \in PInstances, NEW ok \in BOOLEAN
  PROVE  PostgresSample(g, ok) \in SampleRecords /\ PostgresSample(g, ok).inst = "postgres"
  <1>1. PICK st : st = NormalizeProcessStart(IF ok THEN [at |-> pgStart, nanos |-> 1]
                                             ELSE [at |-> MaxFaulty + 1 + proc[g].starts, nanos |-> 1])
    OBVIOUS
  <1>2. PICK n : n = IF ok THEN pgStart ELSE MaxFaulty + 1 + proc[g].starts
    OBVIOUS
  <1>3. n \in Nat
    BY <1>2, ClockFacts, ProcFacts
  <1>4. st = [at |-> n, nanos |-> 0]
    BY <1>1, <1>2 DEF NormalizeProcessStart
  <1>5. PICK u : u = UnavailableSample("postgres")
    OBVIOUS
  <1>6. PICK s : s = [u EXCEPT !.healthy = ok, !.started = st]
    OBVIOUS
  <1>7. PostgresSample(g, ok) = s
    BY <1>1, <1>5, <1>6 DEF PostgresSample
  <1>8. PICK z : z = NormalizeProcessStart(ProcessStart(0))
    OBVIOUS
  <1>9. u = [inst |-> "postgres", at |-> now, role |-> "none", started |-> z, pressure |-> -1, healthy |-> TRUE]
    BY <1>5, <1>8 DEF UnavailableSample
  <1>10. s = [inst |-> "postgres", at |-> now, role |-> "none", started |-> st, pressure |-> -1, healthy |-> ok]
    BY <1>6, <1>9
  <1>11. now \in 0..now
    BY ClockFacts
  <1>12. s \in SampleRecords
    BY <1>3, <1>4, <1>10, <1>11 DEF SampleRecords
  <1>. QED
    BY <1>7, <1>10, <1>12

LEMMA LatestIs ==
  ASSUME NEW T, NEW w \in T, \A q \in T : q.seen < w.seen \/ (q.seen = w.seen /\ q.bucket <= w.bucket)
  PROVE  /\ Latest(T) \in T
         /\ \A q \in T : q.seen < Latest(T).seen \/ (q.seen = Latest(T).seen /\ q.bucket <= Latest(T).bucket)
  BY DEF Latest

LEMMA RowFacts ==
  ASSUME PlatformTypeOK, NEW r \in platRows
  PROVE  /\ r.bucket \in Nat /\ r.seen \in Nat /\ r.bucket <= r.seen /\ r.seen <= now /\ r.restarts \in Nat
         /\ r.inst \in PInstances \cup {"postgres"} /\ r.pressure \in Nat \cup {-1}
  <1>1. r \in SampleRows /\ r.bucket <= r.seen /\ now \in Nat
    BY ClockFacts DEF PlatformTypeOK
  <1>. QED
    BY <1>1 DEF SampleRows

LEMMA LatestRow ==
  ASSUME PlatformTypeOK, NEW T \in SUBSET platRows, T # {}
  PROVE  /\ Latest(T) \in T
         /\ \A q \in T : q.seen < Latest(T).seen \/ (q.seen = Latest(T).seen /\ q.bucket <= Latest(T).bucket)
  <1>1. now \in Nat /\ \A r \in T : r.seen \in Nat /\ r.seen <= now /\ r.bucket \in Nat /\ r.bucket <= now
    BY ClockFacts, RowFacts
  <1>2. PICK S : S = {r.seen : r \in T}
    OBVIOUS
  <1>3. S \in SUBSET Nat /\ S # {} /\ \A n \in S : n <= now
    BY <1>1, <1>2
  <1>4. PICK m \in S : \A n \in S : n <= m
    BY <1>1, <1>3, GreatestMember
  <1>5. PICK U : U = {r \in T : r.seen = m}
    OBVIOUS
  <1>6. PICK B : B = {r.bucket : r \in U}
    OBVIOUS
  <1>7. B \in SUBSET Nat /\ B # {} /\ \A n \in B : n <= now
    BY <1>1, <1>2, <1>4, <1>5, <1>6
  <1>8. PICK b \in B : \A n \in B : n <= b
    BY <1>1, <1>7, GreatestMember
  <1>9. PICK w \in U : w.bucket = b
    BY <1>6, <1>8
  <1>10. \A q \in T : q.seen < w.seen \/ (q.seen = w.seen /\ q.bucket <= w.bucket)
    <2> TAKE q \in T
    <2>1. q.seen \in Nat /\ m \in Nat /\ q.seen <= m /\ w.seen = m
      BY <1>1, <1>2, <1>3, <1>4, <1>5, <1>9
    <2>2. CASE q.seen = m
      BY <1>5, <1>6, <1>8, <1>9, <2>1, <2>2
    <2>. QED
      BY <2>1, <2>2
  <1>. QED
    BY <1>5, <1>9, <1>10, LatestIs

LEMMA BucketFacts ==
  ASSUME PlatformTypeOK, NEW at \in 0..now
  PROVE  BucketTime(at) \in 0..now /\ BucketTime(now) = now
  BY ClockFacts DEF BucketTime

LEMMA RestartCountType ==
  ASSUME PlatformTypeOK, NEW s
  PROVE  RestartCount(s) \in Nat
  <1>1. CASE RowsOf(s.inst) = {}
    BY <1>1 DEF RestartCount
  <1>2. CASE RowsOf(s.inst) # {}
    <2>1. RowsOf(s.inst) \in SUBSET platRows
      BY DEF RowsOf
    <2>2. PICK prev : prev = Latest(RowsOf(s.inst))
      OBVIOUS
    <2>3. prev \in platRows
      BY <1>2, <2>1, <2>2, LatestRow
    <2>4. prev.restarts \in Nat
      BY <2>3, RowFacts
    <2>. QED
      BY <1>2, <2>2, <2>4 DEF RestartCount
  <1>. QED
    BY <1>1, <1>2

LEMMA SampleRowFacts ==
  ASSUME PlatformTypeOK, NEW s \in SampleRecords
  PROVE  /\ SampleRow(s) \in SampleRows
         /\ SampleRow(s).bucket = BucketTime(s.at) /\ SampleRow(s).inst = s.inst /\ SampleRow(s).role = s.role
         /\ SampleRow(s).started = [at |-> s.started.at, nanos |-> 0] /\ SampleRow(s).restarts = RestartCount(s)
         /\ SampleRow(s).pressure = s.pressure /\ SampleRow(s).healthy = s.healthy /\ SampleRow(s).seen = now
         /\ SampleRow(s).bucket <= now
  <1>1. /\ s.inst \in PInstances \cup {"postgres"} /\ s.at \in 0..now /\ s.role \in {"leader", "standby", "none"}
        /\ s.started \in [at: Nat, nanos: {0, 1}] /\ s.pressure \in Nat \cup {-1} /\ s.healthy \in BOOLEAN
    BY DEF SampleRecords
  <1>2. PICK b : b = BucketTime(s.at)
    OBVIOUS
  <1>3. b \in 0..now /\ b <= now /\ now \in 0..now
    BY <1>1, <1>2, BucketFacts, ClockFacts
  <1>4. PICK n : n = RestartCount(s)
    OBVIOUS
  <1>5. n \in Nat
    BY <1>4, RestartCountType
  <1>6. PICK st : st = Stored(s.started)
    OBVIOUS
  <1>7. st = [at |-> s.started.at, nanos |-> 0] /\ s.started.at \in Nat
    BY <1>1, <1>6 DEF Stored
  <1>8. st \in [at: Nat, nanos: {0}]
    BY <1>7
  <1>9. SampleRow(s) = [bucket |-> b, inst |-> s.inst, role |-> s.role, started |-> st, restarts |-> n,
                        pressure |-> s.pressure, healthy |-> s.healthy, seen |-> now]
    BY <1>2, <1>4, <1>6 DEF SampleRow
  <1>10. SampleRow(s) \in SampleRows
    BY <1>1, <1>3, <1>5, <1>8, <1>9 DEF SampleRows
  <1>. QED
    BY <1>2, <1>3, <1>4, <1>7, <1>9, <1>10

LEMMA UpsertIs ==
  ASSUME PlatformTypeOK, NEW ss \in SUBSET SampleRecords, UpsertSamples(ss)
  PROVE  /\ \A r \in platRows' : \/ r \in platRows /\ \A s \in ss : r.inst # s.inst \/ r.bucket # BucketTime(s.at)
                                 \/ \E s \in ss : r = SampleRow(s)
         /\ \A s \in ss : SampleRow(s) \in platRows'
         /\ \A r \in platRows : (\A s \in ss : r.inst # s.inst \/ r.bucket # BucketTime(s.at)) => r \in platRows'
  <1>1. PICK new : new = {SampleRow(s) : s \in ss}
    OBVIOUS
  <1>2. platRows' = {r \in platRows : \A q \in new : r.inst # q.inst \/ r.bucket # q.bucket} \cup new
    BY <1>1 DEF UpsertSamples
  <1>3. \A s \in ss : SampleRow(s) \in new /\ SampleRow(s).inst = s.inst /\ SampleRow(s).bucket = BucketTime(s.at)
    BY <1>1, SampleRowFacts
  <1>4. \A q \in new : \E s \in ss : q = SampleRow(s)
    BY <1>1
  <1>. QED
    BY <1>2, <1>3, <1>4

RoleEvents == [inst: PInstances, to: {"leader", "standby", "none"}, by: {"sample", "session_lost"}]

LEMMA RoleChangeType ==
  ASSUME NEW s \in SampleRecords
  PROVE  RoleChange(s) \subseteq RoleEvents
  <1>1. s.inst \in PInstances \cup {"postgres"} /\ s.role \in {"leader", "standby", "none"}
    BY DEF SampleRecords
  <1>2. CASE s.inst = "postgres"
    BY <1>2, ComponentFacts DEF RoleChange, LeadershipComponent
  <1>3. CASE s.inst \in PInstances
    BY <1>1, <1>3 DEF RoleChange, RoleEvents
  <1>. QED
    BY <1>1, <1>2, <1>3

LEMMA UpsertTypes ==
  ASSUME PlatformTypeOK, NEW ss \in SUBSET SampleRecords, \A s, q \in ss : s.inst = q.inst => s = q, UpsertSamples(ss)
  PROVE  /\ platRows' \subseteq SampleRows
         /\ \A r, q \in platRows' : r.bucket = q.bucket /\ r.inst = q.inst => r = q
         /\ \A r \in platRows' : r.bucket <= r.seen
         /\ roleEvents' \subseteq RoleEvents
  <1>1. \A r \in platRows' : \/ r \in platRows /\ \A s \in ss : r.inst # s.inst \/ r.bucket # BucketTime(s.at)
                             \/ \E s \in ss : r = SampleRow(s)
    BY UpsertIs
  <1>2. \A s \in ss : /\ SampleRow(s) \in SampleRows /\ SampleRow(s).inst = s.inst
                      /\ SampleRow(s).bucket = BucketTime(s.at) /\ SampleRow(s).bucket <= SampleRow(s).seen
    <2> TAKE s \in ss
    <2>. QED
      BY SampleRowFacts
  <1>3. /\ platRows \subseteq SampleRows
        /\ \A r, q \in platRows : r.bucket = q.bucket /\ r.inst = q.inst => r = q
        /\ \A r \in platRows : r.bucket <= r.seen
        /\ roleEvents \subseteq RoleEvents
    BY DEF PlatformTypeOK, RoleEvents
  <1>4. platRows' \subseteq SampleRows
    BY <1>1, <1>2, <1>3
  <1>5. \A r \in platRows' : r.bucket <= r.seen
    BY <1>1, <1>2, <1>3
  <1>6. ASSUME NEW r \in platRows', NEW q \in platRows', r.bucket = q.bucket, r.inst = q.inst
        PROVE  r = q
    <2>1. CASE r \in platRows /\ (\A s \in ss : r.inst # s.inst \/ r.bucket # BucketTime(s.at))
      BY <1>1, <1>2, <1>3, <1>6, <2>1
    <2>2. ASSUME NEW s \in ss, r = SampleRow(s) PROVE r = q
      <3>1. CASE q \in platRows /\ \A z \in ss : q.inst # z.inst \/ q.bucket # BucketTime(z.at)
        BY <1>2, <1>6, <2>2, <3>1
      <3>2. ASSUME NEW z \in ss, q = SampleRow(z) PROVE r = q
        BY <1>2, <1>6, <2>2, <3>2
      <3>. QED
        BY <1>1, <3>1, <3>2
    <2>. QED
      BY <1>1, <2>1, <2>2
  <1>7. roleEvents' = roleEvents \cup UNION {RoleChange(s) : s \in ss}
    BY DEF UpsertSamples
  <1>8. \A s \in ss : RoleChange(s) \subseteq RoleEvents
    BY RoleChangeType
  <1>9. roleEvents' \subseteq RoleEvents
    BY <1>3, <1>7, <1>8
  <1>. QED
    BY <1>4, <1>5, <1>6, <1>9

\* A sample that says what its process is.
Truthful(s) ==
  s.inst \in PInstances =>
    /\ proc[s.inst].up /\ s.at = now /\ s.role = proc[s.inst].role /\ s.started = StartOf(s.inst)
    /\ s.pressure = Pressure(s.inst) /\ s.healthy = TRUE

\* In a minute without a fault, the row of a truthful sample continues the rows there are.
LEMMA TruthfulRow ==
  ASSUME PlatformIInv, NEW s \in SampleRecords, s.inst \in PInstances, Truthful(s),
         NEW r \in platRows, Recent(r), r.inst = s.inst
  PROVE  RestartCount(s) = r.restarts
  <1>1. PlatformTypeOK /\ RowsTrue /\ RestartsAgree
    BY DEF PlatformIInv
  <1>2. lastFault \in Nat
    BY <1>1, ClockFacts
  <1>3. PICK T : T = RowsOf(s.inst)
    OBVIOUS
  <1>4. r \in T /\ T \in SUBSET platRows /\ \A q \in T : q.inst = s.inst
    BY <1>3 DEF RowsOf
  <1>5. PICK prev : prev = Latest(T)
    OBVIOUS
  <1>6. prev \in T /\ \A q \in T : q.seen < prev.seen \/ (q.seen = prev.seen /\ q.bucket <= prev.bucket)
    BY <1>1, <1>4, <1>5, LatestRow
  <1>7. r.seen > lastFault /\ r.seen \in Nat /\ prev.seen \in Nat
    BY <1>1, <1>4, <1>6, RowFacts DEF Recent
  <1>8. prev.seen > lastFault
    BY <1>2, <1>4, <1>6, <1>7
  <1>9. Recent(prev) /\ prev.inst = s.inst
    BY <1>4, <1>6, <1>8 DEF Recent
  <1>10. prev.restarts = r.restarts /\ prev.restarts \in Nat
    BY <1>1, <1>4, <1>6, <1>9, RowFacts DEF RestartsAgree
  <1>11. prev.started = s.started
    BY <1>1, <1>4, <1>6, <1>9 DEF RowsTrue, Truthful
  <1>12. SameProcess(prev, s)
    BY <1>11 DEF SameProcess
  <1>13. RestartCount(s) = prev.restarts + 0
    BY <1>3, <1>4, <1>5, <1>12 DEF RestartCount
  <1>. QED
    BY <1>10, <1>13

LEMMA TruthfulSamples ==
  ASSUME PlatformIInv, NEW ss \in SUBSET SampleRecords, \A s, q \in ss : s.inst = q.inst => s = q, UpsertSamples(ss),
         now > lastFault => \A s \in ss : Truthful(s),
         UNCHANGED <<now, proc, platOn, lastFault>>
  PROVE  /\ RowsTrue' /\ RestartsAgree' /\ MinutesKept'
         /\ \A s \in ss : \E r \in platRows' : r.inst = s.inst /\ r.seen = now
         /\ \A r \in platRows : r.seen = now => \E q \in platRows' : q.inst = r.inst /\ q.seen = now
  <1>1. PlatformTypeOK /\ RowsTrue /\ RestartsAgree /\ MinutesKept
    BY DEF PlatformIInv
  <1>2. now \in Nat /\ lastFault \in Nat /\ lastFault <= now
    BY <1>1, ClockFacts
  <1>3. /\ \A r \in platRows' : \/ r \in platRows /\ \A s \in ss : r.inst # s.inst \/ r.bucket # BucketTime(s.at)
                                \/ \E s \in ss : r = SampleRow(s)
        /\ \A s \in ss : SampleRow(s) \in platRows'
        /\ \A r \in platRows : (\A s \in ss : r.inst # s.inst \/ r.bucket # BucketTime(s.at)) => r \in platRows'
    BY <1>1, UpsertIs
  <1>4. \A s \in ss : /\ SampleRow(s).inst = s.inst /\ SampleRow(s).bucket = BucketTime(s.at) /\ SampleRow(s).seen = now
                      /\ SampleRow(s).role = s.role /\ SampleRow(s).restarts = RestartCount(s)
                      /\ SampleRow(s).started = [at |-> s.started.at, nanos |-> 0]
                      /\ SampleRow(s).pressure = s.pressure /\ SampleRow(s).healthy = s.healthy
    <2> TAKE s \in ss
    <2>. QED
      BY <1>1, SampleRowFacts
  <1>5. \A r \in platRows' : r.seen <= now
    <2> SUFFICES ASSUME NEW r \in platRows' PROVE r.seen <= now
      OBVIOUS
    <2>1. CASE r \in platRows
      BY <1>1, <2>1, RowFacts
    <2>2. ASSUME NEW s \in ss, r = SampleRow(s) PROVE r.seen <= now
      <3>1. r.seen = now
        BY <1>4, <2>2
      <3>. QED
        BY <1>2, <3>1
    <2>. QED
      BY <1>3, <2>1, <2>2
  <1>6. ASSUME ~(now > lastFault) PROVE RowsTrue' /\ RestartsAgree' /\ MinutesKept'
    <2>1. \A r \in platRows' : ~Recent(r)'
      <3> SUFFICES ASSUME NEW r \in platRows', r.seen > lastFault PROVE FALSE
        BY DEF Recent
      <3>1. r.seen <= now /\ now = lastFault
        BY <1>2, <1>5, <1>6
      <3>2. r \in platRows \/ \E s \in ss : r = SampleRow(s)
        BY <1>3
      <3>3. r.seen \in Nat
        BY <1>1, <1>2, <1>4, <3>2, RowFacts
      <3>. QED
        BY <1>2, <3>1, <3>3
    <2>2. RowsTrue' /\ RestartsAgree'
      BY <2>1 DEF RowsTrue, RestartsAgree
    <2>3. (lastFault + 1)..(now - 1) = {}
      BY <1>2, <1>6
    <2>4. MinutesKept'
      BY <2>3 DEF MinutesKept
    <2>. QED
      BY <2>2, <2>4
  <1>7. ASSUME now > lastFault PROVE RowsTrue' /\ RestartsAgree' /\ MinutesKept'
    <2>1. BucketTime(now) = now
      BY <1>1, <1>2, BucketFacts
    <2>2. \A s \in ss : s.inst \in PInstances => /\ SampleRow(s).bucket = now
                                                 /\ SampleRow(s).started = StartOf(s.inst)
                                                 /\ Truthful(s) /\ s.at = now
      BY <1>4, <1>7, <2>1 DEF Truthful, StartOf
    <2>3. RowsTrue'
      <3> SUFFICES ASSUME NEW r \in platRows', Recent(r)
                   PROVE  /\ proc[r.inst].up /\ r.role = proc[r.inst].role /\ r.started = StartOf(r.inst)
                          /\ r.pressure = Pressure(r.inst) /\ r.healthy = TRUE /\ r.bucket = r.seen
        BY DEF RowsTrue, Recent, StartOf, Pressure
      <3>1. CASE r \in platRows
        BY <1>1, <3>1 DEF RowsTrue
      <3>2. ASSUME NEW s \in ss, r = SampleRow(s)
            PROVE  /\ proc[r.inst].up /\ r.role = proc[r.inst].role /\ r.started = StartOf(r.inst)
                   /\ r.pressure = Pressure(r.inst) /\ r.healthy = TRUE /\ r.bucket = r.seen
        BY <1>4, <2>2, <3>2 DEF Recent, Truthful
      <3>. QED
        BY <1>3, <3>1, <3>2
    <2>4. RestartsAgree'
      <3> SUFFICES ASSUME NEW r \in platRows', NEW q \in platRows', Recent(r), Recent(q), r.inst = q.inst
                   PROVE  r.restarts = q.restarts
        BY DEF RestartsAgree, Recent
      <3>1. ASSUME NEW s \in ss, NEW z \in platRows, Recent(z), z.inst = s.inst PROVE SampleRow(s).restarts = z.restarts
        <4>1. s.inst \in PInstances
          BY <3>1 DEF Recent
        <4>2. RestartCount(s) = z.restarts
          BY <2>2, <3>1, <4>1, TruthfulRow
        <4>. QED
          BY <1>4, <4>2
      <3>2. CASE r \in platRows /\ q \in platRows
        BY <1>1, <3>2 DEF RestartsAgree
      <3>3. ASSUME NEW s \in ss, r = SampleRow(s), q \in platRows PROVE r.restarts = q.restarts
        <4>1. q.inst = s.inst
          BY <1>4, <3>3
        <4>2. SampleRow(s).restarts = q.restarts
          BY <3>1, <3>3, <4>1
        <4>. QED
          BY <3>3, <4>2
      <3>4. ASSUME NEW s \in ss, q = SampleRow(s), r \in platRows PROVE r.restarts = q.restarts
        <4>1. r.inst = s.inst
          BY <1>4, <3>4
        <4>2. SampleRow(s).restarts = r.restarts
          BY <3>1, <3>4, <4>1
        <4>. QED
          BY <3>4, <4>2
      <3>5. ASSUME NEW s \in ss, NEW z \in ss, r = SampleRow(s), q = SampleRow(z) PROVE r.restarts = q.restarts
        <4>1. s.inst = z.inst
          BY <1>4, <3>5
        <4>2. s = z
          BY <4>1
        <4>. QED
          BY <3>5, <4>2
      <3>. QED
        BY <1>3, <3>2, <3>3, <3>4, <3>5
    <2>5. MinutesKept'
      <3> SUFFICES ASSUME platOn.stored = TRUE, NEW i \in PInstances, proc[i].up, NEW m \in (lastFault + 1)..(now - 1)
                   PROVE  (\E r \in platRows' : r.inst = i /\ r.seen = m) \/ (\A r \in platRows' : r.inst = i => r.bucket > m)
        BY DEF MinutesKept
      <3>1. m \in Nat /\ m < now
        BY <1>2
      <3>2. CASE \E r \in platRows : r.inst = i /\ r.seen = m
        <4>1. PICK r \in platRows : r.inst = i /\ r.seen = m
          BY <3>2
        <4>2. r.bucket # now
          BY <1>1, <1>2, <3>1, <4>1, RowFacts
        <4>3. r \in platRows'
          BY <1>3, <1>4, <2>2, <4>1, <4>2, ZenonT(60)
        <4>. QED
          BY <4>1, <4>3
      <3>3. CASE \A r \in platRows : r.inst = i => r.bucket > m
        <4> SUFFICES ASSUME NEW r \in platRows', r.inst = i PROVE r.bucket > m
          OBVIOUS
        <4>1. CASE r \in platRows
          BY <3>3, <4>1
        <4>2. ASSUME NEW s \in ss, r = SampleRow(s) PROVE r.bucket > m
          <5>1. r.bucket = now
            BY <1>4, <2>2, <4>2
          <5>. QED
            BY <1>2, <3>1, <5>1
        <4>. QED
          BY <1>3, <4>1, <4>2
      <3>. QED
        BY <1>1, <3>2, <3>3 DEF MinutesKept
    <2>. QED
      BY <2>3, <2>4, <2>5
  <1>8. \A s \in ss : \E r \in platRows' : r.inst = s.inst /\ r.seen = now
    BY <1>3, <1>4
  <1>9. \A r \in platRows : r.seen = now => \E q \in platRows' : q.inst = r.inst /\ q.seen = now
    <2> SUFFICES ASSUME NEW r \in platRows, r.seen = now PROVE \E q \in platRows' : q.inst = r.inst /\ q.seen = now
      OBVIOUS
    <2>1. CASE r \in platRows'
      BY <2>1
    <2>2. CASE r \notin platRows'
      <3>1. PICK s \in ss : r.inst = s.inst
        BY <1>3, <2>2
      <3>. QED
        BY <1>8, <3>1
    <2>. QED
      BY <2>1, <2>2
  <1>. QED
    BY <1>6, <1>7, <1>8, <1>9

\* A fault makes everything stored so far a thing of the past.
LEMMA FaultKeeps ==
  ASSUME PlatformTypeOK', lastFault' = now'
  PROVE  PlatformIInv'
  <1>1. now' \in Nat
    BY PlatformAssumption DEF PlatformTypeOK
  <1>2. \A r \in platRows' : ~Recent(r)'
    <2> SUFFICES ASSUME NEW r \in platRows', r.seen > lastFault' PROVE FALSE
      BY DEF Recent
    <2>1. r \in SampleRows'
      BY DEF PlatformTypeOK
    <2>2. r.seen \in 0..now'
      BY <2>1 DEF SampleRows
    <2>. QED
      BY <1>1, <2>2
  <1>3. RowsTrue' /\ RestartsAgree'
    BY <1>2 DEF RowsTrue, RestartsAgree
  <1>4. ~(now' > lastFault') /\ \A m : m \notin (lastFault' + 1)..(now' - 1)
    <2>1. PICK n \in Nat : n = now' /\ n = lastFault'
      BY <1>1
    <2>2. ~(n > n) /\ \A m : m \notin (n + 1)..(n - 1)
      OBVIOUS
    <2>. QED
      BY <2>1, <2>2
  <1>5. ThisMinuteKept' /\ MinuteSteady'
    BY <1>4 DEF ThisMinuteKept, MinuteSteady
  <1>6. MinutesKept'
    BY <1>4 DEF MinutesKept
  <1>. QED
    BY <1>3, <1>5, <1>6 DEF PlatformIInv

\* The parts of PlatformTypeOK that a step leaves alone together.
ClockOK == now \in 0..MaxMinutes /\ faulty \in 0..MaxFaulty /\ lastFault \in 0..now /\ pgStart \in 0..faulty

ProcOK == proc \in [PInstances -> [up: BOOLEAN, starts: 0..faulty, role: {"leader", "standby"}, pressure: 0..faulty]]

OneLeader ==
  \A i, p \in PInstances :
    /\ Component(i) = Component(p)
    /\ proc[i].up /\ proc[i].role = "leader"
    /\ proc[p].up /\ proc[p].role = "leader"
    => i = p

QueueOK ==
  /\ sampled \subseteq PInstances
  /\ samples \in [Operators -> Seq(SampleRecords)] /\ \A o \in Operators : Len(samples[o]) <= SampleCap
  /\ sessRole \in [Operators -> {"leader", "standby"}]

RowsOK ==
  /\ platRows \subseteq SampleRows
  /\ \A r, q \in platRows : r.bucket = q.bucket /\ r.inst = q.inst => r = q
  /\ \A r \in platRows : r.bucket <= r.seen
  /\ roleEvents \subseteq RoleEvents

SwitchOK == platOn \in [stored: BOOLEAN, gateway: BOOLEAN, operators: BOOLEAN]

LEMMA PlatformParts ==
  PlatformTypeOK <=> ClockOK /\ ProcOK /\ OneLeader /\ QueueOK /\ RowsOK /\ SwitchOK
  BY DEF PlatformTypeOK, ClockOK, ProcOK, OneLeader, QueueOK, RowsOK, SwitchOK, RoleEvents

LEMMA PartsKept ==
  ASSUME ClockOK', ProcOK', OneLeader', QueueOK', RowsOK', SwitchOK'
  PROVE  PlatformTypeOK'
  BY DEF PlatformTypeOK, ClockOK, ProcOK, OneLeader, QueueOK, RowsOK, SwitchOK, RoleEvents

LEMMA SameMinute ==
  ASSUME now' = now
  PROVE  SampleRecords' = SampleRecords /\ SampleRows' = SampleRows
  BY DEF SampleRecords, SampleRows

LEMMA SameQueues ==
  ASSUME PlatformTypeOK, UNCHANGED <<now, sampled, samples, sessRole>>
  PROVE  QueueOK'
  <1>1. QueueOK
    BY PlatformParts
  <1>. QED
    BY <1>1, SameMinute DEF QueueOK

LEMMA SameRows ==
  ASSUME PlatformTypeOK, UNCHANGED <<now, platRows, roleEvents>>
  PROVE  RowsOK'
  <1>1. RowsOK
    BY PlatformParts
  <1>2. SampleRows' = SampleRows /\ RoleEvents' = RoleEvents
    BY SameMinute DEF RoleEvents
  <1>. QED
    BY <1>1, <1>2 DEF RowsOK

LEMMA SameProcs ==
  ASSUME PlatformTypeOK, UNCHANGED <<proc, faulty>>
  PROVE  ProcOK' /\ OneLeader'
  <1>1. ProcOK /\ OneLeader
    BY PlatformParts
  <1>. QED
    BY <1>1 DEF ProcOK, OneLeader

\* A fault leaves room for one more start and one more incident of pressure.
LEMMA FaultClock ==
  ASSUME PlatformTypeOK, Faulty, now' = now, pgStart' \in {pgStart, pgStart + 1}
  PROVE  ClockOK' /\ lastFault' = now' /\ faulty' = faulty + 1 /\ faulty \in Nat
  <1>1. now \in 0..MaxMinutes /\ faulty \in 0..MaxFaulty /\ pgStart \in 0..faulty /\ MaxFaulty \in Nat /\ MaxMinutes \in Nat
    BY PlatformAssumption DEF PlatformTypeOK
  <1>2. faulty < MaxFaulty /\ faulty' = faulty + 1 /\ lastFault' = now
    BY DEF Faulty
  <1>3. faulty' \in 0..MaxFaulty /\ pgStart' \in 0..faulty' /\ lastFault' \in 0..now' /\ now' \in 0..MaxMinutes
    BY <1>1, <1>2
  <1>. QED
    BY <1>1, <1>2, <1>3 DEF ClockOK

LEMMA FaultProcs ==
  ASSUME PlatformTypeOK, faulty' = faulty + 1, proc' = proc
  PROVE  ProcOK' /\ OneLeader'
  <1>1. ProcOK /\ OneLeader /\ faulty \in Nat
    BY PlatformParts, ClockFacts
  <1>2. 0..faulty \subseteq 0..(faulty + 1)
    BY <1>1
  <1>3. \A i \in PInstances :
          proc[i] \in [up: BOOLEAN, starts: 0..(faulty + 1), role: {"leader", "standby"}, pressure: 0..(faulty + 1)]
    BY <1>1, <1>2 DEF ProcOK
  <1>4. ProcOK'
    BY <1>1, <1>3 DEF ProcOK
  <1>. QED
    BY <1>1, <1>4 DEF OneLeader

LEMMA MemoryPressureKeeps ==
  ASSUME PlatformIInv, NEW i \in PInstances, MemoryPressure(i)
  PROVE  PlatformIInv'
  <1>1. PlatformTypeOK /\ Faulty
    BY DEF PlatformIInv, MemoryPressure
  <1>2. UNCHANGED <<now, sampled, pgStart, samples, sessRole, platRows, roleEvents, platOn>>
    BY DEF MemoryPressure
  <1>3. ClockOK' /\ lastFault' = now' /\ faulty' = faulty + 1 /\ faulty \in Nat
    BY <1>1, <1>2, FaultClock
  <1>4. ProcOK /\ OneLeader /\ SwitchOK
    BY <1>1, PlatformParts
  <1>5. PICK p : p = [proc[i] EXCEPT !.pressure = @ + 1]
    OBVIOUS
  <1>6. proc' = [proc EXCEPT ![i] = p]
    BY <1>5 DEF MemoryPressure
  <1>7. \A q \in PInstances : /\ proc[q] \in [up: BOOLEAN, starts: 0..faulty, role: {"leader", "standby"}, pressure: 0..faulty]
                              /\ 0..faulty \subseteq 0..(faulty + 1)
    BY <1>3, <1>4 DEF ProcOK
  <1>8. p \in [up: BOOLEAN, starts: 0..(faulty + 1), role: {"leader", "standby"}, pressure: 0..(faulty + 1)]
    BY <1>3, <1>5, <1>7
  <1>9. p.up = proc[i].up /\ p.role = proc[i].role
    BY <1>5, <1>7
  <1>10. \A q \in PInstances : proc'[q] = IF q = i THEN p ELSE proc[q]
    BY <1>4, <1>6 DEF ProcOK
  <1>11. proc' \in [PInstances -> [up: BOOLEAN, starts: 0..(faulty + 1), role: {"leader", "standby"}, pressure: 0..(faulty + 1)]]
    <2>1. \A q \in PInstances :
            proc[q] \in [up: BOOLEAN, starts: 0..(faulty + 1), role: {"leader", "standby"}, pressure: 0..(faulty + 1)]
      BY <1>7
    <2>. QED
      BY <1>4, <1>6, <1>8, <2>1 DEF ProcOK
  <1>12. ProcOK'
    BY <1>3, <1>11 DEF ProcOK
  <1>13. \A q \in PInstances : proc'[q].up = proc[q].up /\ proc'[q].role = proc[q].role
    BY <1>9, <1>10
  <1>14. OneLeader'
    BY <1>4, <1>13 DEF OneLeader
  <1>15. QueueOK' /\ RowsOK' /\ SwitchOK'
    BY <1>1, <1>2, <1>4, SameQueues, SameRows DEF SwitchOK
  <1>. QED
    BY <1>3, <1>12, <1>14, <1>15, PartsKept, FaultKeeps

LEMMA PostgresRestartsKeeps ==
  ASSUME PlatformIInv, PostgresRestarts
  PROVE  PlatformIInv'
  <1>1. PlatformTypeOK /\ Faulty
    BY DEF PlatformIInv, PostgresRestarts
  <1>2. UNCHANGED <<now, proc, sampled, samples, sessRole, platRows, roleEvents, platOn>> /\ pgStart' = pgStart + 1
    BY DEF PostgresRestarts
  <1>3. ClockOK' /\ lastFault' = now' /\ faulty' = faulty + 1
    BY <1>1, <1>2, FaultClock
  <1>4. ProcOK' /\ OneLeader'
    BY <1>1, <1>2, <1>3, FaultProcs
  <1>5. QueueOK' /\ RowsOK' /\ SwitchOK'
    BY <1>1, <1>2, PlatformParts, SameQueues, SameRows DEF SwitchOK
  <1>. QED
    BY <1>3, <1>4, <1>5, PartsKept, FaultKeeps

LEMMA UpdatePlatformSettingsKeeps ==
  ASSUME PlatformIInv, NEW told \in BOOLEAN, UpdatePlatformSettings(told)
  PROVE  PlatformIInv'
  <1>1. PlatformTypeOK /\ Faulty
    BY DEF PlatformIInv, UpdatePlatformSettings
  <1>2. UNCHANGED <<now, proc, sampled, pgStart, samples, sessRole, platRows, roleEvents>>
    BY DEF UpdatePlatformSettings
  <1>3. ClockOK' /\ lastFault' = now' /\ faulty' = faulty + 1
    BY <1>1, <1>2, FaultClock
  <1>4. ProcOK' /\ OneLeader'
    BY <1>1, <1>2, <1>3, FaultProcs
  <1>5. QueueOK' /\ RowsOK'
    BY <1>1, <1>2, SameQueues, SameRows
  <1>6. SwitchOK'
    <2>1. platOn \in [stored: BOOLEAN, gateway: BOOLEAN, operators: BOOLEAN]
      BY <1>1 DEF PlatformTypeOK
    <2>2. PICK on \in BOOLEAN : on = ~platOn.stored
      OBVIOUS
    <2>3. PICK heard \in BOOLEAN : heard = IF told THEN on ELSE platOn.gateway
      BY <2>1
    <2>4. platOn' = [platOn EXCEPT !.stored = on, !.gateway = heard]
      BY <2>2, <2>3 DEF UpdatePlatformSettings
    <2>. QED
      BY <2>1, <2>4 DEF SwitchOK
  <1>. QED
    BY <1>3, <1>4, <1>5, <1>6, PartsKept, FaultKeeps

LEMMA ReloadPlatformSettingsKeeps ==
  ASSUME PlatformIInv, ReloadPlatformSettings
  PROVE  PlatformIInv'
  <1>1. PlatformTypeOK
    BY DEF PlatformIInv
  <1>2. UNCHANGED <<now, proc, sampled, pgStart, samples, sessRole, platRows, roleEvents, faulty>> /\ lastFault' = now'
    BY DEF ReloadPlatformSettings
  <1>3. ClockOK'
    BY <1>1, <1>2, ClockFacts, PlatformParts DEF ClockOK
  <1>4. ProcOK' /\ OneLeader' /\ QueueOK' /\ RowsOK'
    BY <1>1, <1>2, SameProcs, SameQueues, SameRows
  <1>5. SwitchOK'
    BY <1>1 DEF PlatformTypeOK, SwitchOK, ReloadPlatformSettings
  <1>. QED
    BY <1>2, <1>3, <1>4, <1>5, PartsKept, FaultKeeps

LEMMA ElectedKeeps ==
  ASSUME PlatformIInv, NEW i \in PInstances, Elected(i)
  PROVE  PlatformIInv'
  <1>1. PlatformTypeOK /\ ProcOK /\ SwitchOK
    BY PlatformParts DEF PlatformIInv
  <1>2. UNCHANGED <<now, sampled, pgStart, samples, sessRole, platRows, roleEvents, platOn, faulty>> /\ lastFault' = now'
    BY DEF Elected
  <1>3. ClockOK'
    BY <1>1, <1>2, ClockFacts, PlatformParts DEF ClockOK
  <1>4. QueueOK' /\ RowsOK' /\ SwitchOK'
    BY <1>1, <1>2, SameQueues, SameRows DEF SwitchOK
  <1>5. PICK p : p = [proc[i] EXCEPT !.role = "leader"]
    OBVIOUS
  <1>6. proc' = [proc EXCEPT ![i] = p]
    BY <1>5 DEF Elected
  <1>7. p \in [up: BOOLEAN, starts: 0..faulty, role: {"leader", "standby"}, pressure: 0..faulty]
    BY <1>1, <1>5 DEF ProcOK
  <1>8. ProcOK'
    BY <1>1, <1>2, <1>6, <1>7 DEF ProcOK
  <1>9. \A q \in PInstances : q # i => proc'[q] = proc[q]
    BY <1>1, <1>6 DEF ProcOK
  <1>10. \A q \in PInstances : Component(q) = Component(i) => ~(proc[q].up /\ proc[q].role = "leader")
    BY DEF Elected
  <1>11. OneLeader
    BY <1>1, PlatformParts
  <1>12. OneLeader'
    BY <1>9, <1>10, <1>11 DEF OneLeader
  <1>. QED
    BY <1>2, <1>3, <1>4, <1>8, <1>12, PartsKept, FaultKeeps

LEMMA ProcessEndsKeeps ==
  ASSUME PlatformIInv, NEW i \in PInstances, NEW back \in BOOLEAN, ProcessEnds(i, back)
  PROVE  PlatformIInv'
  <1>1. PlatformTypeOK /\ Faulty /\ ProcOK /\ OneLeader /\ SwitchOK /\ QueueOK /\ RowsOK
    BY PlatformParts DEF PlatformIInv, ProcessEnds
  <1>2. UNCHANGED <<now, sampled, pgStart, platRows, platOn>>
    BY DEF ProcessEnds
  <1>3. ClockOK' /\ lastFault' = now' /\ faulty' = faulty + 1 /\ faulty \in Nat
    BY <1>1, <1>2, FaultClock
  <1>4. PICK p : p = [up |-> back, starts |-> proc[i].starts + 1, role |-> "standby", pressure |-> 0]
    OBVIOUS
  <1>5. proc' = [proc EXCEPT ![i] = p]
    BY <1>4 DEF ProcessEnds
  <1>6. \A q \in PInstances : /\ proc[q] \in [up: BOOLEAN, starts: 0..faulty, role: {"leader", "standby"}, pressure: 0..faulty]
                              /\ 0..faulty \subseteq 0..(faulty + 1)
    BY <1>1, <1>3 DEF ProcOK
  <1>7. proc[i].starts + 1 \in 0..(faulty + 1)
    BY <1>3, <1>6
  <1>8. p \in [up: BOOLEAN, starts: 0..(faulty + 1), role: {"leader", "standby"}, pressure: 0..(faulty + 1)]
    BY <1>3, <1>4, <1>7
  <1>9. \A q \in PInstances :
          proc[q] \in [up: BOOLEAN, starts: 0..(faulty + 1), role: {"leader", "standby"}, pressure: 0..(faulty + 1)]
    BY <1>6
  <1>10. ProcOK'
    BY <1>1, <1>3, <1>5, <1>8, <1>9 DEF ProcOK
  <1>11. OneLeader'
    <2>1. \A q \in PInstances : q # i => proc'[q] = proc[q]
      BY <1>1, <1>5 DEF ProcOK
    <2>2. proc'[i].role # "leader"
      BY <1>1, <1>4, <1>5 DEF ProcOK
    <2>. QED
      BY <1>1, <2>1, <2>2 DEF OneLeader
  <1>12. SwitchOK'
    BY <1>1, <1>2 DEF SwitchOK
  <1>13. CASE i \in Operators
    <2>1. samples' = [samples EXCEPT ![i] = <<>>] /\ sessRole' = [sessRole EXCEPT ![i] = "standby"]
      BY <1>13 DEF ProcessEnds
    <2>2. QueueOK'
      <3>1. <<>> \in Seq(SampleRecords) /\ Len(<<>>) = 0
        OBVIOUS
      <3>2. samples' \in [Operators -> Seq(SampleRecords)]
        BY <1>1, <2>1, <3>1 DEF QueueOK
      <3>3. \A o \in Operators : samples'[o] = IF o = i THEN <<>> ELSE samples[o]
        BY <1>1, <2>1 DEF QueueOK
      <3>4. \A o \in Operators : Len(samples'[o]) <= SampleCap
        BY <1>1, <3>1, <3>3, PlatformAssumption, SMTT(30) DEF QueueOK
      <3>5. sessRole' \in [Operators -> {"leader", "standby"}] /\ sampled' \subseteq PInstances
        BY <1>1, <1>2, <2>1 DEF QueueOK
      <3>. QED
        BY <1>2, <3>2, <3>4, <3>5, SameMinute DEF QueueOK
    <2>3. roleEvents' = roleEvents \cup
            (IF sessRole[i] = "leader" THEN {[inst |-> i, to |-> "standby", by |-> "session_lost"]} ELSE {})
      BY <1>13 DEF ProcessEnds
    <2>4. [inst |-> i, to |-> "standby", by |-> "session_lost"] \in RoleEvents
      BY DEF RoleEvents
    <2>5. roleEvents' \subseteq RoleEvents
      BY <1>1, <2>3, <2>4 DEF RowsOK
    <2>6. RowsOK'
      BY <1>1, <1>2, <2>5, SameMinute DEF RowsOK, RoleEvents
    <2>. QED
      BY <1>3, <1>10, <1>11, <1>12, <2>2, <2>6, PartsKept, FaultKeeps
  <1>14. CASE i \notin Operators
    <2>1. UNCHANGED <<samples, sessRole, roleEvents>>
      BY <1>14 DEF ProcessEnds
    <2>2. QueueOK' /\ RowsOK'
      BY <1>1, <1>2, <2>1, SameQueues, SameRows
    <2>. QED
      BY <1>3, <1>10, <1>11, <1>12, <2>2, PartsKept, FaultKeeps
  <1>. QED
    BY <1>13, <1>14

LEMMA SteadyCarry ==
  ASSUME MinuteSteady, UNCHANGED <<now, lastFault, proc, platOn, sessRole, samples>>, sampled \subseteq sampled'
  PROVE  MinuteSteady'
  <1>1. \A o \in Operators : Collect(o)' = Collect(o)
    BY DEF Collect, UnavailableSample, Pressure
  <1>2. \A i \in PInstances : HasLeader(i)' <=> HasLeader(i)
    BY DEF HasLeader
  <1>. QED
    BY <1>1, <1>2 DEF MinuteSteady

\* Rows as they were, in the same minute.
LEMMA RowsCarry ==
  ASSUME RowsTrue, RestartsAgree, MinutesKept, UNCHANGED <<now, lastFault, proc, platRows>>,
         platOn'.stored = platOn.stored
  PROVE  RowsTrue' /\ RestartsAgree' /\ MinutesKept'
  <1>1. RowsTrue' /\ RestartsAgree'
    BY DEF RowsTrue, RestartsAgree, Recent, StartOf, Pressure
  <1>. QED
    BY <1>1 DEF MinutesKept

LEMMA GatewayCollectsKeeps ==
  ASSUME PlatformIInv, NEW g \in Gateways, NEW ok \in BOOLEAN, GatewayCollects(g, ok)
  PROVE  PlatformIInv'
  <1>1. /\ PlatformTypeOK /\ MinuteSteady /\ RowsTrue /\ RestartsAgree /\ MinutesKept /\ ThisMinuteKept
        /\ ClockOK /\ QueueOK /\ SwitchOK
    BY PlatformParts DEF PlatformIInv
  <1>2. /\ UNCHANGED <<now, proc, pgStart, samples, sessRole, platOn>> /\ sampled' = sampled \cup {g}
        /\ proc[g].up
    BY DEF GatewayCollects
  <1>3. g \in PInstances /\ g \notin Operators /\ "postgres" \notin PInstances
    BY ComponentFacts
  <1>4. PICK ss : ss = {Collect(g)} \cup (IF proc[g].role = "leader" THEN {PostgresSample(g, ok)} ELSE {})
    OBVIOUS
  <1>5. /\ Collect(g) \in SampleRecords /\ Collect(g).inst = g
        /\ PostgresSample(g, ok) \in SampleRecords /\ PostgresSample(g, ok).inst = "postgres"
    BY <1>1, <1>3, CollectFacts, PostgresFacts
  <1>6. ss \in SUBSET SampleRecords /\ \A s, q \in ss : s.inst = q.inst => s = q
    BY <1>3, <1>4, <1>5
  <1>7. IF platOn.stored THEN UpsertSamples(ss) ELSE UNCHANGED <<platRows, roleEvents>>
    BY <1>4 DEF GatewayCollects
  <1>8. QueueOK' /\ SwitchOK'
    BY <1>1, <1>2, <1>3, SameMinute DEF QueueOK, SwitchOK
  <1>9. RowsOK'
    <2>1. CASE platOn.stored
      BY <1>1, <1>2, <1>6, <1>7, <2>1, UpsertTypes, SameMinute DEF RowsOK, RoleEvents
    <2>2. CASE ~platOn.stored
      BY <1>1, <1>2, <1>7, <2>2, SameRows
    <2>. QED
      BY <2>1, <2>2
  <1>10. CASE ~ok
    <2>1. Faulty
      BY <1>10 DEF GatewayCollects
    <2>2. ClockOK' /\ lastFault' = now' /\ faulty' = faulty + 1
      BY <1>1, <1>2, <2>1, FaultClock
    <2>3. ProcOK' /\ OneLeader'
      BY <1>1, <1>2, <2>2, FaultProcs
    <2>. QED
      BY <1>8, <1>9, <2>2, <2>3, PartsKept, FaultKeeps
  <1>11. CASE ok
    <2>1. faulty' = faulty /\ lastFault' = lastFault
      BY <1>11 DEF GatewayCollects, NoFault
    <2>2. PlatformTypeOK'
      <3>1. ClockOK' /\ ProcOK' /\ OneLeader'
        BY <1>1, <1>2, <2>1, SameProcs DEF ClockOK
      <3>. QED
        BY <1>8, <1>9, <3>1, PartsKept
    <2>3. MinuteSteady'
      BY <1>1, <1>2, <2>1, SteadyCarry
    <2>4. CASE platOn.stored
      <3>1. \A s \in ss : Truthful(s)
        <4>1. Truthful(Collect(g))
          BY <1>1, <1>2, <1>3, CollectFacts DEF Truthful
        <4>2. Truthful(PostgresSample(g, ok))
          BY <1>3, <1>5 DEF Truthful
        <4>. QED
          BY <1>4, <4>1, <4>2
      <3>2. /\ RowsTrue' /\ RestartsAgree' /\ MinutesKept'
            /\ \A s \in ss : \E r \in platRows' : r.inst = s.inst /\ r.seen = now
            /\ \A r \in platRows : r.seen = now => \E q \in platRows' : q.inst = r.inst /\ q.seen = now
        BY <1>2, <1>6, <1>7, <2>1, <2>4, <3>1, TruthfulSamples
      <3>3. \E r \in platRows' : r.inst = g /\ r.seen = now
        BY <1>4, <1>5, <3>2
      <3>4. ThisMinuteKept'
        <4> SUFFICES ASSUME platOn.stored = TRUE, now > lastFault, NEW i \in PInstances, proc[i].up, Delivered(i)'
                     PROVE  \E r \in platRows' : r.inst = i /\ r.seen = now
          BY <1>2, <2>1 DEF ThisMinuteKept
        <4>1. CASE i = g
          BY <3>3, <4>1
        <4>2. CASE i # g
          <5>1. Delivered(i)
            BY <1>2, <4>2 DEF Delivered
          <5>2. PICK r \in platRows : r.inst = i /\ r.seen = now
            BY <1>1, <5>1 DEF ThisMinuteKept
          <5>. QED
            BY <3>2, <5>2
        <4>. QED
          BY <4>1, <4>2
      <3>. QED
        BY <2>2, <2>3, <3>2, <3>4 DEF PlatformIInv
    <2>5. CASE ~platOn.stored
      <3>1. platRows' = platRows
        BY <1>7, <2>5
      <3>2. RowsTrue' /\ RestartsAgree' /\ MinutesKept'
        BY <1>1, <1>2, <2>1, <3>1, RowsCarry
      <3>3. ThisMinuteKept'
        BY <1>2, <2>5 DEF ThisMinuteKept
      <3>. QED
        BY <2>2, <2>3, <3>2, <3>3 DEF PlatformIInv
    <2>. QED
      BY <2>4, <2>5
  <1>. QED
    BY <1>10, <1>11

LEMMA PlatformCleanupKeeps ==
  ASSUME PlatformIInv, PlatformCleanup
  PROVE  PlatformIInv'
  <1>1. /\ PlatformTypeOK /\ MinuteSteady /\ RowsTrue /\ RestartsAgree /\ MinutesKept /\ ThisMinuteKept
        /\ ClockOK /\ RowsOK /\ SwitchOK
    BY PlatformParts DEF PlatformIInv
  <1>2. /\ UNCHANGED <<now, proc, sampled, pgStart, samples, sessRole, roleEvents, platOn, faulty, lastFault>>
        /\ platRows' = {r \in platRows : r.bucket >= now - SampleRetention}
    BY DEF PlatformCleanup, NoFault
  <1>3. now \in Nat /\ lastFault \in Nat /\ SampleRetention \in Nat
    BY <1>1, ClockFacts
  <1>4. platRows' \subseteq platRows
    BY <1>2
  <1>5. RowsOK'
    BY <1>1, <1>2, <1>4, SameMinute DEF RowsOK, RoleEvents
  <1>6. PlatformTypeOK'
    <2>1. ClockOK' /\ ProcOK' /\ OneLeader' /\ QueueOK' /\ SwitchOK'
      BY <1>1, <1>2, SameProcs, SameQueues DEF ClockOK, SwitchOK
    <2>. QED
      BY <1>5, <2>1, PartsKept
  <1>7. MinuteSteady'
    BY <1>1, <1>2, SteadyCarry
  <1>8. RowsTrue' /\ RestartsAgree'
    BY <1>1, <1>2, <1>4 DEF RowsTrue, RestartsAgree, Recent, StartOf, Pressure
  <1>9. MinutesKept'
    <2> SUFFICES ASSUME platOn.stored = TRUE, NEW i \in PInstances, proc[i].up, NEW m \in (lastFault + 1)..(now - 1)
                 PROVE  (\E r \in platRows' : r.inst = i /\ r.seen = m) \/ (\A r \in platRows' : r.inst = i => r.bucket > m)
      BY <1>2 DEF MinutesKept
    <2>1. m \in Nat /\ m > lastFault
      BY <1>3
    <2>2. ASSUME NEW r \in platRows, r.inst = i, r.seen = m, r \notin platRows', NEW q \in platRows', q.inst = i
          PROVE  q.bucket > m
      <3>1. Recent(r)
        BY <2>1, <2>2 DEF Recent
      <3>2. r.bucket = m
        BY <1>1, <2>2, <3>1 DEF RowsTrue
      <3>3. m < now - SampleRetention /\ q.bucket >= now - SampleRetention /\ q.bucket \in Nat
        BY <1>1, <1>2, <1>3, <2>1, <2>2, <3>2, RowFacts
      <3>. QED
        BY <1>3, <2>1, <3>3
    <2>3. CASE \E r \in platRows : r.inst = i /\ r.seen = m
      BY <2>2, <2>3
    <2>4. CASE \A r \in platRows : r.inst = i => r.bucket > m
      BY <1>4, <2>4
    <2>. QED
      BY <1>1, <2>3, <2>4 DEF MinutesKept
  <1>10. ThisMinuteKept'
    <2> SUFFICES ASSUME platOn.stored = TRUE, now > lastFault, NEW i \in PInstances, proc[i].up, Delivered(i)
                 PROVE  \E r \in platRows' : r.inst = i /\ r.seen = now
      BY <1>2 DEF ThisMinuteKept, Delivered
    <2>1. PICK r \in platRows : r.inst = i /\ r.seen = now
      BY <1>1 DEF ThisMinuteKept
    <2>2. Recent(r)
      BY <2>1 DEF Recent
    <2>3. r.bucket = now
      BY <1>1, <2>1, <2>2 DEF RowsTrue
    <2>4. now >= now - SampleRetention
      BY <1>3
    <2>. QED
      BY <1>2, <2>1, <2>3, <2>4
  <1>. QED
    BY <1>6, <1>7, <1>8, <1>9, <1>10 DEF PlatformIInv

LEMMA OperatorHeartbeatKeeps ==
  ASSUME PlatformIInv, NEW o \in Operators, OperatorHeartbeat(o)
  PROVE  PlatformIInv'
  <1>1. /\ PlatformTypeOK /\ MinuteSteady /\ RowsTrue /\ RestartsAgree /\ MinutesKept /\ ThisMinuteKept
        /\ ClockOK /\ QueueOK /\ SwitchOK
    BY PlatformParts DEF PlatformIInv
  <1>2. /\ UNCHANGED <<now, proc, sampled, pgStart, samples, platRows, roleEvents, faulty, lastFault>> /\ proc[o].up
        /\ sessRole' = [sessRole EXCEPT ![o] = proc[o].role] /\ platOn' = [platOn EXCEPT !.operators = platOn.gateway]
    BY DEF OperatorHeartbeat, NoFault
  <1>3. o \in PInstances
    BY ComponentFacts
  <1>4. sessRole' \in [Operators -> {"leader", "standby"}] /\ \A p \in Operators : sessRole'[p] = IF p = o THEN proc[o].role ELSE sessRole[p]
    BY <1>1, <1>2, <1>3, ProcFacts DEF QueueOK
  <1>5. /\ platOn'.stored = platOn.stored /\ platOn'.gateway = platOn.gateway /\ platOn'.operators = platOn.gateway
        /\ SwitchOK'
    BY <1>1, <1>2 DEF SwitchOK
  <1>6. PlatformTypeOK'
    <2>1. ClockOK' /\ ProcOK' /\ OneLeader' /\ RowsOK'
      BY <1>1, <1>2, SameProcs, SameRows DEF ClockOK
    <2>2. QueueOK'
      BY <1>1, <1>2, <1>4, SameMinute DEF QueueOK
    <2>. QED
      BY <1>5, <2>1, <2>2, PartsKept
  <1>7. MinuteSteady'
    <2> SUFFICES ASSUME now > lastFault PROVE MinuteSteady'
      BY <1>2 DEF MinuteSteady
    <2>1. \A p \in Operators : Collect(p)' = Collect(p)
      BY <1>2 DEF Collect, UnavailableSample, Pressure
    <2>2. \A i \in PInstances : HasLeader(i)'
      BY <1>1, <1>2 DEF HasLeader, MinuteSteady
    <2>3. \A p \in Operators : proc'[p].up => sessRole'[p] = proc'[p].role
      BY <1>1, <1>2, <1>4 DEF MinuteSteady
    <2>4. platOn'.stored = platOn'.gateway /\ platOn'.operators = platOn'.gateway
      BY <1>1, <1>5 DEF MinuteSteady
    <2>5. \A p \in Operators : samples'[p] = <<>> \/ (proc'[p].up /\ p \in sampled' /\ samples'[p] = <<Collect(p)'>>)
      BY <1>1, <1>2, <2>1 DEF MinuteSteady
    <2>. QED
      BY <2>2, <2>3, <2>4, <2>5 DEF MinuteSteady
  <1>8. RowsTrue' /\ RestartsAgree' /\ MinutesKept'
    BY <1>1, <1>2, <1>5, RowsCarry
  <1>9. ThisMinuteKept'
    BY <1>1, <1>2, <1>5 DEF ThisMinuteKept, Delivered
  <1>. QED
    BY <1>6, <1>7, <1>8, <1>9 DEF PlatformIInv

LEMMA EnqueueFacts ==
  ASSUME NEW S, NEW q \in Seq(S), Len(q) <= SampleCap, NEW s \in S
  PROVE  EnqueuePlatformSample(q, s) \in Seq(S) /\ Len(EnqueuePlatformSample(q, s)) <= SampleCap
         /\ EnqueuePlatformSample(q, s) # <<>> /\ (q = <<>> => EnqueuePlatformSample(q, s) = <<s>>)
  <1>1. SampleCap \in Nat \ {0} /\ Len(q) \in Nat
    BY PlatformAssumption
  <1>2. PICK t : t = IF Len(q) >= SampleCap THEN Tail(q) ELSE q
    OBVIOUS
  <1>3. t \in Seq(S) /\ Len(t) < SampleCap
    <2>1. CASE Len(q) >= SampleCap
      <3>1. q # <<>> /\ Len(q) = SampleCap
        BY <1>1, <2>1
      <3>2. t \in Seq(S) /\ Len(t) = Len(q) - 1
        BY <1>2, <2>1, <3>1, HeadTailProperties
      <3>. QED
        BY <1>1, <3>1, <3>2
    <2>2. CASE ~(Len(q) >= SampleCap)
      BY <1>1, <1>2, <2>2
    <2>. QED
      BY <2>1, <2>2
  <1>4. Append(t, s) \in Seq(S) /\ Len(Append(t, s)) = Len(t) + 1 /\ Append(t, s) # <<>>
    BY <1>3, AppendProperties
  <1>5. q = <<>> => t = <<>>
    BY <1>1, <1>2
  <1>6. t = <<>> => Append(t, s) = <<s>>
    OBVIOUS
  <1>7. Len(t) + 1 <= SampleCap
    BY <1>1, <1>3
  <1>. QED
    BY <1>2, <1>4, <1>5, <1>6, <1>7 DEF EnqueuePlatformSample

LEMMA OperatorCollectsKeeps ==
  ASSUME PlatformIInv, NEW o \in Operators, OperatorCollects(o)
  PROVE  PlatformIInv'
  <1>1. /\ PlatformTypeOK /\ MinuteSteady /\ RowsTrue /\ RestartsAgree /\ MinutesKept /\ ThisMinuteKept
        /\ ClockOK /\ QueueOK /\ SwitchOK
    BY PlatformParts DEF PlatformIInv
  <1>2. /\ UNCHANGED <<now, proc, pgStart, sessRole, platRows, roleEvents, platOn, faulty, lastFault>>
        /\ proc[o].up /\ o \notin sampled /\ sampled' = sampled \cup {o}
    BY DEF OperatorCollects, NoFault
  <1>3. o \in PInstances
    BY ComponentFacts
  <1>4. PICK q : q = EnqueuePlatformSample(samples[o], Collect(o))
    OBVIOUS
  <1>5. q \in Seq(SampleRecords) /\ Len(q) <= SampleCap /\ q # <<>> /\ (samples[o] = <<>> => q = <<Collect(o)>>)
    <2>1. Collect(o) \in SampleRecords
      BY <1>1, <1>3, CollectFacts
    <2>2. samples[o] \in Seq(SampleRecords) /\ Len(samples[o]) <= SampleCap
      BY <1>1 DEF QueueOK
    <2>. QED
      BY <1>4, <2>1, <2>2, EnqueueFacts
  <1>6. samples' = IF platOn.operators THEN [samples EXCEPT ![o] = q] ELSE samples
    BY <1>4 DEF OperatorCollects
  <1>7. \A p \in Operators : samples'[p] = IF platOn.operators /\ p = o THEN q ELSE samples[p]
    BY <1>1, <1>6 DEF QueueOK
  <1>8. PlatformTypeOK'
    <2>1. ClockOK' /\ ProcOK' /\ OneLeader' /\ RowsOK' /\ SwitchOK'
      BY <1>1, <1>2, SameProcs, SameRows DEF ClockOK, SwitchOK
    <2>2. samples' \in [Operators -> Seq(SampleRecords)]
      BY <1>1, <1>5, <1>6 DEF QueueOK
    <2>3. \A p \in Operators : Len(samples'[p]) <= SampleCap
      BY <1>1, <1>5, <1>7 DEF QueueOK
    <2>4. QueueOK'
      BY <1>1, <1>2, <1>3, <2>2, <2>3, SameMinute DEF QueueOK
    <2>. QED
      BY <2>1, <2>4, PartsKept
  <1>9. MinuteSteady'
    <2> SUFFICES ASSUME now > lastFault PROVE MinuteSteady'
      BY <1>2 DEF MinuteSteady
    <2>1. \A p \in Operators : Collect(p)' = Collect(p)
      BY <1>2 DEF Collect, UnavailableSample, Pressure
    <2>2. \A i \in PInstances : HasLeader(i)'
      BY <1>1, <1>2 DEF HasLeader, MinuteSteady
    <2>3. samples[o] = <<>>
      BY <1>1, <1>2 DEF MinuteSteady
    <2>4. \A p \in Operators : samples'[p] = <<>> \/ (proc'[p].up /\ p \in sampled' /\ samples'[p] = <<Collect(p)'>>)
      BY <1>1, <1>2, <1>5, <1>7, <2>1, <2>3 DEF MinuteSteady
    <2>5. /\ platOn'.stored = platOn'.gateway /\ platOn'.operators = platOn'.gateway
          /\ \A p \in Operators : proc'[p].up => sessRole'[p] = proc'[p].role
      BY <1>1, <1>2 DEF MinuteSteady
    <2>. QED
      BY <2>2, <2>4, <2>5 DEF MinuteSteady
  <1>10. RowsTrue' /\ RestartsAgree' /\ MinutesKept'
    BY <1>1, <1>2, RowsCarry
  <1>11. ThisMinuteKept'
    <2> SUFFICES ASSUME platOn.stored = TRUE, now > lastFault, NEW i \in PInstances, proc[i].up, Delivered(i)'
                 PROVE  \E r \in platRows : r.inst = i /\ r.seen = now
      BY <1>2 DEF ThisMinuteKept
    <2>1. platOn.operators = TRUE
      BY <1>1 DEF MinuteSteady
    <2>2. i # o
      BY <1>5, <1>7, <2>1 DEF Delivered
    <2>3. Delivered(i)
      BY <1>2, <1>7, <2>2 DEF Delivered
    <2>. QED
      BY <1>1, <2>3 DEF ThisMinuteKept
  <1>. QED
    BY <1>8, <1>9, <1>10, <1>11 DEF PlatformIInv

LEMMA OperatorSendsKeeps ==
  ASSUME PlatformIInv, NEW o \in Operators, OperatorSends(o)
  PROVE  PlatformIInv'
  <1>1. /\ PlatformTypeOK /\ MinuteSteady /\ RowsTrue /\ RestartsAgree /\ MinutesKept /\ ThisMinuteKept
        /\ ClockOK /\ QueueOK /\ SwitchOK
    BY PlatformParts DEF PlatformIInv
  <1>2. /\ UNCHANGED <<now, proc, sampled, pgStart, sessRole, platOn, faulty, lastFault>>
        /\ samples[o] # <<>> /\ samples' = [samples EXCEPT ![o] = Tail(samples[o])]
    BY DEF OperatorSends, NoFault
  <1>3. o \in PInstances
    BY ComponentFacts
  <1>4. samples[o] \in Seq(SampleRecords) /\ Len(samples[o]) <= SampleCap /\ SampleCap \in Nat
    BY <1>1, PlatformAssumption DEF QueueOK
  <1>5. PICK h : h = Head(samples[o])
    OBVIOUS
  <1>6. PICK rest : rest = Tail(samples[o])
    OBVIOUS
  <1>7. h \in SampleRecords /\ rest \in Seq(SampleRecords) /\ Len(rest) = Len(samples[o]) - 1
    BY <1>2, <1>4, <1>5, <1>6, HeadTailProperties
  <1>8. Len(rest) <= SampleCap
    BY <1>4, <1>7
  <1>9. PICK s : s = [h EXCEPT !.inst = o, !.role = sessRole[o]]
    OBVIOUS
  <1>10. /\ s.inst = o /\ s.at = h.at /\ s.role = sessRole[o] /\ s.started = h.started /\ s.pressure = h.pressure
         /\ s.healthy = h.healthy
    BY <1>7, <1>9 DEF SampleRecords
  <1>11. sessRole[o] \in {"leader", "standby"}
    BY <1>1 DEF QueueOK
  <1>12. s \in SampleRecords
    BY <1>3, <1>7, <1>9, <1>11 DEF SampleRecords
  <1>13. {s} \in SUBSET SampleRecords /\ \A p, q \in {s} : p.inst = q.inst => p = q
    BY <1>12
  <1>14. IF platOn.gateway THEN UpsertSamples({s}) ELSE UNCHANGED <<platRows, roleEvents>>
    BY <1>5, <1>9 DEF OperatorSends
  <1>15. \A p \in Operators : samples'[p] = IF p = o THEN rest ELSE samples[p]
    BY <1>1, <1>2, <1>6 DEF QueueOK
  <1>16. QueueOK'
    <2>1. samples' \in [Operators -> Seq(SampleRecords)]
      BY <1>1, <1>2, <1>6, <1>7 DEF QueueOK
    <2>2. \A p \in Operators : Len(samples'[p]) <= SampleCap
      BY <1>1, <1>8, <1>15 DEF QueueOK
    <2>. QED
      BY <1>1, <1>2, <2>1, <2>2, SameMinute DEF QueueOK
  <1>17. RowsOK'
    <2>1. CASE platOn.gateway
      BY <1>1, <1>2, <1>13, <1>14, <2>1, UpsertTypes, SameMinute DEF RowsOK, RoleEvents
    <2>2. CASE ~platOn.gateway
      BY <1>1, <1>2, <1>14, <2>2, SameRows
    <2>. QED
      BY <2>1, <2>2
  <1>18. PlatformTypeOK'
    <2>1. ClockOK' /\ ProcOK' /\ OneLeader' /\ SwitchOK'
      BY <1>1, <1>2, SameProcs DEF ClockOK, SwitchOK
    <2>. QED
      BY <1>16, <1>17, <2>1, PartsKept
  <1>19. now > lastFault => Truthful(s) /\ rest = <<>>
    <2> SUFFICES ASSUME now > lastFault PROVE Truthful(s) /\ rest = <<>>
      OBVIOUS
    <2>1. proc[o].up /\ samples[o] = <<Collect(o)>> /\ sessRole[o] = proc[o].role
      BY <1>1, <1>2 DEF MinuteSteady
    <2>2. PICK c : c = Collect(o)
      OBVIOUS
    <2>3. h = c /\ rest = <<>>
      BY <1>5, <1>6, <2>1, <2>2
    <2>4. c.at = now /\ c.started = StartOf(o) /\ c.pressure = Pressure(o) /\ c.healthy = TRUE
      BY <1>1, <1>3, <2>2, CollectFacts
    <2>. QED
      BY <1>10, <2>1, <2>3, <2>4 DEF Truthful
  <1>20. MinuteSteady'
    <2> SUFFICES ASSUME now > lastFault PROVE MinuteSteady'
      BY <1>2 DEF MinuteSteady
    <2>1. \A p \in Operators : Collect(p)' = Collect(p)
      BY <1>2 DEF Collect, UnavailableSample, Pressure
    <2>2. \A i \in PInstances : HasLeader(i)'
      BY <1>1, <1>2 DEF HasLeader, MinuteSteady
    <2>3. \A p \in Operators : samples'[p] = <<>> \/ (proc'[p].up /\ p \in sampled' /\ samples'[p] = <<Collect(p)'>>)
      BY <1>1, <1>2, <1>15, <1>19, <2>1 DEF MinuteSteady
    <2>4. /\ platOn'.stored = platOn'.gateway /\ platOn'.operators = platOn'.gateway
          /\ \A p \in Operators : proc'[p].up => sessRole'[p] = proc'[p].role
      BY <1>1, <1>2 DEF MinuteSteady
    <2>. QED
      BY <2>2, <2>3, <2>4 DEF MinuteSteady
  <1>21. CASE platOn.gateway
    <2>1. /\ RowsTrue' /\ RestartsAgree' /\ MinutesKept'
          /\ \A z \in {s} : \E r \in platRows' : r.inst = z.inst /\ r.seen = now
          /\ \A r \in platRows : r.seen = now => \E q \in platRows' : q.inst = r.inst /\ q.seen = now
      <3>1. UpsertSamples({s}) /\ UNCHANGED <<now, proc, platOn, lastFault>>
        BY <1>2, <1>14, <1>21
      <3>2. now > lastFault => \A z \in {s} : Truthful(z)
        BY <1>19
      <3>. QED
        BY <1>13, <3>1, <3>2, TruthfulSamples
    <2>2. ThisMinuteKept'
      <3> SUFFICES ASSUME platOn.stored = TRUE, now > lastFault, NEW i \in PInstances, proc[i].up, Delivered(i)'
                   PROVE  \E r \in platRows' : r.inst = i /\ r.seen = now
        BY <1>2 DEF ThisMinuteKept
      <3>1. CASE i = o
        BY <1>10, <2>1, <3>1
      <3>2. CASE i # o
        <4>1. Delivered(i)
          BY <1>2, <1>15, <3>2 DEF Delivered
        <4>2. PICK r \in platRows : r.inst = i /\ r.seen = now
          BY <1>1, <4>1 DEF ThisMinuteKept
        <4>. QED
          BY <2>1, <4>2
      <3>. QED
        BY <3>1, <3>2
    <2>. QED
      BY <1>18, <1>20, <2>1, <2>2 DEF PlatformIInv
  <1>22. CASE ~platOn.gateway
    <2>1. platRows' = platRows
      BY <1>14, <1>22
    <2>2. RowsTrue' /\ RestartsAgree' /\ MinutesKept'
      BY <1>1, <1>2, <2>1, RowsCarry
    <2>3. now > lastFault => platOn.stored # TRUE
      BY <1>1, <1>22 DEF MinuteSteady
    <2>4. ThisMinuteKept'
      BY <1>2, <2>3 DEF ThisMinuteKept
    <2>. QED
      BY <1>18, <1>20, <2>2, <2>4 DEF PlatformIInv
  <1>. QED
    BY <1>21, <1>22

LEMMA MinuteKeeps ==
  ASSUME PlatformIInv, Minute
  PROVE  PlatformIInv'
  <1>1. /\ PlatformTypeOK /\ RowsTrue /\ RestartsAgree /\ MinutesKept /\ ThisMinuteKept
        /\ ClockOK /\ ProcOK /\ OneLeader /\ QueueOK /\ RowsOK /\ SwitchOK
    BY PlatformParts DEF PlatformIInv
  <1>2. /\ UNCHANGED <<proc, pgStart, samples, sessRole, platRows, roleEvents, platOn>> /\ now < MaxMinutes
        /\ now' = now + 1 /\ sampled' = {}
    BY DEF Minute
  <1>3. now \in Nat /\ lastFault \in Nat /\ lastFault <= now /\ faulty \in Nat /\ MaxMinutes \in Nat /\ MaxFaulty \in Nat
    BY <1>1, ClockFacts
  <1>4. 0..now \subseteq 0..now'
    BY <1>2, <1>3
  <1>5. SampleRecords \subseteq SampleRecords' /\ SampleRows \subseteq SampleRows'
    BY <1>4 DEF SampleRecords, SampleRows
  <1>6. QueueOK'
    <2>1. \A o \in Operators : samples[o] \in Seq(SampleRecords')
      <3> SUFFICES ASSUME NEW o \in Operators PROVE samples[o] \in Seq(SampleRecords')
        OBVIOUS
      <3>1. samples[o] \in Seq(SampleRecords)
        BY <1>1 DEF QueueOK
      <3>. QED
        BY <1>5, <3>1, SeqWithin
    <2>2. samples' \in [Operators -> Seq(SampleRecords')]
      BY <1>1, <1>2, <2>1 DEF QueueOK
    <2>. QED
      BY <1>1, <1>2, <2>2 DEF QueueOK
  <1>7. RowsOK' /\ SwitchOK' /\ OneLeader'
    BY <1>1, <1>2, <1>5 DEF RowsOK, RoleEvents, SwitchOK, OneLeader
  <1>8. CASE ~MinuteDone
    <2>1. faulty < MaxFaulty /\ faulty' = faulty + 1 /\ lastFault' = now + 1
      BY <1>8 DEF Minute
    <2>2. ClockOK'
      <3>1. now' \in 0..MaxMinutes /\ faulty' \in 0..MaxFaulty /\ lastFault' \in 0..now'
        BY <1>2, <1>3, <2>1
      <3>2. pgStart' \in 0..faulty'
        BY <1>1, <1>2, <1>3, <2>1 DEF ClockOK
      <3>. QED
        BY <3>1, <3>2 DEF ClockOK
    <2>3. ProcOK'
      BY <1>1, <1>2, <2>1, FaultProcs
    <2>. QED
      BY <1>2, <1>6, <1>7, <2>1, <2>2, <2>3, PartsKept, FaultKeeps
  <1>9. CASE MinuteDone
    <2>1. faulty' = faulty /\ lastFault' = lastFault
      BY <1>9 DEF Minute, NoFault
    <2>2. ClockOK' /\ ProcOK'
      <3>1. now' \in 0..MaxMinutes /\ lastFault' \in 0..now'
        BY <1>2, <1>3, <2>1
      <3>. QED
        BY <1>1, <1>2, <2>1, <3>1 DEF ClockOK, ProcOK
    <2>3. PlatformTypeOK'
      BY <1>6, <1>7, <2>2, PartsKept
    <2>4. MinuteSteady'
      BY <1>2, <1>9 DEF MinuteSteady, MinuteDone, HasLeader
    <2>5. RowsTrue' /\ RestartsAgree'
      BY <1>1, <1>2, <2>1 DEF RowsTrue, RestartsAgree, Recent, StartOf, Pressure
    <2>6. MinutesKept'
      <3> SUFFICES ASSUME platOn.stored = TRUE, NEW i \in PInstances, proc[i].up, NEW m \in (lastFault + 1)..(now' - 1)
                   PROVE  (\E r \in platRows : r.inst = i /\ r.seen = m) \/ (\A r \in platRows : r.inst = i => r.bucket > m)
        BY <1>2, <2>1 DEF MinutesKept
      <3>1. m \in (lastFault + 1)..(now - 1) \/ (m = now /\ now > lastFault)
        BY <1>2, <1>3
      <3>2. CASE m \in (lastFault + 1)..(now - 1)
        BY <1>1, <3>2 DEF MinutesKept
      <3>3. CASE m = now /\ now > lastFault
        <4>1. Delivered(i)
          BY <1>9 DEF MinuteDone, Delivered
        <4>. QED
          BY <1>1, <3>3, <4>1 DEF ThisMinuteKept
      <3>. QED
        BY <3>1, <3>2, <3>3
    <2>7. ThisMinuteKept'
      BY <1>2 DEF ThisMinuteKept, Delivered
    <2>. QED
      BY <2>3, <2>4, <2>5, <2>6, <2>7 DEF PlatformIInv
  <1>. QED
    BY <1>8, <1>9

LEMMA PlatformStart ==
  PlatformInit => PlatformIInv
  <1> SUFFICES ASSUME PlatformInit PROVE PlatformIInv
    OBVIOUS
  <1>1. /\ now = 0 /\ lastFault = 0 /\ faulty = 0 /\ pgStart = 0 /\ sampled = {} /\ platRows = {} /\ roleEvents = {}
        /\ proc = [i \in PInstances |-> [up |-> TRUE, starts |-> 0, role |-> "standby", pressure |-> 0]]
        /\ sessRole = [o \in Operators |-> "standby"] /\ samples = [o \in Operators |-> <<>>]
        /\ platOn = [stored |-> TRUE, gateway |-> TRUE, operators |-> TRUE]
    BY DEF PlatformInit
  <1>2. ClockOK
    BY <1>1, PlatformAssumption DEF ClockOK
  <1>3. ProcOK /\ OneLeader
    BY <1>1 DEF ProcOK, OneLeader
  <1>4. QueueOK
    <2>1. <<>> \in Seq(SampleRecords) /\ Len(<<>>) = 0 /\ 0 <= SampleCap
      BY PlatformAssumption
    <2>2. samples \in [Operators -> Seq(SampleRecords)] /\ \A o \in Operators : Len(samples[o]) <= SampleCap
      BY <1>1, <2>1
    <2>. QED
      BY <1>1, <2>2 DEF QueueOK
  <1>5. RowsOK /\ SwitchOK
    BY <1>1 DEF RowsOK, SwitchOK
  <1>6. PlatformTypeOK
    BY <1>2, <1>3, <1>4, <1>5, PlatformParts
  <1>7. ~(now > lastFault) /\ \A m : m \notin (lastFault + 1)..(now - 1)
    BY <1>1
  <1>8. MinuteSteady /\ MinutesKept /\ ThisMinuteKept
    BY <1>7 DEF MinuteSteady, MinutesKept, ThisMinuteKept
  <1>9. RowsTrue /\ RestartsAgree
    BY <1>1 DEF RowsTrue, RestartsAgree
  <1>. QED
    BY <1>6, <1>8, <1>9 DEF PlatformIInv

LEMMA PlatformStep ==
  PlatformIInv /\ [PlatformNext]_platformVars => PlatformIInv'
  <1> SUFFICES ASSUME PlatformIInv, [PlatformNext]_platformVars PROVE PlatformIInv'
    OBVIOUS
  <1>1. CASE UNCHANGED platformVars
    <2>1. /\ UNCHANGED <<now, proc, sampled, pgStart, samples, sessRole, platRows, roleEvents, platOn, faulty, lastFault>>
          /\ PlatformTypeOK /\ MinuteSteady /\ RowsTrue /\ RestartsAgree /\ MinutesKept /\ ThisMinuteKept
      BY <1>1 DEF platformVars, PlatformIInv
    <2>2. ClockOK' /\ ProcOK' /\ OneLeader' /\ QueueOK' /\ RowsOK' /\ SwitchOK'
      BY <2>1, PlatformParts, SameProcs, SameQueues, SameRows DEF ClockOK, SwitchOK
    <2>3. MinuteSteady' /\ RowsTrue' /\ RestartsAgree' /\ MinutesKept'
      BY <2>1, SteadyCarry, RowsCarry
    <2>4. ThisMinuteKept'
      BY <2>1 DEF ThisMinuteKept, Delivered
    <2>. QED
      BY <2>2, <2>3, <2>4, PartsKept DEF PlatformIInv
  <1>2. ASSUME NEW g \in Gateways, NEW ok \in BOOLEAN, GatewayCollects(g, ok) PROVE PlatformIInv'
    BY <1>2, GatewayCollectsKeeps
  <1>3. ASSUME NEW o \in Operators, OperatorCollects(o) \/ OperatorSends(o) \/ OperatorHeartbeat(o) PROVE PlatformIInv'
    BY <1>3, OperatorCollectsKeeps, OperatorSendsKeeps, OperatorHeartbeatKeeps
  <1>4. ASSUME NEW i \in PInstances, Elected(i) \/ MemoryPressure(i) PROVE PlatformIInv'
    BY <1>4, ElectedKeeps, MemoryPressureKeeps
  <1>5. ASSUME NEW i \in PInstances, NEW back \in BOOLEAN, ProcessEnds(i, back) PROVE PlatformIInv'
    BY <1>5, ProcessEndsKeeps
  <1>6. ASSUME NEW told \in BOOLEAN, UpdatePlatformSettings(told) PROVE PlatformIInv'
    BY <1>6, UpdatePlatformSettingsKeeps
  <1>7. CASE PostgresRestarts \/ ReloadPlatformSettings \/ PlatformCleanup \/ Minute
    BY <1>7, PostgresRestartsKeeps, ReloadPlatformSettingsKeeps, PlatformCleanupKeeps, MinuteKeeps
  <1>. QED
    BY <1>1, <1>2, <1>3, <1>4, <1>5, <1>6, <1>7 DEF PlatformNext

(***************************************************************************)
(* The platform's processes, queues, rows and copies of the switch stay    *)
(* within their types, whatever fails (PlatformReporter, Link's sample     *)
(* queue, PlatformRepo.UpsertSample): a queue never exceeds its capacity,  *)
(* a minute has one row per instance, and no component has two leaders.    *)
(***************************************************************************)
THEOREM PlatformTypeCorrect ==
  PlatformSpec => []PlatformTypeOK
  <1>1. PlatformIInv => PlatformTypeOK
    BY DEF PlatformIInv
  <1>. QED
    BY <1>1, PlatformStart, PlatformStep, PTL DEF PlatformSpec

\* A counter that kept one value since before the window has not risen in it.
LEMMA LevelCounter ==
  ASSUME NEW values, NEW since, NEW v0 \in Int,
         \A v \in values : v.seen >= since => v.val = v0,
         (\A v \in values : ~(v.seen < since)) \/ Latest({v \in values : v.seen < since}).val = v0
  PROVE  ~Rose(values, since)
  <1>1. PICK window : window = {v \in values : v.seen >= since}
    OBVIOUS
  <1>2. PICK before : before = {v \in values : v.seen < since}
    OBVIOUS
  <1>3. PICK base : base = IF before # {} THEN {Latest(before).val} ELSE {v.val : v \in window}
    OBVIOUS
  <1>4. Rose(values, since) <=> \E v \in window : \E b \in base : (\A c \in base : b <= c) /\ v.val > b
    BY <1>1, <1>2, <1>3 DEF Rose
  <1>5. \A v \in window : v.val = v0
    BY <1>1
  <1>6. \A b \in base : b = v0
    BY <1>2, <1>3, <1>5
  <1>7. ~(v0 > v0)
    OBVIOUS
  <1>. QED
    BY <1>4, <1>5, <1>6, <1>7

LEMMA QuietFacts ==
  ASSUME PlatformTypeOK, Quiet
  PROVE  now > lastFault /\ now - NoDataAfter > lastFault + 1 /\ now - HealthRange > lastFault + 1
  BY ClockFacts DEF Quiet

\* A counter that is one value in every recent row of an instance is level over the health range.
LEMMA LevelSinceQuiet ==
  ASSUME PlatformIInv, Quiet, platOn.stored = TRUE, NEW i \in PInstances, proc[i].up,
         NEW R \in SUBSET platRows, \A r \in R : r.inst = i, \A r \in platRows : r.inst = i /\ Recent(r) => r \in R,
         NEW val, NEW v0 \in Int, \A r \in R : Recent(r) => val[r] = v0,
         NEW values, values = {[val |-> val[r], seen |-> r.seen, bucket |-> r.bucket] : r \in R}
  PROVE  ~Rose(values, now - HealthRange)
  <1>1. PlatformTypeOK /\ RowsTrue /\ MinutesKept
    BY DEF PlatformIInv
  <1>2. PICK since : since = now - HealthRange
    OBVIOUS
  <1>3. now \in Nat /\ lastFault \in Nat /\ since \in Nat /\ since > lastFault + 1 /\ since <= now
    BY <1>1, <1>2, ClockFacts, QuietFacts
  <1>4. \A r \in R : r.seen \in Nat /\ r.bucket \in Nat /\ r.bucket <= r.seen /\ r.inst = i /\ r \in platRows
    BY <1>1, RowFacts
  <1>5. \A r \in R : r.seen > lastFault => Recent(r) /\ r.bucket = r.seen /\ val[r] = v0
    BY <1>1, <1>4 DEF Recent, RowsTrue
  <1>6. \A v \in values : \E r \in R : v.val = val[r] /\ v.seen = r.seen /\ v.bucket = r.bucket
    OBVIOUS
  <1>7. \A v \in values : v.seen \in Nat /\ (v.seen > lastFault => v.val = v0 /\ v.bucket = v.seen)
    BY <1>4, <1>5, <1>6
  <1>8. \A v \in values : v.seen >= since => v.val = v0
    BY <1>3, <1>7
  <1>9. PICK before : before = {v \in values : v.seen < since}
    OBVIOUS
  <1>10. PICK m : m = since - 1
    OBVIOUS
  <1>11. m \in Nat /\ m > lastFault /\ m \in (lastFault + 1)..(now - 1) /\ \A n \in Nat : n < since => n <= m
    BY <1>3, <1>10
  <1>12. (\E r \in platRows : r.inst = i /\ r.seen = m) \/ (\A r \in platRows : r.inst = i => r.bucket > m)
    BY <1>1, <1>11 DEF MinutesKept
  <1>13. CASE \E r \in platRows : r.inst = i /\ r.seen = m
    <2>1. PICK r \in platRows : r.inst = i /\ r.seen = m
      BY <1>13
    <2>2. r \in R
      BY <1>11, <2>1 DEF Recent
    <2>3. PICK w : w = [val |-> val[r], seen |-> r.seen, bucket |-> r.bucket]
      OBVIOUS
    <2>4. w \in values /\ w.seen = m
      BY <2>1, <2>2, <2>3
    <2>5. w \in before /\ w.bucket = m
      BY <1>3, <1>7, <1>9, <1>10, <1>11, <2>4
    <2>6. \A q \in before : q.seen < w.seen \/ (q.seen = w.seen /\ q.bucket <= w.bucket)
      <3> SUFFICES ASSUME NEW q \in before PROVE q.seen < w.seen \/ (q.seen = w.seen /\ q.bucket <= w.bucket)
        OBVIOUS
      <3>1. q \in values /\ q.seen \in Nat /\ q.seen <= m
        BY <1>7, <1>9, <1>11
      <3>2. CASE q.seen = m
        BY <1>7, <1>11, <2>4, <2>5, <3>1, <3>2
      <3>. QED
        BY <1>11, <2>4, <3>1, <3>2
    <2>7. PICK last : last = Latest(before)
      OBVIOUS
    <2>8. last \in before /\ (w.seen < last.seen \/ w.seen = last.seen)
      BY <2>5, <2>6, <2>7, LatestIs
    <2>9. last \in values /\ last.seen > lastFault
      BY <1>3, <1>7, <1>9, <1>11, <2>4, <2>8
    <2>10. last.val = v0
      BY <1>7, <2>9
    <2>11. Latest({v \in values : v.seen < since}).val = v0
      BY <1>9, <2>7, <2>10
    <2>. QED
      BY <1>2, <1>8, <2>11, LevelCounter
  <1>14. CASE \A r \in platRows : r.inst = i => r.bucket > m
    <2>1. \A r \in R : ~(r.seen < since)
      <3> SUFFICES ASSUME NEW r \in R PROVE ~(r.seen < since)
        OBVIOUS
      <3>1. r.bucket > m /\ r.seen \in Nat /\ r.bucket \in Nat /\ r.bucket <= r.seen
        BY <1>4, <1>14
      <3>. QED
        BY <1>3, <1>10, <3>1
    <2>2. \A v \in values : ~(v.seen < since)
      BY <1>6, <2>1
    <2>. QED
      BY <1>2, <1>8, <2>2, LevelCounter
  <1>. QED
    BY <1>12, <1>13, <1>14

LEMMA NotDegraded ==
  ASSUME PlatformIInv, Quiet, platOn.stored = TRUE, NEW i \in PInstances, proc[i].up,
         NEW r \in platRows, r.inst = i, Recent(r)
  PROVE  ~InstanceDegraded(r)
  <1>1. PlatformTypeOK /\ RowsTrue /\ RestartsAgree
    BY DEF PlatformIInv
  <1>2. r.healthy = TRUE
    BY <1>1 DEF RowsTrue
  <1>3. ~RestartedInstances(i, now - HealthRange)
    <2>1. PICK R : R = RowsOf(i)
      OBVIOUS
    <2>2. R \in SUBSET platRows /\ (\A q \in R : q.inst = i) /\ \A q \in platRows : q.inst = i /\ Recent(q) => q \in R
      BY <2>1 DEF RowsOf
    <2>3. PICK val : val = [q \in R |-> q.restarts]
      OBVIOUS
    <2>4. r.restarts \in Int /\ \A q \in R : Recent(q) => val[q] = r.restarts
      <3>1. r.restarts \in Nat
        BY <1>1, RowFacts
      <3>2. \A q \in R : Recent(q) => q.restarts = r.restarts
        BY <1>1, <2>2 DEF RestartsAgree
      <3>. QED
        BY <2>3, <3>1, <3>2
    <2>5. PICK values : values = {[val |-> q.restarts, seen |-> q.seen, bucket |-> q.bucket] : q \in R}
      OBVIOUS
    <2>6. values = {[val |-> val[q], seen |-> q.seen, bucket |-> q.bucket] : q \in R}
      BY <2>3, <2>5
    <2>7. ~Rose(values, now - HealthRange)
      BY <2>2, <2>4, <2>6, LevelSinceQuiet
    <2>. QED
      BY <2>1, <2>5, <2>7 DEF RestartedInstances
  <1>4. ~MemoryPressuredInstances(i, now - HealthRange)
    <2>1. PICK R : R = {q \in RowsOf(i) : q.pressure >= 0}
      OBVIOUS
    <2>2. R \in SUBSET platRows /\ (\A q \in R : q.inst = i /\ q.pressure >= 0)
      BY <2>1 DEF RowsOf
    <2>3. \A q \in platRows : q.inst = i /\ Recent(q) => q.pressure = Pressure(i)
      BY <1>1 DEF RowsTrue
    <2>4. Pressure(i) \in Nat \cup {-1}
      BY <1>1, ProcFacts
    <2>5. PICK values : values = {[val |-> q.pressure, seen |-> q.seen, bucket |-> q.bucket] : q \in R}
      OBVIOUS
    <2>6. ~Rose(values, now - HealthRange)
      <3>1. CASE Pressure(i) = -1
        <4>1. \A q \in R : ~Recent(q)
          BY <2>2, <2>3, <3>1
        <4>2. \A q \in R : ~(q.seen >= now - HealthRange)
          <5> SUFFICES ASSUME NEW q \in R, q.seen >= now - HealthRange PROVE FALSE
            OBVIOUS
          <5>1. q.seen \in Nat /\ now \in Nat /\ lastFault \in Nat /\ HealthRange \in Nat /\ now - HealthRange > lastFault + 1
            BY <1>1, <2>2, RowFacts, ClockFacts, QuietFacts
          <5>2. q.seen > lastFault
            BY <5>1
          <5>. QED
            BY <2>2, <4>1, <5>2 DEF Recent
        <4>3. \A v \in values : ~(v.seen >= now - HealthRange)
          BY <2>5, <4>2
        <4>. QED
          BY <4>3 DEF Rose
      <3>2. CASE Pressure(i) \in Nat
        <4>1. \A q \in platRows : q.inst = i /\ Recent(q) => q \in R
          BY <2>1, <2>3, <3>2 DEF RowsOf
        <4>2. PICK val : val = [q \in R |-> q.pressure]
          OBVIOUS
        <4>3. PICK v0 \in Int : v0 = Pressure(i)
          BY <3>2
        <4>4. \A q \in R : Recent(q) => val[q] = v0
          BY <2>2, <2>3, <4>2, <4>3
        <4>5. values = {[val |-> val[q], seen |-> q.seen, bucket |-> q.bucket] : q \in R}
          BY <2>5, <4>2
        <4>. QED
          BY <2>2, <4>1, <4>4, <4>5, LevelSinceQuiet
      <3>. QED
        BY <2>4, <3>1, <3>2
    <2>. QED
      BY <2>1, <2>5, <2>6 DEF MemoryPressuredInstances
  <1>. QED
    BY <1>2, <1>3, <1>4 DEF InstanceDegraded

LEMMA ComponentIsOk ==
  ASSUME PlatformIInv, Quiet, MinuteDone, platOn.stored = TRUE, NEW c \in {"gateway", "operator"},
         NEW k \in PInstances, Component(k) = c
  PROVE  BuildPlatformComponent(c) = "ok"
  <1>1. PlatformTypeOK /\ RowsTrue /\ ThisMinuteKept
    BY DEF PlatformIInv
  <1>2. /\ now \in Nat /\ lastFault \in Nat /\ NoDataAfter \in Nat /\ SampleRetention \in Nat /\ now > lastFault
        /\ now - NoDataAfter > lastFault + 1
    BY <1>1, ClockFacts, QuietFacts
  <1>3. PICK last : last = [i \in PInstances |-> Latest(RowsOf(i))]
    OBVIOUS
  <1>4. ASSUME NEW i \in PInstances, RowsOf(i) # {}
        PROVE  /\ last[i] \in platRows /\ last[i].inst = i /\ last[i].seen \in Nat /\ last[i].seen <= now
               /\ \A q \in RowsOf(i) : q.seen <= last[i].seen
    <2>1. PICK l : l = Latest(RowsOf(i))
      OBVIOUS
    <2>2. RowsOf(i) \in SUBSET platRows /\ \A q \in RowsOf(i) : q.inst = i
      BY DEF RowsOf
    <2>3. l \in RowsOf(i) /\ \A q \in RowsOf(i) : q.seen < l.seen \/ (q.seen = l.seen /\ q.bucket <= l.bucket)
      BY <1>1, <1>4, <2>1, <2>2, LatestRow
    <2>4. l \in platRows /\ l.inst = i /\ l.seen \in Nat /\ l.seen <= now
      BY <1>1, <2>2, <2>3, RowFacts
    <2>5. \A q \in RowsOf(i) : q.seen \in Nat
      BY <1>1, <2>2, RowFacts
    <2>6. \A q \in RowsOf(i) : q.seen <= l.seen
      BY <2>3, <2>4, <2>5
    <2>. QED
      BY <1>3, <2>1, <2>4, <2>6
  <1>5. ASSUME NEW i \in PInstances, proc[i].up
        PROVE  /\ RowsOf(i) # {} /\ last[i] \in platRows /\ last[i].inst = i /\ last[i].seen = now /\ Recent(last[i])
               /\ last[i].role = proc[i].role /\ Fresh(last[i]) /\ ~InstanceDegraded(last[i])
    <2>1. Delivered(i)
      BY <1>5 DEF MinuteDone, Delivered
    <2>2. PICK r \in platRows : r.inst = i /\ r.seen = now
      BY <1>1, <1>2, <1>5, <2>1 DEF ThisMinuteKept
    <2>3. r \in RowsOf(i)
      BY <2>2 DEF RowsOf
    <2>4. last[i] \in platRows /\ last[i].inst = i /\ last[i].seen = now
      BY <1>2, <1>4, <2>2, <2>3
    <2>5. Recent(last[i])
      BY <1>2, <2>4 DEF Recent
    <2>6. last[i].role = proc[i].role
      BY <1>1, <2>4, <2>5 DEF RowsTrue
    <2>7. Fresh(last[i])
      BY <1>2, <2>4 DEF Fresh
    <2>8. ~InstanceDegraded(last[i])
      BY <1>5, <2>4, <2>5, NotDegraded
    <2>. QED
      BY <2>3, <2>4, <2>5, <2>6, <2>7, <2>8
  <1>6. ASSUME NEW i \in PInstances, ~proc[i].up, RowsOf(i) # {}
        PROVE  ~Fresh(last[i])
    <2>1. last[i] \in platRows /\ last[i].inst = i /\ last[i].seen \in Nat
      BY <1>4, <1>6
    <2>2. ~Recent(last[i])
      BY <1>1, <1>6, <2>1 DEF RowsTrue
    <2>3. last[i].seen <= lastFault
      BY <1>2, <2>1, <2>2 DEF Recent
    <2>. QED
      BY <1>2, <2>1, <2>3 DEF Fresh
  <1>7. PICK all : all = LatestSamples(c)
    OBVIOUS
  <1>8. \A x \in all : \E i \in PInstances : Component(i) = c /\ RowsOf(i) # {} /\ x = last[i]
    <2> SUFFICES ASSUME NEW x \in all PROVE \E i \in PInstances : Component(i) = c /\ RowsOf(i) # {} /\ x = last[i]
      OBVIOUS
    <2>1. PICK r \in platRows : Component(r.inst) = c /\ x = Latest(RowsOf(r.inst))
      BY <1>7 DEF LatestSamples
    <2>2. r.inst \in PInstances
      BY <1>1, <2>1, RowFacts, ComponentFacts
    <2>3. r \in RowsOf(r.inst)
      BY DEF RowsOf
    <2>. QED
      BY <1>3, <2>1, <2>2, <2>3
  <1>9. ASSUME NEW i \in PInstances, Component(i) = c, proc[i].up
        PROVE  last[i] \in all
    <2>1. last[i] \in platRows /\ last[i].inst = i /\ last[i].seen = now
      BY <1>5, <1>9
    <2>2. now >= now - SampleRetention
      BY <1>2
    <2>3. PICK r \in platRows : r.inst = i /\ r.seen = now
      BY <2>1
    <2>4. Latest(RowsOf(i)) \in LatestSamples(c)
      BY <1>9, <2>2, <2>3 DEF LatestSamples
    <2>. QED
      BY <1>3, <1>7, <2>4
  <1>10. PICK p \in PInstances : Component(p) = c /\ proc[p].up /\ proc[p].role = "leader"
    BY DEF MinuteDone
  <1>11. PICK active : active = {r \in all : Fresh(r)}
    OBVIOUS
  <1>12. \A x \in active : \E i \in PInstances : Component(i) = c /\ proc[i].up /\ x = last[i]
    BY <1>6, <1>8, <1>11
  <1>13. last[p] \in active
    BY <1>5, <1>9, <1>10, <1>11
  <1>14. PICK leaders : leaders = {r \in active : r.role = "leader"}
    OBVIOUS
  <1>15. leaders = {last[p]}
    <2>1. \A x \in leaders : x = last[p]
      <3> SUFFICES ASSUME NEW x \in leaders PROVE x = last[p]
        OBVIOUS
      <3>1. PICK i \in PInstances : Component(i) = c /\ proc[i].up /\ x = last[i]
        BY <1>12, <1>14
      <3>2. proc[i].role = "leader"
        BY <1>5, <1>14, <3>1
      <3>3. i = p
        BY <1>1, <1>10, <3>1, <3>2 DEF PlatformTypeOK
      <3>. QED
        BY <3>1, <3>3
    <2>2. last[p].role = "leader"
      BY <1>5, <1>10
    <2>. QED
      BY <1>13, <1>14, <2>1, <2>2
  <1>16. Cardinality(leaders) = 1
    BY <1>15, FS_Singleton
  <1>17. \A r \in active : ~InstanceDegraded(r)
    BY <1>5, <1>12
  <1>18. all # {} /\ active # {}
    BY <1>11, <1>13
  <1>. QED
    BY <1>7, <1>11, <1>14, <1>16, <1>17, <1>18 DEF BuildPlatformComponent

(***************************************************************************)
(* The overview recovers by itself (PlatformService.Overview, UpsertSample *)
(* and buildPlatformComponent): for any number of gateways and operators   *)
(* and any windows, once nothing has failed for longer than both windows   *)
(* and the switch is on, gateway and operator are shown ok.                *)
(***************************************************************************)
THEOREM OverviewRecovers ==
  PlatformSpec => []QuietMeansOk
  <1>1. PlatformIInv => QuietMeansOk
    <2> SUFFICES ASSUME PlatformIInv, Quiet, MinuteDone, platOn.stored
                 PROVE  BuildPlatformComponent("gateway") = "ok" /\ BuildPlatformComponent("operator") = "ok"
      BY DEF QuietMeansOk
    <2>1. platOn.stored = TRUE
      BY DEF PlatformIInv, PlatformTypeOK
    <2>2. PICK g \in Gateways : g \in PInstances /\ Component(g) = "gateway"
      BY PlatformAssumption, ComponentFacts
    <2>3. PICK o \in Operators : o \in PInstances /\ Component(o) = "operator"
      BY PlatformAssumption, ComponentFacts
    <2>4. BuildPlatformComponent("gateway") = "ok"
      BY <2>1, <2>2, ComponentIsOk
    <2>5. BuildPlatformComponent("operator") = "ok"
      BY <2>1, <2>3, ComponentIsOk
    <2>. QED
      BY <2>4, <2>5
  <1>. QED
    BY <1>1, PlatformStart, PlatformStep, PTL DEF PlatformSpec

-----------------------------------------------------------------------------
(***************************************************************************)
(* The render                                                              *)
(*                                                                         *)
(* First what Resolve computes.  Its loop over the references is a         *)
(* recursive function; that there is one, and what it has after n          *)
(* references, follow by induction up to the number of references (UpTo).  *)
(***************************************************************************)
\* Induction up to a bound, the property as the set of numbers that have it.
LEMMA UpTo ==
  ASSUME NEW N \in Nat, NEW S, 0 \in S, \A n \in 0..N - 1 : n \in S => n + 1 \in S
  PROVE  \A n \in 0..N : n \in S
  <1> SUFFICES ASSUME NEW T, T = (0..N) \ S, T # {} PROVE FALSE
    OBVIOUS
  <1>1. PICK m \in T : \A k \in T : m <= k
    BY LeastMember
  <1>2. m # 0 /\ m - 1 \in 0..N - 1 /\ m - 1 \in 0..N
    BY <1>1
  <1>3. m - 1 \in S
    BY <1>1, <1>2
  <1>. QED
    BY <1>1, <1>2, <1>3

-----------------------------------------------------------------------------
\* The modes before the first reference, and the loop with its values f[0], f[1], ...
NoModes == [p \in {} |-> ""]

NameLoop(f, N, refs, avail) ==
  f = [n \in 0..N |-> IF n = 0 THEN NoModes ELSE AddRef(f[n - 1], refs[n], avail)]

LEMMA LoopExists ==
  ASSUME NEW N \in Nat, NEW refs, NEW avail
  PROVE  \E f : NameLoop(f, N, refs, avail)
  <1> DEFINE S == {n \in 0..N : \E f : NameLoop(f, n, refs, avail)}
  <1>1. 0 \in S
    <2>1. NameLoop([n \in 0..0 |-> NoModes], 0, refs, avail)
      BY DEF NameLoop
    <2>. QED
      BY <2>1
  <1>2. ASSUME NEW n \in 0..N - 1, n \in S PROVE n + 1 \in S
    <2>1. PICK f : NameLoop(f, n, refs, avail)
      BY <1>2
    <2> DEFINE g == [k \in 0..n + 1 |-> IF k = n + 1 THEN AddRef(f[n], refs[n + 1], avail) ELSE f[k]]
    <2>2. NameLoop(g, n + 1, refs, avail)
      <3>1. \A k \in 0..n : f[k] = IF k = 0 THEN NoModes ELSE AddRef(f[k - 1], refs[k], avail)
        BY <2>1 DEF NameLoop
      <3>2. \A k \in 0..n : g[k] = f[k]
        OBVIOUS
      <3>3. \A k \in 0..n + 1 : k # 0 => k - 1 \in 0..n
        OBVIOUS
      <3>4. g[n + 1] = AddRef(g[n], refs[n + 1], avail)
        BY <3>2
      <3>5. \A k \in 0..n + 1 : g[k] = IF k = 0 THEN NoModes ELSE AddRef(g[k - 1], refs[k], avail)
        BY <3>1, <3>2, <3>3, <3>4
      <3>6. g = [k \in 0..n + 1 |-> g[k]]
        OBVIOUS
      <3> HIDE DEF g
      <3>. QED
        BY <3>5, <3>6 DEF NameLoop
    <2>. QED
      BY <2>2
  <1>. HIDE DEF S
  <1>3. N \in S
    BY <1>1, <1>2, UpTo
  <1>. QED
    BY <1>3 DEF S

\* i is the last of the first n references that names p.
LastNaming(refs, n, p, i) ==
  /\ i \in 1..n /\ refs[i].name = p
  /\ \A j \in (i + 1)..n : refs[j].name # p

\* What the loop has after n references.
NamesRight(res, n, refs, avail) ==
  /\ res = [p \in DOMAIN res |-> res[p]]
  /\ DOMAIN res = {p \in avail : \E i \in 1..n : refs[i].name = p}
  /\ \A p \in DOMAIN res : \E i \in 1..n : LastNaming(refs, n, p, i)
  /\ \A p \in DOMAIN res : \A i \in 1..n :
       LastNaming(refs, n, p, i) => res[p] = Or(refs[i].mode, PolicyModes[p])

\* One more reference.
LEMMA AddRefRight ==
  ASSUME NEW n \in Nat, NEW res, NEW refs, NEW avail, NamesRight(res, n, refs, avail)
  PROVE  NamesRight(AddRef(res, refs[n + 1], avail), n + 1, refs, avail)
  <1> DEFINE ref == refs[n + 1]
             new == AddRef(res, ref, avail)
  <1>1. \A i \in 1..n + 1 : i \in 1..n \/ i = n + 1
    OBVIOUS
  <1>2. ASSUME NEW p, ref.name # p, NEW i
        PROVE  LastNaming(refs, n + 1, p, i) <=> LastNaming(refs, n, p, i)
    <2>1. LastNaming(refs, n, p, i) => LastNaming(refs, n + 1, p, i)
      <3>1. ASSUME LastNaming(refs, n, p, i), NEW j \in (i + 1)..n + 1 PROVE refs[j].name # p
        BY <1>1, <1>2, <3>1 DEF LastNaming
      <3>. QED
        BY <3>1 DEF LastNaming
    <2>2. LastNaming(refs, n + 1, p, i) => LastNaming(refs, n, p, i)
      BY <1>2 DEF LastNaming
    <2>. QED
      BY <2>1, <2>2
  <1>3. \A i : LastNaming(refs, n + 1, ref.name, i) <=> i = n + 1
    BY DEF LastNaming
  <1>4. CASE ref.name \in avail
    <2>1. new = [p \in DOMAIN res \cup {ref.name} |-> IF p = ref.name THEN Or(ref.mode, PolicyModes[p]) ELSE res[p]]
      BY <1>4 DEF AddRef
    <2> HIDE DEF new
    <2>2. DOMAIN new = DOMAIN res \cup {ref.name} /\ new = [p \in DOMAIN new |-> new[p]]
      BY <2>1
    <2>3. DOMAIN new = {p \in avail : \E i \in 1..n + 1 : refs[i].name = p}
      <3>1. ASSUME NEW p \in DOMAIN new PROVE p \in avail /\ \E i \in 1..n + 1 : refs[i].name = p
        BY <1>4, <2>2 DEF NamesRight
      <3>2. ASSUME NEW p \in avail, NEW i \in 1..n + 1, refs[i].name = p PROVE p \in DOMAIN new
        BY <1>1, <2>2, <3>2 DEF NamesRight
      <3>. QED
        BY <3>1, <3>2
    <2>4. \A p \in DOMAIN new : \E i \in 1..n + 1 : LastNaming(refs, n + 1, p, i)
      BY <1>2, <1>3, <2>2 DEF NamesRight
    <2>5. ASSUME NEW p \in DOMAIN new, NEW i \in 1..n + 1, LastNaming(refs, n + 1, p, i)
          PROVE  new[p] = Or(refs[i].mode, PolicyModes[p])
      <3>1. CASE p = ref.name
        BY <1>3, <2>1, <2>5, <3>1
      <3>2. CASE p # ref.name
        <4>1. LastNaming(refs, n, p, i) /\ p \in DOMAIN res /\ new[p] = res[p] /\ i \in 1..n
          BY <1>2, <2>1, <2>2, <2>5, <3>2 DEF LastNaming
        <4>. QED
          BY <4>1 DEF NamesRight
      <3>. QED
        BY <3>1, <3>2
    <2>. QED
      BY <2>2, <2>3, <2>4, <2>5 DEF NamesRight, new
  <1>5. CASE ref.name \notin avail
    <2>1. new = res
      BY <1>5 DEF AddRef
    <2> HIDE DEF new
    <2>2. \A p \in DOMAIN res : p # ref.name
      BY <1>5 DEF NamesRight
    <2>3. DOMAIN res = {p \in avail : \E i \in 1..n + 1 : refs[i].name = p}
      BY <1>1, <1>5 DEF NamesRight
    <2>4. \A p \in DOMAIN res : \E i \in 1..n + 1 : LastNaming(refs, n + 1, p, i)
      BY <1>2, <2>2 DEF NamesRight
    <2>5. \A p \in DOMAIN res : \A i \in 1..n + 1 :
            LastNaming(refs, n + 1, p, i) => res[p] = Or(refs[i].mode, PolicyModes[p])
      <3>1. ASSUME NEW p \in DOMAIN res, NEW i \in 1..n + 1, LastNaming(refs, n + 1, p, i)
            PROVE  res[p] = Or(refs[i].mode, PolicyModes[p])
        <4>1. LastNaming(refs, n, p, i) /\ i \in 1..n
          BY <1>2, <2>2, <3>1 DEF LastNaming
        <4>. QED
          BY <4>1 DEF NamesRight
      <3>. QED
        BY <3>1
    <2>6. res = [p \in DOMAIN res |-> res[p]]
      BY DEF NamesRight
    <2>. QED
      BY <2>1, <2>3, <2>4, <2>5, <2>6 DEF NamesRight, new
  <1>. QED
    BY <1>4, <1>5

LEMMA LoopIsRight ==
  ASSUME NEW N \in Nat, NEW refs, NEW avail, NEW f, NameLoop(f, N, refs, avail)
  PROVE  NamesRight(f[N], N, refs, avail)
  <1>1. f[0] = NoModes /\ \A n \in 0..N - 1 : f[n + 1] = AddRef(f[n], refs[n + 1], avail)
    <2>1. \A n \in 0..N : f[n] = IF n = 0 THEN NoModes ELSE AddRef(f[n - 1], refs[n], avail)
      BY DEF NameLoop
    <2>2. ASSUME NEW n \in 0..N - 1 PROVE f[n + 1] = AddRef(f[n], refs[n + 1], avail)
      <3>1. n + 1 \in 0..N /\ n + 1 # 0 /\ (n + 1) - 1 = n
        OBVIOUS
      <3>. QED
        BY <2>1, <3>1
    <2>. QED
      BY <2>1, <2>2
  <1> DEFINE S == {n \in 0..N : NamesRight(f[n], n, refs, avail)}
  <1>2. 0 \in S
    BY <1>1 DEF NamesRight, NoModes
  <1>3. ASSUME NEW n \in 0..N - 1, n \in S PROVE n + 1 \in S
    <2>1. NamesRight(f[n], n, refs, avail)
      BY <1>3
    <2>2. NamesRight(AddRef(f[n], refs[n + 1], avail), n + 1, refs, avail)
      BY <2>1, AddRefRight
    <2>. QED
      BY <1>1, <2>2
  <1> HIDE DEF S
  <1>4. N \in S
    BY <1>2, <1>3, UpTo
  <1>. QED
    BY <1>4 DEF S

LEMMA ByNameRight ==
  ASSUME NEW spec, NEW avail, NEW N \in Nat, N = Len(spec.byName)
  PROVE  NamesRight(ByName(spec, avail), N, spec.byName, avail)
  <1>1. PICK refs : refs = spec.byName
    OBVIOUS
  <1>2. \E f : NameLoop(f, N, refs, avail)
    BY LoopExists
  <1>3. PICK f : NameLoop(f, N, refs, avail) /\ ByName(spec, avail) = f[N]
    BY <1>1, <1>2 DEF NameLoop, ByName, NoModes
  <1>4. NamesRight(f[N], N, refs, avail)
    BY <1>3, LoopIsRight
  <1>. QED
    BY <1>1, <1>3, <1>4

-----------------------------------------------------------------------------
\* The group's specification has its type.
SpecOK(spec) ==
  /\ spec.byName \in Seq(RenderRefs)
  /\ spec.selectorMode \in RenderModes \cup {""}

\* Resolve gives the members and modes of the definition without loops.
LEMMA ResolveRight ==
  ASSUME NEW spec, SpecOK(spec), PolicyModes \in [RPolicies -> RenderModes]
  PROVE  Resolve(spec, Present, Labelled) =
           [p \in {q \in RPolicies : IsMember(spec, q)} |-> EffectiveMode(spec, p)]
  <1>0. PICK refs \in Seq(RenderRefs) : refs = spec.byName
    BY DEF SpecOK
  <1>1. PICK N \in Nat : N = Len(refs)
    <2>1. Len(refs) \in Nat
      OBVIOUS
    <2>. QED
      BY <2>1
  <1> DEFINE named == ByName(spec, Present)
  <1>2. NamesRight(named, N, refs, Present)
    BY <1>0, <1>1, ByNameRight
  <1>3. DOMAIN named = {p \in Present : Named(spec, p)}
    BY <1>0, <1>1, <1>2 DEF NamesRight, Named
  <1>4. ASSUME NEW p \in DOMAIN named PROVE named[p] = EffectiveMode(spec, p)
    <2>1. PICK i \in 1..N : LastNaming(refs, N, p, i)
      BY <1>2 DEF NamesRight
    <2>2. /\ LastRef(spec, p) \in 1..N
          /\ LastNaming(refs, N, p, LastRef(spec, p))
      BY <1>0, <1>1, <2>1 DEF LastRef, LastNaming
    <2>3. named[p] = Or(spec.byName[LastRef(spec, p)].mode, PolicyModes[p])
      BY <1>0, <1>2, <2>2 DEF NamesRight
    <2>. QED
      BY <1>3, <2>3 DEF EffectiveMode, Or
  <1>5. Labelled \subseteq Present /\ Present \subseteq RPolicies
    BY DEF Labelled, Present
  <1> HIDE DEF named
  <1>6. (DOMAIN named \cup BySelector(spec, Present, Labelled)) \ spec.exclude = {q \in RPolicies : IsMember(spec, q)}
    BY <1>3, <1>5 DEF BySelector, IsMember
  <1>7. ASSUME NEW p \in {q \in RPolicies : IsMember(spec, q)}
        PROVE  (IF p \in DOMAIN named THEN named[p] ELSE Or(spec.selectorMode, PolicyModes[p])) = EffectiveMode(spec, p)
    BY <1>3, <1>4, <1>7 DEF EffectiveMode, IsMember, Or
  <1>. QED
    BY <1>6, <1>7 DEF Resolve, named

-----------------------------------------------------------------------------
\* A finite set as a sequence has all its elements.
LEMMA SequenceOfSet ==
  ASSUME NEW S, IsFiniteSet(S)
  PROVE  /\ SetToSeq(S) \in Seq(S)
         /\ \A x \in S : \E i \in 1..Len(SetToSeq(S)) : SetToSeq(S)[i] = x
  <1>1. PICK n \in Nat : n = Cardinality(S)
    BY FS_CardinalityType
  <1>2. \E f \in [1..n -> S] : IsInjective(f)
    BY <1>1, FS_CardinalityType DEF ExistsBijection, Bijection, Injection
  <1>3. PICK f \in [1..n -> S] : f = SetToSeq(S) /\ IsInjective(f)
    BY <1>1, <1>2 DEF SetToSeq
  <1>4. f \in Injection(1..n, S)
    BY <1>3 DEF Injection
  <1>5. Cardinality(1..n) = n
    BY FS_Interval
  <1>6. f \in Surjection(1..n, S)
    BY <1>1, <1>4, <1>5, FS_Injection
  <1>7. f \in Seq(S) /\ Len(f) = n
    OBVIOUS
  <1>8. \A x \in S : \E i \in 1..n : f[i] = x
    BY <1>6 DEF Surjection
  <1>. QED
    BY <1>3, <1>7, <1>8

\* The member makes of a rendered group what was rendered.
LEMMA MemberResolves ==
  ASSUME NEW g \in DOMAIN rendered, NEW D, IsFiniteSet(D), rendered[g] \in [D -> RenderModes]
  PROVE  Resolve(GroupObject(g), Needed, Labelled) = rendered[g]
  <1> DEFINE Refs == {[name |-> p, mode |-> rendered[g][p]] : p \in D}
  <1>1. IsFiniteSet(Refs)
    <2> DEFINE f == [p \in D |-> [name |-> p, mode |-> rendered[g][p]]]
    <2>1. f \in Surjection(D, Refs)
      BY DEF Surjection
    <2> HIDE DEF f, Refs
    <2>. QED
      BY <2>1, FS_Surjection
  <1>2. PICK refs : refs = SetToSeq(Refs)
    OBVIOUS
  <1>3. refs \in Seq(Refs) /\ \A x \in Refs : \E i \in 1..Len(refs) : refs[i] = x
    <2> HIDE DEF Refs
    <2>. QED
      BY <1>1, <1>2, SequenceOfSet
  <1>4. PICK N \in Nat : N = Len(refs)
    <2> HIDE DEF Refs
    <2>1. Len(refs) \in Nat
      BY <1>3
    <2>. QED
      BY <2>1
  <1>5. PICK spec : spec = GroupObject(g)
    OBVIOUS
  <1>6. spec.byName = refs /\ spec.selector = "none" /\ spec.exclude = {}
    BY <1>2, <1>5 DEF GroupObject
  <1>7. NamesRight(ByName(spec, Needed), N, refs, Needed)
    BY <1>4, <1>6, ByNameRight
  <1>8. \A i \in 1..N : refs[i] \in Refs
    <2> HIDE DEF Refs
    <2>. QED
      BY <1>3, <1>4
  <1>9. \A i \in 1..N : refs[i].name \in D /\ refs[i].mode = rendered[g][refs[i].name]
    BY <1>8
  <1>10. \A p \in D : \E i \in 1..N : refs[i].name = p
    <2>1. ASSUME NEW p \in D PROVE \E i \in 1..N : refs[i].name = p
      <3>1. [name |-> p, mode |-> rendered[g][p]] \in Refs
        OBVIOUS
      <3>2. PICK i \in 1..N : refs[i] = [name |-> p, mode |-> rendered[g][p]]
        BY <1>3, <1>4, <3>1
      <3>. QED
        BY <3>2
    <2>. QED
      BY <2>1
  <1>11. D \subseteq Needed
    BY DEF Needed
  <1>12. PICK named : named = ByName(spec, Needed)
    OBVIOUS
  <1>13. DOMAIN named = D
    BY <1>7, <1>9, <1>10, <1>11, <1>12 DEF NamesRight
  <1>14. ASSUME NEW p \in D PROVE named[p] = rendered[g][p]
    <2>1. PICK i \in 1..N : LastNaming(refs, N, p, i)
      BY <1>7, <1>12, <1>13 DEF NamesRight
    <2>2. named[p] = Or(refs[i].mode, PolicyModes[p])
      BY <1>7, <1>12, <1>13, <2>1 DEF NamesRight
    <2>3. refs[i].mode = rendered[g][p] /\ rendered[g][p] # ""
      BY <1>9, <2>1 DEF LastNaming, RenderModes
    <2>. QED
      BY <2>2, <2>3 DEF Or
  <1>15. Resolve(spec, Needed, Labelled) = [p \in D |-> named[p]]
    BY <1>6, <1>12, <1>13 DEF Resolve, BySelector
  <1>. QED
    BY <1>5, <1>14, <1>15

-----------------------------------------------------------------------------
(***************************************************************************)
(* What is rendered so far, as a function of the distributions visited,    *)
(* without what the member makes of it, which follows (MemberResolves).    *)
(***************************************************************************)
Visited(g) == {d \in RDists \ unvisited : Contributes(d, g)}

Asks(d, g, p) == IF distOf[d].override # "" THEN distOf[d].override ELSE EffectiveMode(groupOf[g], p)

RenderMembers(g) == {p \in RPolicies : IsMember(groupOf[g], p)}

RenderedSoFar ==
  /\ rendered = [g \in DOMAIN rendered |-> rendered[g]]
  /\ DOMAIN rendered = {g \in RGroups : Visited(g) # {}}
  /\ \A g \in DOMAIN rendered :
       rendered[g] = [p \in RenderMembers(g) |->
                        IF \E d \in Visited(g) : Asks(d, g, p) = "enforce" THEN "enforce" ELSE "audit"]

RenderIInv ==
  /\ RenderTypeOK
  /\ distOf \in [RDists -> DistInputs]
  /\ groupOf \in [RGroups -> ResolveInputs \cup {Missing}]
  /\ RenderedSoFar

LEMMA SoFarIsStrictest == RenderIInv => RenderedIsStrictest
  <1> SUFFICES ASSUME RenderIInv PROVE RenderedIsStrictest
    OBVIOUS
  <1>1. ASSUME NEW g \in DOMAIN rendered
        PROVE  /\ DOMAIN rendered[g] = RenderMembers(g)
               /\ \A p \in DOMAIN rendered[g] :
                    rendered[g][p] = IF \E d \in Visited(g) : Asks(d, g, p) = "enforce" THEN "enforce" ELSE "audit"
               /\ Resolve(GroupObject(g), Needed, Labelled) = rendered[g]
    <2>1. rendered[g] = [p \in RenderMembers(g) |->
                           IF \E d \in Visited(g) : Asks(d, g, p) = "enforce" THEN "enforce" ELSE "audit"]
      BY DEF RenderIInv, RenderedSoFar
    <2>2. rendered[g] \in [RenderMembers(g) -> RenderModes]
      BY <2>1 DEF RenderModes
    <2>3. IsFiniteSet(RenderMembers(g))
      BY RenderAssumption, FS_Subset DEF RenderMembers
    <2>. QED
      BY <2>1, <2>2, <2>3, MemberResolves
  <1>2. DOMAIN rendered = {g \in RGroups : Visited(g) # {}}
    BY DEF RenderIInv, RenderedSoFar
  <1>. QED
    BY <1>1, <1>2 DEF RenderedIsStrictest, Visited, Asks, RenderMembers

\* A policy that is named has a last reference.
LEMMA LastRefExists ==
  ASSUME NEW spec, SpecOK(spec), NEW p, Named(spec, p)
  PROVE  LastRef(spec, p) \in 1..Len(spec.byName)
  <1>1. PICK refs \in Seq(RenderRefs) : refs = spec.byName
    BY DEF SpecOK
  <1>2. PICK N \in Nat : N = Len(refs)
    <2>1. Len(refs) \in Nat
      OBVIOUS
    <2>. QED
      BY <2>1
  <1>3. NamesRight(ByName(spec, {p}), N, refs, {p})
    BY <1>1, <1>2, ByNameRight
  <1>4. p \in DOMAIN ByName(spec, {p})
    BY <1>1, <1>2, <1>3 DEF NamesRight, Named
  <1>5. PICK i \in 1..N : LastNaming(refs, N, p, i)
    BY <1>3, <1>4 DEF NamesRight
  <1>. QED
    BY <1>1, <1>2, <1>5 DEF LastRef, LastNaming

LEMMA RenderStart == RenderInit => RenderIInv
  <1> SUFFICES ASSUME RenderInit PROVE RenderIInv
    OBVIOUS
  <1>1. RenderTypeOK /\ distOf \in [RDists -> DistInputs] /\ groupOf \in [RGroups -> ResolveInputs \cup {Missing}]
    BY DEF RenderInit, RenderTypeOK
  <1>2. \A g \in RGroups : Visited(g) = {}
    BY DEF RenderInit, Visited
  <1>3. DOMAIN rendered = {}
    BY DEF RenderInit
  <1>4. RenderedSoFar
    BY <1>2, <1>3 DEF RenderedSoFar
  <1>. QED
    BY <1>1, <1>4 DEF RenderIInv

\* One more distribution: the strictest mode so far and the mode it asks for.
LEMMA GroupModesRight ==
  ASSUME RenderIInv, NEW d \in unvisited, NEW g \in RGroups, Contributes(d, g)
  PROVE  AddGroupModes(IF g \in DOMAIN rendered THEN rendered[g] ELSE [p \in {} |-> ""],
                       distOf[d], Resolve(groupOf[g], Present, Labelled)) =
           [p \in RenderMembers(g) |->
              IF \E e \in Visited(g) \cup {d} : Asks(e, g, p) = "enforce" THEN "enforce" ELSE "audit"]
  <1>1. PICK spec : spec = groupOf[g]
    OBVIOUS
  <1>2. SpecOK(spec) /\ PolicyModes \in [RPolicies -> RenderModes]
    BY <1>1, RenderAssumption DEF Contributes, GroupsOf, RenderIInv, SpecOK
  <1>3. PICK members : members = Resolve(spec, Present, Labelled)
    OBVIOUS
  <1>4. members = [p \in RenderMembers(g) |-> EffectiveMode(groupOf[g], p)]
    BY <1>1, <1>2, <1>3, ResolveRight DEF RenderMembers
  <1>5. PICK rg : rg = IF g \in DOMAIN rendered THEN rendered[g] ELSE [p \in {} |-> ""]
    OBVIOUS
  <1>6. \A p \in DOMAIN rg : p \in RenderMembers(g)
    BY <1>5 DEF RenderIInv, RenderedSoFar
  <1>7. ASSUME NEW p \in RenderMembers(g)
        PROVE  ModeIn(rg, p) = IF Visited(g) = {} THEN ""
                               ELSE IF \E e \in Visited(g) : Asks(e, g, p) = "enforce" THEN "enforce" ELSE "audit"
    <2>1. CASE g \in DOMAIN rendered
      <3>1. Visited(g) # {}
        BY <2>1 DEF RenderIInv, RenderedSoFar
      <3>2. rg = [q \in RenderMembers(g) |->
                   IF \E e \in Visited(g) : Asks(e, g, q) = "enforce" THEN "enforce" ELSE "audit"]
        BY <1>5, <2>1 DEF RenderIInv, RenderedSoFar
      <3>. QED
        BY <3>1, <3>2 DEF ModeIn
    <2>2. CASE g \notin DOMAIN rendered
      <3>1. Visited(g) = {} /\ rg = [q \in {} |-> ""]
        BY <1>5, <2>2 DEF RenderIInv, RenderedSoFar
      <3>. QED
        BY <3>1 DEF ModeIn
    <2>. QED
      BY <2>1, <2>2
  <1>8. ASSUME NEW p \in RenderMembers(g)
        PROVE  Or(distOf[d].override, members[p]) = Asks(d, g, p) /\ Asks(d, g, p) \in RenderModes
    <2>1. members[p] = EffectiveMode(groupOf[g], p)
      BY <1>4
    <2>2. EffectiveMode(groupOf[g], p) \in RenderModes
      <3>1. p \in RPolicies /\ PolicyModes[p] \in RenderModes
        BY <1>2 DEF RenderMembers
      <3>2. CASE Named(spec, p)
        <4>1. LastRef(spec, p) \in 1..Len(spec.byName)
          BY <1>1, <1>2, <3>2, LastRefExists
        <4>2. spec.byName[LastRef(spec, p)] \in RenderRefs
          <5>1. PICK refs \in Seq(RenderRefs) : refs = spec.byName
            BY <1>2 DEF SpecOK
          <5>2. \A i \in 1..Len(refs) : refs[i] \in RenderRefs
            OBVIOUS
          <5>. QED
            BY <4>1, <5>1, <5>2
        <4>. QED
          BY <1>1, <3>1, <3>2, <4>2 DEF EffectiveMode, RenderRefs
      <3>3. CASE ~Named(spec, p)
        BY <1>1, <1>2, <3>1, <3>3 DEF EffectiveMode, SpecOK
      <3>. QED
        BY <3>2, <3>3
    <2>3. distOf[d].override \in RenderModes \cup {""}
      BY RenderAssumption DEF RenderIInv, RenderTypeOK
    <2>. QED
      BY <2>1, <2>2, <2>3 DEF Or, Asks
  <1>9. ASSUME NEW p \in RenderMembers(g)
        PROVE  Stricter(ModeIn(rg, p), Or(distOf[d].override, members[p])) =
                 IF \E e \in Visited(g) \cup {d} : Asks(e, g, p) = "enforce" THEN "enforce" ELSE "audit"
    BY <1>7, <1>8 DEF Stricter, RenderModes
  <1>10. DOMAIN members = RenderMembers(g) /\ DOMAIN rg \cup DOMAIN members = RenderMembers(g)
    BY <1>4, <1>6
  <1>11. AddGroupModes(rg, distOf[d], members) =
           [p \in RenderMembers(g) |-> Stricter(ModeIn(rg, p), Or(distOf[d].override, members[p]))]
    BY <1>10 DEF AddGroupModes
  <1>. QED
    BY <1>1, <1>3, <1>5, <1>9, <1>11

LEMMA RenderStep == RenderIInv /\ [RenderNext]_renderVars => RenderIInv'
  <1> SUFFICES ASSUME RenderIInv, [RenderNext]_renderVars PROVE RenderIInv'
    OBVIOUS
  <1>1. CASE UNCHANGED renderVars
    <2>1. UNCHANGED <<present, groupOf, distOf, unvisited, rendered, matched, failed>>
      BY <1>1 DEF renderVars
    <2>2. RenderTypeOK' /\ (distOf \in [RDists -> DistInputs])'
          /\ (groupOf \in [RGroups -> ResolveInputs \cup {Missing}])'
      BY <2>1 DEF RenderIInv, RenderTypeOK
    <2>3. /\ \A g : Visited(g)' = Visited(g)
          /\ \A e, g, p : Asks(e, g, p)' = Asks(e, g, p)
          /\ \A g : RenderMembers(g)' = RenderMembers(g)
      BY <2>1 DEF Visited, Contributes, GroupsOf, Asks, EffectiveMode, RenderMembers, IsMember, Present, Labelled
    <2>4. RenderedSoFar'
      <3>1. rendered' = rendered
        BY <2>1
      <3>2. \A g \in DOMAIN rendered :
              rendered[g] = [p \in RenderMembers(g)' |->
                 IF \E e \in Visited(g)' : Asks(e, g, p)' = "enforce" THEN "enforce" ELSE "audit"]
        BY <2>3 DEF RenderIInv, RenderedSoFar
      <3>3. DOMAIN rendered = {g \in RGroups : Visited(g)' # {}}
        BY <2>3 DEF RenderIInv, RenderedSoFar
      <3>4. rendered = [g \in DOMAIN rendered |-> rendered[g]]
        BY DEF RenderIInv, RenderedSoFar
      <3>. QED
        BY <3>1, <3>2, <3>3, <3>4 DEF RenderedSoFar
    <2>. QED
      BY <2>2, <2>4 DEF RenderIInv
  <1>2. ASSUME NEW d \in RDists, RenderDist(d) PROVE RenderIInv'
    <2>1. /\ d \in unvisited /\ unvisited' = unvisited \ {d} /\ distOf' = distOf /\ groupOf' = groupOf
          /\ present' = present
      BY <1>2 DEF RenderDist
    <2>2. RenderTypeOK'
      <3>1. matched' = IF DistMatches(distOf[d]) \/ SelectorError(distOf[d]) THEN matched \cup {d} ELSE matched
        BY <1>2 DEF RenderDist
      <3>2. failed' = IF SelectorError(distOf[d]) \/ (DistMatches(distOf[d]) /\ \E g \in distOf[d].groups : groupOf[g] = Missing)
                        THEN failed \cup {d} ELSE failed
        BY <1>2 DEF RenderDist
      <3>3. DOMAIN rendered' = DOMAIN rendered \/ DOMAIN rendered' = DOMAIN rendered \cup GroupsOf(d)
        BY <1>2 DEF RenderDist
      <3>4. GroupsOf(d) \subseteq RGroups
        BY RenderAssumption DEF GroupsOf, RenderIInv
      <3>. QED
        BY <2>1, <3>1, <3>2, <3>3, <3>4 DEF RenderIInv, RenderTypeOK
    <2>3. /\ \A e, g : Contributes(e, g)' = Contributes(e, g)
          /\ \A e, g, p : Asks(e, g, p)' = Asks(e, g, p)
          /\ \A g : RenderMembers(g)' = RenderMembers(g)
      BY <2>1 DEF Contributes, GroupsOf, Asks, EffectiveMode, RenderMembers, IsMember, Present, Labelled
    <2>4. \A g \in RGroups : Visited(g)' = IF Contributes(d, g) THEN Visited(g) \cup {d} ELSE Visited(g)
      BY <2>1, <2>3 DEF Visited
    <2>5. rendered' = [g \in DOMAIN rendered \cup {h \in RGroups : Contributes(d, h)} |->
             IF Contributes(d, g)
               THEN AddGroupModes(IF g \in DOMAIN rendered THEN rendered[g] ELSE [p \in {} |-> ""],
                                  distOf[d], Resolve(groupOf[g], Present, Labelled))
               ELSE rendered[g]]
      <3>1. CASE DistMatches(distOf[d])
        <4>1. GroupsOf(d) = {h \in RGroups : Contributes(d, h)}
          BY <3>1, RenderAssumption DEF Contributes, GroupsOf, RenderIInv
        <4>. QED
          BY <1>2, <3>1, <4>1 DEF RenderDist, Contributes
      <3>2. CASE ~DistMatches(distOf[d])
        <4>1. \A g : ~Contributes(d, g)
          BY <3>2 DEF Contributes
        <4>2. rendered' = rendered
          BY <1>2, <3>2 DEF RenderDist
        <4>3. rendered = [g \in DOMAIN rendered |-> rendered[g]]
          BY DEF RenderIInv, RenderedSoFar
        <4>. QED
          BY <4>1, <4>2, <4>3
      <3>. QED
        BY <3>1, <3>2
    <2>6. DOMAIN rendered' = {g \in RGroups : Visited(g)' # {}}
      BY <2>4, <2>5 DEF RenderIInv, RenderedSoFar
    <2>7. ASSUME NEW g \in DOMAIN rendered'
          PROVE  rendered'[g] = [p \in RenderMembers(g) |->
                   IF \E e \in Visited(g)' : Asks(e, g, p) = "enforce" THEN "enforce" ELSE "audit"]
      <3>1. CASE Contributes(d, g)
        <4>1. g \in RGroups /\ Visited(g)' = Visited(g) \cup {d}
          BY <2>4, <2>6, <3>1
        <4>. QED
          BY <2>1, <2>5, <3>1, <4>1, GroupModesRight
      <3>2. CASE ~Contributes(d, g)
        <4>1. g \in DOMAIN rendered /\ rendered'[g] = rendered[g] /\ Visited(g)' = Visited(g)
          BY <2>4, <2>5, <2>6, <3>2
        <4>. QED
          BY <4>1 DEF RenderIInv, RenderedSoFar
      <3>. QED
        BY <3>1, <3>2
    <2>8. RenderedSoFar'
      <3>1. rendered' = [g \in DOMAIN rendered' |-> rendered'[g]]
        BY <2>5
      <3>2. \A g \in DOMAIN rendered' :
              rendered'[g] = [p \in RenderMembers(g)' |->
                 IF \E e \in Visited(g)' : Asks(e, g, p)' = "enforce" THEN "enforce" ELSE "audit"]
        BY <2>3, <2>7
      <3>. QED
        BY <2>6, <3>1, <3>2 DEF RenderedSoFar
    <2>. QED
      BY <2>1, <2>2, <2>8 DEF RenderIInv
  <1>. QED
    BY <1>1, <1>2 DEF RenderNext

(***************************************************************************)
(* The render visits each distribution once, counts one with an error as   *)
(* one that targets the cluster, and renders groups that a distribution    *)
(* names (Renderer.Render).                                                *)
(***************************************************************************)
THEOREM RenderTypeCorrect == RenderSpec => []RenderTypeOK
  <1>1. RenderIInv => RenderTypeOK
    BY DEF RenderIInv
  <1>. QED
    BY <1>1, RenderStart, RenderStep, PTL DEF RenderSpec

(***************************************************************************)
(* Whatever the distributions, groups and policies, and in whatever order  *)
(* the rows come, the snapshot has the strictest mode that a distribution  *)
(* asks for, and the member resolves the groups it receives to what was    *)
(* rendered (RenderWithExceptions, stricter, groupresolve.Resolve).        *)
(***************************************************************************)
THEOREM RendersStrictest == RenderSpec => []RenderedIsStrictest
  BY SoFarIsStrictest, RenderStart, RenderStep, PTL DEF RenderSpec

-----------------------------------------------------------------------------
(***************************************************************************)
(* A behaviour of MCGateway is one of every component: a step of one       *)
(* leaves the variables of the others alone.                               *)
(***************************************************************************)
THEOREM GatewayRunsItsParts ==
  MCSpec => RenderSpec /\ IncidentSpec /\ PlatformSpec /\ StoreSpec /\ WebhookSpec
  <1>1. MCInit => RenderInit /\ IncidentInit /\ PlatformInit /\ StoreInit /\ WebhookInit
    BY DEF MCInit
  <1>2. [MCNext]_gatewayVars => [RenderNext]_renderVars
    BY DEF MCNext, gatewayVars
  <1>3. [MCNext]_gatewayVars => [IncidentNext]_incidentVars
    BY DEF MCNext, gatewayVars
  <1>4. [MCNext]_gatewayVars => [PlatformNext]_platformVars
    BY DEF MCNext, gatewayVars
  <1>5. [MCNext]_gatewayVars => [StoreNext]_storeVars
    BY DEF MCNext, gatewayVars
  <1>6. [MCNext]_gatewayVars => [WebhookNext]_decisionVars
    BY DEF MCNext, gatewayVars
  <1>. QED
    BY <1>1, <1>2, <1>3, <1>4, <1>5, <1>6, PTL
       DEF MCSpec, RenderSpec, IncidentSpec, PlatformSpec, StoreSpec, WebhookSpec

(***************************************************************************)
(* Rows, queues, caches, incidents and samples stay within what the code's *)
(* types allow, in the component a behaviour is of and in every other.     *)
(***************************************************************************)
THEOREM GatewayTypeCorrect == MCSpec => []GatewayTypesOK
  <1>1. MCInit => part \in {"render", "incidents", "samples", "events", "webhook"}
    BY DEF MCInit
  <1>2. part \in {"render", "incidents", "samples", "events", "webhook"} /\ [MCNext]_gatewayVars
          => (part \in {"render", "incidents", "samples", "events", "webhook"})'
    BY DEF MCNext, gatewayVars
  <1>3. /\ part \in {"render", "incidents", "samples", "events", "webhook"}
        /\ RenderTypeOK /\ IncidentTypeOK /\ PlatformTypeOK /\ StoreTypeOK /\ WebhookTypeOK
        => GatewayTypesOK
    BY DEF GatewayTypesOK
  <1>. QED
    BY <1>1, <1>2, <1>3, GatewayRunsItsParts, RenderTypeCorrect, IncidentTypeCorrect, PlatformTypeCorrect,
       StoreTypeCorrect, WebhookTypeCorrect, PTL DEF MCSpec
=============================================================================
