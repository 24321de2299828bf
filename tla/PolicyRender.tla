---------------------------- MODULE PolicyRender ----------------------------
(***************************************************************************)
(* How the gateway renders a cluster's desired state (gateway/render.go)   *)
(* and how a group is resolved (groupresolve/resolve.go).  Resolve runs    *)
(* on the hub when the snapshot is rendered, and again on the member for   *)
(* the group it has received.                                              *)
(*                                                                         *)
(* The database returns distributions in any order; one step renders one   *)
(* of them into the snapshot.  The inputs are chosen in the initial state. *)
(***************************************************************************)
EXTENDS Naturals, Sequences, FiniteSets, SequencesExt

CONSTANTS
  RPolicies,        \* names of policies
  RGroups,          \* names of groups
  RDists,           \* distributions
  PolicyModes,      \* PolicyModes[p]: the policy's own enforcement mode
  ResolveInputs,    \* specifications a group may have
  DistInputs        \* specifications a distribution may have

RenderModes == {"enforce", "audit"}

RenderRefs == [name : RPolicies, mode : RenderModes \cup {""}]

(***************************************************************************)
(* The decoders of the requests accept no other mode, and none only where  *)
(* it is optional (dto/policy.go, policygroup.go, distribution.go).  A     *)
(* group a distribution names is one of the groups, which may be missing.  *)
(***************************************************************************)
ASSUME RenderAssumption ==
  /\ IsFiniteSet(RPolicies) /\ PolicyModes \in [RPolicies -> RenderModes]
  /\ \A spec \in ResolveInputs :
       /\ spec.byName \in Seq(RenderRefs)
       /\ spec.selectorMode \in RenderModes \cup {""}
  /\ \A spec \in DistInputs : spec.groups \subseteq RGroups /\ spec.override \in RenderModes \cup {""}

VARIABLES
  present,    \* policies that exist, with the label the selector asks for or without
  groupOf,    \* groupOf[g]: the group's specification, or missing
  distOf,     \* distOf[d]: the distribution's specification
  unvisited,       \* distributions the loop has still to visit
  rendered,   \* rendered[g]: modes by policy of the groups rendered so far
  matched,    \* distributions that target the cluster
  failed      \* distributions with an error

renderVars == <<present, groupOf, distOf, unvisited, rendered, matched, failed>>

Missing == [missing |-> TRUE]

-----------------------------------------------------------------------------
(***************************************************************************)
(* Resolve.  labelled is the set of policies the selector matches, avail   *)
(* the policies that exist.  The result maps members to modes.             *)
(***************************************************************************)
Or(mode, default) == IF mode = "" THEN default ELSE mode

\* References in their order: a later one to the same policy wins.
AddRef(res, ref, avail) ==
  IF ref.name \in avail
    THEN [p \in DOMAIN res \cup {ref.name} |-> IF p = ref.name THEN Or(ref.mode, PolicyModes[p]) ELSE res[p]]
    ELSE res

ByName(spec, avail) ==
  LET after[n \in 0..Len(spec.byName)] ==
        IF n = 0 THEN [p \in {} |-> ""] ELSE AddRef(after[n - 1], spec.byName[n], avail)
  IN after[Len(spec.byName)]

BySelector(spec, avail, labelled) ==
  IF spec.selector = "valid" THEN avail \cap labelled ELSE {}

Resolve(spec, avail, labelled) ==
  LET named == ByName(spec, avail)
      members == (DOMAIN named \cup BySelector(spec, avail, labelled)) \ spec.exclude
  IN [p \in members |-> IF p \in DOMAIN named THEN named[p]
                        ELSE Or(spec.selectorMode, PolicyModes[p])]

-----------------------------------------------------------------------------
(***************************************************************************)
(* Render                                                                  *)
(***************************************************************************)
\* Mutant: the distribution rendered last decides.
StricterLast(a, b) == b

Stricter(a, b) == IF "enforce" \in {a, b} THEN "enforce" ELSE IF a = "" THEN b ELSE a

\* byName, or a selector; a malformed selector is an error that still matches.
DistMatches(d) == d.byName \/ d.selector = "matches"

SelectorError(d) == ~d.byName /\ d.selector = "malformed"

ModeIn(rg, p) == IF p \in DOMAIN rg THEN rg[p] ELSE ""

\* The group g as distribution d adds it to what is rendered of g.
AddGroupModes(rg, d, members) ==
  [p \in DOMAIN rg \cup DOMAIN members |->
     IF p \in DOMAIN members THEN Stricter(ModeIn(rg, p), Or(d.override, members[p]))
                             ELSE rg[p]]

Labelled == {p \in RPolicies : present[p] = "labelled"}

Present == {p \in RPolicies : present[p] # "absent"}

GroupsOf(d) ==
  {g \in distOf[d].groups : groupOf[g] # Missing /\ groupOf[g].enabled}

RenderDist(d) ==
  /\ d \in unvisited
  /\ unvisited' = unvisited \ {d}
  /\ LET spec == distOf[d]
         hit == DistMatches(spec)
     IN /\ matched' = IF hit \/ SelectorError(spec) THEN matched \cup {d} ELSE matched
        /\ failed' = IF SelectorError(spec) \/ (hit /\ \E g \in spec.groups : groupOf[g] = Missing)
                       THEN failed \cup {d} ELSE failed
        /\ rendered' = IF ~hit THEN rendered ELSE
             [g \in DOMAIN rendered \cup GroupsOf(d) |->
                IF g \in GroupsOf(d)
                  THEN AddGroupModes(IF g \in DOMAIN rendered THEN rendered[g] ELSE [p \in {} |-> ""],
                                     spec, Resolve(groupOf[g], Present, Labelled))
                  ELSE rendered[g]]
  /\ UNCHANGED <<present, groupOf, distOf>>

\* The policies of the snapshot: every member of a rendered group.
Needed == UNION {DOMAIN rendered[g] : g \in DOMAIN rendered}

(***************************************************************************)
(* The group object of the snapshot: explicit modes, no selector, no       *)
(* exclusions, no selector mode.                                           *)
(***************************************************************************)
GroupObject(g) ==
  [byName |-> SetToSeq({[name |-> p, mode |-> rendered[g][p]] : p \in DOMAIN rendered[g]}),
   selector |-> "none", selectorMode |-> "", exclude |-> {},
   enabled |-> groupOf[g].enabled]

RenderInit ==
  /\ present \in [RPolicies -> {"absent", "plain", "labelled"}]
  /\ groupOf \in [RGroups -> ResolveInputs \cup {Missing}]
  /\ distOf \in [RDists -> DistInputs]
  /\ unvisited = RDists
  /\ rendered = [g \in {} |-> <<>>]
  /\ matched = {}
  /\ failed = {}

RenderNext == \E d \in RDists : RenderDist(d)

RenderSpec == RenderInit /\ [][RenderNext]_renderVars

\* A distribution with an error counts as one that targets the cluster.
RenderTypeOK ==
  /\ unvisited \subseteq RDists /\ matched \subseteq RDists \ unvisited /\ failed \subseteq matched
  /\ DOMAIN rendered \subseteq RGroups

-----------------------------------------------------------------------------
(***************************************************************************)
(* The effective mode of p in g by a definition without loops: "byName     *)
(* \cup bySelector \ exclude, byName precedence on conflict, per-entry     *)
(* mode > selector mode > policy default" (resolve.go).                    *)
(***************************************************************************)
LastRef(spec, p) ==
  CHOOSE i \in 1..Len(spec.byName) :
    /\ spec.byName[i].name = p
    /\ \A j \in (i + 1)..Len(spec.byName) : spec.byName[j].name # p

Named(spec, p) == \E i \in 1..Len(spec.byName) : spec.byName[i].name = p

IsMember(spec, p) ==
  /\ p \in Present \ spec.exclude
  /\ Named(spec, p) \/ (spec.selector = "valid" /\ p \in Labelled)

EffectiveMode(spec, p) ==
  LET asked == IF Named(spec, p) THEN spec.byName[LastRef(spec, p)].mode ELSE spec.selectorMode
  IN IF asked # "" THEN asked ELSE PolicyModes[p]

Contributes(d, g) == DistMatches(distOf[d]) /\ g \in GroupsOf(d)

(***************************************************************************)
(* Whatever the order of the distributions, a group is rendered iff an     *)
(* enabled distribution target asks for it, and each of its members has    *)
(* the strictest of the modes the distributions visited give it: one with  *)
(* an error, or a weaker override, takes nothing from the others (Render). *)
(* And the member resolves the group it has received, among the policies   *)
(* it has received, to exactly these members and modes, whatever labels    *)
(* the policies of other groups carry (Resolve on both sides).             *)
(***************************************************************************)
RenderedIsStrictest ==
  LET visited(g) == {d \in RDists \ unvisited : Contributes(d, g)}
      asks(d, g, p) == IF distOf[d].override # "" THEN distOf[d].override
                                                  ELSE EffectiveMode(groupOf[g], p)
  IN /\ DOMAIN rendered = {g \in RGroups : visited(g) # {}}
     /\ \A g \in DOMAIN rendered :
          /\ DOMAIN rendered[g] = {p \in RPolicies : IsMember(groupOf[g], p)}
          /\ \A p \in DOMAIN rendered[g] :
               rendered[g][p] = IF \E d \in visited(g) : asks(d, g, p) = "enforce" THEN "enforce" ELSE "audit"
          /\ Resolve(GroupObject(g), Needed, Labelled) = rendered[g]
=============================================================================
