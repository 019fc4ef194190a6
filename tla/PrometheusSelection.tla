------------------------- MODULE PrometheusSelection ------------------------
(***************************************************************************)
(* select_prometheus: whether an installation may use a Prometheus of the    *)
(* cluster, and the labels its monitors and rules must then carry to be      *)
(* selected.  Labels are partial functions from keys to values; a selector   *)
(* has labels that must be present and expressions.                          *)
(***************************************************************************)
EXTENDS Naturals, FiniteSets, Functions

CONSTANTS Keys, Values, Fixed,   \* Fixed: the labels of all of the platform's resources
          Selectors, NamespaceSelectors, NamespaceLabels, None

VARIABLES
    candidate,  \* a Prometheus: its selectors, and whether it is ready and trusted
    others,     \* how many other instances are compatible
    requested,  \* "none" or "this": the instance that the command names
    result      \* the instance chosen, "this" or "other", or "refused", and the labels to add

vars == <<candidate, others, requested, result>>

Init ==
    /\ candidate \in [service : Selectors, rule : Selectors, services : NamespaceSelectors,
                      rules : NamespaceSelectors, home : BOOLEAN, usable : BOOLEAN]
    /\ others \in 0..1 /\ requested \in {"none", "this"} /\ result = [choice |-> None]

\* _expression_matches
ExpressionMatches(e, labels) ==
    CASE e.operator = "Exists" -> e.key \in DOMAIN labels
      [] e.operator = "DoesNotExist" -> e.key \notin DOMAIN labels
      [] e.operator = "In" -> e.key \in DOMAIN labels /\ labels[e.key] \in e.values
      [] e.operator = "NotIn" -> e.key \in DOMAIN labels => labels[e.key] \notin e.values

\* matches_label_selector
MatchesLabelSelector(s, labels) ==
    /\ \A k \in DOMAIN s.labels : k \in DOMAIN labels /\ labels[k] = s.labels[k]
    /\ \A e \in s.expressions : ExpressionMatches(e, labels)

\* _namespacematches_label_selector: without a selector, its own namespace only
NamespaceMatches(s) ==
    IF s = None THEN candidate.home ELSE MatchesLabelSelector(s, NamespaceLabels)

\* the two selectors, or one of them and the fixed labels, ask for different values
Conflict(s, r) ==
    \/ \E k \in DOMAIN s.labels \intersect DOMAIN r.labels : s.labels[k] # r.labels[k]
    \/ \E k \in DOMAIN Fixed : \E l \in {s.labels, r.labels} : k \in DOMAIN l /\ l[k] # Fixed[k]

\* _additional_labels, when nothing conflicts
AdditionalLabels(s, r) ==
    [k \in (DOMAIN s.labels \union DOMAIN r.labels) \ DOMAIN Fixed |->
        IF k \in DOMAIN s.labels THEN s.labels[k] ELSE r.labels[k]]

With(labels) == [k \in DOMAIN Fixed \union DOMAIN labels |-> IF k \in DOMAIN labels THEN labels[k] ELSE Fixed[k]]

\* Mutant of Compatible: the requirements of the selectors are not tried on the labels.
CompatibleLabelled ==
    LET s == candidate.service r == candidate.rule
    IN  /\ candidate.usable /\ ~Conflict(s, r)
        /\ NamespaceMatches(candidate.services) /\ NamespaceMatches(candidate.rules)

\* _compatible_prometheus
Compatible ==
    LET s == candidate.service r == candidate.rule
        labels == With(AdditionalLabels(s, r))
    IN  /\ candidate.usable /\ ~Conflict(s, r)
        /\ MatchesLabelSelector(s, labels) /\ MatchesLabelSelector(r, labels)
        /\ NamespaceMatches(candidate.services) /\ NamespaceMatches(candidate.rules)

\* select_prometheus: exactly one, unless the command names it
Select ==
    /\ result.choice = None /\ UNCHANGED <<candidate, others, requested>>
    /\ result' =
         IF Compatible /\ (requested = "this" \/ others = 0)
         THEN [choice |-> "this", labels |-> AdditionalLabels(candidate.service, candidate.rule)]
         ELSE [choice |-> IF ~Compatible /\ requested = "none" /\ others = 1 THEN "other" ELSE "refused"]

Next == Select

Spec == Init /\ [][Next]_vars

\* What a label selector means to Kubernetes, as a set of allowed labellings.
Selected(s, labels) ==
    /\ {<<k, s.labels[k]>> : k \in DOMAIN s.labels} \subseteq {<<k, labels[k]>> : k \in DOMAIN labels}
    /\ \A e \in s.expressions :
          LET value == {labels[k] : k \in {e.key} \intersect DOMAIN labels}
          IN  CASE e.operator = "Exists" -> value # {}
                [] e.operator = "DoesNotExist" -> value = {}
                [] e.operator = "In" -> value # {} /\ value \subseteq e.values
                [] e.operator = "NotIn" -> value \intersect e.values = {}

Labellings == UNION {[D -> Values] : D \in SUBSET Keys}
Extends(labels) == \A k \in DOMAIN Fixed : k \in DOMAIN labels /\ labels[k] = Fixed[k]

\* The chosen instance selects the platform's monitors and its rules, both with
\* the same added labels, which never replace the platform's own.
ChosenSelectsTheResources ==
    result.choice = "this" =>
        LET labels == With(result.labels)
        IN  Extends(labels) /\ Selected(candidate.service, labels) /\ Selected(candidate.rule, labels)

\* An instance with plain label selectors that is named by the command, ready,
\* trusted and looks at the namespace is refused only when no labels whatever would
\* make it select the resources.
RefusedOnlyWhenImpossible ==
    /\ result.choice = "refused" /\ requested = "this" /\ candidate.usable
    /\ candidate.service.expressions = {} /\ candidate.rule.expressions = {}
    /\ NamespaceMatches(candidate.services) /\ NamespaceMatches(candidate.rules)
    => ~\E labels \in Labellings :
           Extends(labels) /\ Selected(candidate.service, labels) /\ Selected(candidate.rule, labels)
=============================================================================
