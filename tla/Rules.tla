------------------------------- MODULE Rules --------------------------------
(***************************************************************************)
(* The rule registry, the dispatcher (internal/v2) and the registered      *)
(* rules (internal/rules), as operators from tool sets to sequences of     *)
(* findings.  A tool is a record                                           *)
(*   name    a number: 0 is the empty name, the others are numbered in the *)
(*           order sort.Strings puts them in;                              *)
(*   desc    what the two description rules tell apart: its length and     *)
(*           whether secretMentionRe matches it;                           *)
(*   schema  NoSchema, or the declared properties (each "free",            *)
(*           "constrained" by enum / pattern / const, or "other" when its  *)
(*           value is not an object), the required names and the examples. *)
(***************************************************************************)
EXTENDS Naturals, Sequences, FiniteSets, SequencesExt

CONSTANTS
    SnakeCaseNames,    \* the names isSnakeCase accepts
    DestructiveNames,  \* the names with a destructive prefix
    ConfirmKeys,       \* the property names isConfirmationName accepts
    URLKeys,           \* the property names isURLPropertyName accepts
    PathKeys           \* the property names isPathPropertyName accepts

(* What the intakes return: lists of tools, whose examples are lists too *)
IsToolList(tools) ==
    /\ tools \in Seq(ToSet(tools))
    /\ \A i \in DOMAIN tools :
          /\ tools[i].name \in Nat /\ tools[i].desc.secret \in BOOLEAN
          /\ tools[i].schema.examples \in Seq([valid : BOOLEAN, pii : BOOLEAN])

EmptyName == 0
NoSchema == [props |-> <<>>, required |-> {}, examples |-> <<>>,
             compiles |-> FALSE]

Finding(rule, severity, tool) ==
    [rule |-> rule, severity |-> severity, tool |-> tool.name]

(* Context.Report, guarded by the rule's condition *)
ReportIf(cond, rule, severity, tool) ==
    IF cond THEN <<Finding(rule, severity, tool)>> ELSE <<>>

-----------------------------------------------------------------------------
(* Per-tool rules *)

DescriptionRule(t) ==
    ReportIf(t.desc.length \in {"empty", "short", "truncated"},
             "tool-description-empty-or-truncated", "warning", t)

HasConfirmationField(schema) == DOMAIN schema.props \cap ConfirmKeys # {}

DestructiveRule(t) ==
    ReportIf(t.name \in DestructiveNames /\ ~HasConfirmationField(t.schema),
             "destructive-tool-not-gated", "error", t)

(* One finding per offending example, none when the schema does not compile *)
ExamplesRule(t) ==
    LET bad == {i \in DOMAIN t.schema.examples : ~t.schema.examples[i].valid}
    IN IF t.schema.compiles
         THEN [i \in 1..Cardinality(bad) |->
                 Finding("tool-example-fails-schema", "warning", t)]
         ELSE <<>>

PIIRule(t) ==
    LET hits == {i \in DOMAIN t.schema.examples : t.schema.examples[i].pii}
    IN [i \in 1..Cardinality(hits) |->
          Finding("tool-example-uses-real-pii", "warning", t)]

(* The loops over the properties stop at the first unconstrained hit *)
FreeProperty(schema, keys) ==
    \E k \in DOMAIN schema.props \cap keys : schema.props[k] = "free"

FilePathRule(t) ==
    ReportIf(FreeProperty(t.schema, PathKeys),
             "file-tool-no-path-confinement", "warning", t)

NetworkRule(t) ==
    ReportIf(FreeProperty(t.schema, URLKeys),
             "network-tool-no-allowlist", "warning", t)

(* One finding that lists every missing name *)
RequiredRule(t) ==
    ReportIf(t.schema.required \ DOMAIN t.schema.props # {},
             "tool-schema-required-references-undefined-property", "error", t)

SecretsRule(t) ==
    ReportIf(t.desc.secret, "tool-description-mentions-secret", "warning", t)

SnakeCaseRule(t) ==
    ReportIf(t.name # EmptyName /\ t.name \notin SnakeCaseNames,
             "tool-name-not-snake-case", "warning", t)

-----------------------------------------------------------------------------
(* Project scope: every member of every group of equal, non-empty names, the *)
(* groups in the order of their names                                        *)

(* Least first, as sort.Strings leaves names and a loop over a slice its   *)
(* indices: the k-th number has k - 1 smaller ones.                        *)
InOrder(nums) ==
    [k \in 1..Cardinality(nums) |->
       CHOOSE n \in nums : Cardinality({m \in nums : m < n}) = k - 1]

Indices(tools, name) == {i \in DOMAIN tools : tools[i].name = name}
NamesOf(tools) == {tools[i].name : i \in DOMAIN tools}

(* mutant: unnamed tools count as a group *)
CollisionRuleGroupingUnnamed(tools) ==
    LET names == {n \in NamesOf(tools) : Cardinality(Indices(tools, n)) > 1}
    IN FlattenSeq([k \in 1..Cardinality(names) |->
         LET idxs == InOrder(Indices(tools, InOrder(names)[k]))
         IN [j \in DOMAIN idxs |->
               Finding("tool-name-collision", "error", tools[idxs[j]])]])

CollisionRule(tools) ==
    LET names == {n \in NamesOf(tools) :
                    n # EmptyName /\ Cardinality(Indices(tools, n)) > 1}
    IN FlattenSeq([k \in 1..Cardinality(names) |->
         LET idxs == InOrder(Indices(tools, InOrder(names)[k]))
         IN [j \in DOMAIN idxs |->
               Finding("tool-name-collision", "error", tools[idxs[j]])]])

-----------------------------------------------------------------------------
(* Comparison scope: the names only one of the two intakes has, each         *)
(* reported once, at its first occurrence there                              *)

FirstIndex(tools, name) == InOrder(Indices(tools, name))[1]

OnlyIn(tools, others) ==
    LET names == InOrder(NamesOf(tools) \ NamesOf(others))
    IN [k \in DOMAIN names |->
          Finding("tool-static-vs-live-mismatch", "warning",
                  tools[FirstIndex(tools, names[k])])]

(* mutant: live-only tools are forgotten *)
StaticVsLiveRuleOneWay(static, live) == OnlyIn(static, live)

StaticVsLiveRule(static, live) == OnlyIn(static, live) \o OnlyIn(live, static)

-----------------------------------------------------------------------------
(* The dispatcher: rules run in registration order, which is the order of  *)
(* the files of internal/rules                                             *)

Run(t) ==
    DescriptionRule(t) \o DestructiveRule(t) \o ExamplesRule(t)
      \o FilePathRule(t) \o NetworkRule(t) \o PIIRule(t) \o RequiredRule(t)
      \o SecretsRule(t) \o SnakeCaseRule(t)

RunProject(tools) == CollisionRule(tools)

RunComparison(static, live) == StaticVsLiveRule(static, live)

AnalyzeSet(tools) ==
    FlattenSeq([i \in DOMAIN tools |-> Run(tools[i])]) \o RunProject(tools)

-----------------------------------------------------------------------------
(* output.WriteText: a stable sort by tool name, then by rule ID           *)

RuleIDs ==
    <<"destructive-tool-not-gated", "file-tool-no-path-confinement",
      "network-tool-no-allowlist", "tool-description-empty-or-truncated",
      "tool-description-mentions-secret", "tool-example-fails-schema",
      "tool-example-uses-real-pii", "tool-name-collision",
      "tool-name-not-snake-case",
      "tool-schema-required-references-undefined-property",
      "tool-static-vs-live-mismatch">>

RuleRank(rule) == CHOOSE k \in DOMAIN RuleIDs : RuleIDs[k] = rule

(* mutant: sorted by rule first *)
BeforeByRule(f, g) ==
    \/ RuleRank(f.rule) < RuleRank(g.rule)
    \/ f.rule = g.rule /\ f.tool < g.tool

Before(f, g) ==
    \/ f.tool < g.tool
    \/ f.tool = g.tool /\ RuleRank(f.rule) < RuleRank(g.rule)

StableSort(findings) ==
    LET Earlier(i) ==
          {j \in DOMAIN findings :
             \/ Before(findings[j], findings[i])
             \/ ~Before(findings[i], findings[j]) /\ j < i}
    IN [k \in DOMAIN findings |->
          findings[CHOOSE i \in DOMAIN findings :
                     Cardinality(Earlier(i)) = k - 1]]

-----------------------------------------------------------------------------
(* What the README promises of the error rules, stated without the code's  *)
(* loops and maps: two tools of one server share a name, a destructive     *)
(* tool has no confirmation property, a required name is not a property.   *)

Offends(tools) ==
    \/ \E i, j \in DOMAIN tools :
          i # j /\ tools[i].name = tools[j].name /\ tools[i].name # EmptyName
    \/ \E i \in DOMAIN tools :
          LET t == tools[i]
              declared == DOMAIN t.schema.props
          IN \/ t.name \in DestructiveNames /\ declared \cap ConfirmKeys = {}
             \/ ~(t.schema.required \subseteq declared)

=============================================================================
