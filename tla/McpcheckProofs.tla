--------------------------- MODULE McpcheckProofs ---------------------------
(***************************************************************************)
(* The gate of the mcpcheck command, for every set of tool lists, every    *)
(* choice of names the rules look for and every server: what the exit code *)
(* and the report say of the tools that were analysed.                     *)
(***************************************************************************)
EXTENDS Mcpcheck, FiniteSetTheorems, SequenceTheorems, TLAPS

-----------------------------------------------------------------------------
(* Sorting by rank *)

\* Below[x] is the set of elements of S before x in a strict total order.
IsOrder(S, Below) ==
    /\ \A x \in S : Below[x] \subseteq S /\ x \notin Below[x]
    /\ \A x, y \in S : x # y => x \in Below[y] \/ y \in Below[x]
    /\ \A x, y \in S : x \in Below[y] => Below[x] \subseteq Below[y]

\* In a finite set every position is taken by exactly one element, and the
\* positions follow the order.
LEMMA RankExists ==
  ASSUME NEW S, IsFiniteSet(S), NEW Below, IsOrder(S, Below)
  PROVE  /\ \A k \in 1..Cardinality(S) : \E x \in S : Cardinality(Below[x]) = k - 1
         /\ \A x \in S : Cardinality(Below[x]) \in 0..(Cardinality(S) - 1)
         /\ \A x, y \in S : x \in Below[y] <=> Cardinality(Below[x]) < Cardinality(Below[y])
         /\ \A x, y \in S : Cardinality(Below[x]) = Cardinality(Below[y]) => x = y
  <1> DEFINE n == Cardinality(S)
             rank == [x \in S |-> Cardinality(Below[x]) + 1]
  <1>1. n \in Nat
    BY FS_CardinalityType
  <1>2. \A x \in S : IsFiniteSet(Below[x]) /\ Cardinality(Below[x]) \in Nat
    BY FS_Subset, FS_CardinalityType DEF IsOrder
  <1>3. \A x \in S : Cardinality(Below[x]) < n
    <2> TAKE x \in S
    <2>1. Below[x] \in SUBSET S /\ Below[x] # S
      BY DEF IsOrder
    <2> QED BY <2>1, <1>1, <1>2, FS_Subset
  <1>4. \A x, y \in S : x \in Below[y] => Cardinality(Below[x]) < Cardinality(Below[y])
    <2> SUFFICES ASSUME NEW x \in S, NEW y \in S, x \in Below[y]
                 PROVE  Cardinality(Below[x]) < Cardinality(Below[y])
      OBVIOUS
    <2>1. Below[x] \in SUBSET Below[y] /\ Below[x] # Below[y]
      BY DEF IsOrder
    <2> QED BY <2>1, <1>2, FS_Subset
  <1>5. \A x, y \in S : x # y => Cardinality(Below[x]) # Cardinality(Below[y])
    BY <1>2, <1>4 DEF IsOrder
  <1>6. \A x, y \in S : Cardinality(Below[x]) < Cardinality(Below[y]) => x \in Below[y]
    BY <1>2, <1>4, <1>5 DEF IsOrder
  <1>7. rank \in Injection(S, 1..n)
    BY <1>1, <1>2, <1>3, <1>5, Z3 DEF Injection, IsInjective
  <1>8. IsFiniteSet(1..n) /\ Cardinality(1..n) = n
    BY <1>1, FS_Interval
  <1>9. rank \in Surjection(S, 1..n)
    BY <1>7, <1>8, FS_Injection
  <1>10. \A k \in 1..n : \E x \in S : rank[x] = k
    BY <1>9 DEF Surjection
  <1>11. \A k \in 1..n : \E x \in S : Cardinality(Below[x]) = k - 1
    BY <1>10, <1>2, <1>1
  <1> QED BY <1>1, <1>2, <1>3, <1>4, <1>5, <1>6, <1>11

LEMMA RankTaken ==
  ASSUME NEW S, IsFiniteSet(S), NEW Below, IsOrder(S, Below), NEW k \in 1..Cardinality(S)
  PROVE  \E x \in S : Cardinality(Below[x]) = k - 1
  BY RankExists

\* InOrder lists every member of a finite set of numbers exactly once.
LEMMA InOrderLists ==
  ASSUME NEW nums \in SUBSET Nat, IsFiniteSet(nums)
  PROVE  /\ InOrder(nums) \in Seq(nums)
         /\ Len(InOrder(nums)) = Cardinality(nums)
         /\ \A n \in nums : \E k \in DOMAIN InOrder(nums) : InOrder(nums)[k] = n
         /\ \A k, l \in DOMAIN InOrder(nums) : InOrder(nums)[k] = InOrder(nums)[l] => k = l
  <1> DEFINE At(k) == CHOOSE n \in nums : Cardinality({m \in nums : m < n}) = k - 1
             card == Cardinality(nums)
  <1>0. PICK Below : Below = [n \in nums |-> {m \in nums : m < n}]
    OBVIOUS
  <1>1. IsOrder(nums, Below)
    <2>1. \A x \in nums : Below[x] \subseteq nums /\ x \notin Below[x]
      BY <1>0
    <2>2. \A x, y \in nums : x # y => x \in Below[y] \/ y \in Below[x]
      BY <1>0
    <2>3. \A x, y \in nums : x \in Below[y] => Below[x] \subseteq Below[y]
      <3> SUFFICES ASSUME NEW x \in nums, NEW y \in nums, NEW m \in nums, x < y, m < x
                   PROVE  m < y
        BY <1>0
      <3> QED BY x \in Nat, y \in Nat, m \in Nat
    <2> QED BY <2>1, <2>2, <2>3 DEF IsOrder
  <1>2. card \in Nat
    BY FS_CardinalityType
  <1>3. /\ \A k \in 1..card : \E n \in nums : Cardinality({m \in nums : m < n}) = k - 1
        /\ \A n \in nums : Cardinality({m \in nums : m < n}) \in 0..(card - 1)
        /\ \A m, n \in nums : Cardinality(Below[m]) = Cardinality(Below[n]) => m = n
    <2>1. \A k \in 1..card : \E x \in nums : Cardinality(Below[x]) = k - 1
      BY <1>1, RankTaken
    <2>2. \A x \in nums : Cardinality(Below[x]) \in 0..(card - 1)
      BY <1>1, RankExists
    <2>3. \A x, y \in nums : Cardinality(Below[x]) = Cardinality(Below[y]) => x = y
      BY <1>1, RankExists
    <2>4. \A n \in nums : Below[n] = {m \in nums : m < n}
      BY <1>0
    <2> QED BY <2>1, <2>2, <2>3, <2>4
  <1>4. \A k \in 1..card : At(k) \in nums /\ Cardinality({m \in nums : m < At(k)}) = k - 1
    BY <1>3
  <1> HIDE DEF At
  <1>5. InOrder(nums) = [k \in 1..card |-> At(k)]
    BY DEF InOrder, At
  <1>6. \A n \in nums : \E k \in 1..card : At(k) = n
    <2> TAKE n \in nums
    <2> DEFINE k == Cardinality({m \in nums : m < n}) + 1
    <2>1. k \in 1..card /\ k - 1 = Cardinality({m \in nums : m < n})
      BY <1>2, <1>3
    <2> HIDE DEF k
    <2>2. At(k) \in nums /\ Cardinality(Below[At(k)]) = Cardinality(Below[n])
      BY <1>0, <1>4, <2>1
    <2>3. At(k) = n
      BY <2>2, <1>3
    <2> QED BY <2>1, <2>3
  <1>7. \A k, l \in 1..card : At(k) = At(l) => k = l
    <2> SUFFICES ASSUME NEW k \in 1..card, NEW l \in 1..card, At(k) = At(l)
                 PROVE  k = l
      OBVIOUS
    <2>1. k - 1 = l - 1
      BY <1>4
    <2> QED BY <2>1, <1>2
  <1>8. InOrder(nums) \in [1..card -> nums]
    BY <1>4, <1>5
  <1>9. InOrder(nums) \in Seq(nums) /\ Len(InOrder(nums)) = card /\ DOMAIN InOrder(nums) = 1..card
    BY <1>2, <1>8
  <1>10. /\ \A n \in nums : \E k \in 1..card : InOrder(nums)[k] = n
         /\ \A k, l \in 1..card : InOrder(nums)[k] = InOrder(nums)[l] => k = l
    BY <1>5, <1>6, <1>7
  <1> QED BY <1>9, <1>10

-----------------------------------------------------------------------------
(* Concatenation.  FlattenSeq is a recursive function; that it has a value,  *)
(* and what that is, are inductions on the number of sequences put together. *)

\* The least element of a set of naturals.
LEMMA LeastNat == ASSUME NEW T \in SUBSET Nat, T # {}
                  PROVE  \E x \in T : \A y \in T : x <= y
  <1>1. \E x \in T : \A y \in T : ~(<<y, x>> \in OpToRel(<, Nat))
    BY NatLessThanWellFounded, WFMin
  <1>2. \A x, y \in Nat : ~(<<y, x>> \in OpToRel(<, Nat)) => x <= y
    BY DEF OpToRel
  <1> QED BY <1>1, <1>2

\* The members of a concatenation are those of its parts.
LEMMA ConcatMembers ==
  ASSUME NEW S, NEW s \in Seq(S), NEW t \in Seq(S)
  PROVE  s \o t \in Seq(S) /\ ToSet(s \o t) = ToSet(s) \cup ToSet(t)
  <1>1. /\ s \o t \in Seq(S)
        /\ Len(s \o t) = Len(s) + Len(t)
        /\ \A i \in 1..(Len(s) + Len(t)) :
              (s \o t)[i] = IF i <= Len(s) THEN s[i] ELSE t[i - Len(s)]
    BY ConcatProperties
  <1>2. /\ Len(s) \in Nat /\ DOMAIN s = 1..Len(s)
        /\ Len(t) \in Nat /\ DOMAIN t = 1..Len(t)
        /\ DOMAIN (s \o t) = 1..(Len(s) + Len(t))
    BY <1>1, LenProperties
  <1>3. ToSet(s \o t) \subseteq ToSet(s) \cup ToSet(t)
    <2> SUFFICES ASSUME NEW i \in 1..(Len(s) + Len(t))
                 PROVE  (s \o t)[i] \in ToSet(s) \cup ToSet(t)
      BY <1>2 DEF ToSet
    <2>1. CASE i <= Len(s)
      <3>1. i \in DOMAIN s /\ (s \o t)[i] = s[i]
        BY <1>1, <1>2, <2>1
      <3> QED BY <3>1 DEF ToSet
    <2>2. CASE ~(i <= Len(s))
      <3>1. i - Len(s) \in DOMAIN t /\ (s \o t)[i] = t[i - Len(s)]
        BY <1>1, <1>2, <2>2
      <3> QED BY <3>1 DEF ToSet
    <2> QED BY <2>1, <2>2
  <1>4. ToSet(s) \subseteq ToSet(s \o t)
    <2> SUFFICES ASSUME NEW i \in 1..Len(s) PROVE s[i] \in ToSet(s \o t)
      BY <1>2 DEF ToSet
    <2>1. i \in DOMAIN (s \o t) /\ (s \o t)[i] = s[i]
      BY <1>1, <1>2
    <2> QED BY <2>1 DEF ToSet
  <1>5. ToSet(t) \subseteq ToSet(s \o t)
    <2> SUFFICES ASSUME NEW i \in 1..Len(t) PROVE t[i] \in ToSet(s \o t)
      BY <1>2 DEF ToSet
    <2> DEFINE j == i + Len(s)
    <2>1. j \in DOMAIN (s \o t) /\ (s \o t)[j] = t[i]
      <3>1. j \in 1..(Len(s) + Len(t)) /\ ~(j <= Len(s)) /\ j - Len(s) = i
        BY <1>2
      <3> HIDE DEF j
      <3> QED BY <1>1, <1>2, <3>1
    <2> QED BY <2>1 DEF ToSet
  <1> QED BY <1>1, <1>3, <1>4, <1>5

\* The first i sequences put together, from the first i - 1.
Prefix(ss, f, i) == IF i = 1 THEN ss[i] ELSE f[i - 1] \o ss[i]

LEMMA PrefixesEnd ==
  ASSUME NEW ss, NEW n \in Nat
  PROVE  \E f : f = [i \in 1..n |-> Prefix(ss, f, i)]
  <1> DEFINE Part(j) == \E g : g = [i \in 1..j |-> Prefix(ss, g, i)]
             T == {j \in 0..n : ~Part(j)}
  <1>1. ASSUME T # {} PROVE FALSE
    <2>1. PICK j \in T : \A i \in T : j <= i
      <3>1. T \in SUBSET Nat
        OBVIOUS
      <3> HIDE DEF T
      <3> QED BY <1>1, <3>1, LeastNat
    <2>2. Part(0)
      <3> DEFINE g == [i \in 1..0 |-> 0]
      <3>1. g = [i \in 1..0 |-> Prefix(ss, g, i)]
        OBVIOUS
      <3> QED BY <3>1
    <2>3. j \in 1..n /\ j - 1 \in 0..n /\ j - 1 \notin T
      <3>1. j \in 0..n /\ j # 0
        BY <2>1, <2>2
      <3> HIDE DEF T
      <3> QED BY <2>1, <3>1
    <2>4. Part(j - 1)
      <3> HIDE DEF Part
      <3> QED BY <2>3
    <2>5. PICK g : g = [i \in 1..(j - 1) |-> Prefix(ss, g, i)]
      BY <2>4
    <2> DEFINE h == [i \in 1..j |-> IF i < j THEN g[i] ELSE Prefix(ss, g, i)]
    <2>6. ASSUME NEW i \in 1..j PROVE h[i] = Prefix(ss, h, i)
      <3>1. Prefix(ss, h, i) = Prefix(ss, g, i)
        BY <2>3, <2>5 DEF Prefix
      <3>2. h[i] = Prefix(ss, g, i)
        BY <2>3, <2>5
      <3> QED BY <3>1, <3>2
    <2>7. h = [i \in 1..j |-> Prefix(ss, h, i)]
      BY <2>6
    <2>8. Part(j)
      BY <2>7
    <2> QED BY <2>1, <2>8
  <1> QED BY <1>1

\* FlattenSeq keeps every member of every sequence, and adds none.
LEMMA FlattenMembers ==
  ASSUME NEW S, NEW ss \in Seq(Seq(S))
  PROVE  /\ FlattenSeq(ss) \in Seq(S)
         /\ \A x : x \in ToSet(FlattenSeq(ss)) <=> \E i \in DOMAIN ss : x \in ToSet(ss[i])
  <1> DEFINE n == Len(ss)
  <1>1. n \in Nat /\ DOMAIN ss = 1..n /\ \A i \in 1..n : ss[i] \in Seq(S)
    OBVIOUS
  <1>2. CASE n = 0
    <2>1. FlattenSeq(ss) = ss /\ ss = <<>>
      BY <1>2 DEF FlattenSeq
    <2> QED BY <2>1, <1>1, <1>2 DEF ToSet
  <1>3. CASE n # 0
    <2>1. \E f : f = [i \in 1..n |-> IF i = 1 THEN ss[i] ELSE f[i - 1] \o ss[i]]
      BY <1>1, PrefixesEnd DEF Prefix
    <2>2. PICK f : /\ f = [i \in 1..n |-> IF i = 1 THEN ss[i] ELSE f[i - 1] \o ss[i]]
                   /\ FlattenSeq(ss) = f[n]
      <3> DEFINE F == CHOOSE f : f = [i \in 1..n |-> IF i = 1 THEN ss[i] ELSE f[i - 1] \o ss[i]]
      <3>1. F = [i \in 1..n |-> IF i = 1 THEN ss[i] ELSE F[i - 1] \o ss[i]]
        BY <2>1
      <3>2. FlattenSeq(ss) = F[n]
        BY <1>3 DEF FlattenSeq
      <3> QED BY <3>1, <3>2
    <2> DEFINE Good(k) == /\ f[k] \in Seq(S)
                          /\ \A x : x \in ToSet(f[k]) <=> \E i \in 1..k : x \in ToSet(ss[i])
               T == {k \in 1..n : ~Good(k)}
    <2>3. ASSUME T # {} PROVE FALSE
      <3>1. PICK k \in T : \A i \in T : k <= i
        <4>1. T \in SUBSET Nat
          BY <1>1
        <4> HIDE DEF T
        <4> QED BY <2>3, <4>1, LeastNat
      <3>2. k \in 1..n /\ ~Good(k)
        BY <3>1
      <3>3. k # 1
        <4>1. f[1] = ss[1]
          BY <1>1, <1>3, <2>2
        <4>2. Good(1)
          BY <1>1, <1>3, <4>1
        <4> QED BY <3>2, <4>2
      <3>4. Good(k - 1)
        <4>1. k - 1 \in 1..n
          BY <1>1, <3>2, <3>3
        <4>2. k - 1 \notin T
          <5> HIDE DEF T
          <5> QED BY <3>1, <3>2, <1>1
        <4> HIDE DEF Good
        <4> QED BY <4>1, <4>2
      <3>5. f[k] = f[k - 1] \o ss[k]
        BY <2>2, <3>2, <3>3
      <3>6. f[k] \in Seq(S) /\ ToSet(f[k]) = ToSet(f[k - 1]) \cup ToSet(ss[k])
        BY <1>1, <3>2, <3>4, <3>5, ConcatMembers
      <3>7. \A i : i \in 1..k <=> i \in 1..(k - 1) \/ i = k
        BY <1>1, <3>2
      <3>8. Good(k)
        BY <3>4, <3>6, <3>7
      <3> QED BY <3>2, <3>8
    <2>4. Good(n)
      <3>1. n \in 1..n
        BY <1>1, <1>3
      <3> HIDE DEF Good
      <3> QED BY <2>3, <3>1
    <2> QED BY <1>1, <2>2, <2>4
  <1> QED BY <1>2, <1>3

-----------------------------------------------------------------------------
(* What each rule reports *)

DriftRule == "tool-static-vs-live-mismatch"
Severities == {"error", "warning"}
RuleNames == {RuleIDs[k] : k \in DOMAIN RuleIDs}
Findings == [rule : RuleNames, severity : Severities, tool : Nat]

\* A tool of a tool list: a number for its name, a sequence of examples.
IsTool(t) == /\ t.name \in Nat /\ t.desc.secret \in BOOLEAN
             /\ t.schema.examples \in Seq([valid : BOOLEAN, pii : BOOLEAN])

\* The two error rules that look at one tool.
OffendingTool(t) ==
    \/ t.name \in DestructiveNames /\ DOMAIN t.schema.props \cap ConfirmKeys = {}
    \/ ~(t.schema.required \subseteq DOMAIN t.schema.props)

\* All members of s are of the rule and the severity given.
AllOf(s, rule, severity) ==
    /\ s \in Seq(Findings)
    /\ \A f \in ToSet(s) : f.rule = rule /\ f.severity = severity

LEMMA RuleNamesAre ==
  RuleNames = {"destructive-tool-not-gated", "file-tool-no-path-confinement",
               "network-tool-no-allowlist", "tool-description-empty-or-truncated",
               "tool-description-mentions-secret", "tool-example-fails-schema",
               "tool-example-uses-real-pii", "tool-name-collision",
               "tool-name-not-snake-case",
               "tool-schema-required-references-undefined-property", DriftRule}
  <1>1. DOMAIN RuleIDs = 1..11
    BY DEF RuleIDs
  <1>2. 1..11 = {1, 2, 3, 4, 5, 6, 7, 8, 9, 10, 11}
    OBVIOUS
  <1>3. RuleNames = {RuleIDs[1], RuleIDs[2], RuleIDs[3], RuleIDs[4], RuleIDs[5], RuleIDs[6],
                     RuleIDs[7], RuleIDs[8], RuleIDs[9], RuleIDs[10], RuleIDs[11]}
    BY <1>1, <1>2 DEF RuleNames
  <1> QED BY <1>3 DEF RuleIDs, DriftRule

\* A guarded report is one finding or none.
LEMMA ReportIfSays ==
  ASSUME NEW cond \in BOOLEAN, NEW rule \in RuleNames, NEW severity \in Severities,
         NEW t, t.name \in Nat
  PROVE  /\ AllOf(ReportIf(cond, rule, severity, t), rule, severity)
         /\ ToSet(ReportIf(cond, rule, severity, t)) # {} <=> cond
  <1> DEFINE f == Finding(rule, severity, t)
             s == ReportIf(cond, rule, severity, t)
  <1>1. f \in Findings /\ f.rule = rule /\ f.severity = severity
    BY DEF Finding, Findings
  <1> HIDE DEF f
  <1>2. CASE cond
    <2>1. s = <<f>>
      BY <1>2 DEF ReportIf, f
    <2>2. s \in Seq(Findings) /\ DOMAIN s = {1} /\ s[1] = f
      BY <1>1, <2>1
    <2>3. ToSet(s) = {f}
      BY <2>2 DEF ToSet
    <2> HIDE DEF s
    <2>4. AllOf(s, rule, severity) /\ ToSet(s) # {}
      BY <1>1, <2>2, <2>3 DEF AllOf
    <2> QED BY <1>2, <2>4 DEF s
  <1>3. CASE ~cond
    <2>1. s = <<>>
      BY <1>3 DEF ReportIf
    <2>2. s \in Seq(Findings) /\ ToSet(s) = {}
      BY <2>1 DEF ToSet
    <2> HIDE DEF s
    <2>4. AllOf(s, rule, severity)
      BY <2>2 DEF AllOf
    <2> QED BY <1>3, <2>2, <2>4 DEF s
  <1> QED BY <1>2, <1>3

\* One finding per index of a finite set of indices.
LEMMA OnePer ==
  ASSUME NEW n \in Nat, NEW rule \in RuleNames, NEW severity \in Severities,
         NEW t, t.name \in Nat
  PROVE  AllOf([i \in 1..n |-> Finding(rule, severity, t)], rule, severity)
  <1> DEFINE f == Finding(rule, severity, t)
             s == [i \in 1..n |-> f]
  <1>1. f \in Findings /\ f.rule = rule /\ f.severity = severity
    BY DEF Finding, Findings
  <1> HIDE DEF f
  <1>2. s \in Seq(Findings) /\ \A g \in ToSet(s) : g = f
    BY <1>1 DEF ToSet
  <1> HIDE DEF s
  <1>3. AllOf(s, rule, severity)
    BY <1>1, <1>2 DEF AllOf
  <1> QED BY <1>3 DEF s, f

\* The nine rules of Run, on one tool.
LEMMA ToolRules ==
  ASSUME NEW t, IsTool(t)
  PROVE  /\ AllOf(DescriptionRule(t), "tool-description-empty-or-truncated", "warning")
         /\ AllOf(DestructiveRule(t), "destructive-tool-not-gated", "error")
         /\ AllOf(ExamplesRule(t), "tool-example-fails-schema", "warning")
         /\ AllOf(FilePathRule(t), "file-tool-no-path-confinement", "warning")
         /\ AllOf(NetworkRule(t), "network-tool-no-allowlist", "warning")
         /\ AllOf(PIIRule(t), "tool-example-uses-real-pii", "warning")
         /\ AllOf(RequiredRule(t), "tool-schema-required-references-undefined-property", "error")
         /\ AllOf(SecretsRule(t), "tool-description-mentions-secret", "warning")
         /\ AllOf(SnakeCaseRule(t), "tool-name-not-snake-case", "warning")
         /\ OffendingTool(t) <=> ToSet(DestructiveRule(t)) # {} \/ ToSet(RequiredRule(t)) # {}
  <1>0. t.name \in Nat
    BY DEF IsTool
  <1> DEFINE exs == t.schema.examples
  <1>1. \A P \in SUBSET DOMAIN exs : Cardinality(P) \in Nat
    <2>1. IsFiniteSet(DOMAIN exs)
      BY FS_Interval DEF IsTool
    <2> QED BY <2>1, FS_Subset, FS_CardinalityType
  <1> USE RuleNamesAre DEF Severities
  <1>2. AllOf(DescriptionRule(t), "tool-description-empty-or-truncated", "warning")
    <2>1. (t.desc.length \in {"empty", "short", "truncated"}) \in BOOLEAN
      OBVIOUS
    <2> QED BY <1>0, <2>1, ReportIfSays DEF DescriptionRule
  <1>3. /\ AllOf(DestructiveRule(t), "destructive-tool-not-gated", "error")
        /\ ToSet(DestructiveRule(t)) # {} <=>
             t.name \in DestructiveNames /\ ~HasConfirmationField(t.schema)
    BY <1>0, ReportIfSays DEF DestructiveRule
  <1>4. AllOf(ExamplesRule(t), "tool-example-fails-schema", "warning")
    <2> DEFINE n == Cardinality({i \in DOMAIN exs : ~exs[i].valid})
    <2>1. n \in Nat
      BY <1>1
    <2>2. AllOf([i \in 1..n |-> Finding("tool-example-fails-schema", "warning", t)],
                "tool-example-fails-schema", "warning")
      BY <1>0, <2>1, OnePer
    <2>3. AllOf(<<>>, "tool-example-fails-schema", "warning")
      BY DEF AllOf, ToSet
    <2> QED BY <2>2, <2>3 DEF ExamplesRule
  <1>5. AllOf(FilePathRule(t), "file-tool-no-path-confinement", "warning")
    <2>1. FreeProperty(t.schema, PathKeys) \in BOOLEAN
      BY DEF FreeProperty
    <2> QED BY <1>0, <2>1, ReportIfSays DEF FilePathRule
  <1>6. AllOf(NetworkRule(t), "network-tool-no-allowlist", "warning")
    <2>1. FreeProperty(t.schema, URLKeys) \in BOOLEAN
      BY DEF FreeProperty
    <2> QED BY <1>0, <2>1, ReportIfSays DEF NetworkRule
  <1>7. AllOf(PIIRule(t), "tool-example-uses-real-pii", "warning")
    <2> DEFINE n == Cardinality({i \in DOMAIN exs : exs[i].pii})
    <2>1. n \in Nat
      BY <1>1
    <2>2. AllOf([i \in 1..n |-> Finding("tool-example-uses-real-pii", "warning", t)],
                "tool-example-uses-real-pii", "warning")
      BY <1>0, <2>1, OnePer
    <2> QED BY <2>2 DEF PIIRule
  <1>8. /\ AllOf(RequiredRule(t), "tool-schema-required-references-undefined-property", "error")
        /\ ToSet(RequiredRule(t)) # {} <=> t.schema.required \ DOMAIN t.schema.props # {}
    BY <1>0, ReportIfSays DEF RequiredRule
  <1>9. AllOf(SecretsRule(t), "tool-description-mentions-secret", "warning")
    BY <1>0, ReportIfSays DEF SecretsRule, IsTool
  <1>10. AllOf(SnakeCaseRule(t), "tool-name-not-snake-case", "warning")
    BY <1>0, ReportIfSays DEF SnakeCaseRule
  <1>11. OffendingTool(t) <=> ToSet(DestructiveRule(t)) # {} \/ ToSet(RequiredRule(t)) # {}
    BY <1>3, <1>8 DEF OffendingTool, HasConfirmationField
  <1> QED BY <1>2, <1>3, <1>4, <1>5, <1>6, <1>7, <1>8, <1>9, <1>10, <1>11

\* The members of both of two sequences of findings, joined.
LEMMA JoinFindings ==
  ASSUME NEW s \in Seq(Findings), NEW t \in Seq(Findings)
  PROVE  s \o t \in Seq(Findings) /\ ToSet(s \o t) = ToSet(s) \cup ToSet(t)
  BY ConcatMembers

HasError(s) == \E f \in ToSet(s) : f.severity = "error"

\* On one tool, Run reports an error exactly when the tool offends, and it
\* never reports drift.
LEMMA RunSays ==
  ASSUME NEW t, IsTool(t)
  PROVE  /\ Run(t) \in Seq(Findings)
         /\ HasError(Run(t)) <=> OffendingTool(t)
         /\ \A f \in ToSet(Run(t)) : f.rule # DriftRule
  <1> DEFINE r1 == DescriptionRule(t)
             r2 == DestructiveRule(t)
             r3 == ExamplesRule(t)
             r4 == FilePathRule(t)
             r5 == NetworkRule(t)
             r6 == PIIRule(t)
             r7 == RequiredRule(t)
             r8 == SecretsRule(t)
             r9 == SnakeCaseRule(t)
             s2 == r1 \o r2
             s3 == s2 \o r3
             s4 == s3 \o r4
             s5 == s4 \o r5
             s6 == s5 \o r6
             s7 == s6 \o r7
             s8 == s7 \o r8
             s9 == s8 \o r9
  <1>0. Run(t) = s9
    BY DEF Run
  <1>1. /\ AllOf(r1, "tool-description-empty-or-truncated", "warning")
        /\ AllOf(r2, "destructive-tool-not-gated", "error")
        /\ AllOf(r3, "tool-example-fails-schema", "warning")
        /\ AllOf(r4, "file-tool-no-path-confinement", "warning")
        /\ AllOf(r5, "network-tool-no-allowlist", "warning")
        /\ AllOf(r6, "tool-example-uses-real-pii", "warning")
        /\ AllOf(r7, "tool-schema-required-references-undefined-property", "error")
        /\ AllOf(r8, "tool-description-mentions-secret", "warning")
        /\ AllOf(r9, "tool-name-not-snake-case", "warning")
        /\ OffendingTool(t) <=> ToSet(r2) # {} \/ ToSet(r7) # {}
    BY ToolRules
  <1> HIDE DEF r1, r2, r3, r4, r5, r6, r7, r8, r9
  <1>2. /\ r1 \in Seq(Findings) /\ r2 \in Seq(Findings) /\ r3 \in Seq(Findings)
        /\ r4 \in Seq(Findings) /\ r5 \in Seq(Findings) /\ r6 \in Seq(Findings)
        /\ r7 \in Seq(Findings) /\ r8 \in Seq(Findings) /\ r9 \in Seq(Findings)
    BY <1>1 DEF AllOf
  <1> HIDE DEF s2, s3, s4, s5, s6, s7, s8, s9
  <1>3. s2 \in Seq(Findings) /\ ToSet(s2) = ToSet(r1) \cup ToSet(r2)
    BY <1>2, JoinFindings DEF s2
  <1>4. s3 \in Seq(Findings) /\ ToSet(s3) = ToSet(s2) \cup ToSet(r3)
    BY <1>2, <1>3, JoinFindings DEF s3
  <1>5. s4 \in Seq(Findings) /\ ToSet(s4) = ToSet(s3) \cup ToSet(r4)
    BY <1>2, <1>4, JoinFindings DEF s4
  <1>6. s5 \in Seq(Findings) /\ ToSet(s5) = ToSet(s4) \cup ToSet(r5)
    BY <1>2, <1>5, JoinFindings DEF s5
  <1>7. s6 \in Seq(Findings) /\ ToSet(s6) = ToSet(s5) \cup ToSet(r6)
    BY <1>2, <1>6, JoinFindings DEF s6
  <1>8. s7 \in Seq(Findings) /\ ToSet(s7) = ToSet(s6) \cup ToSet(r7)
    BY <1>2, <1>7, JoinFindings DEF s7
  <1>9. s8 \in Seq(Findings) /\ ToSet(s8) = ToSet(s7) \cup ToSet(r8)
    BY <1>2, <1>8, JoinFindings DEF s8
  <1>10. s9 \in Seq(Findings) /\ ToSet(s9) = ToSet(s8) \cup ToSet(r9)
    BY <1>2, <1>9, JoinFindings DEF s9
  <1>11. \A f : f \in ToSet(s9) <=>
           \/ f \in ToSet(r1) \/ f \in ToSet(r2) \/ f \in ToSet(r3)
           \/ f \in ToSet(r4) \/ f \in ToSet(r5) \/ f \in ToSet(r6)
           \/ f \in ToSet(r7) \/ f \in ToSet(r8) \/ f \in ToSet(r9)
    BY <1>3, <1>4, <1>5, <1>6, <1>7, <1>8, <1>9, <1>10
  <1>12. HasError(s9) <=> ToSet(r2) # {} \/ ToSet(r7) # {}
    BY <1>1, <1>11 DEF HasError, AllOf
  <1>13. \A f \in ToSet(s9) : f.rule # DriftRule
    BY <1>1, <1>11 DEF AllOf, DriftRule
  <1> QED BY <1>0, <1>1, <1>10, <1>12, <1>13

-----------------------------------------------------------------------------
(* What the project rule and the comparison report *)

\* The names and the indices of a tool list.
LEMMA ToolListFacts ==
  ASSUME NEW tools, IsToolList(tools)
  PROVE  /\ Len(tools) \in Nat /\ DOMAIN tools = 1..Len(tools)
         /\ \A i \in DOMAIN tools : IsTool(tools[i])
         /\ NamesOf(tools) \in SUBSET Nat /\ IsFiniteSet(NamesOf(tools))
         /\ \A n : /\ Indices(tools, n) \in SUBSET Nat
                   /\ Indices(tools, n) \subseteq DOMAIN tools
                   /\ IsFiniteSet(Indices(tools, n))
  <1>1. Len(tools) \in Nat /\ DOMAIN tools = 1..Len(tools)
    BY DEF IsToolList
  <1>2. \A i \in DOMAIN tools : IsTool(tools[i])
    BY DEF IsToolList, IsTool
  <1>3. IsFiniteSet(DOMAIN tools)
    BY <1>1, FS_Interval
  <1>4. NamesOf(tools) \in SUBSET Nat
    BY <1>2 DEF NamesOf, IsTool
  <1>5. IsFiniteSet(NamesOf(tools))
    <2> DEFINE f == [i \in DOMAIN tools |-> tools[i].name]
    <2>1. f \in Surjection(DOMAIN tools, NamesOf(tools))
      BY DEF Surjection, NamesOf
    <2> HIDE DEF f
    <2> QED BY <2>1, <1>3, FS_Surjection
  <1>6. \A n : Indices(tools, n) \in SUBSET DOMAIN tools
    BY DEF Indices
  <1>7. \A n : IsFiniteSet(Indices(tools, n))
    BY <1>3, <1>6, FS_Subset
  <1>8. \A n : Indices(tools, n) \in SUBSET Nat
    BY <1>1, <1>6
  <1> QED BY <1>1, <1>2, <1>4, <1>5, <1>6, <1>7, <1>8

\* More than one member means two of them.
LEMMA MoreThanOne ==
  ASSUME NEW S, IsFiniteSet(S)
  PROVE  Cardinality(S) > 1 <=> \E x, y \in S : x # y
  <1>1. Cardinality(S) \in Nat
    BY FS_CardinalityType
  <1>2. Cardinality(S) = 0 <=> S = {}
    BY FS_EmptySet
  <1>3. Cardinality(S) = 1 <=> \E x : S = {x}
    BY FS_Singleton
  <1> QED BY <1>1, <1>2, <1>3

\* The collision rule reports errors of its own kind, and some exactly when two
\* tools share a name that is not empty.
LEMMA CollisionSays ==
  ASSUME NEW tools, IsToolList(tools)
  PROVE  /\ AllOf(CollisionRule(tools), "tool-name-collision", "error")
         /\ ToSet(CollisionRule(tools)) # {} <=>
              \E i, j \in DOMAIN tools :
                 i # j /\ tools[i].name = tools[j].name /\ tools[i].name # EmptyName
  <1> DEFINE names == {n \in NamesOf(tools) :
                         n # EmptyName /\ Cardinality(Indices(tools, n)) > 1}
             idxs(k) == InOrder(Indices(tools, InOrder(names)[k]))
             group(k) == [j \in DOMAIN idxs(k) |->
                            Finding("tool-name-collision", "error", tools[idxs(k)[j]])]
             groups == [k \in 1..Cardinality(names) |-> group(k)]
  <1>0. CollisionRule(tools) = FlattenSeq(groups)
    BY DEF CollisionRule
  <1>1. names \in SUBSET Nat /\ IsFiniteSet(names)
    BY ToolListFacts, FS_Subset
  <1>2. Cardinality(names) \in Nat
    BY <1>1, FS_CardinalityType
  <1>3. names # {} <=> \E i, j \in DOMAIN tools :
                 i # j /\ tools[i].name = tools[j].name /\ tools[i].name # EmptyName
    <2>1. \A n : IsFiniteSet(Indices(tools, n))
      BY ToolListFacts
    <2>2. \A n : Cardinality(Indices(tools, n)) > 1 <=> \E i, j \in Indices(tools, n) : i # j
      BY <2>1, MoreThanOne
    <2>3. ASSUME NEW n \in names
          PROVE  \E i, j \in DOMAIN tools :
                   i # j /\ tools[i].name = tools[j].name /\ tools[i].name # EmptyName
      <3>1. PICK i, j \in Indices(tools, n) : i # j
        BY <2>2, <2>3
      <3> QED BY <2>3, <3>1 DEF Indices
    <2>4. ASSUME NEW i \in DOMAIN tools, NEW j \in DOMAIN tools,
                 i # j, tools[i].name = tools[j].name, tools[i].name # EmptyName
          PROVE  tools[i].name \in names
      <3>1. i \in Indices(tools, tools[i].name) /\ j \in Indices(tools, tools[i].name)
        BY <2>4 DEF Indices
      <3>2. Cardinality(Indices(tools, tools[i].name)) > 1
        BY <2>2, <2>4, <3>1
      <3> QED BY <2>4, <3>2 DEF NamesOf
    <2> HIDE DEF names
    <2> QED BY <2>3, <2>4
  <1> HIDE DEF names
  <1>4. InOrder(names) \in Seq(names) /\ Len(InOrder(names)) = Cardinality(names)
    BY <1>1, InOrderLists
  <1>5. \A k \in 1..Cardinality(names) : InOrder(names)[k] \in names
    BY <1>2, <1>4
  <1>6. ASSUME NEW k \in 1..Cardinality(names)
        PROVE  AllOf(group(k), "tool-name-collision", "error") /\ ToSet(group(k)) # {}
    <2> DEFINE own == Indices(tools, InOrder(names)[k])
    <2>1. own \in SUBSET Nat /\ own \subseteq DOMAIN tools /\ IsFiniteSet(own)
      BY ToolListFacts
    <2>2. own # {}
      BY <1>5 DEF Indices, names, NamesOf
    <2> HIDE DEF own
    <2> DEFINE is == InOrder(own)
    <2>3. is \in Seq(own) /\ Len(is) = Cardinality(own)
      BY <2>1, InOrderLists
    <2>4. Cardinality(own) \in Nat /\ Cardinality(own) # 0
      BY <2>1, <2>2, FS_CardinalityType, FS_EmptySet
    <2> HIDE DEF is
    <2>5. Len(is) \in Nat /\ Len(is) # 0 /\ DOMAIN is = 1..Len(is)
      BY <2>3, <2>4
    <2>6. \A j \in DOMAIN is : is[j] \in DOMAIN tools
      <3>1. \A j \in 1..Len(is) : is[j] \in own
        BY <2>3
      <3> QED BY <2>1, <2>5, <3>1
    <2> DEFINE g == [j \in DOMAIN is |-> Finding("tool-name-collision", "error", tools[is[j]])]
    <2>7. \A j \in DOMAIN is : /\ g[j] \in Findings
                               /\ g[j].rule = "tool-name-collision"
                               /\ g[j].severity = "error"
      BY <2>6, ToolListFacts, RuleNamesAre DEF Finding, Findings, IsTool, Severities
    <2>8. DOMAIN g = DOMAIN is
      OBVIOUS
    <2> HIDE DEF g
    <2>9. g \in Seq(Findings)
      <3>1. g \in [1..Len(is) -> Findings]
        BY <2>5, <2>7 DEF g
      <3> QED BY <2>5, <3>1
    <2>10. AllOf(g, "tool-name-collision", "error")
      BY <2>7, <2>8, <2>9 DEF AllOf, ToSet
    <2>11. ToSet(g) # {}
      <3>1. 1 \in DOMAIN g
        BY <2>5, <2>8
      <3> QED BY <3>1 DEF ToSet
    <2>12. group(k) = g
      BY DEF g, is, own
    <2> QED BY <2>10, <2>11, <2>12
  <1> HIDE DEF group
  <1>7. groups \in Seq(Seq(Findings)) /\ DOMAIN groups = 1..Cardinality(names)
    BY <1>2, <1>6 DEF AllOf
  <1>8. \A k \in 1..Cardinality(names) : groups[k] = group(k)
    OBVIOUS
  <1> HIDE DEF groups
  <1>9. /\ FlattenSeq(groups) \in Seq(Findings)
        /\ \A x : x \in ToSet(FlattenSeq(groups)) <=>
                    \E k \in DOMAIN groups : x \in ToSet(groups[k])
    BY <1>7, FlattenMembers
  <1>10. AllOf(FlattenSeq(groups), "tool-name-collision", "error")
    BY <1>6, <1>7, <1>8, <1>9 DEF AllOf
  <1>11. ToSet(FlattenSeq(groups)) # {} <=> Cardinality(names) # 0
    <2>1. Cardinality(names) # 0 <=> 1 \in 1..Cardinality(names)
      BY <1>2
    <2>2. ASSUME NEW x, x \in ToSet(FlattenSeq(groups)) PROVE Cardinality(names) # 0
      <3>1. PICK k \in 1..Cardinality(names) : TRUE
        BY <1>7, <1>9, <2>2
      <3> QED BY <1>2
    <2>3. ASSUME 1 \in 1..Cardinality(names) PROVE ToSet(FlattenSeq(groups)) # {}
      <3>1. PICK x : x \in ToSet(groups[1])
        BY <1>6, <1>8, <2>3
      <3> QED BY <1>7, <1>9, <2>3, <3>1
    <2> QED BY <2>1, <2>2, <2>3
  <1>12. Cardinality(names) = 0 <=> names = {}
    BY <1>1, FS_EmptySet
  <1> QED BY <1>0, <1>3, <1>10, <1>11, <1>12

\* The analysis of one set reports an error exactly when the set offends, and
\* never drift.
LEMMA AnalyzeSays ==
  ASSUME NEW tools, IsToolList(tools)
  PROVE  /\ AnalyzeSet(tools) \in Seq(Findings)
         /\ HasError(AnalyzeSet(tools)) <=> Offends(tools)
         /\ \A f \in ToSet(AnalyzeSet(tools)) : f.rule # DriftRule
  <1> DEFINE runs == [i \in DOMAIN tools |-> Run(tools[i])]
             c == CollisionRule(tools)
  <1>1. Len(tools) \in Nat /\ DOMAIN tools = 1..Len(tools)
    BY ToolListFacts
  <1>2. \A i \in DOMAIN tools : /\ Run(tools[i]) \in Seq(Findings)
                                /\ HasError(Run(tools[i])) <=> OffendingTool(tools[i])
                                /\ \A f \in ToSet(Run(tools[i])) : f.rule # DriftRule
    BY ToolListFacts, RunSays
  <1>3. runs \in Seq(Seq(Findings))
    BY <1>1, <1>2
  <1>4. DOMAIN runs = DOMAIN tools /\ \A i \in DOMAIN tools : runs[i] = Run(tools[i])
    OBVIOUS
  <1> HIDE DEF runs
  <1>5. /\ FlattenSeq(runs) \in Seq(Findings)
        /\ \A x : x \in ToSet(FlattenSeq(runs)) <=> \E i \in DOMAIN runs : x \in ToSet(runs[i])
    BY <1>3, FlattenMembers
  <1>6. /\ AllOf(c, "tool-name-collision", "error")
        /\ ToSet(c) # {} <=>
              \E i, j \in DOMAIN tools :
                 i # j /\ tools[i].name = tools[j].name /\ tools[i].name # EmptyName
    BY CollisionSays
  <1>7. AnalyzeSet(tools) = FlattenSeq(runs) \o c
    BY DEF AnalyzeSet, runs, RunProject
  <1> HIDE DEF c
  <1>8. /\ AnalyzeSet(tools) \in Seq(Findings)
        /\ ToSet(AnalyzeSet(tools)) = ToSet(FlattenSeq(runs)) \cup ToSet(c)
    BY <1>5, <1>6, <1>7, JoinFindings DEF AllOf
  <1>9. HasError(FlattenSeq(runs)) <=> \E i \in DOMAIN tools : OffendingTool(tools[i])
    BY <1>2, <1>4, <1>5 DEF HasError
  <1>10. HasError(c) <=> ToSet(c) # {}
    BY <1>6 DEF HasError, AllOf
  <1>11. HasError(AnalyzeSet(tools)) <=> HasError(FlattenSeq(runs)) \/ HasError(c)
    BY <1>8 DEF HasError
  <1>12. Offends(tools) <=> \/ \E i \in DOMAIN tools : OffendingTool(tools[i])
                            \/ \E i, j \in DOMAIN tools :
                                  /\ i # j /\ tools[i].name = tools[j].name
                                  /\ tools[i].name # EmptyName
    BY DEF Offends, OffendingTool
  <1>13. \A f \in ToSet(AnalyzeSet(tools)) : f.rule # DriftRule
    BY <1>2, <1>4, <1>5, <1>6, <1>8 DEF AllOf, DriftRule
  <1> QED BY <1>6, <1>8, <1>9, <1>10, <1>11, <1>12, <1>13

\* Where a sequence of findings reports drift, and the tools it names there:
\* exactly those of D, each once.
DriftIn(s) == {i \in DOMAIN s : s[i].rule = DriftRule}
DriftOnce(s, D) == /\ {s[i].tool : i \in DriftIn(s)} = D
                   /\ \A i, j \in DriftIn(s) : s[i].tool = s[j].tool => i = j

\* Each name only one of the intakes has is reported once.
LEMMA OnlyInSays ==
  ASSUME NEW tools, IsToolList(tools), NEW others, IsToolList(others)
  PROVE  /\ AllOf(OnlyIn(tools, others), DriftRule, "warning")
         /\ DriftOnce(OnlyIn(tools, others), NamesOf(tools) \ NamesOf(others))
  <1> DEFINE only == NamesOf(tools) \ NamesOf(others)
             names == InOrder(only)
             s == OnlyIn(tools, others)
  <1>1. only \in SUBSET Nat /\ IsFiniteSet(only)
    BY ToolListFacts, FS_Subset
  <1>2. /\ names \in Seq(only)
        /\ \A n \in only : \E k \in DOMAIN names : names[k] = n
        /\ \A k, l \in DOMAIN names : names[k] = names[l] => k = l
    BY <1>1, InOrderLists
  <1>3. \A n \in only : FirstIndex(tools, n) \in DOMAIN tools /\ tools[FirstIndex(tools, n)].name = n
    <2> TAKE n \in only
    <2> DEFINE own == Indices(tools, n)
    <2>1. own \in SUBSET Nat /\ IsFiniteSet(own)
      BY ToolListFacts
    <2>2. own # {}
      BY DEF Indices, NamesOf
    <2>3. \A i \in own : i \in DOMAIN tools /\ tools[i].name = n
      BY DEF Indices
    <2> HIDE DEF own
    <2>4. InOrder(own) \in Seq(own) /\ Len(InOrder(own)) = Cardinality(own)
      BY <2>1, InOrderLists
    <2>5. Cardinality(own) \in Nat /\ Cardinality(own) # 0
      BY <2>1, <2>2, FS_CardinalityType, FS_EmptySet
    <2>6. InOrder(own)[1] \in own
      BY <2>4, <2>5
    <2> QED BY <2>3, <2>6 DEF FirstIndex, own
  <1>4. DOMAIN s = DOMAIN names
    BY DEF OnlyIn
  <1>5. \A k \in DOMAIN names : s[k] = Finding(DriftRule, "warning", tools[FirstIndex(tools, names[k])])
    BY DEF OnlyIn, DriftRule
  <1> HIDE DEF names, only, s
  <1>6. Len(names) \in Nat /\ DOMAIN names = 1..Len(names) /\ \A k \in DOMAIN names : names[k] \in only
    BY <1>2
  <1>7. \A k \in DOMAIN names : /\ s[k] \in Findings /\ s[k].rule = DriftRule
                                /\ s[k].severity = "warning" /\ s[k].tool = names[k]
    <2> TAKE k \in DOMAIN names
    <2> DEFINE t == tools[FirstIndex(tools, names[k])]
    <2>1. t.name = names[k] /\ t.name \in Nat
      BY <1>1, <1>3, <1>6
    <2>2. s[k] = Finding(DriftRule, "warning", t)
      BY <1>5
    <2> HIDE DEF t
    <2> QED BY <2>1, <2>2, RuleNamesAre DEF Finding, Findings, Severities
  <1>8. s \in Seq(Findings)
    <2>1. s = [k \in 1..Len(names) |-> s[k]]
      BY <1>4, <1>6 DEF s, OnlyIn, names, only
    <2>2. s \in [1..Len(names) -> Findings]
      BY <1>6, <1>7, <2>1
    <2> QED BY <1>6, <2>2
  <1>9. AllOf(s, DriftRule, "warning")
    BY <1>4, <1>7, <1>8 DEF AllOf, ToSet
  <1>10. DriftIn(s) = DOMAIN names
    BY <1>4, <1>7 DEF DriftIn
  <1>11. DriftOnce(s, only)
    BY <1>2, <1>6, <1>7, <1>10 DEF DriftOnce
  <1> QED BY <1>9, <1>11 DEF s, only

\* Joining two sequences that report different drift.
LEMMA JoinDrift ==
  ASSUME NEW s \in Seq(Findings), NEW t \in Seq(Findings), NEW D, NEW E,
         DriftOnce(s, D), DriftOnce(t, E), D \cap E = {}
  PROVE  DriftOnce(s \o t, D \cup E)
  <1> DEFINE u == s \o t
             m == Len(s)
  <1>1. /\ m \in Nat /\ DOMAIN s = 1..m
        /\ Len(t) \in Nat /\ DOMAIN t = 1..Len(t)
        /\ DOMAIN u = 1..(m + Len(t))
        /\ \A i \in 1..(m + Len(t)) : u[i] = IF i <= m THEN s[i] ELSE t[i - m]
    BY ConcatProperties, LenProperties
  <1> HIDE DEF u, m
  <1>2. \A i \in DriftIn(u) : \/ i \in DriftIn(s) /\ u[i] = s[i]
                              \/ i - m \in DriftIn(t) /\ u[i] = t[i - m]
    BY <1>1 DEF DriftIn
  <1>3. \A i \in DriftIn(s) : i \in DriftIn(u) /\ u[i] = s[i]
    BY <1>1 DEF DriftIn
  <1>4. \A i \in DriftIn(t) : i + m \in DriftIn(u) /\ u[i + m] = t[i]
    <2> TAKE i \in DriftIn(t)
    <2>1. i \in 1..Len(t) /\ t[i].rule = DriftRule
      BY <1>1 DEF DriftIn
    <2>2. i + m \in 1..(m + Len(t)) /\ ~(i + m <= m) /\ (i + m) - m = i
      BY <1>1, <2>1
    <2>3. i + m \in DOMAIN u /\ u[i + m] = t[i]
      BY <1>1, <2>2
    <2> QED BY <2>1, <2>3 DEF DriftIn
  <1>5. {u[i].tool : i \in DriftIn(u)} = D \cup E
    <2>1. \A i \in DriftIn(u) : u[i].tool \in D \cup E
      BY <1>2 DEF DriftOnce
    <2>2. \A d \in D : \E i \in DriftIn(u) : u[i].tool = d
      BY <1>3 DEF DriftOnce
    <2>3. \A e \in E : \E i \in DriftIn(u) : u[i].tool = e
      BY <1>4 DEF DriftOnce
    <2> QED BY <2>1, <2>2, <2>3
  <1>6. ASSUME NEW i \in DriftIn(u), NEW j \in DriftIn(u), u[i].tool = u[j].tool
        PROVE  i = j
    <2>1. i \in Int /\ j \in Int
      BY <1>1 DEF DriftIn
    <2>2. CASE i \in DriftIn(s) /\ u[i] = s[i] /\ j \in DriftIn(s) /\ u[j] = s[j]
      BY <1>6, <2>2 DEF DriftOnce
    <2>3. CASE i - m \in DriftIn(t) /\ u[i] = t[i - m] /\ j - m \in DriftIn(t) /\ u[j] = t[j - m]
      <3>1. i - m = j - m
        BY <1>6, <2>3 DEF DriftOnce
      <3> QED BY <1>1, <2>1, <3>1
    <2>4. CASE i \in DriftIn(s) /\ u[i] = s[i] /\ j - m \in DriftIn(t) /\ u[j] = t[j - m]
      <3>1. u[i].tool \in D /\ u[j].tool \in E
        BY <2>4 DEF DriftOnce
      <3> QED BY <1>6, <3>1
    <2>5. CASE i - m \in DriftIn(t) /\ u[i] = t[i - m] /\ j \in DriftIn(s) /\ u[j] = s[j]
      <3>1. u[i].tool \in E /\ u[j].tool \in D
        BY <2>5 DEF DriftOnce
      <3> QED BY <1>6, <3>1
    <2> QED BY <1>2, <2>2, <2>3, <2>4, <2>5
  <1>7. DriftOnce(u, D \cup E)
    BY <1>5, <1>6 DEF DriftOnce
  <1> QED BY <1>7 DEF u

-----------------------------------------------------------------------------
(* The order of the text report *)

\* The rank of a rule is a number of its own.
LEMMA RuleRanks ==
  /\ \A r \in RuleNames : RuleRank(r) \in Nat
  /\ \A r, q \in RuleNames : RuleRank(r) = RuleRank(q) => r = q
  <1>1. DOMAIN RuleIDs \in SUBSET Nat
    BY DEF RuleIDs
  <1>2. \A r \in RuleNames : RuleRank(r) \in DOMAIN RuleIDs /\ RuleIDs[RuleRank(r)] = r
    BY DEF RuleNames, RuleRank
  <1> QED BY <1>1, <1>2

\* Before is a strict weak order, and what it does not tell apart has the same
\* tool and the same rule.
LEMMA BeforeOrders ==
  /\ \A f \in Findings : ~Before(f, f)
  /\ \A f, g \in Findings : Before(f, g) => ~Before(g, f)
  /\ \A f, g, h \in Findings : Before(f, g) /\ Before(g, h) => Before(f, h)
  /\ \A f, g, h \in Findings : ~Before(f, g) /\ ~Before(g, h) => ~Before(f, h)
  /\ \A f, g \in Findings : ~Before(f, g) => g.tool <= f.tool
  /\ \A f, g \in Findings : ~Before(f, g) /\ f.tool = g.tool =>
                              RuleRank(g.rule) <= RuleRank(f.rule)
  <1>1. \A f \in Findings : f.tool \in Nat /\ f.rule \in RuleNames
    BY DEF Findings
  <1> DEFINE rank(f) == RuleRank(f.rule)
  <1>2. \A f \in Findings : rank(f) \in Nat
    BY <1>1, RuleRanks
  <1>3. \A f, g : Before(f, g) <=> f.tool < g.tool \/ (f.tool = g.tool /\ rank(f) < rank(g))
    BY DEF Before
  <1> HIDE DEF rank
  <1>4. /\ \A f \in Findings : ~Before(f, f)
        /\ \A f, g \in Findings : Before(f, g) => ~Before(g, f)
    BY <1>1, <1>2, <1>3
  <1>5. \A f, g, h \in Findings : Before(f, g) /\ Before(g, h) => Before(f, h)
    BY <1>1, <1>2, <1>3
  <1>6. \A f, g, h \in Findings : ~Before(f, g) /\ ~Before(g, h) => ~Before(f, h)
    BY <1>1, <1>2, <1>3
  <1>7. /\ \A f, g \in Findings : ~Before(f, g) => g.tool <= f.tool
        /\ \A f, g \in Findings : ~Before(f, g) /\ f.tool = g.tool => rank(g) <= rank(f)
    BY <1>1, <1>2, <1>3
  <1> QED BY <1>4, <1>5, <1>6, <1>7 DEF rank

\* p is a rearrangement of the positions of s.
Rearranges(p, s) ==
    /\ p \in [DOMAIN s -> DOMAIN s]
    /\ \A i \in DOMAIN s : \E k \in DOMAIN s : p[k] = i
    /\ \A k, l \in DOMAIN s : p[k] = p[l] => k = l

\* StableSort rearranges the findings, and no later one belongs before an
\* earlier one.
LEMMA SortSays ==
  ASSUME NEW s \in Seq(Findings)
  PROVE  \E p : /\ Rearranges(p, s)
                /\ StableSort(s) = [k \in DOMAIN s |-> s[p[k]]]
                /\ \A k, l \in DOMAIN s : k < l => ~Before(s[p[l]], s[p[k]])
  <1> DEFINE D == DOMAIN s
             Earlier(i) == {j \in D : \/ Before(s[j], s[i])
                                      \/ ~Before(s[i], s[j]) /\ j < i}
             At(k) == CHOOSE i \in D : Cardinality(Earlier(i)) = k - 1
             p == [k \in D |-> At(k)]
  <1>1. Len(s) \in Nat /\ D = 1..Len(s) /\ \A i \in D : s[i] \in Findings
    OBVIOUS
  <1>2. IsFiniteSet(D) /\ Cardinality(D) = Len(s)
    BY <1>1, FS_Interval
  <1>3. StableSort(s) = [k \in D |-> s[At(k)]]
    BY DEF StableSort
  <1>4. PICK Below : Below = [i \in D |-> Earlier(i)]
    OBVIOUS
  <1>5. \A i, j \in D : i \in Below[j] <=> \/ Before(s[i], s[j])
                                           \/ ~Before(s[j], s[i]) /\ i < j
    BY <1>4
  <1>6. \A i \in D : Below[i] \subseteq D /\ Below[i] = Earlier(i)
    BY <1>4
  <1> HIDE DEF D, Earlier
  <1>7. IsOrder(D, Below)
    <2>1. \A x \in D : Below[x] \subseteq D /\ x \notin Below[x]
      BY <1>1, <1>5, <1>6, BeforeOrders
    <2>2. \A x, y \in D : x # y => x \in Below[y] \/ y \in Below[x]
      BY <1>1, <1>5, BeforeOrders
    <2>3. ASSUME NEW x \in D, NEW y \in D, x \in Below[y], NEW z \in Below[x]
          PROVE  z \in Below[y]
      <3>1. z \in D /\ x \in Int /\ y \in Int /\ z \in Int
        BY <1>1, <1>6, <2>3
      <3>2. \/ Before(s[x], s[y])
            \/ ~Before(s[y], s[x]) /\ x < y
        BY <1>5, <2>3
      <3>3. \/ Before(s[z], s[x])
            \/ ~Before(s[x], s[z]) /\ z < x
        BY <1>5, <2>3, <3>1
      <3>4. s[x] \in Findings /\ s[y] \in Findings /\ s[z] \in Findings
        BY <1>1, <3>1
      <3>5. Before(s[z], s[y]) \/ (~Before(s[y], s[z]) /\ z < y)
        BY <3>1, <3>2, <3>3, <3>4, BeforeOrders
      <3> QED BY <1>5, <3>1, <3>5
    <2> QED BY <2>1, <2>2, <2>3 DEF IsOrder
  <1>8. \A k \in D : \E i \in D : Cardinality(Below[i]) = k - 1
    BY <1>1, <1>2, <1>7, RankTaken
  <1>9. \A i \in D : Cardinality(Below[i]) \in 0..(Len(s) - 1)
    BY <1>2, <1>7, RankExists
  <1>10. \A i, j \in D : Cardinality(Below[i]) < Cardinality(Below[j]) => i \in Below[j]
    BY <1>2, <1>7, RankExists
  <1>11. \A i, j \in D : Cardinality(Below[i]) = Cardinality(Below[j]) => i = j
    BY <1>2, <1>7, RankExists
  <1>12. \A k \in D : At(k) \in D /\ Cardinality(Below[At(k)]) = k - 1
    <2> TAKE k \in D
    <2>1. \E i \in D : Cardinality(Earlier(i)) = k - 1
      BY <1>6, <1>8
    <2>2. At(k) \in D /\ Cardinality(Earlier(At(k))) = k - 1
      BY <2>1
    <2> QED BY <1>6, <2>2
  <1> HIDE DEF At
  <1>13. p \in [D -> D] /\ \A k \in D : p[k] = At(k)
    BY <1>12
  <1>14. StableSort(s) = [k \in D |-> s[p[k]]]
    BY <1>3, <1>13
  <1> HIDE DEF p
  <1>15. \A i \in D : \E k \in D : p[k] = i
    <2> TAKE i \in D
    <2> DEFINE k == Cardinality(Below[i]) + 1
    <2>1. k \in D /\ k - 1 = Cardinality(Below[i])
      BY <1>1, <1>9
    <2> HIDE DEF k
    <2>2. p[k] = i
      BY <1>11, <1>12, <1>13, <2>1
    <2> QED BY <2>1, <2>2
  <1>16. \A k, l \in D : p[k] = p[l] => k = l
    <2> SUFFICES ASSUME NEW k \in D, NEW l \in D, p[k] = p[l] PROVE k = l
      OBVIOUS
    <2>1. k - 1 = l - 1
      BY <1>12, <1>13
    <2> QED BY <1>1, <2>1
  <1>17. ASSUME NEW k \in D, NEW l \in D, k < l PROVE ~Before(s[p[l]], s[p[k]])
    <2>1. p[k] \in D /\ p[l] \in D /\ s[p[k]] \in Findings /\ s[p[l]] \in Findings
      BY <1>1, <1>12, <1>13
    <2>2. Cardinality(Below[p[k]]) < Cardinality(Below[p[l]])
      <3>1. Cardinality(Below[p[k]]) = k - 1 /\ Cardinality(Below[p[l]]) = l - 1
        BY <1>12, <1>13
      <3>2. k \in Int /\ l \in Int
        BY <1>1
      <3> QED BY <1>17, <3>1, <3>2
    <2>3. p[k] \in Below[p[l]]
      BY <1>10, <2>1, <2>2
    <2> QED BY <1>5, <2>1, <2>3, BeforeOrders
  <1>18. /\ Rearranges(p, s) /\ StableSort(s) = [k \in DOMAIN s |-> s[p[k]]]
         /\ \A k, l \in DOMAIN s : k < l => ~Before(s[p[l]], s[p[k]])
    BY <1>13, <1>14, <1>15, <1>16, <1>17 DEF Rearranges, D
  <1> QED BY <1>18

-----------------------------------------------------------------------------
(* The inductive invariant of the live intake *)

\* Nothing runs or is fetched before Start, and Wait has seen the command exit.
CommandKept == /\ lpc = "start" => procs = {} /\ fetched = None
               /\ lpc = "done" => "command" \notin procs

\* LoadLive returns what FetchToolsLive returned, or the error of Start.
LoadedIs == lpc = "done" => loaded = fetched \/ loaded = Err

Quiet == pending = {} /\ stdout = <<>> /\ ~refused

\* One request is on its way, being served, or answered.
Awaited(req, answer) ==
    \/ stdin = <<req>> /\ Quiet
    \/ stdin = <<>> /\ pending = {req} /\ stdout = <<>> /\ ~refused
    \/ stdin = <<>> /\ pending = {} /\ stdout = <<answer>> /\ ~refused
    \/ stdin = <<>> /\ pending = {} /\ stdout = <<ErrorLine>> /\ refused

Note == "notifications/initialized"

\* A server that has written nothing unasked is in step with the client: the
\* next line readResponse takes is the answer to the last request sent.
InStep ==
    /\ lpc \in {"start", "sendInit", "sendInitialized"} => stdin = <<>> /\ Quiet
    /\ lpc = "readInit" => Awaited("initialize", InitResult)
    /\ lpc = "sendList" => stdin \in {<<>>, <<Note>>} /\ Quiet
    /\ lpc = "readList" => \/ stdin = <<Note, "tools/list">> /\ Quiet
                           \/ Awaited("tools/list", ListResult(advertised))
    /\ /\ lpc \in {"closeStdin", "wait", "done"}
       /\ fetched.kind = "ok"
       => fetched = OkResult(advertised) /\ stdin = <<>> /\ Quiet

LiveIInv == LiveTypeOK /\ CommandKept /\ LoadedIs /\ (chatter = 0 => InStep)

-----------------------------------------------------------------------------
(* The inductive invariant of main *)

\* main got through the flags and has met no error.
Sound == ~opts.listRules /\ ~BadInvocation /\ ~broken

\* Sound runs at and after a point of main.
From(pcs) == mpc \in pcs \/ (mpc = "exited" /\ Sound)

Phases == /\ exit # Running <=> mpc = "exited"
          /\ mpc # "exited" => ~broken
          /\ mpc \notin {"flags", "exited"} => Sound
          /\ mpc # "loading" => lpc \in {"start", "done"}

\* The live set is what LoadLive returned.
Loaded == From({"analyze", "write", "exitCode"}) /\ opts.live = "command" =>
            lpc = "done" /\ loaded.kind = "ok" /\ live = SetOf(loaded.tools)

Collected == From({"write", "exitCode"}) =>
               findings = OfSet(static) \o OfSet(live) \o Compared

Written == From({"exitCode"}) =>
             report = IF opts.format = "text" THEN StableSort(findings) ELSE findings

Gated == mpc = "exited" /\ Sound => (exit = 1 <=> HasError(findings))

MainTypes == /\ mpc \in MainPCs
             /\ opts \in Options
             /\ static \in ToolSets
             /\ live \in ToolSets
             /\ findings \in Seq(Findings)
             /\ report \in Seq(Findings)
             /\ broken \in BOOLEAN
             /\ exit \in {Running, 0, 1, 2}

McpIInv == LiveIInv /\ MainTypes /\ Phases /\ Loaded /\ Collected /\ Written /\ Gated

-----------------------------------------------------------------------------
(* The live intake keeps its invariant *)

LEMMA SmallSeqs ==
  /\ \A x : Append(<<>>, x) = <<x>> /\ Head(<<x>>) = x /\ Tail(<<x>>) = <<>> /\ <<x>> # <<>>
  /\ \A x, y : /\ Append(<<x>>, y) = <<x, y>> /\ Head(<<x, y>>) = x /\ Tail(<<x, y>>) = <<y>>
               /\ <<x, y>> # <<>>
  <1>1. \A x : Append(<<>>, x) = <<x>> /\ <<x>> # <<>>
    OBVIOUS
  <1>2. \A x : Head(<<x>>) = x /\ Tail(<<x>>) = <<>>
    OBVIOUS
  <1>3. \A x, y : Append(<<x>>, y) = <<x, y>> /\ <<x, y>> # <<>>
    <2> TAKE x, y
    <2> DEFINE s == Append(<<x>>, y)
               t == <<x, y>>
    <2>1. /\ s \in Seq({x, y}) /\ Len(s) = 2 /\ s[1] = x /\ s[2] = y
      OBVIOUS
    <2>2. /\ t \in Seq({x, y}) /\ Len(t) = 2 /\ t[1] = x /\ t[2] = y
      OBVIOUS
    <2> HIDE DEF s, t
    <2>3. s = t
      <3>1. \A i \in 1..2 : i = 1 \/ i = 2
        OBVIOUS
      <3> QED BY <2>1, <2>2, <3>1, SeqEqual
    <2>4. t # <<>>
      BY <2>2
    <2> QED BY <2>3, <2>4 DEF s, t
  <1>4. \A x, y : Head(<<x, y>>) = x /\ Tail(<<x, y>>) = <<y>>
    OBVIOUS
  <1> QED BY <1>1, <1>2, <1>3, <1>4

\* The kinds of outcomes and of lines.
LEMMA Kinds ==
  /\ None.kind = "none" /\ Err.kind = "err"
  /\ \A t : OkResult(t).kind = "ok" /\ OkResult(t).tools = t /\ OkResult(t) # Err
  /\ \A t : ListResult(t).kind = "result" /\ ListResult(t).tools = t
  /\ InitResult.kind = "result" /\ ErrorLine.kind = "error"
  /\ \A r \in Outcomes : r.kind = "ok" => r.tools \in ToolLists \cup {<<>>} /\ r = OkResult(r.tools)
  /\ \A l \in Lines : l.kind = "result" => l.tools \in ToolLists \cup {<<>>}
  BY DEF None, Err, OkResult, ListResult, InitResult, ErrorLine, Outcomes, Lines, Notification,
         Garbage

LEMMA StartKeeps == ASSUME LiveIInv, StartProc PROVE LiveIInv'
  <1> USE DEF StartProc, serverVars
  <1>1. LiveTypeOK'
    BY DEF LiveIInv, LiveTypeOK, LivePCs, Outcomes
  <1>2. CommandKept' /\ LoadedIs'
    BY DEF LiveIInv, CommandKept, LoadedIs
  <1>3. chatter' = 0 => InStep'
    <2>1. UNCHANGED <<stdin, stdout, fetched, pending, chatter, refused, advertised>>
      OBVIOUS
    <2>2. CASE lpc' = "sendInit"
      BY <2>1, <2>2 DEF LiveIInv, InStep, Quiet
    <2>3. CASE lpc' = "done"
      BY <2>1, <2>3, Kinds DEF LiveIInv, CommandKept, InStep
    <2> QED BY <2>2, <2>3
  <1> QED BY <1>1, <1>2, <1>3 DEF LiveIInv

\* A message goes to the server, or the write fails and the fetch with it.
LEMMA WriteTypes ==
  ASSUME LiveIInv, NEW at \in LivePCs \ {"done"}, NEW msg \in ToServer,
         NEW next \in LivePCs \ {"start", "done"}, WriteMessage(at, msg, next)
  PROVE  LiveTypeOK' /\ CommandKept' /\ LoadedIs'
  <1> USE DEF WriteMessage, FetchReturns, serverVars
  <1>1. LiveTypeOK'
    <2>1. stdin' \in Seq(ToServer)
      BY AppendProperties DEF LiveIInv, LiveTypeOK
    <2>2. lpc' \in LivePCs /\ fetched' \in Outcomes
      BY DEF LiveIInv, LiveTypeOK, LivePCs, Outcomes
    <2> QED BY <2>1, <2>2 DEF LiveIInv, LiveTypeOK
  <1>2. CommandKept' /\ LoadedIs'
    BY DEF LiveIInv, CommandKept, LoadedIs
  <1> QED BY <1>1, <1>2

LEMMA SendsKeep ==
  ASSUME LiveIInv, SendInitialize \/ SendInitialized \/ SendToolsList
  PROVE  LiveIInv'
  <1>1. LiveTypeOK' /\ CommandKept' /\ LoadedIs'
    <2>1. CASE SendInitialize
      BY <2>1, WriteTypes DEF SendInitialize, LivePCs, ToServer, Requests
    <2>2. CASE SendInitialized
      BY <2>2, WriteTypes DEF SendInitialized, LivePCs, ToServer, Requests
    <2>3. CASE SendToolsList
      BY <2>3, WriteTypes DEF SendToolsList, LivePCs, ToServer, Requests
    <2> QED BY <2>1, <2>2, <2>3
  <1>2. chatter' = 0 => InStep'
    <2> SUFFICES ASSUME chatter' = 0 PROVE InStep'
      OBVIOUS
    <2>1. UNCHANGED <<stdout, pending, chatter, refused, advertised>>
      BY DEF SendInitialize, SendInitialized, SendToolsList, WriteMessage, serverVars
    <2>2. InStep /\ Quiet' = Quiet
      BY <2>1 DEF LiveIInv, Quiet
    <2>3. CASE lpc' = "closeStdin"
      <3>1. fetched' = Err
        BY <2>3 DEF SendInitialize, SendInitialized, SendToolsList, WriteMessage, FetchReturns
      <3> QED BY <2>3, <3>1, Kinds DEF InStep
    <2>4. CASE SendInitialize /\ lpc' # "closeStdin"
      <3>1. lpc = "sendInit" /\ lpc' = "readInit" /\ stdin' = Append(stdin, "initialize")
        BY <2>4 DEF SendInitialize, WriteMessage, FetchReturns
      <3>2. stdin' = <<"initialize">> /\ Quiet'
        BY <2>2, <3>1, SmallSeqs DEF InStep
      <3> QED BY <3>1, <3>2 DEF InStep, Awaited
    <2>5. CASE SendInitialized /\ lpc' # "closeStdin"
      <3>1. lpc = "sendInitialized" /\ lpc' = "sendList" /\ stdin' = Append(stdin, Note)
        BY <2>5 DEF SendInitialized, WriteMessage, FetchReturns, Note
      <3>2. stdin' = <<Note>> /\ Quiet'
        BY <2>2, <3>1, SmallSeqs DEF InStep
      <3> QED BY <3>1, <3>2 DEF InStep
    <2>6. CASE SendToolsList /\ lpc' # "closeStdin"
      <3>1. lpc = "sendList" /\ lpc' = "readList" /\ stdin' = Append(stdin, "tools/list")
        BY <2>6 DEF SendToolsList, WriteMessage, FetchReturns
      <3>2. stdin' \in {<<"tools/list">>, <<Note, "tools/list">>} /\ Quiet'
        BY <2>2, <3>1, SmallSeqs DEF InStep
      <3> QED BY <3>1, <3>2 DEF InStep, Awaited
    <2> QED BY <2>3, <2>4, <2>5, <2>6
  <1> QED BY <1>1, <1>2 DEF LiveIInv

\* The line readResponse takes, and what it leaves.
LEMMA ReadTypes ==
  ASSUME LiveIInv, ReadInitResponse \/ ReadListResponse
  PROVE  LiveTypeOK' /\ CommandKept' /\ LoadedIs'
  <1>1. stdout' \in Seq(Lines)
    <2>1. stdout # <<>> => Tail(stdout) \in Seq(Lines)
      BY HeadTailProperties DEF LiveIInv, LiveTypeOK
    <2> QED BY <2>1 DEF ReadInitResponse, ReadListResponse, LiveIInv, LiveTypeOK
  <1>2. fetched' \in Outcomes
    <2>1. stdout # <<>> => Head(stdout) \in Lines
      BY HeadTailProperties DEF LiveIInv, LiveTypeOK
    <2>2. stdout # <<>> /\ Head(stdout).kind = "result" =>
            OkResult(Head(stdout).tools) \in Outcomes
      BY <2>1, Kinds DEF Outcomes
    <2> QED BY <2>2 DEF ReadInitResponse, ReadListResponse, FetchReturns, Outcomes, LiveIInv,
                        LiveTypeOK
  <1>3. lpc' \in {"sendInitialized", "closeStdin"}
    BY DEF ReadInitResponse, ReadListResponse, FetchReturns
  <1>4. UNCHANGED <<stdin, procs, expired, loaded, serverVars>>
    BY DEF ReadInitResponse, ReadListResponse
  <1>5. LiveTypeOK'
    BY <1>1, <1>2, <1>3, <1>4 DEF LiveIInv, LiveTypeOK, LivePCs, serverVars
  <1> QED BY <1>3, <1>5 DEF CommandKept, LoadedIs

LEMMA ReadInitKeeps == ASSUME LiveIInv, ReadInitResponse PROVE LiveIInv'
  <1>1. LiveTypeOK' /\ CommandKept' /\ LoadedIs'
    BY ReadTypes
  <1>2. chatter' = 0 => InStep'
    <2> SUFFICES ASSUME chatter' = 0 PROVE InStep'
      OBVIOUS
    <2>1. /\ lpc = "readInit" /\ UNCHANGED <<stdin, pending, chatter, refused, advertised>>
          /\ stdout' = IF stdout = <<>> THEN stdout ELSE Tail(stdout)
      BY DEF ReadInitResponse, serverVars
    <2>2. Awaited("initialize", InitResult)
      BY <2>1 DEF LiveIInv, InStep
    <2>3. CASE stdout # <<>> /\ Decodes(Head(stdout))
      <3>1. lpc' = "sendInitialized"
        BY <2>3 DEF ReadInitResponse
      <3>2. stdout # <<ErrorLine>>
        BY <2>3, SmallSeqs, Kinds DEF Decodes
      <3>3. stdin = <<>> /\ pending = {} /\ stdout = <<InitResult>> /\ ~refused
        BY <2>2, <2>3, <3>2 DEF Awaited, Quiet
      <3>4. stdout' = <<>>
        BY <2>1, <3>3, SmallSeqs
      <3> QED BY <2>1, <3>1, <3>3, <3>4 DEF InStep, Quiet
    <2>4. CASE ~(stdout # <<>> /\ Decodes(Head(stdout)))
      <3>1. lpc' = "closeStdin" /\ fetched' = Err
        BY <2>4 DEF ReadInitResponse, FetchReturns
      <3> QED BY <3>1, Kinds DEF InStep
    <2> QED BY <2>3, <2>4
  <1> QED BY <1>1, <1>2 DEF LiveIInv

LEMMA ReadListKeeps == ASSUME LiveIInv, ReadListResponse PROVE LiveIInv'
  <1>1. LiveTypeOK' /\ CommandKept' /\ LoadedIs'
    BY ReadTypes
  <1>2. chatter' = 0 => InStep'
    <2> SUFFICES ASSUME chatter' = 0 PROVE InStep'
      OBVIOUS
    <2>1. /\ lpc = "readList" /\ UNCHANGED <<stdin, pending, chatter, refused, advertised>>
          /\ stdout' = IF stdout = <<>> THEN stdout ELSE Tail(stdout)
          /\ lpc' = "closeStdin"
          /\ fetched' = IF stdout # <<>> /\ Head(stdout).kind = "result"
                          THEN OkResult(Head(stdout).tools) ELSE Err
      BY DEF ReadListResponse, FetchReturns, serverVars
    <2>2. \/ stdin = <<Note, "tools/list">> /\ Quiet
          \/ Awaited("tools/list", ListResult(advertised))
      BY <2>1 DEF LiveIInv, InStep
    <2>3. CASE stdout # <<>> /\ Head(stdout).kind = "result"
      <3>1. stdout # <<ErrorLine>>
        BY <2>3, SmallSeqs, Kinds
      <3>2. stdin = <<>> /\ pending = {} /\ stdout = <<ListResult(advertised)>> /\ ~refused
        BY <2>2, <2>3, <3>1 DEF Awaited, Quiet
      <3>3. stdout' = <<>> /\ Head(stdout) = ListResult(advertised)
        BY <2>1, <3>2, SmallSeqs
      <3>4. fetched' = OkResult(advertised')
        BY <2>1, <2>3, <3>3, Kinds
      <3> QED BY <2>1, <3>2, <3>3, <3>4 DEF InStep, Quiet
    <2>4. CASE ~(stdout # <<>> /\ Head(stdout).kind = "result")
      BY <2>1, <2>4, Kinds DEF InStep
    <2> QED BY <2>3, <2>4
  <1> QED BY <1>1, <1>2 DEF LiveIInv

LEMMA WaitKeeps == ASSUME LiveIInv, CloseStdin \/ WaitProc PROVE LiveIInv'
  <1> USE DEF CloseStdin, WaitProc, serverVars
  <1>1. LiveTypeOK'
    BY DEF LiveIInv, LiveTypeOK, LivePCs
  <1>2. CommandKept' /\ LoadedIs'
    BY DEF LiveIInv, CommandKept, LoadedIs
  <1>3. chatter' = 0 => InStep'
    <2>1. /\ lpc \in {"closeStdin", "wait"} /\ lpc' \in {"wait", "done"}
          /\ UNCHANGED <<stdin, stdout, fetched, pending, chatter, refused, advertised>>
      OBVIOUS
    <2> QED BY <2>1 DEF LiveIInv, InStep, Quiet
  <1> QED BY <1>1, <1>2, <1>3 DEF LiveIInv

\* The deadline, the kill and an exit touch neither pipe.
LEMMA ProcsKeep ==
  ASSUME LiveIInv, Expire \/ Kill \/ \E p \in {"command", "launched"} : ProcExit(p)
  PROVE  LiveIInv'
  <1>1. /\ UNCHANGED <<clientVars, stdout, serverVars>>
        /\ procs' \subseteq procs /\ expired' \in BOOLEAN
    BY DEF Expire, Kill, ProcExit, LiveIInv, LiveTypeOK
  <1>2. LiveTypeOK'
    BY <1>1 DEF LiveIInv, LiveTypeOK, clientVars, serverVars
  <1>3. CommandKept' /\ LoadedIs'
    BY <1>1 DEF LiveIInv, CommandKept, LoadedIs, clientVars
  <1>4. InStep' = InStep
    BY <1>1 DEF InStep, Awaited, Quiet, clientVars, serverVars
  <1> QED BY <1>1, <1>2, <1>3, <1>4 DEF LiveIInv, serverVars

LEMMA ServerReadKeeps == ASSUME LiveIInv, ServerRead PROVE LiveIInv'
  <1>1. /\ stdin # <<>> /\ stdin' = Tail(stdin)
        /\ pending' = pending \cup ({Head(stdin)} \cap Requests)
        /\ UNCHANGED <<lpc, stdout, procs, expired, fetched, loaded,
                       wrapped, advertised, chatter, refused>>
    BY DEF ServerRead
  <1>2. LiveTypeOK'
    <2>1. stdin' \in Seq(ToServer)
      BY <1>1, HeadTailProperties DEF LiveIInv, LiveTypeOK
    <2> QED BY <1>1, <2>1 DEF LiveIInv, LiveTypeOK
  <1>3. CommandKept' /\ LoadedIs'
    BY <1>1 DEF LiveIInv, CommandKept, LoadedIs
  <1>4. chatter' = 0 => InStep'
    <2> SUFFICES ASSUME chatter' = 0 PROVE InStep'
      OBVIOUS
    <2>1. InStep
      BY <1>1 DEF LiveIInv
    <2>2. ~(lpc \in {"start", "sendInit", "sendInitialized"})
      BY <1>1, <2>1 DEF InStep
    <2>3. \A answer : \A req \in Requests :
            Awaited(req, answer) => Awaited(req, answer)'
      <3> SUFFICES ASSUME NEW req \in Requests, NEW answer, Awaited(req, answer)
                   PROVE  Awaited(req, answer)'
        OBVIOUS
      <3>1. stdin = <<req>> /\ Quiet
        BY <1>1 DEF Awaited
      <3>2. stdin' = <<>> /\ pending' = {req}
        BY <1>1, <3>1, SmallSeqs DEF Quiet
      <3> QED BY <1>1, <3>1, <3>2 DEF Awaited, Quiet
    <2>4. CASE lpc = "readInit"
      <3>1. Awaited("initialize", InitResult)'
        BY <2>1, <2>3, <2>4 DEF InStep, Requests
      <3> QED BY <1>1, <2>4, <3>1 DEF InStep
    <2>5. CASE lpc = "sendList"
      <3>1. stdin = <<Note>> /\ Quiet
        BY <1>1, <2>1, <2>5 DEF InStep
      <3>2. stdin' = <<>> /\ pending' = {}
        BY <1>1, <3>1, SmallSeqs DEF Quiet, Requests, Note
      <3> QED BY <1>1, <2>5, <3>1, <3>2 DEF InStep, Quiet
    <2>6. CASE lpc = "readList"
      <3>1. CASE stdin = <<Note, "tools/list">> /\ Quiet
        <4>1. stdin' = <<"tools/list">> /\ pending' = {}
          BY <1>1, <3>1, SmallSeqs DEF Quiet, Requests, Note
        <4> QED BY <1>1, <2>6, <3>1, <4>1 DEF InStep, Awaited, Quiet
      <3>2. CASE Awaited("tools/list", ListResult(advertised))
        <4>1. stdin = <<"tools/list">> /\ Quiet
          BY <1>1, <3>2 DEF Awaited
        <4>2. stdin' = <<>> /\ pending' = {"tools/list"}
          BY <1>1, <4>1, SmallSeqs DEF Quiet, Requests
        <4> QED BY <1>1, <2>6, <4>1, <4>2 DEF InStep, Awaited, Quiet
      <3> QED BY <2>1, <2>6, <3>1, <3>2 DEF InStep
    <2>7. CASE lpc \in {"closeStdin", "wait", "done"}
      BY <1>1, <2>1, <2>7 DEF InStep
    <2> QED BY <2>2, <2>4, <2>5, <2>6, <2>7 DEF LiveIInv, LiveTypeOK, LivePCs
  <1> QED BY <1>2, <1>3, <1>4 DEF LiveIInv

LEMMA ServerAnswerKeeps ==
  ASSUME LiveIInv, NEW req \in Requests, ServerAnswer(req)
  PROVE  LiveIInv'
  <1>1. /\ req \in pending /\ pending' = pending \ {req}
        /\ \/ stdout' = Append(stdout, AnswerTo(req)) /\ refused' = refused
           \/ stdout' = Append(stdout, ErrorLine) /\ refused' = TRUE
        /\ UNCHANGED <<lpc, stdin, fetched, loaded, procs, expired, wrapped, advertised, chatter>>
    BY DEF ServerAnswer, clientVars
  <1>2. LiveTypeOK'
    <2>1. AnswerTo(req) \in Lines /\ ErrorLine \in Lines
      BY DEF AnswerTo, Lines, LiveIInv, LiveTypeOK
    <2>2. stdout' \in Seq(Lines)
      BY <1>1, <2>1, AppendProperties DEF LiveIInv, LiveTypeOK
    <2> QED BY <1>1, <2>2 DEF LiveIInv, LiveTypeOK
  <1>3. CommandKept' /\ LoadedIs'
    BY <1>1 DEF LiveIInv, CommandKept, LoadedIs
  <1>4. chatter' = 0 => InStep'
    <2> SUFFICES ASSUME chatter' = 0 PROVE InStep'
      OBVIOUS
    <2>1. InStep
      BY <1>1 DEF LiveIInv
    <2>2. ~Quiet
      BY <1>1 DEF Quiet
    <2>3. ASSUME NEW r, NEW answer, Awaited(r, answer)
          PROVE  /\ r = req /\ stdin' = <<>> /\ pending' = {}
                 /\ \/ stdout' = <<AnswerTo(req)>> /\ ~refused'
                    \/ stdout' = <<ErrorLine>> /\ refused'
      <3>1. stdin = <<>> /\ pending = {r} /\ stdout = <<>> /\ ~refused
        BY <1>1, <2>2, <2>3 DEF Awaited
      <3> QED BY <1>1, <3>1, SmallSeqs
    <2>4. CASE lpc = "readInit"
      <3>1. Awaited("initialize", InitResult)
        BY <2>1, <2>4 DEF InStep
      <3>2. Awaited("initialize", InitResult)'
        BY <2>3, <3>1 DEF Awaited, AnswerTo
      <3> QED BY <1>1, <2>4, <3>2 DEF InStep
    <2>5. CASE lpc = "readList"
      <3>1. Awaited("tools/list", ListResult(advertised))
        BY <2>1, <2>2, <2>5 DEF InStep
      <3>2. /\ req = "tools/list" /\ stdin' = <<>> /\ pending' = {}
            /\ \/ stdout' = <<AnswerTo(req)>> /\ ~refused'
               \/ stdout' = <<ErrorLine>> /\ refused'
        BY <2>3, <3>1
      <3>3. AnswerTo(req) = ListResult(advertised')
        BY <1>1, <3>2 DEF AnswerTo
      <3>4. Awaited("tools/list", ListResult(advertised))'
        BY <3>2, <3>3 DEF Awaited
      <3> QED BY <1>1, <2>5, <3>4 DEF InStep
    <2>6. CASE lpc \in {"closeStdin", "wait", "done"}
      BY <1>1, <2>1, <2>2, <2>6 DEF InStep
    <2> QED BY <2>1, <2>2, <2>4, <2>5, <2>6 DEF InStep, LiveIInv, LiveTypeOK, LivePCs
  <1> QED BY <1>2, <1>3, <1>4 DEF LiveIInv

LEMMA ServerChatterKeeps ==
  ASSUME LiveIInv, NEW line \in {Notification, Garbage}, ServerChatter(line)
  PROVE  LiveIInv'
  <1>1. /\ chatter < MaxChatter /\ stdout' = Append(stdout, line) /\ chatter' = chatter + 1
        /\ UNCHANGED <<lpc, stdin, fetched, loaded, procs, expired, wrapped, advertised,
                       pending, refused>>
    BY DEF ServerChatter, clientVars
  <1>2. stdout' \in Seq(Lines)
    BY <1>1, AppendProperties DEF LiveIInv, LiveTypeOK, Lines
  <1>3. chatter' \in 0..MaxChatter /\ chatter' # 0
    BY <1>1, ChatterAssumption DEF LiveIInv, LiveTypeOK
  <1>4. LiveTypeOK'
    BY <1>1, <1>2, <1>3 DEF LiveIInv, LiveTypeOK
  <1>5. CommandKept' /\ LoadedIs'
    BY <1>1 DEF LiveIInv, CommandKept, LoadedIs
  <1> QED BY <1>3, <1>4, <1>5 DEF LiveIInv

\* Every step of the live intake keeps its invariant.
LEMMA LiveKeeps ==
  ASSUME LiveIInv, ClientStep \/ Expire \/ Kill \/ ServerStep
  PROVE  LiveIInv'
  <1>1. CASE ClientStep
    BY <1>1, StartKeeps, SendsKeep, ReadInitKeeps, ReadListKeeps, WaitKeeps DEF ClientStep
  <1>2. CASE Expire \/ Kill
    BY <1>2, ProcsKeep
  <1>3. CASE ServerStep
    BY <1>3, ServerReadKeeps, ServerAnswerKeeps, ServerChatterKeeps, ProcsKeep DEF ServerStep
  <1> QED BY <1>1, <1>2, <1>3

-----------------------------------------------------------------------------
(* What analyzeAll collects and what is written *)

LEMMA SetKinds == /\ \A t : SetOf(t) # NoSet /\ SetOf(t).tools = t
                  /\ \A t, u : SetOf(t) = SetOf(u) => t = u
  <1>1. \A t : SetOf(t).kind = "set" /\ SetOf(t).tools = t /\ NoSet.kind = "nil"
    BY DEF SetOf, NoSet
  <1> QED BY <1>1

LEMMA SetsAreLists ==
  ASSUME NEW set \in ToolSets, set # NoSet
  PROVE  IsToolList(set.tools)
  <1>1. PICK t \in ToolLists \cup StaticLists \cup {<<>>} : set = SetOf(t)
    BY DEF ToolSets
  <1>2. IsToolList(<<>>)
    BY DEF IsToolList
  <1>3. IsToolList(t)
    BY <1>2, ToolListAssumption
  <1> QED BY <1>1, <1>3, SetKinds

LEMMA NoFindings == /\ <<>> \in Seq(Findings) /\ ~HasError(<<>>) /\ ToSet(<<>>) = {}
  BY DEF HasError, ToSet

\* A sequence that does not mention drift reports none.
LEMMA NoDrift ==
  ASSUME NEW s, \A f \in ToSet(s) : f.rule # DriftRule
  PROVE  DriftOnce(s, {})
  BY DEF DriftOnce, DriftIn, ToSet

LEMMA OfSetSays ==
  ASSUME NEW set \in ToolSets
  PROVE  /\ OfSet(set) \in Seq(Findings)
         /\ HasError(OfSet(set)) <=> set # NoSet /\ Offends(set.tools)
         /\ DriftOnce(OfSet(set), {})
  <1>1. CASE set = NoSet
    <2>1. OfSet(set) = <<>>
      BY <1>1 DEF OfSet
    <2> QED BY <1>1, <2>1, NoFindings, NoDrift
  <1>2. CASE set # NoSet
    <2>1. OfSet(set) = AnalyzeSet(set.tools) /\ IsToolList(set.tools)
      BY <1>2, SetsAreLists DEF OfSet
    <2>2. /\ OfSet(set) \in Seq(Findings)
          /\ HasError(OfSet(set)) <=> Offends(set.tools)
          /\ \A f \in ToSet(OfSet(set)) : f.rule # DriftRule
      BY <2>1, AnalyzeSays
    <2> QED BY <1>2, <2>2, NoDrift
  <1> QED BY <1>1, <1>2

\* The names one of the two sets has and the other does not.
Drifted == LET S == NamesOf(static.tools)
               L == NamesOf(live.tools)
           IN (S \ L) \cup (L \ S)

LEMMA ComparedSays ==
  ASSUME static \in ToolSets, live \in ToolSets
  PROVE  /\ Compared \in Seq(Findings) /\ ~HasError(Compared)
         /\ static # NoSet /\ live # NoSet => DriftOnce(Compared, Drifted)
  <1>1. CASE ~(static # NoSet /\ live # NoSet)
    <2>1. Compared = <<>>
      BY <1>1 DEF Compared
    <2> QED BY <1>1, <2>1, NoFindings
  <1>2. CASE static # NoSet /\ live # NoSet
    <2> DEFINE p == OnlyIn(static.tools, live.tools)
               q == OnlyIn(live.tools, static.tools)
               S == NamesOf(static.tools)
               L == NamesOf(live.tools)
    <2>1. Compared = p \o q
      BY <1>2 DEF Compared, RunComparison, StaticVsLiveRule
    <2>2. IsToolList(static.tools) /\ IsToolList(live.tools)
      BY <1>2, SetsAreLists
    <2>3. AllOf(p, DriftRule, "warning") /\ DriftOnce(p, S \ L)
      BY <2>2, OnlyInSays
    <2>4. AllOf(q, DriftRule, "warning") /\ DriftOnce(q, L \ S)
      BY <2>2, OnlyInSays
    <2> HIDE DEF p, q, S, L
    <2>5. p \in Seq(Findings) /\ q \in Seq(Findings)
      BY <2>3, <2>4 DEF AllOf
    <2>6. p \o q \in Seq(Findings) /\ ToSet(p \o q) = ToSet(p) \cup ToSet(q)
      BY <2>5, JoinFindings
    <2>7. ~HasError(p \o q)
      BY <2>3, <2>4, <2>6 DEF HasError, AllOf
    <2>8. DriftOnce(p \o q, (S \ L) \cup (L \ S))
      BY <2>3, <2>4, <2>5, JoinDrift
    <2> QED BY <2>1, <2>6, <2>7, <2>8 DEF Drifted, S, L
  <1> QED BY <1>1, <1>2

\* Everything analyzeAll collects: an error exactly for an offending set, and
\* the drift, once.
LEMMA CollectedSays ==
  ASSUME static \in ToolSets, live \in ToolSets,
         NEW all, all = OfSet(static) \o OfSet(live) \o Compared
  PROVE  /\ all \in Seq(Findings)
         /\ HasError(all) <=> \E set \in {static, live} : set # NoSet /\ Offends(set.tools)
         /\ static # NoSet /\ live # NoSet => DriftOnce(all, Drifted)
  <1> DEFINE a == OfSet(static)
             b == OfSet(live)
             c == Compared
  <1>1. /\ a \in Seq(Findings) /\ b \in Seq(Findings) /\ c \in Seq(Findings)
        /\ HasError(a) <=> static # NoSet /\ Offends(static.tools)
        /\ HasError(b) <=> live # NoSet /\ Offends(live.tools)
        /\ ~HasError(c)
        /\ DriftOnce(a, {}) /\ DriftOnce(b, {})
        /\ static # NoSet /\ live # NoSet => DriftOnce(c, Drifted)
    BY OfSetSays, ComparedSays
  <1>2. all = (a \o b) \o c
    OBVIOUS
  <1> HIDE DEF a, b, c
  <1>3. /\ a \o b \in Seq(Findings) /\ ToSet(a \o b) = ToSet(a) \cup ToSet(b)
    BY <1>1, JoinFindings
  <1>4. /\ all \in Seq(Findings) /\ ToSet(all) = ToSet(a \o b) \cup ToSet(c)
    BY <1>1, <1>2, <1>3, JoinFindings
  <1>5. HasError(all) <=> HasError(a) \/ HasError(b)
    BY <1>1, <1>3, <1>4 DEF HasError
  <1>6. DriftOnce(a \o b, {})
    <2>1. DriftOnce(a \o b, {} \cup {})
      BY <1>1, JoinDrift
    <2>2. {} \cup {} = {}
      OBVIOUS
    <2> QED BY <2>1, <2>2
  <1>7. DriftOnce(c, Drifted) => DriftOnce(all, Drifted)
    <2>1. DriftOnce(c, Drifted) => DriftOnce((a \o b) \o c, {} \cup Drifted)
      BY <1>1, <1>3, <1>6, JoinDrift
    <2>2. {} \cup Drifted = Drifted
      OBVIOUS
    <2> QED BY <1>2, <2>1, <2>2
  <1> QED BY <1>1, <1>4, <1>5, <1>7

\* A finding belongs to no group that has been left.
Grouped(r) ==
    \A i, j, k \in DOMAIN r :
       i < j /\ j < k /\ r[i].tool = r[k].tool =>
         /\ r[j].tool = r[i].tool
         /\ r[i].rule = r[k].rule => r[j].rule = r[i].rule

\* The sorted report holds what was collected, in groups.
LEMMA SortedReport ==
  ASSUME NEW s \in Seq(Findings), NEW r, r = StableSort(s)
  PROVE  /\ r \in Seq(Findings) /\ Len(r) = Len(s) /\ ToSet(r) = ToSet(s)
         /\ Grouped(r)
         /\ \A D : DriftOnce(s, D) => DriftOnce(r, D)
  <1>1. PICK p : /\ Rearranges(p, s)
                 /\ r = [k \in DOMAIN s |-> s[p[k]]]
                 /\ \A k, l \in DOMAIN s : k < l => ~Before(s[p[l]], s[p[k]])
    BY SortSays
  <1>2. Len(s) \in Nat /\ DOMAIN s = 1..Len(s) /\ \A i \in DOMAIN s : s[i] \in Findings
    OBVIOUS
  <1>3. /\ DOMAIN r = DOMAIN s
        /\ \A k \in DOMAIN s : p[k] \in DOMAIN s /\ r[k] = s[p[k]] /\ r[k] \in Findings
    BY <1>1, <1>2 DEF Rearranges
  <1>4. r \in Seq(Findings) /\ Len(r) = Len(s)
    <2>1. r \in [1..Len(s) -> Findings]
      BY <1>1, <1>2, <1>3
    <2> QED BY <1>2, <2>1
  <1>5. ToSet(r) = ToSet(s)
    BY <1>1, <1>3 DEF ToSet, Rearranges
  <1>6. Grouped(r)
    <2> USE DEF Grouped
    <2> TAKE i, j, k \in DOMAIN r
    <2> HAVE i < j /\ j < k /\ r[i].tool = r[k].tool
    <2>1. ~Before(r[j], r[i]) /\ ~Before(r[k], r[j])
      BY <1>1, <1>3
    <2>2. /\ r[i] \in Findings /\ r[j] \in Findings /\ r[k] \in Findings
          /\ r[i].tool \in Nat /\ r[j].tool \in Nat /\ r[k].tool \in Nat
          /\ r[i].rule \in RuleNames /\ r[j].rule \in RuleNames /\ r[k].rule \in RuleNames
      BY <1>3 DEF Findings
    <2>3. r[i].tool <= r[j].tool /\ r[j].tool <= r[k].tool
      BY <2>1, <2>2, BeforeOrders
    <2>4. r[j].tool = r[i].tool
      BY <2>2, <2>3
    <2>5. /\ RuleRank(r[i].rule) <= RuleRank(r[j].rule)
          /\ RuleRank(r[j].rule) <= RuleRank(r[k].rule)
      BY <2>1, <2>2, <2>4, BeforeOrders
    <2>6. ASSUME r[i].rule = r[k].rule PROVE r[j].rule = r[i].rule
      <3>1. RuleRank(r[j].rule) = RuleRank(r[i].rule)
        BY <2>2, <2>5, <2>6, RuleRanks
      <3> QED BY <2>2, <3>1, RuleRanks
    <2> QED BY <2>4, <2>6
  <1>7. ASSUME NEW D, DriftOnce(s, D) PROVE DriftOnce(r, D)
    <2>1. \A k \in DriftIn(r) : p[k] \in DriftIn(s) /\ r[k] = s[p[k]]
      BY <1>3 DEF DriftIn
    <2>2. \A i \in DriftIn(s) : \E k \in DriftIn(r) : p[k] = i /\ r[k] = s[i]
      BY <1>1, <1>3 DEF DriftIn, Rearranges
    <2>3. {r[k].tool : k \in DriftIn(r)} = D
      <3>1. D = {s[i].tool : i \in DriftIn(s)}
        BY <1>7 DEF DriftOnce
      <3> QED BY <2>1, <2>2, <3>1
    <2>4. ASSUME NEW k \in DriftIn(r), NEW l \in DriftIn(r), r[k].tool = r[l].tool
          PROVE  k = l
      <3>1. p[k] = p[l]
        BY <1>7, <2>1, <2>4 DEF DriftOnce
      <3>2. k \in DOMAIN s /\ l \in DOMAIN s
        BY <1>3 DEF DriftIn
      <3> QED BY <1>1, <3>1, <3>2 DEF Rearranges
    <2> QED BY <2>3, <2>4 DEF DriftOnce
  <1> QED BY <1>4, <1>5, <1>6, <1>7

-----------------------------------------------------------------------------
(* main keeps its invariant *)

LEMMA InitMcp == ASSUME Init PROVE McpIInv
  <1>0. /\ <<>> \in Seq(ToServer) /\ <<>> \in Seq(Lines) /\ <<>> \in Seq(Findings)
        /\ 0 \in 0..MaxChatter
    BY ChatterAssumption
  <1>1. LiveTypeOK /\ CommandKept /\ LoadedIs
    <2>1. LiveTypeOK
      BY <1>0 DEF Init, LiveInit, LiveTypeOK, LivePCs, Outcomes
    <2>2. CommandKept /\ LoadedIs
      BY DEF Init, LiveInit, CommandKept, LoadedIs
    <2> QED BY <2>1, <2>2
  <1>2. InStep
    BY DEF Init, LiveInit, InStep, Quiet
  <1>3. MainTypes
    BY <1>0, CommandLineAssumption DEF Init, MainTypes, MainPCs, ToolSets
  <1>4. Phases /\ Loaded /\ Collected /\ Written /\ Gated
    BY DEF Init, LiveInit, Phases, Loaded, Collected, Written, Gated, From
  <1> QED BY <1>1, <1>2, <1>3, <1>4 DEF McpIInv, LiveIInv

LEMMA LiveStutter == ASSUME LiveIInv, UNCHANGED liveVars PROVE LiveIInv'
  <1> USE DEF liveVars
  <1>1. LiveTypeOK'
    BY DEF LiveIInv, LiveTypeOK
  <1>2. CommandKept' /\ LoadedIs'
    BY DEF LiveIInv, CommandKept, LoadedIs
  <1>3. InStep' = InStep
    BY DEF InStep, Awaited, Quiet
  <1> QED BY <1>1, <1>2, <1>3 DEF LiveIInv

\* A run that ends in an error, or before the intakes, claims nothing more.
LEMMA UnsoundEnd ==
  ASSUME McpIInv, UNCHANGED <<liveVars, opts, live, findings, report>>,
         static' \in ToolSets, broken' \in BOOLEAN, mpc # "loading" \/ lpc = "done",
         mpc' = "exited", exit' \in {0, 1, 2}, ~Sound'
  PROVE  McpIInv'
  <1>1. LiveIInv'
    BY LiveStutter DEF McpIInv
  <1>2. MainTypes'
    BY DEF McpIInv, MainTypes, MainPCs
  <1>3. Phases'
    BY DEF McpIInv, Phases, Running, liveVars
  <1>4. Loaded' /\ Collected' /\ Written' /\ Gated'
    BY DEF Loaded, Collected, Written, Gated, From
  <1> QED BY <1>1, <1>2, <1>3, <1>4 DEF McpIInv

LEMMA FlagsKeep == ASSUME McpIInv, ListRules \/ Usage \/ Accept PROVE McpIInv'
  <1>1. /\ mpc = "flags" /\ UNCHANGED <<liveVars, opts, static, live, findings, report>>
    BY DEF ListRules, Usage, Accept
  <1>2. static' \in ToolSets /\ BadInvocation' = BadInvocation
    BY <1>1 DEF McpIInv, MainTypes, BadInvocation
  <1>3. CASE ListRules
    <2>1. /\ mpc' = "exited" /\ exit' \in {0, 1, 2} /\ broken' \in BOOLEAN
          /\ opts'.listRules
      BY <1>3 DEF ListRules, writeRules, Exit, Fail, McpIInv, MainTypes
    <2> QED BY <1>1, <1>2, <2>1, UnsoundEnd DEF Sound
  <1>4. CASE Usage
    <2>1. /\ mpc' = "exited" /\ exit' \in {0, 1, 2} /\ broken' \in BOOLEAN
          /\ BadInvocation'
      BY <1>2, <1>4 DEF Usage, Exit, McpIInv, MainTypes
    <2> QED BY <1>1, <1>2, <2>1, UnsoundEnd DEF Sound
  <1>5. CASE Accept
    <2>1. mpc' = "static" /\ UNCHANGED <<broken, exit>> /\ ~opts.listRules /\ ~BadInvocation
      BY <1>5 DEF Accept
    <2>2. LiveIInv'
      BY <1>1, LiveStutter DEF McpIInv
    <2>3. MainTypes'
      BY <1>1, <2>1 DEF McpIInv, MainTypes, MainPCs
    <2>4. ~broken
      BY <1>1 DEF McpIInv, Phases
    <2>5. Phases'
      BY <1>1, <1>2, <2>1, <2>4 DEF McpIInv, Phases, Sound, liveVars
    <2>6. Loaded' /\ Collected' /\ Written' /\ Gated'
      BY <2>1 DEF Loaded, Collected, Written, Gated, From
    <2> QED BY <2>2, <2>3, <2>5, <2>6 DEF McpIInv
  <1> QED BY <1>3, <1>4, <1>5

LEMMA LoadStaticKeeps == ASSUME McpIInv, LoadStatic PROVE McpIInv'
  <1>1. mpc = "static" /\ UNCHANGED <<liveVars, opts, live, findings, report>>
    BY DEF LoadStatic
  <1>2. Sound /\ BadInvocation' = BadInvocation
    BY <1>1 DEF McpIInv, Phases, BadInvocation
  <1>3. static' \in ToolSets
    BY DEF LoadStatic, Load, McpIInv, MainTypes, ToolSets
  <1>4. CASE Fail
    BY <1>1, <1>3, <1>4, UnsoundEnd DEF Fail, Exit, Sound
  <1>5. CASE mpc' = "live" /\ UNCHANGED <<broken, exit>>
    <2>1. LiveIInv'
      BY <1>1, LiveStutter DEF McpIInv
    <2>2. MainTypes'
      BY <1>1, <1>3, <1>5 DEF McpIInv, MainTypes, MainPCs
    <2>3. Phases'
      BY <1>1, <1>2, <1>5 DEF McpIInv, Phases, Sound, liveVars
    <2>4. Loaded' /\ Collected' /\ Written' /\ Gated'
      BY <1>5 DEF Loaded, Collected, Written, Gated, From
    <2> QED BY <2>1, <2>2, <2>3, <2>4 DEF McpIInv
  <1> QED BY <1>4, <1>5 DEF LoadStatic, Load

LEMMA BeginLiveKeeps == ASSUME McpIInv, BeginLive PROVE McpIInv'
  <1>1. mpc = "live" /\ UNCHANGED <<liveVars, opts, static, live, findings, report>>
    BY DEF BeginLive
  <1>2. Sound /\ BadInvocation' = BadInvocation
    BY <1>1 DEF McpIInv, Phases, BadInvocation
  <1>3. static' \in ToolSets
    BY <1>1 DEF McpIInv, MainTypes
  <1>4. CASE Fail
    BY <1>1, <1>3, <1>4, UnsoundEnd DEF Fail, Exit, Sound
  <1>5. CASE /\ UNCHANGED <<broken, exit>>
             /\ \/ opts.live = "absent" /\ mpc' = "analyze"
                \/ opts.live = "command" /\ mpc' = "loading"
    <2>1. LiveIInv'
      BY <1>1, LiveStutter DEF McpIInv
    <2>2. MainTypes'
      BY <1>1, <1>3, <1>5 DEF McpIInv, MainTypes, MainPCs
    <2>3. Phases'
      BY <1>1, <1>2, <1>5 DEF McpIInv, Phases, Sound, liveVars
    <2>4. Loaded' /\ Collected' /\ Written' /\ Gated'
      BY <1>1, <1>5 DEF Loaded, Collected, Written, Gated, From
    <2> QED BY <2>1, <2>2, <2>3, <2>4 DEF McpIInv
  <1> QED BY <1>4, <1>5 DEF BeginLive

LEMMA EndLiveKeeps == ASSUME McpIInv, EndLive PROVE McpIInv'
  <1>1. /\ mpc = "loading" /\ lpc = "done"
        /\ UNCHANGED <<liveVars, opts, static, findings, report>>
    BY DEF EndLive
  <1>2. Sound /\ BadInvocation' = BadInvocation
    BY <1>1 DEF McpIInv, Phases, BadInvocation
  <1>3. static' \in ToolSets
    BY <1>1 DEF McpIInv, MainTypes
  <1>4. CASE Fail /\ UNCHANGED live
    BY <1>1, <1>3, <1>4, UnsoundEnd DEF Fail, Exit, Sound
  <1>5. CASE /\ loaded.kind = "ok" /\ live' = SetOf(loaded.tools) /\ mpc' = "analyze"
             /\ UNCHANGED <<broken, exit>>
    <2>1. LiveIInv'
      BY <1>1, LiveStutter DEF McpIInv
    <2>2. live' \in ToolSets
      <3>1. loaded.tools \in ToolLists \cup {<<>>}
        BY <1>5, Kinds DEF McpIInv, LiveIInv, LiveTypeOK
      <3> QED BY <1>5, <3>1 DEF ToolSets
    <2>3. MainTypes'
      BY <1>1, <1>3, <1>5, <2>2 DEF McpIInv, MainTypes, MainPCs
    <2>4. Phases'
      BY <1>1, <1>2, <1>5 DEF McpIInv, Phases, Sound, liveVars
    <2>5. Loaded' /\ Collected' /\ Written' /\ Gated'
      BY <1>1, <1>5 DEF Loaded, Collected, Written, Gated, From, liveVars
    <2> QED BY <2>1, <2>3, <2>4, <2>5 DEF McpIInv
  <1> QED BY <1>4, <1>5 DEF EndLive

LEMMA AnalyzeKeeps == ASSUME McpIInv, Analyze PROVE McpIInv'
  <1>1. /\ mpc = "analyze" /\ mpc' = "write"
        /\ findings' = OfSet(static) \o OfSet(live) \o Compared
        /\ UNCHANGED <<liveVars, opts, static, live, report, broken, exit>>
    BY DEF Analyze
  <1>2. Sound /\ BadInvocation' = BadInvocation
    BY <1>1 DEF McpIInv, Phases, BadInvocation
  <1>3. LiveIInv'
    BY <1>1, LiveStutter DEF McpIInv
  <1>4. findings' \in Seq(Findings)
    BY <1>1, CollectedSays DEF McpIInv, MainTypes
  <1>5. MainTypes'
    BY <1>1, <1>4 DEF McpIInv, MainTypes, MainPCs
  <1>6. Phases'
    BY <1>1, <1>2 DEF McpIInv, Phases, Sound, liveVars
  <1>7. Loaded'
    BY <1>1 DEF McpIInv, Loaded, From, liveVars
  <1>8. Collected'
    BY <1>1 DEF Collected, Compared
  <1>9. Written' /\ Gated'
    BY <1>1 DEF Written, Gated, From
  <1> QED BY <1>3, <1>5, <1>6, <1>7, <1>8, <1>9 DEF McpIInv

LEMMA WriteReportKeeps == ASSUME McpIInv, WriteReport PROVE McpIInv'
  <1>1. mpc = "write" /\ UNCHANGED <<liveVars, opts, static, live, findings>>
    BY DEF WriteReport
  <1>2. Sound /\ BadInvocation' = BadInvocation
    BY <1>1 DEF McpIInv, Phases, BadInvocation
  <1>3. static' \in ToolSets
    BY <1>1 DEF McpIInv, MainTypes
  <1>4. CASE Fail /\ UNCHANGED report
    BY <1>1, <1>3, <1>4, UnsoundEnd DEF Fail, Exit, Sound
  <1>5. CASE /\ report' = IF opts.format = "text" THEN StableSort(findings) ELSE findings
             /\ mpc' = "exitCode"
             /\ UNCHANGED <<broken, exit>>
    <2>1. LiveIInv'
      BY <1>1, LiveStutter DEF McpIInv
    <2>2. report' \in Seq(Findings)
      BY <1>5, SortedReport DEF McpIInv, MainTypes
    <2>3. MainTypes'
      BY <1>1, <1>5, <2>2 DEF McpIInv, MainTypes, MainPCs
    <2>4. Phases'
      BY <1>1, <1>2, <1>5 DEF McpIInv, Phases, Sound, liveVars
    <2>5. Loaded'
      BY <1>1, <1>5 DEF McpIInv, Loaded, From, liveVars
    <2>6. Collected'
      BY <1>1 DEF McpIInv, Collected, From, Compared
    <2>7. Written' /\ Gated'
      BY <1>1, <1>5 DEF Written, Gated
    <2> QED BY <2>1, <2>3, <2>4, <2>5, <2>6, <2>7 DEF McpIInv
  <1> QED BY <1>4, <1>5 DEF WriteReport

LEMMA ExitCodeKeeps == ASSUME McpIInv, ExitCode PROVE McpIInv'
  <1>1. /\ mpc = "exitCode" /\ mpc' = "exited"
        /\ exit' = IF \E i \in DOMAIN findings : findings[i].severity = "error" THEN 1 ELSE 0
        /\ UNCHANGED <<liveVars, opts, static, live, findings, report, broken>>
    BY DEF ExitCode, Exit
  <1>2. LiveIInv'
    BY <1>1, LiveStutter DEF McpIInv
  <1>3. MainTypes'
    BY <1>1 DEF McpIInv, MainTypes, MainPCs
  <1>4. Phases'
    BY <1>1 DEF McpIInv, Phases, Running, liveVars
  <1>5. Loaded'
    BY <1>1 DEF McpIInv, Loaded, From, liveVars
  <1>6. Collected'
    BY <1>1 DEF McpIInv, Collected, From, Compared
  <1>7. Written'
    BY <1>1 DEF McpIInv, Written, From
  <1>8. Gated'
    BY <1>1 DEF Gated, HasError, ToSet
  <1> QED BY <1>2, <1>3, <1>4, <1>5, <1>6, <1>7, <1>8 DEF McpIInv

\* While main waits, only the live intake moves.
LEMMA LoadingKeeps ==
  ASSUME McpIInv, mpc = "loading", UNCHANGED mainVars,
         ClientStep \/ Expire \/ Kill \/ ServerStep
  PROVE  McpIInv'
  <1>1. LiveIInv'
    BY LiveKeeps DEF McpIInv
  <1>2. MainTypes'
    BY DEF McpIInv, MainTypes, mainVars
  <1>3. Phases'
    BY DEF McpIInv, Phases, Sound, BadInvocation, mainVars
  <1>4. Loaded' /\ Collected' /\ Written' /\ Gated'
    BY DEF Loaded, Collected, Written, Gated, From, mainVars
  <1> QED BY <1>1, <1>2, <1>3, <1>4 DEF McpIInv

LEMMA McpStutter == ASSUME McpIInv, UNCHANGED vars PROVE McpIInv'
  <1> USE DEF vars, mainVars
  <1>1. LiveIInv'
    BY LiveStutter DEF McpIInv
  <1>2. MainTypes'
    BY DEF McpIInv, MainTypes
  <1>3. BadInvocation' = BadInvocation
    BY DEF BadInvocation
  <1>4. Phases' /\ Loaded'
    BY <1>3 DEF McpIInv, Phases, Loaded, From, Sound, liveVars
  <1>5. Collected' /\ Written' /\ Gated'
    BY <1>3 DEF McpIInv, Collected, Written, Gated, From, Sound, Compared
  <1> QED BY <1>1, <1>2, <1>4, <1>5 DEF McpIInv

\* Every reachable state of the command satisfies its invariant.
LEMMA McpInductive == Spec => []McpIInv
  <1>1. Init => McpIInv
    BY InitMcp
  <1>2. McpIInv /\ [Next]_vars => McpIInv'
    <2> SUFFICES ASSUME McpIInv, [Next]_vars PROVE McpIInv'
      OBVIOUS
    <2>1. CASE MainStep
      BY <2>1, FlagsKeep, LoadStaticKeeps, BeginLiveKeeps, EndLiveKeeps, AnalyzeKeeps,
         WriteReportKeeps, ExitCodeKeeps DEF MainStep
    <2>2. CASE \/ WhileLoading(ClientStep) \/ WhileLoading(Expire)
               \/ WhileLoading(Kill) \/ WhileLoading(ServerStep)
      BY <2>2, LoadingKeeps DEF WhileLoading
    <2>3. CASE Done \/ UNCHANGED vars
      BY <2>3, McpStutter DEF Done
    <2> QED BY <2>1, <2>2, <2>3 DEF Next
  <1> QED BY <1>1, <1>2, PTL DEF Spec

-----------------------------------------------------------------------------
(* The theorems *)

LEMMA AnalyzedIsSound == Analyzed => mpc = "exited" /\ Sound
  BY DEF Analyzed, Sound

\* What the invariant says of a run that analysed something.
LEMMA GateOf ==
  ASSUME McpIInv, Analyzed
  PROVE  /\ findings \in Seq(Findings)
         /\ exit = 1 <=> \E set \in {static, live} : set # NoSet /\ Offends(set.tools)
         /\ static # NoSet /\ live # NoSet => DriftOnce(findings, Drifted)
         /\ report = IF opts.format = "text" THEN StableSort(findings) ELSE findings
  <1>1. mpc = "exited" /\ Sound
    BY AnalyzedIsSound
  <1>2. findings = OfSet(static) \o OfSet(live) \o Compared
    BY <1>1 DEF McpIInv, Collected, From
  <1>3. static \in ToolSets /\ live \in ToolSets
    BY DEF McpIInv, MainTypes
  <1>4. /\ findings \in Seq(Findings)
        /\ HasError(findings) <=> \E set \in {static, live} : set # NoSet /\ Offends(set.tools)
        /\ static # NoSet /\ live # NoSet => DriftOnce(findings, Drifted)
    BY <1>2, <1>3, CollectedSays
  <1>5. exit = 1 <=> HasError(findings)
    BY <1>1 DEF McpIInv, Gated
  <1>6. report = IF opts.format = "text" THEN StableSort(findings) ELSE findings
    BY <1>1 DEF McpIInv, Written, From
  <1> QED BY <1>4, <1>5, <1>6

\* The gate: for every tool list, every choice of names the rules look for and
\* whatever the server does, main returns 1 after an analysis exactly when one of
\* the two sets, looked at on its own, offends against an error rule.
THEOREM GateTellsOffence == Spec => []ExitCodeTellsOffence
  <1>1. McpIInv => ExitCodeTellsOffence
    BY GateOf DEF ExitCodeTellsOffence
  <1> QED BY <1>1, McpInductive, PTL

\* The comparison of the two intakes names every tool only one of them has, and
\* none twice, through the sort of the text report too.
THEOREM DriftToldOnce == Spec => []DriftReportedOnce
  <1>1. McpIInv => DriftReportedOnce
    <2> SUFFICES ASSUME McpIInv, Analyzed, static # NoSet, live # NoSet
                 PROVE  DriftOnce(report, Drifted)
      BY DEF DriftReportedOnce, DriftOnce, DriftIn, Drifted, DriftRule
    <2>1. /\ findings \in Seq(Findings) /\ DriftOnce(findings, Drifted)
          /\ report = IF opts.format = "text" THEN StableSort(findings) ELSE findings
      BY GateOf
    <2> QED BY <2>1, SortedReport
  <1> QED BY <1>1, McpInductive, PTL

\* The report holds what was collected, and the text report keeps the findings
\* of a tool, and of a rule of a tool, together.
THEOREM ReportKeepsGroups == Spec => []ReportGrouped
  <1>1. McpIInv => ReportGrouped
    <2> SUFFICES ASSUME McpIInv, Analyzed
                 PROVE  /\ Len(report) = Len(findings) /\ ToSet(report) = ToSet(findings)
                        /\ opts.format = "text" => Grouped(report)
      BY DEF ReportGrouped, Grouped
    <2>1. /\ findings \in Seq(Findings)
          /\ report = IF opts.format = "text" THEN StableSort(findings) ELSE findings
      BY GateOf
    <2> QED BY <2>1, SortedReport
  <1> QED BY <1>1, McpInductive, PTL

\* The live gate of a server that writes nothing unasked: exit code 0 means it
\* accepted both requests and the tools it advertises pass the error rules,
\* however its answers, its exit and the deadline interleave with LoadLive.
THEOREM QuietServerGate == Spec => []QuietLiveGate
  <1>1. McpIInv => QuietLiveGate
    <2> SUFFICES ASSUME McpIInv, Analyzed, exit = 0, opts.live = "command", chatter = 0
                 PROVE  ~refused /\ ~Offends(advertised)
      BY DEF QuietLiveGate
    <2>1. lpc = "done" /\ loaded.kind = "ok" /\ live = SetOf(loaded.tools)
      BY AnalyzedIsSound DEF McpIInv, Loaded, From
    <2>2. loaded = fetched
      BY <2>1, Kinds DEF McpIInv, LiveIInv, LoadedIs
    <2>3. fetched = OkResult(advertised) /\ ~refused
      BY <2>1, <2>2 DEF McpIInv, LiveIInv, InStep, Quiet
    <2>4. live # NoSet /\ live.tools = advertised
      BY <2>1, <2>2, <2>3, Kinds, SetKinds
    <2>5. ~(live # NoSet /\ Offends(live.tools))
      BY GateOf
    <2> QED BY <2>3, <2>4, <2>5
  <1> QED BY <1>1, McpInductive, PTL

\* Whatever the server does, main ends with one of its three exit codes, and
\* never before the command LoadLive started has been waited for.
THEOREM ExitIsClean == Spec => []CleanExit
  <1>1. McpIInv => CleanExit
    <2> SUFFICES ASSUME McpIInv PROVE CleanExit
      OBVIOUS
    <2>1. \A s \in {findings, report} : \A i \in DOMAIN s : s[i].severity \in {"error", "warning"}
      <3>1. \A s \in Seq(Findings) : \A i \in DOMAIN s : s[i] \in Findings
        OBVIOUS
      <3>2. \A f \in Findings : f.severity \in {"error", "warning"}
        BY DEF Findings, Severities
      <3> QED BY <3>1, <3>2 DEF McpIInv, MainTypes
    <2>2. TypeOK
      BY <2>1 DEF McpIInv, MainTypes, LiveIInv, TypeOK
    <2>3. NoCommandLeftBehind
      BY DEF NoCommandLeftBehind, McpIInv, Phases, LiveIInv, CommandKept
    <2> QED BY <2>2, <2>3 DEF CleanExit
  <1> QED BY <1>1, McpInductive, PTL

=============================================================================
