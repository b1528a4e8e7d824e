------------------------ MODULE ExceptionMapper_proofs ------------------------
(***************************************************************************)
(* Theorems about map_exception, for any mapper objects, calls, registered *)
(* types and number of registrations, and in either mode; about the        *)
(* registries that are filled on demand, for any calls; and about the      *)
(* default mapper, which is both.                                          *)
(***************************************************************************)
EXTENDS DefaultMapper, TLAPS

-----------------------------------------------------------------------------
(* Ancestors climbs high enough: the classes above a class are its parent  *)
(* and those above that.                                                   *)
LEMMA TopIsNear == \A k \in Classes : Above(k) \in Classes /\ Above(Above(Above(k))) = "Exception"
  BY DEF Classes, Parent, Above

LEMMA AncestorsClimb ==
    ASSUME NEW k \in Classes
    PROVE  Ancestors[k] = IF k = "Exception" THEN {k} ELSE {k} \cup Ancestors[Parent[k]]
<1>1. /\ Above(k) \in Classes /\ Above(Above(Above(k))) = "Exception"
      /\ Above("Exception") = "Exception"
  BY TopIsNear DEF Above
<1>2. CASE k = "Exception"
  BY <1>1, <1>2 DEF Ancestors
<1>3. CASE k # "Exception"
  <2>1. Above(k) = Parent[k]
    BY <1>3 DEF Above
  <2>2. Ancestors[Parent[k]] = {Above(k), Above(Above(k)), Above(Above(Above(k))), "Exception"}
    BY <1>1, <2>1 DEF Ancestors
  <2> QED BY <1>1, <1>3, <2>1, <2>2 DEF Ancestors
<1> QED BY <1>2, <1>3

-----------------------------------------------------------------------------
(* The classification always has a payload with a proper status.           *)
LEMMA ApiErrorsAreListed ==
    ASSUME NEW e \in Exceptions, IsA(e, "ApiError")
    PROVE  e.class \in DOMAIN ApiReply
<1>1. e.class \in Classes
  BY DEF Exceptions
<1>2. "ApiError" \in Ancestors[e.class]
  BY <1>1 DEF IsA
<1> DEFINE k == e.class
<1> HIDE DEF k
<1>3. k \in Classes /\ "ApiError" \in {k, Above(k), Above(Above(k)), Above(Above(Above(k)))}
  BY <1>1, <1>2 DEF Ancestors, k
<1>4. k \in {"ApiError", "ValidationApiError", "AuthenticationApiError", "AuthorizationApiError",
             "NotFoundApiError", "ConflictApiError", "InternalApiError"}
  BY <1>3 DEF Classes, Parent, Above
<1> QED BY <1>4 DEF ApiReply, k

LEMMA FirstBranchIsOne ==
    ASSUME NEW e, NEW other, NEW branches, DOMAIN branches = 1..4 \/ DOMAIN branches = 1..6
    PROVE  \/ FirstBranch(branches, e, other) = other
           \/ \E i \in DOMAIN branches : FirstBranch(branches, e, other) = branches[i]
<1> PICK n \in {4, 6} : DOMAIN branches = 1..n
  OBVIOUS
<1> DEFINE taken(i) == Ancestors[e.class] \cap branches[i].classes # {}
<1> HIDE DEF taken
<1>1. ASSUME \E i \in 1..n : taken(i)
      PROVE  \E i \in 1..n : taken(i) /\ \A j \in 1..(i - 1) : ~taken(j)
  <2> DEFINE first(i) == taken(i) /\ \A j \in 1..(i - 1) : ~taken(j)
  <2>1. ASSUME NEW i \in 1..n, taken(i), \A j \in 1..n : ~first(j)
        PROVE  FALSE
    <3>1. \A j \in 1..n : taken(j) => \E l \in 1..(j - 1) : taken(l)
      BY <2>1
    <3>2. \A j \in 1..n : j \in {1, 2, 3, 4, 5, 6}
      OBVIOUS
    <3>3. \A j \in 1..n : j = 1 => ~taken(j)
      BY <3>1
    <3>4. \A j \in 1..n : j <= 2 => ~taken(j)
      BY <3>1, <3>3
    <3>5. \A j \in 1..n : j <= 3 => ~taken(j)
      BY <3>1, <3>4
    <3>6. \A j \in 1..n : j <= 4 => ~taken(j)
      BY <3>1, <3>5
    <3>7. \A j \in 1..n : j <= 5 => ~taken(j)
      BY <3>1, <3>6
    <3>8. \A j \in 1..n : j <= 6 => ~taken(j)
      BY <3>1, <3>7
    <3> QED BY <2>1, <3>8
  <2> QED BY <1>1, <2>1
<1> USE DEF taken
<1>2. CASE \E i \in 1..n : taken(i)
  <2>1. \E i \in 1..n : taken(i) /\ \A j \in 1..(i - 1) : ~taken(j)
    BY <1>1, <1>2
  <2> HIDE DEF taken
  <2> DEFINE i == CHOOSE i \in 1..n : taken(i) /\ \A j \in 1..(i - 1) : ~taken(j)
  <2>2. i \in 1..n
    BY <2>1
  <2>3. FirstBranch(branches, e, other) = branches[i]
    BY <1>2 DEF FirstBranch, taken
  <2> QED BY <2>2, <2>3
<1>3. CASE ~\E i \in 1..n : taken(i)
  BY <1>3 DEF FirstBranch
<1> QED BY <1>2, <1>3

LEMMA FallbackHasStatus ==
    ASSUME NEW e \in Exceptions
    PROVE  Fallback(e).status \in Statuses
<1>1. CASE IsA(e, "ApiError")
  <2>1. Fallback(e).status = ApiReply[e.class][1]
    BY <1>1 DEF Fallback, PassThrough, Payload
  <2>2. e.class \in DOMAIN ApiReply
    BY <1>1, ApiErrorsAreListed
  <2>3. \A k \in DOMAIN ApiReply : ApiReply[k][1] \in Statuses
    BY DEF ApiReply, Statuses
  <2> QED BY <2>1, <2>2, <2>3
<1>2. CASE ~IsA(e, "ApiError")
  <2> DEFINE b == IF IsA(e, "DomainError") THEN FirstBranch(DomainBranches, e, ByCode(e))
                  ELSE FirstBranch(StandardBranches, e, Unexpected)
  <2>1. Fallback(e).status = b.status
    BY <1>2 DEF Fallback, Payload
  <2>2. ByCode(e).status \in Statuses /\ Unexpected.status \in Statuses
    BY DEF ByCode, Unexpected, Branch, Statuses
  <2>3. DOMAIN DomainBranches = 1..6 /\ \A i \in 1..6 : DomainBranches[i].status \in Statuses
    BY DEF DomainBranches, Branch, Statuses
  <2>4. DOMAIN StandardBranches = 1..4 /\ \A i \in 1..4 : StandardBranches[i].status \in Statuses
    BY DEF StandardBranches, Branch, Statuses
  <2>5. FirstBranch(DomainBranches, e, ByCode(e)).status \in Statuses
    <3>1. \/ FirstBranch(DomainBranches, e, ByCode(e)) = ByCode(e)
          \/ \E i \in 1..6 : FirstBranch(DomainBranches, e, ByCode(e)) = DomainBranches[i]
      BY <2>3, FirstBranchIsOne
    <3> QED BY <2>2, <2>3, <3>1, Zenon
  <2>6. FirstBranch(StandardBranches, e, Unexpected).status \in Statuses
    <3>1. \/ FirstBranch(StandardBranches, e, Unexpected) = Unexpected
          \/ \E i \in 1..4 : FirstBranch(StandardBranches, e, Unexpected) = StandardBranches[i]
      BY <2>4, FirstBranchIsOne
    <3> QED BY <2>2, <2>4, <3>1, Zenon
  <2> QED BY <2>1, <2>5, <2>6
<1> QED BY <1>1, <1>2

-----------------------------------------------------------------------------
(* The order of the tests: the first branch taken is the one for the most  *)
(* specific class.                                                         *)
Branches == ToSet(DomainBranches) \cup ToSet(StandardBranches)

Ruled == {"ValidationError", "ActorRequiredError", "InvalidActorError", "TenantRequiredError",
          "InvalidTenantError", "InvalidCorrelationIdError", "PermissionDeniedError",
          "AuthorizationError", "ValueError", "TypeError", "KeyError", "PermissionError"}

DomainRule(k) ==
    IF k = "ValidationError" THEN 1
    ELSE IF k \in {"ActorRequiredError", "InvalidActorError"} THEN 2
    ELSE IF k \in {"TenantRequiredError", "InvalidTenantError"} THEN 3
    ELSE IF k = "InvalidCorrelationIdError" THEN 4
    ELSE IF k = "PermissionDeniedError" THEN 5
    ELSE IF k = "AuthorizationError" THEN 6 ELSE 0

StandardRule(k) ==
    IF k = "ValueError" THEN 1 ELSE IF k = "TypeError" THEN 2
    ELSE IF k = "KeyError" THEN 3 ELSE IF k = "PermissionError" THEN 4 ELSE 0

Rule(k) ==
    IF DomainRule(k) # 0 THEN DomainBranches[DomainRule(k)] ELSE StandardBranches[StandardRule(k)]

(* The nearest class above k that is tested for, if any is. *)
Nearest(k) == IF k = "UnicodeError" THEN "ValueError" ELSE k

LEMMA DomainClasses ==
    /\ DOMAIN DomainBranches = 1..6
    /\ \A i \in 1..6 : \A k : k \in DomainBranches[i].classes <=> DomainRule(k) = i
<1>1. DOMAIN DomainBranches = 1..6
  BY DEF DomainBranches
<1>2. /\ DomainBranches[1].classes = {"ValidationError"}
      /\ DomainBranches[2].classes = {"ActorRequiredError", "InvalidActorError"}
      /\ DomainBranches[3].classes = {"TenantRequiredError", "InvalidTenantError"}
      /\ DomainBranches[4].classes = {"InvalidCorrelationIdError"}
      /\ DomainBranches[5].classes = {"PermissionDeniedError"}
      /\ DomainBranches[6].classes = {"AuthorizationError"}
  BY DEF DomainBranches, Branch
<1>3. \A i \in 1..6 : i \in {1, 2, 3, 4, 5, 6}
  OBVIOUS
<1>4. \A k : /\ k \in DomainBranches[1].classes <=> DomainRule(k) = 1
             /\ k \in DomainBranches[2].classes <=> DomainRule(k) = 2
             /\ k \in DomainBranches[3].classes <=> DomainRule(k) = 3
             /\ k \in DomainBranches[4].classes <=> DomainRule(k) = 4
             /\ k \in DomainBranches[5].classes <=> DomainRule(k) = 5
             /\ k \in DomainBranches[6].classes <=> DomainRule(k) = 6
  BY <1>2 DEF DomainRule
<1> QED BY <1>1, <1>3, <1>4

LEMMA StandardClasses ==
    /\ DOMAIN StandardBranches = 1..4
    /\ \A i \in 1..4 : \A k : k \in StandardBranches[i].classes <=> StandardRule(k) = i
<1>1. DOMAIN StandardBranches = 1..4
  BY DEF StandardBranches
<1>2. /\ StandardBranches[1].classes = {"ValueError"}
      /\ StandardBranches[2].classes = {"TypeError"}
      /\ StandardBranches[3].classes = {"KeyError"}
      /\ StandardBranches[4].classes = {"PermissionError"}
  BY DEF StandardBranches, Branch
<1>3. \A i \in 1..4 : i \in {1, 2, 3, 4}
  OBVIOUS
<1>4. \A k : /\ k \in StandardBranches[1].classes <=> StandardRule(k) = 1
             /\ k \in StandardBranches[2].classes <=> StandardRule(k) = 2
             /\ k \in StandardBranches[3].classes <=> StandardRule(k) = 3
             /\ k \in StandardBranches[4].classes <=> StandardRule(k) = 4
  BY <1>2 DEF StandardRule
<1> QED BY <1>1, <1>3, <1>4

(* A class is tested for by one branch only. *)
LEMMA RulesAre ==
    /\ \A b \in Branches : \A k \in b.classes : k \in Ruled /\ b = Rule(k)
    /\ \A k \in Ruled : Rule(k) \in Branches /\ k \in Rule(k).classes
<1>1. /\ ToSet(DomainBranches) = {DomainBranches[i] : i \in 1..6}
      /\ ToSet(StandardBranches) = {StandardBranches[i] : i \in 1..4}
  BY DomainClasses, StandardClasses DEF ToSet
<1>2. \A k : /\ DomainRule(k) \in 1..6 => k \in Ruled
             /\ StandardRule(k) \in 1..4 => k \in Ruled /\ DomainRule(k) = 0
  BY DEF DomainRule, StandardRule, Ruled
<1>3. \A k \in Ruled : \/ DomainRule(k) \in 1..6
                       \/ DomainRule(k) = 0 /\ StandardRule(k) \in 1..4
  BY DEF DomainRule, StandardRule, Ruled
<1>4. ASSUME NEW b \in Branches, NEW k \in b.classes PROVE k \in Ruled /\ b = Rule(k)
  <2>1. CASE b \in ToSet(DomainBranches)
    <3>1. PICK i \in 1..6 : b = DomainBranches[i]
      BY <1>1, <2>1
    <3>2. DomainRule(k) = i
      BY <3>1, DomainClasses
    <3> QED BY <1>2, <3>1, <3>2 DEF Rule
  <2>2. CASE b \in ToSet(StandardBranches)
    <3>1. PICK i \in 1..4 : b = StandardBranches[i]
      BY <1>1, <2>2
    <3>2. StandardRule(k) = i
      BY <3>1, StandardClasses
    <3> QED BY <1>2, <3>1, <3>2 DEF Rule
  <2> QED BY <2>1, <2>2 DEF Branches
<1>5. ASSUME NEW k \in Ruled PROVE Rule(k) \in Branches /\ k \in Rule(k).classes
  <2>1. CASE DomainRule(k) \in 1..6
    <3>1. Rule(k) = DomainBranches[DomainRule(k)]
      BY <2>1 DEF Rule
    <3> QED BY <1>1, <2>1, <3>1, DomainClasses DEF Branches
  <2>2. CASE DomainRule(k) = 0 /\ StandardRule(k) \in 1..4
    <3>1. Rule(k) = StandardBranches[StandardRule(k)]
      BY <2>2 DEF Rule
    <3> QED BY <1>1, <2>2, <3>1, StandardClasses DEF Branches
  <2> QED BY <1>3, <2>1, <2>2
<1> QED BY <1>4, <1>5

(* Which of the classes above k are tested for. *)
LEMMA RuledAbove ==
    ASSUME NEW k \in Classes
    PROVE  Ancestors[k] \cap Ruled =
             IF k = "PermissionDeniedError" THEN {"PermissionDeniedError", "AuthorizationError"}
             ELSE IF Nearest(k) \in Ruled THEN {Nearest(k)} ELSE {}
<1>1. Ancestors[k] = {k, Above(k), Above(Above(k)), Above(Above(Above(k)))}
  BY DEF Ancestors
<1>2. \A x \in Classes : /\ Above(x) \in Ruled => x \in {"PermissionDeniedError", "UnicodeError"}
                        /\ Above(Above(x)) \notin Ruled
  <2>1. \A x \in Classes : Above(x) \in Ruled => x \in {"PermissionDeniedError", "UnicodeError"}
    BY DEF Classes, Parent, Above, Ruled
  <2>2. Above("PermissionDeniedError") = "AuthorizationError" /\ Above("UnicodeError") = "ValueError"
    BY DEF Parent, Above
  <2>3. \A x \in Classes : Above(x) # "PermissionDeniedError" /\ Above(x) # "UnicodeError"
    BY DEF Classes, Parent, Above
  <2> QED BY <2>1, <2>3, TopIsNear
<1>3. Above("PermissionDeniedError") = "AuthorizationError" /\ Above("UnicodeError") = "ValueError"
  BY DEF Parent, Above
<1>4. "Exception" \notin Ruled /\ "UnicodeError" \notin Ruled /\ "ValueError" \in Ruled
      /\ "PermissionDeniedError" \in Ruled /\ "AuthorizationError" \in Ruled
  BY DEF Ruled
<1>5. Above(Above(k)) \notin Ruled /\ Above(Above(Above(k))) \notin Ruled
  BY <1>2, <1>4, TopIsNear
<1>6. Ancestors[k] \cap Ruled = {k, Above(k)} \cap Ruled
  BY <1>1, <1>5
<1>7. CASE k = "PermissionDeniedError"
  BY <1>3, <1>4, <1>6, <1>7
<1>8. CASE k = "UnicodeError"
  BY <1>3, <1>4, <1>6, <1>8 DEF Nearest
<1>9. CASE k # "PermissionDeniedError" /\ k # "UnicodeError"
  <2>1. Above(k) \notin Ruled /\ Nearest(k) = k
    BY <1>2, <1>9 DEF Nearest
  <2> QED BY <1>6, <1>9, <2>1
<1> QED BY <1>7, <1>8, <1>9

LEMMA NearestDecides ==
    ASSUME NEW e, e.class \in Classes
    PROVE  Reference(e) = IF Nearest(e.class) \in Ruled THEN Rule(Nearest(e.class))
                          ELSE IF IsA(e, "DomainError") THEN ByCode(e) ELSE Unexpected
<1> DEFINE k == e.class
           ruled == {l \in Ancestors[k] : \E b \in Branches : l \in b.classes}
           first == CHOOSE l \in ruled : \A m \in ruled : m \in Ancestors[l]
           branch == CHOOSE b \in Branches : first \in b.classes
<1>1. Reference(e) = IF ruled # {} THEN branch
                     ELSE IF IsA(e, "DomainError") THEN ByCode(e) ELSE Unexpected
  BY DEF Reference, Branches
<1>2. ruled = Ancestors[k] \cap Ruled
  BY RulesAre
<1> HIDE DEF ruled, k
<1>3. k \in Classes
  BY DEF k
<1>4. CASE Nearest(k) \notin Ruled
  <2>1. ruled = {}
    BY <1>2, <1>3, <1>4, RuledAbove DEF Nearest, Ruled
  <2> QED BY <1>1, <1>4, <2>1 DEF k
<1>5. CASE Nearest(k) \in Ruled
  <2> DEFINE n == Nearest(k)
  <2>1. n \in ruled /\ \A m \in ruled : m \in Ancestors[n]
    <3>1. CASE k = "PermissionDeniedError"
      <4>1. ruled = {"PermissionDeniedError", "AuthorizationError"} /\ n = k
        BY <1>2, <1>3, <3>1, RuledAbove DEF Nearest
      <4>2. ruled \subseteq Ancestors[k]
        BY <1>2
      <4> QED BY <3>1, <4>1, <4>2
    <3>2. CASE k # "PermissionDeniedError"
      <4>1. ruled = {n}
        BY <1>2, <1>3, <1>5, <3>2, RuledAbove
      <4>2. n \in Classes
        BY <1>5 DEF Ruled, Classes, Parent
      <4>3. n \in Ancestors[n]
        BY <4>2 DEF Ancestors
      <4> QED BY <4>1, <4>3
    <3> QED BY <3>1, <3>2
  <2>2. \A l \in ruled : (\A m \in ruled : m \in Ancestors[l]) => l = n
    <3>1. CASE k = "PermissionDeniedError"
      <4>1. ruled = {"PermissionDeniedError", "AuthorizationError"} /\ n = "PermissionDeniedError"
        BY <1>2, <1>3, <3>1, RuledAbove DEF Nearest
      <4>2. "PermissionDeniedError" \notin Ancestors["AuthorizationError"]
        <5>1. "AuthorizationError" \in Classes
          BY DEF Classes, Parent
        <5>2. Ancestors["AuthorizationError"] \cap Ruled = {"AuthorizationError"}
          BY <5>1, RuledAbove DEF Nearest, Ruled
        <5>3. "PermissionDeniedError" \in Ruled
          BY DEF Ruled
        <5> QED BY <5>2, <5>3
      <4> QED BY <4>1, <4>2
    <3>2. CASE k # "PermissionDeniedError"
      <4>1. ruled = {n}
        BY <1>2, <1>3, <1>5, <3>2, RuledAbove
      <4> QED BY <4>1
    <3> QED BY <3>1, <3>2
  <2> HIDE DEF n
  <2>3. first = n
    BY <2>1, <2>2
  <2>4. n \in Ruled
    BY <1>5 DEF n
  <2> HIDE DEF first
  <2>5. branch = Rule(n)
    <3>1. Rule(n) \in Branches /\ n \in Rule(n).classes
      BY <2>4, RulesAre
    <3>2. \A b \in Branches : n \in b.classes => b = Rule(n)
      BY RulesAre
    <3> QED BY <2>3, <3>1, <3>2
  <2> HIDE DEF branch
  <2>6. ruled # {}
    BY <2>1
  <2> QED BY <1>1, <1>5, <2>5, <2>6 DEF n, k
<1> QED BY <1>4, <1>5

(* FirstBranch takes the first branch of which the test succeeds. *)
LEMMA FirstBranchIs ==
    ASSUME NEW e, NEW other, NEW branches, DOMAIN branches = 1..4 \/ DOMAIN branches = 1..6,
           NEW i \in DOMAIN branches, Ancestors[e.class] \cap branches[i].classes # {},
           \A j \in 1..(i - 1) : Ancestors[e.class] \cap branches[j].classes = {}
    PROVE  FirstBranch(branches, e, other) = branches[i]
<1> PICK n \in {4, 6} : DOMAIN branches = 1..n
  OBVIOUS
<1> DEFINE taken(j) == Ancestors[e.class] \cap branches[j].classes # {}
           First(j) == taken(j) /\ \A l \in 1..(j - 1) : ~taken(l)
<1>1. taken(i) /\ \A j \in 1..(i - 1) : ~taken(j)
  OBVIOUS
<1>2. FirstBranch(branches, e, other) =
        IF \E j \in 1..n : taken(j) THEN branches[CHOOSE j \in 1..n : First(j)] ELSE other
  BY DEF FirstBranch
<1> HIDE DEF taken
<1>3. First(i)
  BY <1>1
<1>4. \A j \in 1..n : First(j) => j = i
  <2> SUFFICES ASSUME NEW j \in 1..n, First(j), j # i PROVE FALSE
    OBVIOUS
  <2>1. j < i \/ i < j
    OBVIOUS
  <2>2. j < i => j \in 1..(i - 1)
    OBVIOUS
  <2>3. i < j => i \in 1..(j - 1)
    OBVIOUS
  <2> QED BY <1>1, <2>1, <2>2, <2>3
<1> HIDE DEF First
<1>5. (CHOOSE j \in 1..n : First(j)) = i
  BY <1>3, <1>4
<1> QED BY <1>1, <1>2, <1>5

LEMMA FirstBranchIsOther ==
    ASSUME NEW e, NEW other, NEW branches,
           \A j \in DOMAIN branches : Ancestors[e.class] \cap branches[j].classes = {}
    PROVE  FirstBranch(branches, e, other) = other
  BY DEF FirstBranch

(* The order in which the branches are tested shadows none of them. *)
LEMMA NoBranchIsShadowed ==
    ASSUME NEW e, e.class \in Classes
    PROVE  (IF IsA(e, "DomainError") THEN FirstBranch(DomainBranches, e, ByCode(e))
            ELSE FirstBranch(StandardBranches, e, Unexpected)) = Reference(e)
<1> DEFINE k == e.class
           n == Nearest(k)
           above == Ancestors[k] \cap Ruled
<1>0. \A i \in 1..6 : i \in Nat
  OBVIOUS
<1>1. k \in Classes
  OBVIOUS
<1>2. above = IF k = "PermissionDeniedError" THEN {"PermissionDeniedError", "AuthorizationError"}
              ELSE IF n \in Ruled THEN {n} ELSE {}
  BY <1>1, RuledAbove
<1>3. \A l : /\ DomainRule(l) \in 1..6 => l \in Ruled
             /\ StandardRule(l) \in 1..4 => l \in Ruled
  BY DEF DomainRule, StandardRule, Ruled
<1>4. \A i \in 1..6 : \A l : l \in Ancestors[k] \cap DomainBranches[i].classes
                               <=> l \in above /\ DomainRule(l) = i
  BY <1>3, DomainClasses
<1>5. \A i \in 1..4 : \A l : l \in Ancestors[k] \cap StandardBranches[i].classes
                               <=> l \in above /\ StandardRule(l) = i
  BY <1>3, StandardClasses
<1>6. Reference(e) = IF n \in Ruled THEN Rule(n)
                     ELSE IF IsA(e, "DomainError") THEN ByCode(e) ELSE Unexpected
  BY NearestDecides
<1>7. n \in Ruled => (IsA(e, "DomainError") <=> DomainRule(n) # 0)
  <2>1. Ancestors[k] = {k, Above(k), Above(Above(k)), Above(Above(Above(k)))}
    BY <1>1 DEF Ancestors
  <2>2. IsA(e, "DomainError") <=> "DomainError" \in Ancestors[k]
    BY DEF IsA
  <2> HIDE DEF k
  <2>3. n \in Ruled => ("DomainError" \in {k, Above(k), Above(Above(k)), Above(Above(Above(k)))}
                          <=> DomainRule(n) # 0)
    <3> SUFFICES ASSUME n \in Ruled
                 PROVE  "DomainError" \in {k, Above(k), Above(Above(k)), Above(Above(Above(k)))}
                          <=> DomainRule(n) # 0
      OBVIOUS
    <3> DEFINE standard == {"ValueError", "UnicodeError", "TypeError", "KeyError", "PermissionError"}
    <3>1. k \in standard \/ k \in Ruled \ standard
      BY DEF Nearest, Ruled
    <3>2. CASE k \in standard
      <4>1. DomainRule(n) = 0
        BY <3>2 DEF Nearest, DomainRule
      <4>2. Above(k) = "Exception" \/ Above(k) = "ValueError"
        BY <3>2 DEF Parent, Above
      <4>3. Above("Exception") = "Exception" /\ Above("ValueError") = "Exception"
        BY DEF Parent, Above
      <4> QED BY <3>2, <4>1, <4>2, <4>3
    <3>3. CASE k \in Ruled \ standard
      <4>1. DomainRule(n) # 0
        BY <3>3 DEF Nearest, DomainRule, Ruled
      <4>2. Above(k) \in {"DomainError", "ContextError", "AuthorizationError"}
        BY <3>3 DEF Parent, Above, Ruled
      <4>3. Above("ContextError") = "DomainError" /\ Above("AuthorizationError") = "DomainError"
        BY DEF Parent, Above
      <4> QED BY <4>1, <4>2, <4>3
    <3> QED BY <3>1, <3>2, <3>3
  <2> QED BY <2>1, <2>2, <2>3
<1>8. ASSUME n \notin Ruled
      PROVE  /\ FirstBranch(DomainBranches, e, ByCode(e)) = ByCode(e)
             /\ FirstBranch(StandardBranches, e, Unexpected) = Unexpected
  <2>1. above = {}
    BY <1>2, <1>8 DEF Nearest, Ruled
  <2> HIDE DEF above
  <2>2. \A i \in 1..6 : Ancestors[k] \cap DomainBranches[i].classes = {}
    BY <1>4, <2>1
  <2>3. \A i \in 1..4 : Ancestors[k] \cap StandardBranches[i].classes = {}
    BY <1>5, <2>1
  <2> QED BY <2>2, <2>3, DomainClasses, StandardClasses, FirstBranchIsOther
<1>9. ASSUME n \in Ruled, DomainRule(n) # 0
      PROVE  FirstBranch(DomainBranches, e, ByCode(e)) = Rule(n)
  <2> DEFINE i == DomainRule(n)
  <2>1. i \in 1..6 /\ Rule(n) = DomainBranches[i]
    BY <1>9 DEF DomainRule, Rule
  <2>2. n \in above /\ \A l \in above : DomainRule(l) = i \/ DomainRule(l) > i
    BY <1>2, <1>9 DEF Nearest, DomainRule
  <2> HIDE DEF above, n, k
  <2>3. Ancestors[k] \cap DomainBranches[i].classes # {}
    BY <1>4, <2>1, <2>2
  <2> HIDE DEF i
  <2>4. ASSUME NEW j \in 1..(i - 1) PROVE Ancestors[k] \cap DomainBranches[j].classes = {}
    <3>1. j \in 1..6 /\ j < i
      BY <2>1
    <3>2. \A l \in above : DomainRule(l) # j
      BY <2>1, <2>2, <3>1
    <3> QED BY <1>4, <3>1, <3>2
  <2>5. FirstBranch(DomainBranches, e, ByCode(e)) = DomainBranches[i]
    BY <2>1, <2>3, <2>4, DomainClasses, FirstBranchIs DEF k
  <2> QED BY <2>1, <2>5
<1>10. ASSUME n \in Ruled, DomainRule(n) = 0
       PROVE  FirstBranch(StandardBranches, e, Unexpected) = Rule(n)
  <2> DEFINE i == StandardRule(n)
  <2>1. i \in 1..4 /\ Rule(n) = StandardBranches[i]
    BY <1>10 DEF DomainRule, StandardRule, Rule, Ruled
  <2>2. above = {n}
    BY <1>2, <1>10 DEF Nearest, DomainRule
  <2> HIDE DEF above, n, k
  <2>3. Ancestors[k] \cap StandardBranches[i].classes # {}
    BY <1>5, <2>1, <2>2
  <2>4. ASSUME NEW j \in 1..(i - 1) PROVE Ancestors[k] \cap StandardBranches[j].classes = {}
    <3>1. j \in 1..4 /\ j # i
      BY <2>1
    <3> QED BY <1>5, <2>2, <3>1
  <2> HIDE DEF i
  <2>5. FirstBranch(StandardBranches, e, Unexpected) = StandardBranches[i]
    BY <2>1, <2>3, <2>4, StandardClasses, FirstBranchIs DEF k
  <2> QED BY <2>1, <2>5
<1> QED BY <1>6, <1>7, <1>8, <1>9, <1>10

-----------------------------------------------------------------------------
(* What a payload says. *)
PayloadOf(e, p) ==
    /\ p.id = "none" <=> ~e.id /\ ~e.own
    /\ IF IsA(e, "ApiError") THEN p.text = "message" /\ (e.code = "own" => p.code = "own")
       ELSE <<p.status, p.code, p.text>> =
                <<Reference(e).status, Reference(e).code, Reference(e).text>>

LEMMA FallbackIsRight ==
    ASSUME NEW e \in Exceptions PROVE PayloadOf(e, Fallback(e))
<1>1. e.class \in Classes /\ e.id \in BOOLEAN /\ e.own \in BOOLEAN
  BY DEF Exceptions
<1>2. CallId(e) = "none" <=> ~e.id
  BY DEF CallId
<1>3. CASE IsA(e, "ApiError")
  <2>1. Fallback(e) = PassThrough(e)
    BY <1>3 DEF Fallback
  <2>2. /\ PassThrough(e).text = "message"
        /\ e.code = "own" => PassThrough(e).code = "own"
        /\ PassThrough(e).id = IF e.own THEN "own" ELSE CallId(e)
    BY DEF PassThrough, Payload
  <2>3. Fallback(e).id = "none" <=> ~e.id /\ ~e.own
    BY <1>2, <2>1, <2>2
  <2> QED BY <1>3, <2>1, <2>2, <2>3 DEF PayloadOf
<1>4. CASE ~IsA(e, "ApiError")
  <2> DEFINE b == IF IsA(e, "DomainError") THEN FirstBranch(DomainBranches, e, ByCode(e))
                  ELSE FirstBranch(StandardBranches, e, Unexpected)
  <2>1. Fallback(e) = Payload(b.status, b.code, CallId(e), b.text)
    BY <1>4 DEF Fallback
  <2>2. b = Reference(e)
    BY <1>1, NoBranchIsShadowed
  <2> HIDE DEF b
  <2>3. /\ Fallback(e).status = b.status /\ Fallback(e).code = b.code
        /\ Fallback(e).text = b.text /\ Fallback(e).id = CallId(e)
    BY <2>1 DEF Payload
  <2>4. ~e.own
    <3>1. \A k \in DOMAIN ApiReply : "ApiError" \in {k, Above(k)} /\ k \in Classes
      BY DEF ApiReply, Above, Parent, Classes
    <3>2. e.class \in DOMAIN ApiReply => IsA(e, "ApiError")
      BY <3>1 DEF Ancestors, IsA
    <3>3. e.own => e.class \in DOMAIN ApiReply
      BY DEF Exceptions
    <3> QED BY <1>4, <3>2, <3>3
  <2> QED BY <1>2, <1>4, <2>2, <2>3, <2>4 DEF PayloadOf
<1> QED BY <1>3, <1>4

-----------------------------------------------------------------------------
(* The dicts: a type is in one once, and stays where it was put first. *)
DictOf(o) ==
    /\ mappers[o] \in Seq(Types)
    /\ \A i, j \in 1..Len(mappers[o]) : mappers[o][i] = mappers[o][j] => i = j
    /\ \A t \in Types : version[o][t] > 0 <=> \E i \in 1..Len(mappers[o]) : mappers[o][i] = t

DictInv ==
    /\ registrations \in 0..MaxRegistrations
    /\ version \in [Mappers -> [Types -> 0..registrations]]
    /\ DOMAIN mappers = Mappers
    /\ \A o \in Mappers : DictOf(o)

(* What happens to a dict in a step: it grows, and so do its versions. *)
DictGrows(o) ==
    /\ Len(mappers[o]) <= Len(mappers'[o])
    /\ \A i \in 1..Len(mappers[o]) : mappers'[o][i] = mappers[o][i]
    /\ \A t \in Types : version[o][t] <= version'[o][t]

(* No type among the first n of the dict matches the exception of c. *)
NoneOf(c, n) == \A i \in 1..n : ~IsA(exc[c], mappers[self[c]][i])

(* A walk has passed only types that do not match, chose the first that    *)
(* does, and classifies only after it has passed all it knew of.           *)
Walking(c) ==
    /\ self[c] \in Mappers /\ exc[c] \in Exceptions
    /\ index[c] \in 0..size[c] /\ size[c] \in 0..Len(mappers[self[c]])
    /\ pc[c] = "scan" => chosen[c] = <<>>
    /\ reply[c] # "PENDING" => pc[c] = "done"
    /\ chosen[c] = <<>> => NoneOf(c, index[c])
    /\ chosen[c] # <<>> =>
          /\ chosen[c] \in Types \X (1..registrations)
          /\ \E i \in 1..size[c] : /\ mappers[self[c]][i] = chosen[c][1]
                                  /\ IsA(exc[c], mappers[self[c]][i])
                                  /\ NoneOf(c, i - 1)
    /\ reply[c] = "PAYLOAD" => NoneOf(c, size[c])
    /\ payload[c] = IF reply[c] = "PAYLOAD" THEN <<Fallback(exc[c])>> ELSE <<>>

WalkOf(c) ==
    IF pc[c] = "start"
    THEN /\ index[c] = 0 /\ size[c] = 0 /\ chosen[c] = <<>>
         /\ reply[c] = "PENDING" /\ payload[c] = <<>>
    ELSE Walking(c)

CallsTyped ==
    /\ pc \in [Calls -> {"start", "scan", "calling", "done"}]
    /\ reply \in [Calls -> {"PENDING", "CUSTOM", "MAPPER_ERROR", "RUNTIME_ERROR", "PAYLOAD"}]
    /\ DOMAIN self = Calls /\ DOMAIN exc = Calls /\ DOMAIN index = Calls
    /\ DOMAIN size = Calls /\ DOMAIN chosen = Calls /\ DOMAIN payload = Calls

MapperInv == DictInv /\ CallsTyped /\ \A c \in Calls : WalkOf(c)

LEMMA RegisterKeepsOrder ==
    ASSUME DictInv, NEW o \in Mappers, NEW t \in Types, RegisterMapper(o, t)
    PROVE  /\ DictInv' /\ \A m \in Mappers : DictGrows(m)
           /\ registrations' = registrations + 1 /\ version'[o][t] = registrations'
<1> DEFINE old == mappers[o]
           new == mappers'[o]
           n == Len(old)
<1>1. /\ DictOf(o) /\ old \in Seq(Types) /\ n \in Nat /\ registrations \in Nat
      /\ registrations' = registrations + 1 /\ registrations' \in 0..MaxRegistrations
  BY BoundAssumption DEF DictInv, DictOf, RegisterMapper, Put
<1>2. /\ version' \in [Mappers -> [Types -> 0..registrations']]
      /\ version'[o][t] = registrations' /\ version'[o][t] > 0
      /\ \A u \in Types : u # t => version'[o][u] = version[o][u]
      /\ \A m \in Mappers : m # o => version'[m] = version[m]
      /\ \A m \in Mappers, u \in Types : version[m][u] <= version'[m][u]
  BY <1>1 DEF DictInv, RegisterMapper, Put
<1>3. /\ DOMAIN mappers' = Mappers
      /\ new = IF \E i \in 1..n : old[i] = t THEN old ELSE Append(old, t)
      /\ \A m \in Mappers : m # o => mappers'[m] = mappers[m]
  BY DEF DictInv, RegisterMapper, Put, Contains
<1>4. /\ \A i, j \in 1..n : old[i] = old[j] => i = j
      /\ \A u \in Types : version[o][u] > 0 <=> \E i \in 1..n : old[i] = u
  BY <1>1, Zenon DEF DictOf
<1>5. DictOf(o)' /\ n <= Len(new) /\ \A i \in 1..n : new[i] = old[i]
  <2>1. CASE \E i \in 1..n : old[i] = t
    <3>1. new = old
      BY <1>3, <2>1
    <3>2. \A u \in Types : version'[o][u] > 0 <=> \E i \in 1..n : old[i] = u
      <4> TAKE u \in Types
      <4>1. CASE u = t
        BY <1>2, <2>1, <4>1, Zenon
      <4>2. CASE u # t
        BY <1>2, <1>4, <4>2, Zenon
      <4> QED BY <4>1, <4>2
    <3>3. DictOf(o)'
      BY <1>1, <1>4, <3>1, <3>2, Zenon DEF DictOf
    <3> QED BY <1>1, <3>1, <3>3
  <2>2. CASE ~\E i \in 1..n : old[i] = t
    <3>1. new = Append(old, t)
      BY <1>3, <2>2
    <3> HIDE DEF old, new
    <3>2. /\ new \in Seq(Types) /\ Len(new) = n + 1 /\ new[n + 1] = t
          /\ \A i \in 1..n : new[i] = old[i]
      BY <1>1, <3>1
    <3>3. /\ \A i \in 1..(n + 1) : i \in 1..n \/ i = n + 1
          /\ n + 1 \in 1..(n + 1) /\ 1..n \subseteq 1..(n + 1) /\ n <= n + 1
      BY <1>1
    <3> HIDE DEF n
    <3>4. \A i, j \in 1..(n + 1) : new[i] = new[j] => i = j
      <4> TAKE i, j \in 1..(n + 1)
      <4> HAVE new[i] = new[j]
      <4>1. CASE i \in 1..n /\ j \in 1..n
        BY <1>4, <3>2, <4>1
      <4>2. CASE i = n + 1 /\ j = n + 1
        BY <4>2
      <4>3. CASE i \in 1..n /\ j = n + 1
        BY <2>2, <3>2, <4>3
      <4>4. CASE i = n + 1 /\ j \in 1..n
        BY <2>2, <3>2, <4>4
      <4> QED BY <3>3, <4>1, <4>2, <4>3, <4>4
    <3>5. \A u \in Types : version'[o][u] > 0 <=> \E i \in 1..(n + 1) : new[i] = u
      <4> TAKE u \in Types
      <4>1. CASE u = t
        BY <1>2, <3>2, <3>3, <4>1
      <4>2. CASE u # t
        BY <1>2, <1>4, <3>2, <3>3, <4>2
      <4> QED BY <4>1, <4>2
    <3> QED BY <3>2, <3>3, <3>4, <3>5 DEF DictOf, new
  <2> QED BY <2>1, <2>2
<1>6. ASSUME NEW m \in Mappers PROVE DictOf(m)' /\ DictGrows(m)
  <2>1. CASE m = o
    BY <1>2, <1>5, <2>1 DEF DictGrows
  <2>2. CASE m # o
    <3>1. mappers'[m] = mappers[m] /\ version'[m] = version[m]
      BY <1>2, <1>3, <2>2
    <3>2. DictOf(m)
      BY DEF DictInv
    <3>3. Len(mappers[m]) \in Nat
      BY <3>2 DEF DictOf
    <3> QED BY <1>2, <3>1, <3>2, <3>3 DEF DictOf, DictGrows
  <2> QED BY <2>1, <2>2
<1>7. DictInv'
  BY <1>1, <1>2, <1>3, <1>6 DEF DictInv
<1> QED BY <1>1, <1>2, <1>6, <1>7

(* What a registration leaves of the walks. *)
LEMMA WalksSurviveRegistration ==
    ASSUME MapperInv, NEW o \in Mappers, NEW t \in Types, RegisterMapper(o, t), NEW c \in Calls
    PROVE  WalkOf(c)'
<1>1. UNCHANGED <<self, exc, pc, size, index, chosen, reply, payload>> /\ WalkOf(c)
  BY DEF MapperInv, RegisterMapper, Put
<1>2. CASE pc[c] = "start"
  BY <1>1, <1>2 DEF WalkOf
<1>3. CASE pc[c] # "start"
  <2> DEFINE old == mappers[self[c]]
             new == mappers'[self[c]]
  <2>1. Walking(c)
    BY <1>1, <1>3 DEF WalkOf
  <2>2. /\ DictInv /\ DictInv' /\ registrations' = registrations + 1
        /\ \A m \in Mappers : DictGrows(m)
    BY RegisterKeepsOrder DEF MapperInv
  <2>3. /\ Len(old) \in Nat /\ Len(new) \in Nat /\ Len(old) <= Len(new)
        /\ \A i \in 1..Len(old) : new[i] = old[i]
        /\ registrations \in Nat
    <3>1. self[c] \in Mappers
      BY <2>1 DEF Walking
    <3>2. DictOf(self[c]) /\ DictOf(self[c])' /\ DictGrows(self[c]) /\ registrations \in Nat
      BY <1>1, <2>2, <3>1, BoundAssumption DEF DictInv
    <3>3. self'[c] = self[c]
      BY <1>1
    <3>4. old \in Seq(Types) /\ new \in Seq(Types)
      BY <3>2, <3>3 DEF DictOf
    <3> QED BY <3>2, <3>4 DEF DictGrows
  <2>4. /\ index[c] \in 0..size[c] /\ size[c] \in 0..Len(old) /\ size[c] \in 0..Len(new)
    BY <2>1, <2>3 DEF Walking
  <2>5. \A i \in 1..size[c] : new[i] = old[i]
    BY <2>3, <2>4
  <2>6. \A n \in 0..size[c] : NoneOf(c, n)' <=> NoneOf(c, n)
    <3> TAKE n \in 0..size[c]
    <3>1. \A i \in 1..n : i \in 1..size[c]
      BY <2>4
    <3> QED BY <1>1, <2>5, <3>1, Zenon DEF NoneOf
  <2>7. (\A i \in 1..size[c] : i - 1 \in 0..size[c]) /\ size[c] \in 0..size[c]
    BY <2>4
  <2>8. chosen[c] # <<>> =>
            \E i \in 1..size[c] : /\ new[i] = chosen[c][1]
                                 /\ IsA(exc[c], new[i])
                                 /\ NoneOf(c, i - 1)'
    BY <2>1, <2>5, <2>6, <2>7, Zenon DEF Walking
  <2>9. /\ chosen[c] = <<>> => NoneOf(c, index[c])'
        /\ reply[c] = "PAYLOAD" => NoneOf(c, size[c])'
    <3>1. NoneOf(c, index[c])' <=> NoneOf(c, index[c])
      BY <1>1, <2>4, <2>6 DEF NoneOf
    <3>2. NoneOf(c, size[c])' <=> NoneOf(c, size[c])
      BY <1>1, <2>6, <2>7 DEF NoneOf
    <3> QED BY <2>1, <3>1, <3>2 DEF Walking
  <2>10. chosen[c] # <<>> => chosen[c] \in Types \X (1..registrations')
    BY <2>1, <2>2, <2>3 DEF Walking
  <2>11. Walking(c)'
    BY <1>1, <2>1, <2>4, <2>8, <2>9, <2>10 DEF Walking
  <2> QED BY <1>1, <1>3, <2>11 DEF WalkOf
<1> QED BY <1>2, <1>3

(* One step of a call, for that call. *)
LEMMA BeginStep ==
    ASSUME MapperInv, NEW c \in Calls, NEW o \in Mappers, Begin(c, o)
    PROVE  WalkOf(c)'
<1>1. /\ pc[c] = "start" /\ pc'[c] = "scan" /\ self'[c] = o /\ exc'[c] \in Exceptions
      /\ size'[c] = Len(mappers[o])
      /\ UNCHANGED <<dicts, index, chosen, reply, payload>>
  BY DEF MapperInv, CallsTyped, Begin
<1>2. /\ index[c] = 0 /\ chosen[c] = <<>> /\ reply[c] = "PENDING" /\ payload[c] = <<>>
      /\ Len(mappers[o]) \in Nat
  BY <1>1 DEF MapperInv, WalkOf, DictInv, DictOf
<1>3. NoneOf(c, 0)'
  BY DEF NoneOf
<1> QED BY <1>1, <1>2, <1>3 DEF WalkOf, Walking, dicts

LEMMA WalkStep ==
    ASSUME MapperInv, NEW c \in Calls, Walk(c)
    PROVE  WalkOf(c)' /\ pc[c] # "start" /\ pc'[c] # "start"
<1> DEFINE types == mappers[self[c]]
           versions == version[self[c]]
<1>1. pc[c] # "start" /\ Walking(c) /\ UNCHANGED <<dicts, self, exc, size>>
  BY DEF MapperInv, WalkOf, Walk, DictChanged, NextEntry, MapperEnds, Classify
<1>2. /\ Len(types) \in Nat /\ \A i \in 1..Len(types) : types[i] \in Types
      /\ registrations \in Nat
      /\ \A t \in Types : versions[t] \in 0..registrations
      /\ \A i \in 1..Len(types) : versions[types[i]] > 0
  <2>1. /\ DictOf(self[c]) /\ types \in Seq(Types) /\ registrations \in Nat
        /\ versions \in [Types -> 0..registrations]
    BY <1>1, BoundAssumption DEF MapperInv, DictInv, DictOf, Walking
  <2> QED BY <2>1 DEF DictOf
<1>3. CallsTyped
  BY DEF MapperInv
<1>4. index[c] \in Nat /\ size[c] \in Nat /\ index[c] <= size[c] /\ size[c] <= Len(types)
  BY <1>1, <1>2 DEF Walking
<1>5. UNCHANGED <<mappers, registrations, version, self, exc, size>>
  BY <1>1 DEF dicts
<1> HIDE DEF types, versions
<1>6. \A n : NoneOf(c, n) <=> \A i \in 1..n : ~IsA(exc[c], types[i])
  BY DEF NoneOf, types
<1>7. \A n : NoneOf(c, n)' <=> NoneOf(c, n)
  BY <1>5 DEF NoneOf
<1>8. SUFFICES Walking(c)' /\ pc'[c] # "start"
  BY <1>1 DEF WalkOf
<1>9. CASE DictChanged(c)
  <2>1. /\ reply'[c] = "RUNTIME_ERROR" /\ pc'[c] = "done" /\ pc[c] = "scan"
        /\ UNCHANGED <<index, chosen, payload>>
    BY <1>3, <1>9 DEF DictChanged, Finish, CallsTyped
  <2>2. reply[c] = "PENDING" /\ chosen[c] = <<>>
    BY <1>1, <2>1 DEF Walking
  <2> QED BY <1>1, <1>5, <1>7, <2>1, <2>2 DEF Walking
<1>10. CASE NextEntry(c)
  <2> DEFINE i == index[c] + 1
             t == types[i]
  <2>1. /\ pc[c] = "scan" /\ index[c] < size[c] /\ index'[c] = i
        /\ UNCHANGED <<reply, payload>>
    BY <1>3, <1>10 DEF NextEntry, CallsTyped
  <2>2. chosen[c] = <<>> /\ reply[c] = "PENDING"
    BY <1>1, <2>1 DEF Walking
  <2>3. /\ i \in 1..size[c] /\ i \in 1..Len(types) /\ index[c] = i - 1 /\ i \in Nat
        /\ i \in 0..size[c]
    BY <1>2, <1>4, <2>1
  <2>4. t \in Types /\ versions[t] \in 1..registrations
    <3> HIDE DEF i
    <3>1. types[i] \in Types /\ versions[types[i]] > 0
      BY <1>2, <2>3
    <3>2. versions[types[i]] \in 0..registrations
      BY <1>2, <3>1
    <3> QED BY <1>2, <3>1, <3>2
  <2>5. NoneOf(c, i - 1)
    BY <1>1, <2>2, <2>3 DEF Walking
  <2>6. CASE IsA(exc[c], t)
    <3>1. chosen'[c] = <<t, versions[t]>> /\ pc'[c] = "calling"
      BY <1>3, <1>10, <2>6 DEF NextEntry, CallsTyped, types, versions
    <3> HIDE DEF i, t
    <3>2. chosen'[c] \in Types \X (1..registrations) /\ chosen'[c][1] = t /\ chosen'[c] # <<>>
      BY <2>4, <3>1
    <3>3. /\ types[i] = chosen'[c][1] /\ IsA(exc[c], types[i]) /\ NoneOf(c, i - 1)
      BY <2>5, <2>6, <3>2 DEF t
    <3> QED BY <1>1, <1>5, <1>7, <2>1, <2>2, <2>3, <3>1, <3>2, <3>3 DEF Walking, types
  <2>7. CASE ~IsA(exc[c], t)
    <3>1. chosen' = chosen /\ pc' = pc
      BY <1>10, <2>7 DEF NextEntry, types
    <3>2. NoneOf(c, i)
      <4>1. \A j \in 1..i : j \in 1..(i - 1) \/ j = i
        BY <2>3
      <4>2. \A j \in 1..(i - 1) : ~IsA(exc[c], types[j])
        BY <1>6, <2>5
      <4>3. \A j \in 1..i : ~IsA(exc[c], types[j])
        BY <2>7, <4>1, <4>2, Zenon
      <4> HIDE DEF i
      <4> QED BY <1>6, <4>3
    <3> HIDE DEF i, t
    <3> QED BY <1>1, <1>5, <1>7, <2>1, <2>2, <2>3, <3>1, <3>2 DEF Walking
  <2> QED BY <2>6, <2>7
<1>11. CASE MapperEnds(c)
  <2>1. PICK r \in {"CUSTOM", "MAPPER_ERROR"} : Finish(c, r)
    BY <1>11 DEF MapperEnds
  <2>2. reply'[c] = r /\ pc'[c] = "done" /\ pc[c] = "calling"
        /\ UNCHANGED <<index, chosen, payload>>
    BY <1>3, <1>11, <2>1 DEF MapperEnds, Finish, CallsTyped
  <2>3. reply[c] = "PENDING"
    BY <1>1, <2>2 DEF Walking
  <2> QED BY <1>1, <1>5, <1>7, <2>2, <2>3 DEF Walking
<1>12. CASE Classify(c)
  <2>1. /\ reply'[c] = "PAYLOAD" /\ pc'[c] = "done" /\ pc[c] = "scan" /\ index[c] = size[c]
        /\ UNCHANGED <<index, chosen>>
        /\ payload'[c] = <<Fallback(exc[c])>>
    BY <1>3, <1>12 DEF Classify, Finish, CallsTyped
  <2>2. chosen[c] = <<>> /\ NoneOf(c, size[c])
    BY <1>1, <2>1 DEF Walking
  <2> QED BY <1>1, <1>5, <1>7, <2>1, <2>2 DEF Walking
<1> QED BY <1>9, <1>10, <1>11, <1>12 DEF Walk

(* And for the others. *)
LEMMA OthersWalkOn ==
    ASSUME MapperInv, NEW c \in Calls, Walk(c) \/ \E o \in Mappers : Begin(c, o),
           NEW d \in Calls, d # c
    PROVE  /\ WalkOf(d)' /\ pc'[d] = pc[d] /\ self'[d] = self[d] /\ exc'[d] = exc[d]
           /\ size'[d] = size[d] /\ chosen'[d] = chosen[d] /\ reply'[d] = reply[d]
<1>1. CallsTyped /\ WalkOf(d)
  BY DEF MapperInv
<1>2. /\ pc'[d] = pc[d] /\ self'[d] = self[d] /\ exc'[d] = exc[d]
      /\ size'[d] = size[d] /\ index'[d] = index[d] /\ chosen'[d] = chosen[d]
      /\ reply'[d] = reply[d] /\ payload'[d] = payload[d]
      /\ UNCHANGED <<mappers, version, registrations>>
  BY <1>1 DEF Walk, Begin, DictChanged, NextEntry, MapperEnds, Classify, Finish, CallsTyped, dicts
<1>3. \A n : NoneOf(d, n)' <=> NoneOf(d, n)
  BY <1>2 DEF NoneOf
<1>4. Walking(d) => Walking(d)'
  BY <1>2, <1>3 DEF Walking
<1> QED BY <1>1, <1>2, <1>4 DEF WalkOf

LEMMA MapperStep == MapperInv /\ [Next]_vars => MapperInv'
<1> SUFFICES ASSUME MapperInv, [Next]_vars PROVE MapperInv'
  OBVIOUS
<1>1. DictInv /\ CallsTyped
  BY DEF MapperInv
<1>2. ASSUME NEW o \in Mappers, NEW t \in Types, RegisterMapper(o, t) PROVE MapperInv'
  <2>1. CallsTyped'
    BY <1>1, <1>2 DEF RegisterMapper, Put, CallsTyped
  <2> QED BY <1>1, <1>2, <2>1, RegisterKeepsOrder, WalksSurviveRegistration DEF MapperInv
<1>3. ASSUME NEW c \in Calls, Walk(c) \/ \E o \in Mappers : Begin(c, o) PROVE MapperInv'
  <2>1. UNCHANGED <<mappers, version, registrations>>
    BY <1>3 DEF Walk, Begin, DictChanged, NextEntry, MapperEnds, Classify, dicts
  <2>2. CallsTyped'
    BY <1>1, <1>3
    DEF Walk, Begin, DictChanged, NextEntry, MapperEnds, Classify, Finish, CallsTyped
  <2>3. \A d \in Calls : WalkOf(d)'
    BY <1>3, BeginStep, WalkStep, OthersWalkOn
  <2>4. DictInv'
    BY <1>1, <2>1 DEF DictInv, DictOf
  <2> QED BY <2>2, <2>3, <2>4 DEF MapperInv
<1>4. CASE UNCHANGED vars
  BY <1>4 DEF vars, dicts, MapperInv, DictInv, DictOf, CallsTyped, WalkOf, Walking, NoneOf
<1> QED BY <1>2, <1>3, <1>4 DEF Next

LEMMA MapperInitially == Init => MapperInv
<1> SUFFICES ASSUME Init PROVE MapperInv
  OBVIOUS
<1>1. 0 \in 0..MaxRegistrations /\ registrations = 0
  BY BoundAssumption DEF Init
<1>2. ASSUME NEW o \in Mappers PROVE DictOf(o)
  <2>1. mappers[o] = <<>> /\ Len(<<>>) = 0 /\ <<>> \in Seq(Types)
        /\ \A t \in Types : version[o][t] = 0
    BY DEF Init
  <2>2. ~\E i \in 1..Len(mappers[o]) : TRUE
    BY <2>1
  <2> QED BY <2>1, <2>2 DEF DictOf
<1>3. DictInv
  BY <1>1, <1>2 DEF Init, DictInv
<1>4. CallsTyped /\ \A c \in Calls : WalkOf(c)
  BY DEF Init, CallsTyped, WalkOf
<1> QED BY <1>3, <1>4 DEF MapperInv

LEMMA MapperInvariant == Spec => []MapperInv
  BY MapperInitially, MapperStep, PTL DEF Spec

(* Type correctness: a dict holds a type once, for any types and mapper    *)
(* objects, and a payload of the classification has a proper status.       *)
THEOREM TypeCorrect == Spec => []TypeOK
<1>1. MapperInv => TypeOK
  <2> SUFFICES ASSUME MapperInv PROVE TypeOK
    OBVIOUS
  <2>1. DictInv /\ CallsTyped /\ \A c \in Calls : WalkOf(c)
    BY DEF MapperInv
  <2>2. ASSUME NEW o \in Mappers
        PROVE  /\ mappers[o] \in Seq(Types) /\ IsInjective(mappers[o])
               /\ \A t \in Types : version[o][t] > 0 <=> Contains(mappers[o], t)
    BY <2>1 DEF DictInv, DictOf, Contains, IsInjective
  <2>3. ASSUME NEW c \in Calls
        PROVE  /\ pc[c] # "start" =>
                     /\ self[c] \in Mappers /\ exc[c] \in Exceptions
                     /\ index[c] \in 0..size[c] /\ size[c] \in 0..Len(mappers[self[c]])
               /\ chosen[c] = <<>> \/ chosen[c] \in Types \X (1..registrations)
               /\ IF reply[c] = "PAYLOAD" THEN payload[c][1].status \in Statuses
                  ELSE payload[c] = <<>>
    <3>1. CASE pc[c] = "start"
      BY <2>1, <3>1 DEF WalkOf
    <3>2. CASE pc[c] # "start"
      <4>1. Walking(c) /\ exc[c] \in Exceptions
        BY <2>1, <3>2 DEF WalkOf, Walking
      <4>2. Fallback(exc[c]).status \in Statuses
        BY <4>1, FallbackHasStatus
      <4> QED BY <4>1, <4>2 DEF Walking
    <3> QED BY <3>1, <3>2
  <2> QED BY <2>1, <2>2, <2>3 DEF TypeOK, DictInv, CallsTyped
<1> QED BY <1>1, MapperInvariant, PTL

(* The first registered type that matches decides, whatever is registered  *)
(* or replaced meanwhile; the classification is for what none matches.     *)
THEOREM FirstDecides == Spec => []FirstMatchDecides
<1>1. MapperInv => FirstMatchDecides
  BY DEF MapperInv, WalkOf, Walking, NoneOf, FirstMatchDecides
<1> QED BY <1>1, MapperInvariant, PTL

(* No isinstance test is shadowed (MostSpecificBranch): a payload of the   *)
(* classification is that of the most specific class that is tested for,   *)
(* in either mode, and carries a correlation id whenever there is one.     *)
THEOREM NothingIsShadowed == Spec => []MostSpecificBranch
<1>1. MapperInv => MostSpecificBranch
  <2> SUFFICES ASSUME MapperInv, NEW c \in Calls, reply[c] = "PAYLOAD"
               PROVE  PayloadOf(exc[c], payload[c][1])
    BY DEF MostSpecificBranch, PayloadOf
  <2>1. pc[c] # "start" /\ Walking(c)
    BY DEF MapperInv, WalkOf
  <2>2. exc[c] \in Exceptions /\ payload[c][1] = Fallback(exc[c])
    BY <2>1 DEF Walking
  <2> QED BY <2>2, FallbackIsRight
<1> QED BY <1>1, MapperInvariant, PTL

-----------------------------------------------------------------------------
(* The registries that are filled on demand: for any number of concurrent  *)
(* calls the race for the entry ends.                                      *)

(* The calls keep their types, and none reads before there is an entry. *)
LEMMA TypeStep == RegistryTypeOK /\ [RegistryNext]_entryVars => RegistryTypeOK'
<1> SUFFICES ASSUME RegistryTypeOK, [RegistryNext]_entryVars PROVE RegistryTypeOK'
  OBVIOUS
<1> USE NoObjectAssumption DEF RegistryTypeOK
<1>1. ASSUME NEW c \in Callers, Lookup(c) PROVE RegistryTypeOK'
  BY <1>1 DEF Lookup
<1>2. ASSUME NEW c \in Callers, Store(c) PROVE RegistryTypeOK'
  BY <1>2 DEF Store
<1>3. ASSUME NEW c \in Callers, Read(c) PROVE RegistryTypeOK'
  BY <1>3 DEF Read
<1>4. CASE UNCHANGED entryVars
  BY <1>4 DEF entryVars
<1> QED BY <1>1, <1>2, <1>3, <1>4 DEF RegistryNext, GetObject

(* The registry is well typed in every reachable state. *)
THEOREM RegistryTypeCorrect == RegistrySpec => []RegistryTypeOK
<1>1. RegistryInit => RegistryTypeOK
  BY NoObjectAssumption DEF RegistryInit, RegistryTypeOK
<1> QED BY <1>1, TypeStep, PTL DEF RegistrySpec

(* A settled entry stays: no step puts a caller between a failed lookup    *)
(* and its store, and only such a caller stores.                           *)
LEMMA SettledStep ==
    RegistryTypeOK /\ Settled /\ [RegistryNext]_entryVars => Settled' /\ entry' = entry
<1> SUFFICES ASSUME RegistryTypeOK, Settled, [RegistryNext]_entryVars
             PROVE  Settled' /\ entry' = entry
  OBVIOUS
<1> USE DEF RegistryTypeOK, Settled
<1>1. ASSUME NEW c \in Callers, Lookup(c) PROVE Settled' /\ entry' = entry
  BY <1>1 DEF Lookup
<1>2. ASSUME NEW c \in Callers, Store(c) PROVE FALSE
  BY <1>2 DEF Store
<1>3. ASSUME NEW c \in Callers, Read(c) PROVE Settled' /\ entry' = entry
  BY <1>3 DEF Read
<1>4. CASE UNCHANGED entryVars
  BY <1>4 DEF entryVars
<1> QED BY <1>1, <1>2, <1>3, <1>4 DEF RegistryNext, GetObject

(* The race for the entry ends for good once nobody is left to store: the  *)
(* object in the registry is never replaced again.                         *)
THEOREM RaceEnds == RegistrySpec => SettledIsFinal
<1>1. RegistryTypeOK /\ [RegistryNext]_entryVars =>
          [Settled => Settled' /\ entry' = entry]_entryVars
  BY SettledStep
<1> QED BY <1>1, RegistryTypeCorrect, PTL DEF RegistrySpec, SettledIsFinal

(* The callers that returned to a settled registry have its entry. *)
EntryInv ==
    /\ settled # {} => Settled
    /\ \A c \in settled : at[c] = "done" /\ got[c] = entry

LEMMA EntryStep ==
    RegistryTypeOK /\ EntryInv /\ [RegistryNext]_entryVars => EntryInv'
<1> SUFFICES ASSUME RegistryTypeOK, EntryInv, [RegistryNext]_entryVars PROVE EntryInv'
  OBVIOUS
<1>0. settled # {} => Settled' /\ entry' = entry
  BY SettledStep DEF EntryInv
<1>1. ASSUME NEW c \in Callers, Lookup(c) PROVE EntryInv'
  BY <1>0, <1>1 DEF Lookup, EntryInv, RegistryTypeOK
<1>2. ASSUME NEW c \in Callers, Store(c) PROVE EntryInv'
  BY <1>0, <1>2 DEF Store, EntryInv, Settled, RegistryTypeOK
<1>3. ASSUME NEW c \in Callers, Read(c) PROVE EntryInv'
  <2>1. /\ at' = [at EXCEPT ![c] = "done"] /\ got' = [got EXCEPT ![c] = entry]
        /\ entry' = entry /\ settled' = IF Settled THEN settled \cup {c} ELSE settled
    BY <1>3 DEF Read
  <2>2. Settled => Settled'
    BY SettledStep
  <2>3. settled' # {} => Settled'
    BY <1>0, <2>1, <2>2
  <2>4. \A d \in settled' : at'[d] = "done" /\ got'[d] = entry'
    BY <2>1 DEF EntryInv, RegistryTypeOK
  <2> QED BY <2>3, <2>4 DEF EntryInv
<1>4. CASE UNCHANGED entryVars
  BY <1>4 DEF entryVars, EntryInv, Settled
<1> QED BY <1>1, <1>2, <1>3, <1>4 DEF RegistryNext, GetObject

-----------------------------------------------------------------------------
(* The default mapper: its callers take steps of both parts. *)
LEMMA StepsOfBoth ==
    ASSUME RegistryTypeOK, [DefaultNext]_defaultVars
    PROVE  [RegistryNext]_entryVars /\ [Next]_vars
<1>1. CASE UNCHANGED defaultVars
  BY <1>1 DEF defaultVars
<1>2. ASSUME NEW c \in Callers, GetMapper(c) PROVE RegistryNext /\ UNCHANGED vars
  BY <1>2 DEF GetMapper, RegistryNext
<1>3. ASSUME NEW c \in Callers, at[c] = "done" PROVE got[c] \in Mappers
  BY <1>3, CallersAssumption DEF RegistryTypeOK
<1>4. ASSUME NEW c \in Callers, NEW t \in Types, Register(c, t)
      PROVE  Next /\ UNCHANGED entryVars
  BY <1>3, <1>4 DEF Register, Next
<1>5. ASSUME NEW c \in Calls, BeginMapping(c) PROVE Next /\ UNCHANGED entryVars
  <2>1. got[c] \in Mappers
    BY <1>3, <1>5, CallersAssumption DEF BeginMapping
  <2> QED BY <1>5, <2>1 DEF BeginMapping, Next
<1>6. ASSUME NEW c \in Calls, WalkOn(c) PROVE Next /\ UNCHANGED entryVars
  BY <1>6 DEF WalkOn, Next
<1> QED BY <1>1, <1>2, <1>4, <1>5, <1>6 DEF DefaultNext

(* What the settled callers were promised, the mapper they share holds: a  *)
(* mapper for each type, registered then or later; a walk knew of the type *)
(* when it began, and does not call an older mapper.                       *)
PromiseOf(c) ==
    /\ self[c] = got[c]
    /\ \A t \in Types :
          /\ promised[c][t] <= version[self[c]][t]
          /\ promised[c][t] > 0 => \E i \in 1..size[c] : mappers[self[c]][i] = t
    /\ chosen[c] # <<>> => promised[c][chosen[c][1]] <= chosen[c][2]

PromiseInv ==
    /\ made \in [Types -> Nat]
    /\ \A t \in Types : made[t] > 0 => settled # {} /\ made[t] <= version[entry][t]
    /\ promised \in [Calls -> [Types -> Nat]]
    /\ \A c \in Calls : pc[c] # "start" => at[c] = "done"
    /\ \A c \in Calls \cap settled : pc[c] # "start" => PromiseOf(c)

DefaultInv == MapperInv /\ RegistryTypeOK /\ EntryInv /\ PromiseInv

(* The mapper of the settled callers is a mapper object. *)
LEMMA SharedMapper ==
    ASSUME DefaultInv
    PROVE  /\ settled # {} => entry \in Mappers
           /\ \A c \in settled : c \in Callers /\ at[c] = "done" /\ got[c] = entry
  BY CallersAssumption DEF DefaultInv, EntryInv, Settled, RegistryTypeOK

LEMMA RegisterKeepsPromises ==
    ASSUME DefaultInv, NEW c \in Callers, NEW t \in Types, Register(c, t)
    PROVE  PromiseInv'
<1>1. /\ at[c] = "done" /\ RegisterMapper(got[c], t) /\ UNCHANGED <<entryVars, promised>>
      /\ made' = IF c \in settled THEN [made EXCEPT ![t] = registrations'] ELSE made
      /\ got[c] \in Mappers
  BY CallersAssumption DEF Register, DefaultInv, RegistryTypeOK
<1>2. /\ \A m \in Mappers : DictGrows(m) /\ DictOf(m)
      /\ registrations' = registrations + 1 /\ version'[got[c]][t] = registrations'
      /\ registrations \in Nat /\ DictInv'
      /\ version \in [Mappers -> [Types -> 0..registrations]]
      /\ version' \in [Mappers -> [Types -> 0..registrations']]
  BY <1>1, RegisterKeepsOrder, BoundAssumption DEF DefaultInv, MapperInv, DictInv
<1>3. /\ entry' = entry /\ at' = at /\ got' = got /\ settled' = settled /\ promised' = promised
      /\ UNCHANGED <<self, pc, size, chosen>>
  BY <1>1 DEF entryVars, RegisterMapper, Put
<1>4. \A m \in Mappers, u \in Types :
          /\ version[m][u] \in Nat /\ version'[m][u] \in Nat /\ version[m][u] <= version'[m][u]
  BY <1>2 DEF DictGrows
<1>5. made' \in [Types -> Nat]
  BY <1>1, <1>2 DEF DefaultInv, PromiseInv
<1>6. ASSUME NEW u \in Types, made'[u] > 0
      PROVE  settled' # {} /\ made'[u] <= version'[entry'][u]
  <2>1. CASE c \in settled /\ u = t
    <3>1. got[c] = entry /\ made'[u] = registrations'
      BY <1>1, <2>1, SharedMapper DEF DefaultInv, PromiseInv
    <3> QED BY <1>2, <1>3, <2>1, <3>1
  <2>2. CASE ~(c \in settled /\ u = t)
    <3>1. made'[u] = made[u]
      BY <1>1, <2>2 DEF DefaultInv, PromiseInv
    <3>2. settled # {} /\ made[u] <= version[entry][u] /\ made[u] \in Nat
      BY <1>6, <3>1 DEF DefaultInv, PromiseInv
    <3>3. entry \in Mappers
      BY <3>2, SharedMapper
    <3> QED BY <1>3, <1>4, <3>1, <3>2, <3>3
  <2> QED BY <2>1, <2>2
<1>7. ASSUME NEW d \in Calls \cap settled', pc'[d] # "start" PROVE PromiseOf(d)'
  <2> DEFINE m == self[d]
  <2>1. PromiseOf(d) /\ Walking(d) /\ m \in Mappers /\ promised[d] \in [Types -> Nat]
    BY <1>3, <1>7 DEF DefaultInv, MapperInv, PromiseInv, WalkOf, Walking
  <2>2. DictGrows(m) /\ size[d] \in 0..Len(mappers[m]) /\ Len(mappers[m]) \in Nat
    BY <1>2, <2>1 DEF Walking, DictOf
  <2>3. \A i \in 1..size[d] : mappers'[m][i] = mappers[m][i]
    BY <2>2 DEF DictGrows
  <2>4. ASSUME NEW u \in Types
        PROVE  /\ promised[d][u] <= version'[m][u]
               /\ promised[d][u] > 0 => \E i \in 1..size[d] : mappers'[m][i] = u
    <3>1. promised[d][u] <= version[m][u] /\ promised[d][u] \in Nat
      BY <2>1 DEF PromiseOf
    <3>2. promised[d][u] > 0 => \E i \in 1..size[d] : mappers[m][i] = u
      BY <2>1 DEF PromiseOf
    <3> QED BY <1>4, <2>1, <2>3, <3>1, <3>2
  <2> QED BY <1>3, <2>1, <2>4 DEF PromiseOf
<1> QED BY <1>3, <1>5, <1>6, <1>7 DEF DefaultInv, PromiseInv

LEMMA BeginTakesPromises ==
    ASSUME DefaultInv, NEW c \in Calls, BeginMapping(c)
    PROVE  PromiseInv'
<1>1. /\ at[c] = "done" /\ Begin(c, got[c]) /\ UNCHANGED <<entryVars, made>>
      /\ promised' = [promised EXCEPT ![c] = made] /\ got[c] \in Mappers
  BY CallersAssumption DEF BeginMapping, DefaultInv, RegistryTypeOK
<1>2. /\ entry' = entry /\ at' = at /\ got' = got /\ settled' = settled
      /\ UNCHANGED <<mappers, version, registrations, chosen>>
      /\ pc[c] = "start" /\ self'[c] = got[c] /\ size'[c] = Len(mappers[got[c]])
      /\ chosen[c] = <<>>
  BY <1>1 DEF entryVars, Begin, dicts, DefaultInv, MapperInv, CallsTyped, WalkOf
<1>3. promised' \in [Calls -> [Types -> Nat]] /\ promised'[c] = made /\ made \in [Types -> Nat]
  BY <1>1 DEF DefaultInv, PromiseInv
<1>4. \A d \in Calls : d # c => /\ promised'[d] = promised[d] /\ self'[d] = self[d]
                                /\ size'[d] = size[d] /\ pc'[d] = pc[d]
  BY <1>1, OthersWalkOn DEF DefaultInv, PromiseInv
<1>5. \A d \in Calls : pc'[d] # "start" => at'[d] = "done"
  BY <1>1, <1>2, <1>4 DEF DefaultInv, PromiseInv
<1>6. ASSUME NEW d \in Calls \cap settled', pc'[d] # "start" PROVE PromiseOf(d)'
  <2>1. CASE d = c
    <3>1. entry \in Mappers /\ got[c] = entry
      BY <1>2, <1>6, <2>1, SharedMapper
    <3>2. ASSUME NEW t \in Types
          PROVE  /\ made[t] <= version[entry][t]
                 /\ made[t] > 0 => \E i \in 1..Len(mappers[entry]) : mappers[entry][i] = t
      <4>1. /\ version[entry][t] \in Nat /\ made[t] \in Nat
            /\ version[entry][t] > 0 => \E i \in 1..Len(mappers[entry]) : mappers[entry][i] = t
        BY <1>3, <3>1, BoundAssumption DEF DefaultInv, MapperInv, DictInv, DictOf
      <4>2. made[t] > 0 => made[t] <= version[entry][t]
        BY DEF DefaultInv, PromiseInv
      <4> QED BY <4>1, <4>2
    <3> QED BY <1>2, <1>3, <2>1, <3>1, <3>2 DEF PromiseOf
  <2>2. CASE d # c
    <3>1. PromiseOf(d)
      BY <1>2, <1>4, <1>6, <2>2 DEF DefaultInv, PromiseInv
    <3> QED BY <1>2, <1>4, <2>2, <3>1 DEF PromiseOf
  <2> QED BY <2>1, <2>2
<1>7. made' = made
  BY <1>1
<1> QED BY <1>2, <1>3, <1>5, <1>6, <1>7 DEF DefaultInv, PromiseInv

LEMMA WalkKeepsPromises ==
    ASSUME DefaultInv, NEW c \in Calls, WalkOn(c)
    PROVE  PromiseInv'
<1>1. Walk(c) /\ UNCHANGED <<entryVars, history>> /\ MapperInv
  BY DEF WalkOn, DefaultInv
<1>2. /\ entry' = entry /\ at' = at /\ got' = got /\ settled' = settled
      /\ made' = made /\ promised' = promised
      /\ UNCHANGED <<mappers, version, registrations, self, exc, size>>
      /\ pc[c] # "start" /\ pc'[c] # "start"
  BY <1>1, WalkStep
  DEF entryVars, history, Walk, DictChanged, NextEntry, MapperEnds, Classify, dicts
<1>3. \A d \in Calls : d # c => pc'[d] = pc[d] /\ chosen'[d] = chosen[d]
  BY <1>1, OthersWalkOn
<1>4. \A d \in Calls : pc'[d] # "start" => pc[d] # "start"
  BY <1>2, <1>3
<1>5. ASSUME NEW d \in Calls \cap settled', pc'[d] # "start" PROVE PromiseOf(d)'
  <2>1. PromiseOf(d)
    BY <1>2, <1>4, <1>5 DEF DefaultInv, PromiseInv
  <2>2. chosen'[d] # <<>> => promised[d][chosen'[d][1]] <= chosen'[d][2]
    <3>1. CASE chosen'[d] = chosen[d]
      BY <2>1, <3>1 DEF PromiseOf
    <3>2. CASE chosen'[d] # chosen[d]
      <4> DEFINE t == mappers[self[d]][index[d] + 1]
      <4>1. d = c /\ DOMAIN chosen = Calls
        BY <1>1, <1>3, <3>2 DEF MapperInv, CallsTyped
      <4>2. NextEntry(d) /\ chosen'[d] = <<t, version[self[d]][t]>>
        BY <1>1, <3>2, <4>1
        DEF Walk, DictChanged, NextEntry, MapperEnds, Classify
      <4>3. t \in Types
        <5>1. WalkOf(d)' /\ chosen'[d] # <<>> /\ pc'[d] # "start"
          BY <1>1, <1>5, <4>1, <4>2, WalkStep
        <5>2. chosen'[d] \in Types \X (1..registrations')
          BY <5>1 DEF WalkOf, Walking
        <5> QED BY <4>2, <5>2
      <4> HIDE DEF t
      <4>4. promised[d][t] <= version[self[d]][t]
        BY <2>1, <4>3 DEF PromiseOf
      <4> QED BY <4>2, <4>4
    <3> QED BY <3>1, <3>2
  <2> QED BY <1>2, <2>1, <2>2 DEF PromiseOf
<1> QED BY <1>2, <1>4, <1>5 DEF DefaultInv, PromiseInv

LEMMA GetKeepsPromises ==
    ASSUME DefaultInv, NEW c \in Callers, GetMapper(c)
    PROVE  PromiseInv'
<1>1. GetObject(c) /\ UNCHANGED <<vars, history>>
  BY DEF GetMapper
<1>2. /\ UNCHANGED <<mappers, version, self, pc, size, chosen, made, promised>>
      /\ at[c] # "done" /\ \A d \in Callers : d # c => at'[d] = at[d] /\ got'[d] = got[d]
      /\ \A d \in settled' : d \in settled \/ d = c
      /\ settled \subseteq settled'
  BY <1>1 DEF vars, dicts, history, GetObject, Lookup, Store, Read, DefaultInv, RegistryTypeOK
<1>3. settled # {} => entry' = entry
  <2>1. [RegistryNext]_entryVars
    BY <1>1 DEF RegistryNext
  <2> QED BY <2>1, SettledStep DEF DefaultInv, EntryInv
<1>4. \A d \in Calls : pc[d] # "start" => d # c /\ d \in Callers
  BY <1>2, CallersAssumption DEF DefaultInv, PromiseInv
<1>5. \A d \in Calls : pc'[d] # "start" => at'[d] = "done"
  BY <1>2, <1>4 DEF DefaultInv, PromiseInv
<1>6. ASSUME NEW d \in Calls \cap settled', pc'[d] # "start" PROVE PromiseOf(d)'
  <2>1. d # c /\ d \in settled /\ got'[d] = got[d] /\ pc[d] # "start"
    BY <1>2, <1>4, <1>6
  <2>2. PromiseOf(d)
    BY <2>1 DEF DefaultInv, PromiseInv
  <2> QED BY <1>2, <2>1, <2>2 DEF PromiseOf
<1>7. ASSUME NEW t \in Types, made'[t] > 0 PROVE settled' # {} /\ made'[t] <= version'[entry'][t]
  BY <1>2, <1>3, <1>7 DEF DefaultInv, PromiseInv
<1> QED BY <1>2, <1>5, <1>6, <1>7 DEF DefaultInv, PromiseInv

LEMMA DefaultInvariant == DefaultSpec => []DefaultInv
<1>1. DefaultInit => DefaultInv
  <2> SUFFICES ASSUME DefaultInit PROVE DefaultInv
    OBVIOUS
  <2>1. MapperInv
    BY MapperInitially DEF DefaultInit
  <2>2. RegistryTypeOK /\ EntryInv
    BY NoObjectAssumption DEF DefaultInit, RegistryInit, RegistryTypeOK, EntryInv
  <2>3. PromiseInv
    BY DEF DefaultInit, Init, RegistryInit, PromiseInv
  <2> QED BY <2>1, <2>2, <2>3 DEF DefaultInv
<1>2. DefaultInv /\ [DefaultNext]_defaultVars => DefaultInv'
  <2> SUFFICES ASSUME DefaultInv, [DefaultNext]_defaultVars PROVE DefaultInv'
    OBVIOUS
  <2>1. [RegistryNext]_entryVars /\ [Next]_vars
    BY StepsOfBoth DEF DefaultInv
  <2>2. MapperInv' /\ RegistryTypeOK' /\ EntryInv'
    BY <2>1, MapperStep, TypeStep, EntryStep DEF DefaultInv
  <2>3. PromiseInv'
    <3>1. CASE UNCHANGED defaultVars
      <4>1. UNCHANGED <<mappers, version, self, pc, size, chosen, entry, at, got, settled,
                        made, promised>>
        BY <3>1 DEF defaultVars, vars, dicts, entryVars, history
      <4> QED BY <4>1 DEF DefaultInv, PromiseInv, PromiseOf
    <3>2. CASE DefaultNext
      BY <3>2, GetKeepsPromises, RegisterKeepsPromises, BeginTakesPromises, WalkKeepsPromises
      DEF DefaultNext
    <3> QED BY <3>1, <3>2
  <2> QED BY <2>2, <2>3 DEF DefaultInv
<1> QED BY <1>1, <1>2, PTL DEF DefaultSpec

(* The default mapper is one of the mappers and its registry one of those  *)
(* above: what is proved of these holds of it.                             *)
THEOREM DefaultMapperIsBoth == DefaultSpec => Spec /\ RegistrySpec
<1>1. DefaultInv /\ [DefaultNext]_defaultVars => [Next]_vars /\ [RegistryNext]_entryVars
  BY StepsOfBoth DEF DefaultInv
<1>2. DefaultInit => Init /\ RegistryInit
  BY DEF DefaultInit
<1> QED BY <1>1, <1>2, DefaultInvariant, PTL DEF DefaultSpec, Spec, RegistrySpec

(* Callers that get_exception_mapper returned to when the race was over    *)
(* share one mapper, and no registration any of them makes is missed by    *)
(* another that begins to map after it, for any callers, types and number  *)
(* of registrations (NothingLostOnceSettled).                              *)
THEOREM NothingIsLost == DefaultSpec => []NothingLostOnceSettled
<1>1. DefaultInv => NothingLostOnceSettled
  <2> SUFFICES ASSUME DefaultInv, NEW c \in Calls \cap settled
               PROVE  /\ chosen[c] # <<>> => chosen[c][2] >= promised[c][chosen[c][1]]
                      /\ reply[c] = "PAYLOAD" =>
                            \A t \in Types : promised[c][t] > 0 => ~IsA(exc[c], t)
    BY DEF NothingLostOnceSettled
  <2>1. CASE pc[c] = "start"
    BY <2>1 DEF DefaultInv, MapperInv, WalkOf
  <2>2. CASE pc[c] # "start"
    <3>1. Walking(c) /\ PromiseOf(c)
      BY <2>2 DEF DefaultInv, MapperInv, WalkOf, PromiseInv
    <3>2. ASSUME chosen[c] # <<>> PROVE chosen[c][2] >= promised[c][chosen[c][1]]
      <4>1. /\ chosen[c][1] \in Types /\ chosen[c][2] \in Nat
            /\ promised[c] \in [Types -> Nat]
            /\ promised[c][chosen[c][1]] <= chosen[c][2]
        BY <3>1, <3>2, BoundAssumption
        DEF Walking, PromiseOf, DefaultInv, MapperInv, DictInv, PromiseInv
      <4> QED BY <4>1
    <3>3. reply[c] = "PAYLOAD" => \A t \in Types : promised[c][t] > 0 => ~IsA(exc[c], t)
      BY <3>1 DEF Walking, PromiseOf, NoneOf
    <3> QED BY <3>2, <3>3
  <2> QED BY <2>1, <2>2
<1> QED BY <1>1, DefaultInvariant, PTL
=============================================================================
