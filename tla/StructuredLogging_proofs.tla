----------------------- MODULE StructuredLogging_proofs -----------------------
(***************************************************************************)
(* Theorems about structured logging: what is logged (LogEvents), for      *)
(* every depth limit, every object and any threads, contexts and changes   *)
(* of the object.                                                          *)
(***************************************************************************)
EXTENDS LogEvents, SequenceTheorems, FiniteSetTheorems, TLAPS

-----------------------------------------------------------------------------
(* Induction, for a set: one that holds 0 and the successors of all its    *)
(* members holds every number.  If n were missing, adding 1 would map what *)
(* it holds below n into itself without 0.                                 *)
LEMMA SetInduction ==
    ASSUME NEW S \in SUBSET Nat, 0 \in S, \A k \in S : k + 1 \in S
    PROVE  \A n \in Nat : n \in S
<1> SUFFICES ASSUME NEW n \in Nat, n \notin S PROVE FALSE
  OBVIOUS
<1> DEFINE below == {k \in S : k < n}
           shift == [k \in below |-> k + 1]
<1>1. 0 \in below
  <2>1. 0 \in S /\ n \in Nat /\ n \notin S
    OBVIOUS
  <2>2. n # 0
    BY <2>1
  <2>3. 0 < n
    BY <2>1, <2>2
  <2> QED BY <2>1, <2>3
<1>2. below \in SUBSET (0..n)
  <2> SUFFICES ASSUME NEW k \in below PROVE k \in 0..n
    OBVIOUS
  <2> k \in Nat /\ k < n
    OBVIOUS
  <2> QED OBVIOUS
<1>3. IsFiniteSet(below)
  <2>1. IsFiniteSet(0..n)
    BY FS_Interval
  <2> QED BY <1>2, <2>1, FS_Subset
<1>4. shift \in Injection(below, below \ {0})
  <2>1. \A k \in below : k + 1 \in below \ {0}
    <3> SUFFICES ASSUME NEW k \in below PROVE k + 1 \in below \ {0}
      OBVIOUS
    <3>1. k \in Nat /\ k < n /\ k + 1 \in S
      OBVIOUS
    <3>2. k + 1 # n
      BY <3>1
    <3> QED BY <3>1, <3>2
  <2>2. \A a, b \in below : a + 1 = b + 1 => a = b
    OBVIOUS
  <2> QED BY <2>1, <2>2 DEF Injection, IsInjective
<1> HIDE DEF below, shift
<1>5. IsFiniteSet(below \ {0}) /\ Cardinality(below \ {0}) = Cardinality(below) - 1
  BY <1>1, <1>3, FS_RemoveElement
<1>6. Cardinality(below) <= Cardinality(below \ {0})
  BY <1>4, <1>5, FS_Injection
<1>7. Cardinality(below) \in Nat
  BY <1>3, FS_CardinalityType
<1> QED BY <1>5, <1>6, <1>7

-----------------------------------------------------------------------------
(* Paths, before and after redaction. *)
Ends == Leaves \cup {"cleaned", "redacted"}

IsPath(p) ==
    /\ p \in Seq(Links \cup Ends)
    /\ Len(p) > 0
    /\ p[Len(p)] \in Ends
    /\ \A i \in 1..(Len(p) - 1) : p[i] \in Links

(* One step of Redact, from what it makes of the rest of the path. *)
RedactStep(p, depth, i, rest) ==
    IF Beyond(depth + i - 1) /\ (i > 1 => p[i - 1] # "message")
    THEN <<"redacted">>
    ELSE CASE p[i] = "sensitive" -> <<p[i]>> \o Hidden(rest)
           [] p[i] \in {"key", "item"} -> <<p[i]>> \o rest
           [] p[i] \in {"message", "details"} -> <<"key">> \o rest
           [] p[i] \in {"plain", "secret"} -> <<RedactString(p[i])>>
           [] OTHER -> <<p[i]>>

(* An end of a path has no rest. *)
LEMMA NoRest ==
    ASSUME NEW p, NEW depth, NEW i, p[i] \in Ends, NEW r1, NEW r2
    PROVE  RedactStep(p, depth, i, r1) = RedactStep(p, depth, i, r2)
<1>1. ~(p[i] = "sensitive") /\ ~(p[i] \in {"key", "item"}) /\ ~(p[i] \in {"message", "details"})
  BY DEF Ends, Leaves
<1> QED BY <1>1, Zenon DEF RedactStep

(* The recursive definition has a solution, from the end of the path up.   *)
LEMMA RedactExists ==
    ASSUME NEW p, IsPath(p), NEW depth
    PROVE  \E f : f = [i \in 1..Len(p) |-> RedactStep(p, depth, i, f[i + 1])]
<1> DEFINE n == Len(p)
           Solves(f, k) == \A i \in 1..n : n - i <= k => f[i] = RedactStep(p, depth, i, f[i + 1])
           S == {k \in Nat : \E f : DOMAIN f = 1..n /\ Solves(f, k)}
<1>1. n \in Nat /\ n > 0 /\ p[n] \in Ends
  BY DEF IsPath
<1> HIDE DEF n
<1>2. 0 \in S
  <2> DEFINE f == [i \in 1..n |-> RedactStep(p, depth, n, 0)]
  <2>1. ASSUME NEW i \in 1..n, n - i <= 0
        PROVE  f[i] = RedactStep(p, depth, i, f[i + 1])
    <3>1. i = n
      BY <1>1, <2>1
    <3>2. f[n] = RedactStep(p, depth, n, 0)
      BY <1>1
    <3>3. RedactStep(p, depth, n, 0) = RedactStep(p, depth, n, f[n + 1])
      BY <1>1, NoRest
    <3> QED BY <3>1, <3>2, <3>3
  <2>2. DOMAIN f = 1..n
    OBVIOUS
  <2> HIDE DEF f
  <2>3. Solves(f, 0)
    BY <2>1
  <2> QED BY <2>2, <2>3
<1>3. ASSUME NEW k \in S PROVE k + 1 \in S
  <2>1. PICK f : DOMAIN f = 1..n /\ Solves(f, k)
    OBVIOUS
  <2> DEFINE at == n - (k + 1)
             g == [i \in 1..n |-> IF i = at THEN RedactStep(p, depth, i, f[i + 1]) ELSE f[i]]
  <2>2. k \in Nat /\ at \in Int
    BY <1>1
  <2>3. ASSUME NEW i \in 1..n, n - i <= k + 1
        PROVE  g[i] = RedactStep(p, depth, i, g[i + 1])
    <3>1. CASE i = n
      <4>1. i # at
        BY <1>1, <2>2, <3>1
      <4>2. g[i] = RedactStep(p, depth, i, f[i + 1])
        BY <1>1, <2>1, <2>2, <3>1, <4>1
      <4> HIDE DEF g
      <4>3. RedactStep(p, depth, i, f[i + 1]) = RedactStep(p, depth, i, g[i + 1])
        BY <1>1, <3>1, NoRest
      <4> QED BY <4>2, <4>3
    <3>2. CASE i # n
      <4>1. i + 1 \in 1..n /\ i + 1 # at
        BY <1>1, <2>2, <2>3, <3>2
      <4>2. g[i + 1] = f[i + 1]
        BY <4>1
      <4>3. g[i] = RedactStep(p, depth, i, f[i + 1])
        <5>1. CASE i = at
          BY <5>1
        <5>2. CASE i # at
          <6>1. n - i <= k
            BY <1>1, <2>2, <2>3, <5>2
          <6> QED BY <2>1, <5>2, <6>1
        <5> QED BY <5>1, <5>2
      <4> QED BY <4>2, <4>3
    <3> QED BY <3>1, <3>2
  <2>4. DOMAIN g = 1..n
    OBVIOUS
  <2> HIDE DEF g
  <2>5. \A i \in 1..n : n - i <= k + 1 => g[i] = RedactStep(p, depth, i, g[i + 1])
    BY <2>3
  <2> HIDE DEF at
  <2>6. k + 1 \in Nat
    BY <2>2
  <2>7. \E f2 : DOMAIN f2 = 1..n /\ Solves(f2, k + 1)
    BY <2>4, <2>5
  <2> QED BY <2>6, <2>7
<1>4. n \in S
  <2>1. S \in SUBSET Nat
    OBVIOUS
  <2> HIDE DEF S
  <2> QED BY <1>1, <1>2, <1>3, <2>1, SetInduction
<1>5. PICK f : DOMAIN f = 1..n /\ Solves(f, n)
  BY <1>4
<1> DEFINE h == [i \in 1..n |-> f[i]]
<1>6. \A i \in 1..n : h[i] = RedactStep(p, depth, i, h[i + 1])
  <2> SUFFICES ASSUME NEW i \in 1..n PROVE h[i] = RedactStep(p, depth, i, h[i + 1])
    OBVIOUS
  <2>1. h[i] = RedactStep(p, depth, i, f[i + 1])
    BY <1>1, <1>5
  <2>2. CASE i = n
    <3> HIDE DEF h
    <3> QED BY <1>1, <2>1, <2>2, NoRest
  <2>3. CASE i # n
    <3>1. i + 1 \in 1..n
      BY <1>1, <2>3
    <3> QED BY <2>1, <3>1
  <2> QED BY <2>2, <2>3
<1>7. h = [i \in 1..n |-> RedactStep(p, depth, i, h[i + 1])]
  BY <1>6
<1> QED BY <1>7 DEF n

(* So Redact does what its definition says, step by step. *)
LEMMA RedactUnfolds ==
    ASSUME NEW p, IsPath(p), NEW depth
    PROVE  \E f : /\ Redact(p, depth) = f[1]
                  /\ \A i \in 1..Len(p) : f[i] = RedactStep(p, depth, i, f[i + 1])
<1> DEFINE Body(f) == [i \in 1..Len(p) |-> RedactStep(p, depth, i, f[i + 1])]
           sol == CHOOSE f : f = Body(f)
<1>1. \E f : f = Body(f)
  BY RedactExists
<1>2. Redact(p, depth) = sol[1]
  BY DEF Redact, RedactStep
<1> HIDE DEF Body
<1>3. sol = Body(sol)
  BY <1>1
<1> HIDE DEF sol
<1>4. \A i \in 1..Len(p) : sol[i] = RedactStep(p, depth, i, sol[i + 1])
  <2> USE DEF Body
  <2> QED BY <1>3
<1> QED BY <1>2, <1>4

-----------------------------------------------------------------------------
(* What Redact leaves is safe. *)
IsSafe(s) ==
    /\ IsPath(s)
    /\ \A i \in 1..Len(s) : s[i] # "secret"
    /\ \A i \in 1..Len(s) : s[i] = "sensitive" => i + 1 = Len(s) /\ s[Len(s)] = "redacted"

Shallow == Links \ {"sensitive"}

LEMMA EndIsSafe == ASSUME NEW x \in Ends, x # "secret" PROVE IsSafe(<<x>>)
<1>1. x # "sensitive"
  BY DEF Ends, Leaves
<1>2. <<x>> \in Seq(Links \cup Ends) /\ Len(<<x>>) = 1 /\ <<x>>[1] = x
  OBVIOUS
<1> QED BY <1>1, <1>2 DEF IsSafe, IsPath

(* A link put before a path. *)
LEMMA Prefixed ==
    ASSUME NEW x \in Links, NEW r, IsPath(r)
    PROVE  /\ <<x>> \o r \in Seq(Links \cup Ends)
           /\ Len(<<x>> \o r) = Len(r) + 1
           /\ (<<x>> \o r)[1] = x
           /\ \A i \in 1..Len(r) : (<<x>> \o r)[i + 1] = r[i]
           /\ IsPath(<<x>> \o r)
<1> DEFINE q == <<x>> \o r
<1>1. r \in Seq(Links \cup Ends) /\ Len(r) \in Nat /\ Len(r) > 0
  BY DEF IsPath
<1>2. q \in Seq(Links \cup Ends) /\ Len(q) = Len(r) + 1 /\ q[1] = x
  BY <1>1
<1>3. ASSUME NEW i \in 1..Len(r) PROVE q[i + 1] = r[i]
  BY <1>1
<1> HIDE DEF q
<1>4. q[Len(q)] \in Ends
  <2>1. Len(r) \in 1..Len(r)
    BY <1>1
  <2> QED BY <1>2, <1>3, <2>1 DEF IsPath
<1>5. ASSUME NEW i \in 1..(Len(q) - 1) PROVE q[i] \in Links
  <2>1. CASE i = 1
    BY <1>2, <2>1
  <2>2. CASE i # 1
    <3>1. i - 1 \in 1..(Len(r) - 1) /\ (i - 1) + 1 = i
      BY <1>1, <1>2, <2>2
    <3>2. q[(i - 1) + 1] = r[i - 1]
      <4>1. i - 1 \in 1..Len(r)
        BY <1>1, <3>1
      <4> QED BY <1>3, <4>1
    <3> QED BY <3>1, <3>2 DEF IsPath
  <2> QED BY <2>1, <2>2
<1>6. IsPath(q)
  BY <1>1, <1>2, <1>4, <1>5 DEF IsPath
<1> QED BY <1>2, <1>3, <1>6 DEF q

LEMMA PrefixedIsSafe ==
    ASSUME NEW x \in Shallow, NEW r, IsSafe(r)
    PROVE  IsSafe(<<x>> \o r)
<1> DEFINE q == <<x>> \o r
<1>0. IsPath(r) /\ x \in Links /\ x # "sensitive" /\ x # "secret"
  BY DEF IsSafe, Shallow, Links, DictLinks
<1>1. /\ Len(q) = Len(r) + 1 /\ q[1] = x
      /\ \A i \in 1..Len(r) : q[i + 1] = r[i]
      /\ IsPath(q)
  BY <1>0, Prefixed
<1>2. Len(r) \in Nat /\ Len(r) > 0
  BY <1>0 DEF IsPath
<1> HIDE DEF q
<1>3. ASSUME NEW i \in 1..Len(q), i # 1
      PROVE  i - 1 \in 1..Len(r) /\ q[i] = r[i - 1]
  <2>1. i - 1 \in 1..Len(r) /\ (i - 1) + 1 = i
    BY <1>1, <1>2, <1>3
  <2>2. q[(i - 1) + 1] = r[i - 1]
    BY <1>1, <2>1
  <2> QED BY <2>1, <2>2
<1>4. ASSUME NEW i \in 1..Len(q) PROVE q[i] # "secret"
  <2>1. CASE i = 1
    BY <1>0, <1>1, <2>1
  <2>2. CASE i # 1
    BY <1>3, <2>2 DEF IsSafe
  <2> QED BY <2>1, <2>2
<1>5. ASSUME NEW i \in 1..Len(q), q[i] = "sensitive"
      PROVE  i + 1 = Len(q) /\ q[Len(q)] = "redacted"
  <2>1. i # 1
    BY <1>0, <1>1, <1>5
  <2>2. i - 1 \in 1..Len(r) /\ r[i - 1] = "sensitive"
    BY <1>3, <1>5, <2>1
  <2>3. (i - 1) + 1 = Len(r) /\ r[Len(r)] = "redacted"
    BY <2>2 DEF IsSafe
  <2>4. Len(r) \in 1..Len(r)
    BY <1>2
  <2> QED BY <1>1, <1>2, <2>3, <2>4
<1>6. IsSafe(q)
  BY <1>1, <1>4, <1>5 DEF IsSafe
<1> QED BY <1>6 DEF q

LEMMA HiddenIsSafe == IsSafe(<<"sensitive">> \o <<"redacted">>)
<1> DEFINE r == <<"redacted">>
           q == <<"sensitive">> \o r
<1>1. IsPath(r)
  BY EndIsSafe DEF Ends, IsSafe
<1>2. Len(r) = 1 /\ r[1] = "redacted"
  OBVIOUS
<1>3. "sensitive" \in Links
  BY DEF Links, DictLinks
<1> HIDE DEF r
<1>4. /\ Len(q) = Len(r) + 1 /\ q[1] = "sensitive"
      /\ \A i \in 1..Len(r) : q[i + 1] = r[i]
      /\ IsPath(q)
  BY <1>1, <1>3, Prefixed
<1>5. Len(q) = 2 /\ q[1] = "sensitive" /\ q[2] = "redacted"
  BY <1>2, <1>4
<1> HIDE DEF q
<1>6. \A i \in 1..Len(q) : i = 1 \/ i = 2
  BY <1>5
<1>7. \A i \in 1..Len(q) : q[i] # "secret"
  BY <1>5, <1>6
<1>8. \A i \in 1..Len(q) : q[i] = "sensitive" => i + 1 = Len(q) /\ q[Len(q)] = "redacted"
  <2> SUFFICES ASSUME NEW i \in 1..Len(q), q[i] = "sensitive"
               PROVE  i + 1 = Len(q) /\ q[Len(q)] = "redacted"
    OBVIOUS
  <2>1. i = 1
    BY <1>5, <1>6
  <2> QED BY <1>5, <2>1
<1>9. IsSafe(q)
  BY <1>4, <1>7, <1>8 DEF IsSafe
<1> QED BY <1>9 DEF q, r

LEMMA StepIsSafe ==
    ASSUME NEW p, IsPath(p), NEW depth, NEW i \in 1..Len(p), NEW rest,
           i < Len(p) => IsSafe(rest)
    PROVE  IsSafe(RedactStep(p, depth, i, rest))
<1>1. IsSafe(<<"redacted">>)
  BY EndIsSafe DEF Ends
<1>2. Len(p) \in Nat /\ p[Len(p)] \in Ends
  BY DEF IsPath
<1>3. CASE i = Len(p)
  <2>1. p[i] \in Ends
    BY <1>2, <1>3
  <2>2. ~(p[i] = "sensitive") /\ ~(p[i] \in {"key", "item"}) /\ ~(p[i] \in {"message", "details"})
    BY <2>1 DEF Ends, Leaves
  <2>3. CASE p[i] \in {"plain", "secret"}
    <3>1. RedactString(p[i]) \in Ends /\ RedactString(p[i]) # "secret"
      BY <2>3 DEF RedactString, Ends, Leaves
    <3>2. IsSafe(<<RedactString(p[i])>>)
      BY <3>1, EndIsSafe
    <3> QED BY <1>1, <2>2, <2>3, <3>2, Zenon DEF RedactStep
  <2>4. CASE p[i] \notin {"plain", "secret"}
    <3>1. IsSafe(<<p[i]>>)
      BY <2>1, <2>4, EndIsSafe
    <3> QED BY <1>1, <2>2, <2>4, <3>1, Zenon DEF RedactStep
  <2> QED BY <2>3, <2>4
<1>4. CASE i < Len(p)
  <2>1. p[i] \in Links /\ IsSafe(rest)
    <3>1. i \in 1..(Len(p) - 1)
      BY <1>2, <1>4
    <3> QED BY <1>4, <3>1 DEF IsPath
  <2>2. CASE p[i] = "sensitive"
    BY <1>1, <2>2, HiddenIsSafe DEF RedactStep, Hidden
  <2>3. CASE p[i] \in {"key", "item"}
    <3>1. p[i] \in Shallow /\ ~(p[i] = "sensitive")
      BY <2>3 DEF Shallow, Links, DictLinks
    <3>2. IsSafe(<<p[i]>> \o rest)
      BY <2>1, <3>1, PrefixedIsSafe
    <3> QED BY <1>1, <2>3, <3>1, <3>2, Zenon DEF RedactStep
  <2>4. CASE p[i] \in {"message", "details"}
    <3>1. ~(p[i] = "sensitive") /\ ~(p[i] \in {"key", "item"}) /\ "key" \in Shallow
      BY <2>4 DEF Shallow, Links, DictLinks
    <3>2. IsSafe(<<"key">> \o rest)
      BY <2>1, <3>1, PrefixedIsSafe
    <3> QED BY <1>1, <2>4, <3>1, <3>2, Zenon DEF RedactStep
  <2> QED BY <2>1, <2>2, <2>3, <2>4 DEF Links, DictLinks
<1> QED BY <1>2, <1>3, <1>4

(* Whatever path it is given, at whatever depth, Redact makes it safe. *)
LEMMA RedactionIsSafe ==
    ASSUME NEW p, IsPath(p), NEW depth
    PROVE  IsSafe(Redact(p, depth))
<1>1. PICK f : /\ Redact(p, depth) = f[1]
               /\ \A i \in 1..Len(p) : f[i] = RedactStep(p, depth, i, f[i + 1])
  BY RedactUnfolds
<1> DEFINE n == Len(p)
           S == {k \in Nat : \A i \in 1..n : n - i <= k => IsSafe(f[i])}
<1>2. n \in Nat /\ n > 0
  BY DEF IsPath
<1> HIDE DEF n
<1>3. ASSUME NEW i \in 1..n, i < n => IsSafe(f[i + 1]) PROVE IsSafe(f[i])
  BY <1>1, <1>3, StepIsSafe DEF n
<1>4. 0 \in S
  <2>1. \A i \in 1..n : n - i <= 0 => ~(i < n)
    BY <1>2
  <2>2. \A i \in 1..n : n - i <= 0 => IsSafe(f[i])
    BY <1>3, <2>1
  <2> QED BY <2>2
<1>5. ASSUME NEW k \in S PROVE k + 1 \in S
  <2>1. k \in Nat /\ \A i \in 1..n : n - i <= k => IsSafe(f[i])
    OBVIOUS
  <2>2. ASSUME NEW i \in 1..n, n - i <= k + 1 PROVE IsSafe(f[i])
    <3>1. i < n => i + 1 \in 1..n /\ n - (i + 1) <= k
      BY <1>2, <2>1, <2>2
    <3> QED BY <1>3, <2>1, <3>1
  <2>3. \A i \in 1..n : n - i <= k + 1 => IsSafe(f[i])
    BY <2>2
  <2> QED BY <2>1, <2>3
<1>6. n \in S
  <2>1. S \in SUBSET Nat
    OBVIOUS
  <2> HIDE DEF S
  <2> QED BY <1>2, <1>4, <1>5, <2>1, SetInduction
<1>7. 1 \in 1..n /\ n - 1 <= n
  BY <1>2
<1>8. IsSafe(f[1])
  BY <1>6, <1>7
<1> QED BY <1>1, <1>8

-----------------------------------------------------------------------------
(* What Redact leaves alone. *)
KeptMark(x) ==
    IF x \in {"message", "details"} THEN "key" ELSE IF x = "secret" THEN "cleaned" ELSE x

Harmless(p) == "sensitive" \notin ToSet(p)

LEMMA KeptMarks ==
    ASSUME NEW p, IsPath(p)
    PROVE  /\ Kept(p) \in Seq(Links \cup Ends)
           /\ Len(Kept(p)) = Len(p)
           /\ \A i \in 1..Len(p) : Kept(p)[i] = KeptMark(p[i])
           /\ IsPath(Kept(p))
<1>1. p \in Seq(Links \cup Ends) /\ Len(p) \in Nat /\ Len(p) > 0 /\ DOMAIN p = 1..Len(p)
  BY DEF IsPath
<1>2. Kept(p) = [i \in 1..Len(p) |-> KeptMark(p[i])]
  <2>1. \A x : KeptMark(x) = CASE x \in {"message", "details"} -> "key"
                                [] x = "secret" -> "cleaned"
                                [] OTHER -> x
    BY DEF KeptMark
  <2> QED BY <1>1, <2>1 DEF Kept
<1>3. ASSUME NEW x \in Links \cup Ends PROVE KeptMark(x) \in Links \cup Ends
  BY DEF KeptMark, Links, DictLinks, Ends, Leaves
<1>4. /\ \A x \in Links : KeptMark(x) \in Links
      /\ \A x \in Ends : KeptMark(x) \in Ends
  BY DEF KeptMark, Links, DictLinks, Ends, Leaves
<1>5. Kept(p) \in Seq(Links \cup Ends) /\ Len(Kept(p)) = Len(p)
  <2>1. \A i \in 1..Len(p) : KeptMark(p[i]) \in Links \cup Ends
    BY <1>1, <1>3
  <2> DEFINE q == [i \in 1..Len(p) |-> KeptMark(p[i])]
  <2>2. q \in [1..Len(p) -> Links \cup Ends]
    BY <2>1
  <2> HIDE DEF q
  <2>3. q \in Seq(Links \cup Ends) /\ Len(q) = Len(p)
    BY <1>1, <2>2
  <2> QED BY <1>2, <2>3 DEF q
<1>6. \A i \in 1..Len(p) : Kept(p)[i] = KeptMark(p[i])
  BY <1>2
<1>7. Len(p) \in 1..Len(p) /\ \A i \in 1..(Len(p) - 1) : i \in 1..Len(p)
  BY <1>1
<1>8. IsPath(Kept(p))
  BY <1>1, <1>4, <1>5, <1>6, <1>7 DEF IsPath
<1> QED BY <1>5, <1>6, <1>8

(* A step that is within the limit, and at no sensitive key. *)
LEMMA StepKeeps ==
    ASSUME NEW p, IsPath(p), NEW i \in 1..Len(p), p[i] # "sensitive",
           i - 1 <= MaxDepth, NEW rest
    PROVE  /\ i = Len(p) => RedactStep(p, 0, i, rest) = <<KeptMark(p[i])>>
           /\ i < Len(p) => RedactStep(p, 0, i, rest) = <<KeptMark(p[i])>> \o rest
<1>1. ~Beyond(0 + i - 1)
  BY MaxDepthAssumption DEF Beyond
<1>2. Len(p) \in Nat /\ p[Len(p)] \in Ends
  BY DEF IsPath
<1>3. ASSUME i = Len(p) PROVE RedactStep(p, 0, i, rest) = <<KeptMark(p[i])>>
  <2>1. p[i] \in Ends
    BY <1>2, <1>3
  <2>2. ~(p[i] \in {"key", "item"}) /\ ~(p[i] \in {"message", "details"})
    BY <2>1 DEF Ends, Leaves
  <2>3. CASE p[i] \in {"plain", "secret"}
    <3>1. RedactString(p[i]) = KeptMark(p[i])
      BY <2>3 DEF RedactString, KeptMark
    <3> QED BY <1>1, <2>2, <2>3, <3>1, Zenon DEF RedactStep
  <2>4. CASE p[i] \notin {"plain", "secret"}
    <3>1. KeptMark(p[i]) = p[i]
      BY <2>2, <2>4 DEF KeptMark
    <3> QED BY <1>1, <2>2, <2>4, <3>1, Zenon DEF RedactStep
  <2> QED BY <2>3, <2>4
<1>4. ASSUME i < Len(p) PROVE RedactStep(p, 0, i, rest) = <<KeptMark(p[i])>> \o rest
  <2>1. p[i] \in Links
    <3>1. i \in 1..(Len(p) - 1)
      BY <1>2, <1>4
    <3> QED BY <3>1 DEF IsPath
  <2>2. CASE p[i] \in {"key", "item"}
    <3>1. KeptMark(p[i]) = p[i]
      BY <2>2 DEF KeptMark
    <3> QED BY <1>1, <2>2, <3>1, Zenon DEF RedactStep
  <2>3. CASE p[i] \in {"message", "details"}
    <3>1. KeptMark(p[i]) = "key" /\ ~(p[i] \in {"key", "item"})
      BY <2>3 DEF KeptMark
    <3> QED BY <1>1, <2>3, <3>1, Zenon DEF RedactStep
  <2> QED BY <2>1, <2>2, <2>3 DEF Links, DictLinks
<1> QED BY <1>3, <1>4

(* What is within the limit and behind no sensitive key is kept. *)
LEMMA RedactKeeps ==
    ASSUME NEW p, IsPath(p), Len(p) - 1 <= MaxDepth, Harmless(p)
    PROVE  RedactForLogging(p) = Kept(p)
<1>1. PICK f : /\ Redact(p, 0) = f[1]
               /\ \A i \in 1..Len(p) : f[i] = RedactStep(p, 0, i, f[i + 1])
  BY RedactUnfolds
<1> DEFINE n == Len(p)
           From(i) == [j \in 1..(n - i + 1) |-> KeptMark(p[i + j - 1])]
           S == {k \in Nat : \A i \in 1..n : n - i <= k => f[i] = From(i)}
<1>2. n \in Nat /\ n > 0 /\ p \in Seq(Links \cup Ends) /\ n - 1 <= MaxDepth
  BY DEF IsPath
<1>3. \A i \in 1..n : p[i] # "sensitive"
  BY <1>2 DEF Harmless, ToSet
<1>4. ASSUME NEW i \in 1..n
      PROVE  /\ i = n => f[i] = <<KeptMark(p[i])>>
             /\ i < n => f[i] = <<KeptMark(p[i])>> \o f[i + 1]
  <2>1. i - 1 <= MaxDepth /\ p[i] # "sensitive"
    BY <1>2, <1>3, MaxDepthAssumption
  <2>2. f[i] = RedactStep(p, 0, i, f[i + 1])
    BY <1>1
  <2> QED BY <2>1, <2>2, StepKeeps
<1> HIDE DEF n
<1>5. From(n) = <<KeptMark(p[n])>>
  <2>1. n - n + 1 = 1 /\ n + 1 - 1 = n
    BY <1>2
  <2>2. From(n) \in [1..1 -> {KeptMark(p[n])}]
    <3>1. \A j \in 1..1 : n + j - 1 = n
      BY <1>2
    <3> QED BY <2>1, <3>1
  <2> HIDE DEF From
  <2>3. From(n) = [j \in 1..1 |-> KeptMark(p[n])]
    BY <2>2
  <2>4. <<KeptMark(p[n])>> = [j \in 1..1 |-> KeptMark(p[n])]
    OBVIOUS
  <2> QED BY <2>3, <2>4
<1>6. ASSUME NEW i \in 1..n, i < n
      PROVE  From(i) = <<KeptMark(p[i])>> \o From(i + 1)
  <2> DEFINE m == n - i
             tail == [j \in 1..m |-> KeptMark(p[i + j])]
             whole == [j \in 1..(m + 1) |-> KeptMark(p[i + j - 1])]
             K == {KeptMark(p[j]) : j \in 1..n}
  <2>1. m \in Nat /\ n - (i + 1) + 1 = m /\ n - i + 1 = m + 1
    BY <1>2, <1>6
  <2>2. From(i) = whole
    BY <2>1
  <2>3. From(i + 1) = tail
    <3>1. \A j \in 1..m : (i + 1) + j - 1 = i + j
      BY <2>1
    <3> QED BY <2>1, <3>1
  <2>4. tail \in Seq(K) /\ Len(tail) = m /\ DOMAIN tail = 1..m
    <3>1. \A j \in 1..m : i + j \in 1..n
      BY <1>2, <1>6
    <3>2. tail \in [1..m -> K]
      BY <3>1
    <3> HIDE DEF tail, m
    <3> QED BY <2>1, <3>2
  <2>5. whole \in Seq(K) /\ Len(whole) = m + 1
    <3>1. \A j \in 1..(m + 1) : i + j - 1 \in 1..n
      BY <1>2, <1>6
    <3>2. whole \in [1..(m + 1) -> K]
      BY <3>1
    <3> HIDE DEF whole, m
    <3> QED BY <2>1, <3>2
  <2>6. whole[1] = KeptMark(p[i])
    BY <1>2, <2>1
  <2>7. \A j \in 1..m : whole[j + 1] = tail[j]
    <3> SUFFICES ASSUME NEW j \in 1..m PROVE whole[j + 1] = tail[j]
      OBVIOUS
    <3>1. j + 1 \in 1..(m + 1) /\ i + (j + 1) - 1 = i + j
      BY <1>2, <2>1
    <3>2. whole[j + 1] = KeptMark(p[i + (j + 1) - 1])
      BY <3>1
    <3>3. tail[j] = KeptMark(p[i + j])
      OBVIOUS
    <3> HIDE DEF whole, tail
    <3> QED BY <3>1, <3>2, <3>3
  <2>8. KeptMark(p[i]) \in K
    OBVIOUS
  <2> HIDE DEF m, tail, whole, K, From
  <2> DEFINE joined == <<KeptMark(p[i])>> \o tail
  <2>9. joined \in Seq(K) /\ Len(joined) = m + 1 /\ joined[1] = KeptMark(p[i])
    BY <2>1, <2>4, <2>8
  <2>10. \A j \in 1..m : joined[j + 1] = tail[j]
    BY <2>1, <2>4, <2>8
  <2> HIDE DEF joined
  <2>11. \A j \in 1..(m + 1) : whole[j] = joined[j]
    <3> SUFFICES ASSUME NEW j \in 1..(m + 1) PROVE whole[j] = joined[j]
      OBVIOUS
    <3>1. CASE j = 1
      BY <2>6, <2>9, <3>1
    <3>2. CASE j # 1
      <4>1. j - 1 \in 1..m /\ (j - 1) + 1 = j
        BY <2>1, <3>2
      <4>2. whole[(j - 1) + 1] = joined[(j - 1) + 1]
        BY <2>7, <2>10, <4>1
      <4> QED BY <4>1, <4>2
    <3> QED BY <3>1, <3>2
  <2>12. whole = joined
    BY <2>1, <2>5, <2>9, <2>11, SeqEqual
  <2> QED BY <2>2, <2>3, <2>12 DEF joined
<1>7. 0 \in S
  <2>1. \A i \in 1..n : n - i <= 0 => i = n
    BY <1>2
  <2> HIDE DEF From
  <2> QED BY <1>4, <1>5, <2>1
<1>8. ASSUME NEW k \in S PROVE k + 1 \in S
  <2>1. k \in Nat /\ \A i \in 1..n : n - i <= k => f[i] = From(i)
    OBVIOUS
  <2> HIDE DEF From
  <2>2. ASSUME NEW i \in 1..n, n - i <= k + 1 PROVE f[i] = From(i)
    <3>1. CASE i = n
      BY <1>4, <1>5, <3>1
    <3>2. CASE i # n
      <4>1. i < n /\ i + 1 \in 1..n /\ n - (i + 1) <= k
        BY <1>2, <2>1, <2>2, <3>2
      <4> QED BY <1>4, <1>6, <2>1, <4>1
    <3> QED BY <3>1, <3>2
  <2>3. \A i \in 1..n : n - i <= k + 1 => f[i] = From(i)
    BY <2>2
  <2> QED BY <2>1, <2>3
<1>9. n \in S
  <2>1. S \in SUBSET Nat
    OBVIOUS
  <2> HIDE DEF S
  <2> QED BY <1>2, <1>7, <1>8, <2>1, SetInduction
<1>10. f[1] = From(1)
  <2>1. 1 \in 1..n /\ n - 1 <= n
    BY <1>2
  <2> HIDE DEF From
  <2> QED BY <1>9, <2>1
<1>11. From(1) = Kept(p)
  <2>1. n - 1 + 1 = n /\ \A j \in 1..n : 1 + j - 1 = j
    BY <1>2
  <2>2. From(1) = [j \in 1..n |-> KeptMark(p[j])]
    BY <2>1
  <2> HIDE DEF From
  <2>3. /\ Kept(p) \in Seq(Links \cup Ends) /\ Len(Kept(p)) = n
        /\ \A i \in 1..n : Kept(p)[i] = KeptMark(p[i])
    BY KeptMarks DEF n
  <2>4. Kept(p) = [j \in 1..n |-> Kept(p)[j]]
    BY <2>3
  <2> QED BY <2>2, <2>3, <2>4
<1> QED BY <1>1, <1>10, <1>11 DEF RedactForLogging

LEMMA HarmlessMeans ==
    ASSUME NEW p, IsPath(p)
    PROVE  Harmless(p) <=> \A i \in 1..Len(p) : p[i] # "sensitive"
<1>1. DOMAIN p = 1..Len(p)
  BY DEF IsPath
<1> QED BY <1>1 DEF Harmless, ToSet

(* The second pass, over an exception that was redacted when it was given, *)
(* keeps what the first one kept.                                          *)
LEMMA SecondPassKeeps ==
    ASSUME NEW r, IsPath(r), Len(<<"key">> \o r) - 1 <= MaxDepth, Harmless(<<"key">> \o r)
    PROVE  RedactForLogging(<<"key">> \o Redact(r, 0)) = Kept(<<"key">> \o r)
<1> DEFINE p == <<"key">> \o r
           k == Kept(r)
           q == <<"key">> \o k
<1>1. "key" \in Links
  BY DEF Links, DictLinks
<1>2. /\ Len(p) = Len(r) + 1 /\ p[1] = "key"
      /\ \A i \in 1..Len(r) : p[i + 1] = r[i]
      /\ IsPath(p)
  BY <1>1, Prefixed
<1>3. Len(r) \in Nat /\ Len(r) > 0
  BY DEF IsPath
<1>4. Len(p) - 1 <= MaxDepth /\ Harmless(p)
  OBVIOUS
<1> HIDE DEF p
<1>5. Harmless(r) /\ Len(r) - 1 <= MaxDepth
  <2>1. \A i \in 1..Len(r) : i + 1 \in 1..Len(p)
    BY <1>2, <1>3
  <2>2. \A i \in 1..Len(r) : r[i] # "sensitive"
    BY <1>2, <1>4, <2>1, HarmlessMeans
  <2>3. Len(r) - 1 <= MaxDepth
    BY <1>2, <1>3, <1>4, MaxDepthAssumption
  <2> QED BY <2>2, <2>3, HarmlessMeans
<1>6. Redact(r, 0) = k
  BY <1>5, RedactKeeps DEF RedactForLogging
<1>7. IsPath(k) /\ Len(k) = Len(r) /\ \A i \in 1..Len(r) : k[i] = KeptMark(r[i])
  BY KeptMarks
<1> HIDE DEF k
<1>8. /\ Len(q) = Len(p) /\ q[1] = "key"
      /\ \A i \in 1..Len(r) : q[i + 1] = KeptMark(r[i])
      /\ IsPath(q)
  BY <1>1, <1>2, <1>7, Prefixed
<1> HIDE DEF q
<1>9. ASSUME NEW i \in 1..Len(p)
      PROVE  q[i] # "sensitive" /\ KeptMark(q[i]) = KeptMark(p[i])
  <2>1. \A x : /\ KeptMark(KeptMark(x)) = KeptMark(x)
               /\ KeptMark(x) = "sensitive" => x = "sensitive"
    BY DEF KeptMark
  <2>2. CASE i = 1
    BY <1>2, <1>8, <2>2 DEF KeptMark
  <2>3. CASE i # 1
    <3>1. i - 1 \in 1..Len(r) /\ (i - 1) + 1 = i
      BY <1>2, <1>3, <2>3
    <3>2. q[(i - 1) + 1] = KeptMark(r[i - 1]) /\ p[(i - 1) + 1] = r[i - 1]
      BY <1>2, <1>8, <3>1
    <3>3. q[i] = KeptMark(p[i])
      BY <3>1, <3>2
    <3>4. p[i] # "sensitive"
      BY <1>2, <1>4, HarmlessMeans
    <3> QED BY <2>1, <3>3, <3>4
  <2> QED BY <2>2, <2>3
<1>10. RedactForLogging(q) = Kept(q)
  <2>1. Harmless(q) /\ Len(q) - 1 <= MaxDepth
    BY <1>4, <1>8, <1>9, HarmlessMeans
  <2> QED BY <1>8, <2>1, RedactKeeps
<1>11. Kept(q) = Kept(p)
  <2>1. /\ Kept(p) \in Seq(Links \cup Ends) /\ Len(Kept(p)) = Len(p)
        /\ \A i \in 1..Len(p) : Kept(p)[i] = KeptMark(p[i])
    BY <1>2, KeptMarks
  <2>2. /\ Kept(q) \in Seq(Links \cup Ends) /\ Len(Kept(q)) = Len(p)
        /\ \A i \in 1..Len(p) : Kept(q)[i] = KeptMark(q[i])
    BY <1>8, KeptMarks
  <2> QED BY <1>9, <2>1, <2>2, SeqEqual
<1> QED BY <1>6, <1>10, <1>11 DEF p, q

-----------------------------------------------------------------------------
(* Builders and events. *)
BuilderFields == {"id", "tenant", "extra", "exception", "given", "raised"}

(* The context and the tenant are those of the contexts given. *)
Told(e) ==
    LET withTenant == {i \in DOMAIN e.given : e.given[i].tenant # NoTenant}
    IN  /\ e.id = IF e.given = <<>> THEN None ELSE Last(e.given).id
        /\ \/ withTenant = {} /\ e.tenant = NoTenant
           \/ \E i \in withTenant :
                 (\A j \in withTenant : j <= i) /\ e.tenant = e.given[i].tenant

BuilderOK(b) ==
    /\ DOMAIN b = BuilderFields
    /\ b.extra \subseteq Names
    /\ "exception" \in b.extra => b.exception = None
    /\ b.given \in Seq(Contexts)
    /\ b.exception = None <=> b.raised = None
    /\ b.raised # None => IsPath(b.raised) /\ b.exception = Redact(b.raised, 0)
    /\ Told(b)

EventOK(e) ==
    /\ e.given \in Seq(Contexts)
    /\ Told(e)
    /\ \A p \in e.extra : IsSafe(p)
    /\ \A p \in e.source :
          Len(p) - 1 <= MaxDepth /\ Harmless(p) => Kept(p) \in e.extra

Stages == {"idle", "filling", "calling", "built", "logging"}

LogInv ==
    /\ object \in Paths
    /\ stage \in [Threads -> Stages]
    /\ DOMAIN builder = Threads
    /\ DOMAIN event = Threads
    /\ \A t \in Threads : BuilderOK(builder[t])
    /\ \A t \in Threads : EventOK(event[t])
    /\ \A t \in Threads : event[t] # NoEvent => stage[t] \in {"built", "logging"}
    /\ \A t \in Threads : stage[t] = "calling" => Len(builder[t].given) <= 1
    /\ \A t \in Threads : stage[t] = "logging" => Len(event[t].given) <= 1

LEMMA PathsArePaths ==
    ASSUME NEW p \in Paths PROVE IsPath(p)
<1>1. PICK m \in 1..(MaxLinks + 1) : p \in [1..m -> Links \cup Leaves]
  BY DEF Paths, PathsUpTo
<1>2. WellFormed(p)
  BY DEF Paths, PathsUpTo
<1>3. m \in Nat /\ m > 0
  BY <1>1, MaxLinksAssumption
<1>4. p \in Seq(Links \cup Leaves) /\ Len(p) = m
  BY <1>1, <1>3
<1>5. p \in Seq(Links \cup Ends)
  <2>1. Leaves \subseteq Ends
    BY DEF Ends
  <2>2. p \in [1..m -> Links \cup Ends]
    BY <1>1, <2>1
  <2> QED BY <1>3, <2>2
<1>6. p[Len(p)] \in Ends /\ \A i \in 1..(Len(p) - 1) : p[i] \in Links
  BY <1>2 DEF WellFormed, Ends
<1> QED BY <1>3, <1>4, <1>5, <1>6 DEF IsPath

LEMMA ExceptionIsPath ==
    ASSUME object \in Paths PROVE IsPath(AsException)
<1>1. IsPath(object)
  BY PathsArePaths
<1>2. {"details", "message"} \subseteq Links
  BY DEF Links
<1>3. IsPath(<<"details">> \o object) /\ IsPath(<<"message">> \o object)
  BY <1>1, <1>2, Prefixed
<1> QED BY <1>1, <1>3 DEF AsException

LEMMA PathIsNotNone ==
    ASSUME NEW p, IsPath(p) PROVE p # None
  BY NoneAssumption DEF IsPath, Ends

LEMMA FreshIsOK == BuilderOK(Fresh) /\ Fresh.given = <<>>
<1>1. DOMAIN Fresh = BuilderFields
  BY DEF Fresh, BuilderFields
<1>2. /\ Fresh.extra = {} /\ Fresh.given = <<>> /\ Fresh.exception = None
      /\ Fresh.raised = None /\ Fresh.id = None /\ Fresh.tenant = NoTenant
  BY DEF Fresh
<1>3. {i \in DOMAIN Fresh.given : Fresh.given[i].tenant # NoTenant} = {}
  BY <1>2
<1>4. Told(Fresh)
  BY <1>2, <1>3 DEF Told
<1> QED BY <1>1, <1>2, <1>4 DEF BuilderOK

LEMMA InContextIsOK ==
    ASSUME NEW b, BuilderOK(b), NEW c \in Contexts
    PROVE  /\ BuilderOK(InContext(b, c))
           /\ Len(InContext(b, c).given) = Len(b.given) + 1
<1> DEFINE d == InContext(b, c)
           n == Len(b.given)
           before == {i \in DOMAIN b.given : b.given[i].tenant # NoTenant}
           after == {i \in DOMAIN d.given : d.given[i].tenant # NoTenant}
<1>1. DOMAIN b = BuilderFields /\ b.given \in Seq(Contexts) /\ n \in Nat
  BY DEF BuilderOK
<1>2. DOMAIN d = BuilderFields
  BY <1>1 DEF InContext
<1>3. /\ d.id = c.id
      /\ d.tenant = IF c.tenant = NoTenant THEN b.tenant ELSE c.tenant
      /\ d.given = Append(b.given, c)
      /\ d.extra = b.extra /\ d.exception = b.exception /\ d.raised = b.raised
  BY <1>1 DEF InContext, BuilderFields
<1> HIDE DEF d
<1>4. /\ d.given \in Seq(Contexts) /\ Len(d.given) = n + 1 /\ d.given # <<>>
      /\ d.given[n + 1] = c /\ DOMAIN d.given = 1..(n + 1) /\ DOMAIN b.given = 1..n
      /\ \A i \in 1..n : d.given[i] = b.given[i]
  BY <1>1, <1>3
<1>5. d.id = IF d.given = <<>> THEN None ELSE Last(d.given).id
  BY <1>3, <1>4 DEF Last
<1>6. \/ before = {} /\ b.tenant = NoTenant
      \/ \E i \in before : (\A j \in before : j <= i) /\ b.tenant = b.given[i].tenant
  BY DEF BuilderOK, Told
<1>7. \/ after = {} /\ d.tenant = NoTenant
      \/ \E i \in after : (\A j \in after : j <= i) /\ d.tenant = d.given[i].tenant
  <2>1. CASE c.tenant = NoTenant
    <3>1. after = before
      <4>1. \A i \in 1..(n + 1) : i \in 1..n \/ i = n + 1
        BY <1>1
      <4>2. n + 1 \notin after
        BY <1>4, <2>1
      <4>3. \A i \in 1..n : i \in 1..(n + 1) /\ (i \in after <=> i \in before)
        BY <1>1, <1>4
      <4> QED BY <1>4, <4>1, <4>2, <4>3
    <3>2. d.tenant = b.tenant
      BY <1>3, <2>1
    <3>3. \A i \in before : d.given[i] = b.given[i]
      BY <1>4
    <3> HIDE DEF before, after
    <3> QED BY <1>6, <3>1, <3>2, <3>3
  <2>2. CASE c.tenant # NoTenant
    <3>1. n + 1 \in after /\ \A j \in after : j <= n + 1
      BY <1>1, <1>4, <2>2
    <3>2. d.tenant = d.given[n + 1].tenant
      BY <1>3, <1>4, <2>2
    <3> HIDE DEF after
    <3> QED BY <3>1, <3>2
  <2> QED BY <2>1, <2>2
<1>8. Told(d)
  BY <1>5, <1>7 DEF Told
<1>9. BuilderOK(d)
  BY <1>2, <1>3, <1>4, <1>8 DEF BuilderOK
<1> QED BY <1>4, <1>9 DEF d

LEMMA WithExtraIsOK ==
    ASSUME NEW b, BuilderOK(b), NEW names \in SUBSET Names
    PROVE  BuilderOK(WithExtra(b, names)) /\ WithExtra(b, names).given = b.given
<1> DEFINE d == WithExtra(b, names)
<1>1. DOMAIN b = BuilderFields
  BY DEF BuilderOK
<1>2. /\ DOMAIN d = BuilderFields /\ d.extra = b.extra \cup names
      /\ d.id = b.id /\ d.tenant = b.tenant /\ d.given = b.given
      /\ d.exception = IF "exception" \in names THEN None ELSE b.exception
      /\ d.raised = IF "exception" \in names THEN None ELSE b.raised
  BY <1>1 DEF WithExtra, BuilderFields
<1> HIDE DEF d
<1>3. Told(d)
  <2>1. Told(b)
    BY DEF BuilderOK
  <2> QED BY <1>2, <2>1 DEF Told
<1>4. d.extra \subseteq Names /\ ("exception" \in d.extra => d.exception = None)
  BY <1>2 DEF BuilderOK
<1>5. BuilderOK(d)
  BY <1>2, <1>3, <1>4 DEF BuilderOK
<1> QED BY <1>2, <1>5 DEF d

LEMMA WithExceptionIsOK ==
    ASSUME NEW b, BuilderOK(b), object \in Paths
    PROVE  BuilderOK(WithException(b)) /\ WithException(b).given = b.given
<1> DEFINE d == WithException(b)
<1>1. DOMAIN b = BuilderFields
  BY DEF BuilderOK
<1>2. /\ DOMAIN d = BuilderFields /\ d.extra = b.extra \ {"exception"}
      /\ d.id = b.id /\ d.tenant = b.tenant /\ d.given = b.given
      /\ d.exception = Redact(AsException, 0) /\ d.raised = AsException
  BY <1>1 DEF WithException, BuilderFields
<1> HIDE DEF d
<1>3. Told(d)
  <2>1. Told(b)
    BY DEF BuilderOK
  <2> QED BY <1>2, <2>1 DEF Told
<1>4. IsPath(d.raised) /\ IsPath(d.exception)
  BY <1>2, ExceptionIsPath, RedactionIsSafe DEF IsSafe
<1>5. d.raised # None /\ d.exception # None
  BY <1>4, PathIsNotNone
<1>6. BuilderOK(d)
  BY <1>2, <1>3, <1>4, <1>5 DEF BuilderOK
<1> QED BY <1>2, <1>6 DEF d

(* What is built of a builder says what it should, and no more. *)
LEMMA BuiltIsOK ==
    ASSUME NEW b, BuilderOK(b), object \in Paths
    PROVE  EventOK(Built(b)) /\ Built(b).given = b.given
<1> DEFINE e == Built(b)
<1>1. /\ e.id = b.id /\ e.tenant = b.tenant /\ e.given = b.given
      /\ e.extra = {RedactForLogging(p) : p \in Extra(b)} /\ e.source = Source(b)
  BY DEF Built
<1> HIDE DEF e
<1>2. Told(e) /\ e.given \in Seq(Contexts)
  <2>1. Told(b) /\ b.given \in Seq(Contexts)
    BY DEF BuilderOK
  <2> QED BY <1>1, <2>1 DEF Told
<1>3. IsPath(object)
  BY PathsArePaths
<1>4. "key" \in Links /\ DictLinks \subseteq Links
  BY DEF Links, DictLinks
<1>5. \A name \in b.extra : IsPath(<<LinkOf(name)>> \o object)
  <2>1. \A name \in b.extra : LinkOf(name) \in Links
    <3>1. "key" \in Links /\ "sensitive" \in Links
      BY DEF Links, DictLinks
    <3> QED BY <3>1 DEF LinkOf
  <2> QED BY <1>3, <2>1, Prefixed
<1>6. b.exception # None =>
        /\ b.raised # None /\ IsPath(b.raised) /\ b.exception = Redact(b.raised, 0)
        /\ IsPath(<<"key">> \o b.exception)
  <2> SUFFICES ASSUME b.exception # None
               PROVE  /\ b.raised # None /\ IsPath(b.raised)
                      /\ b.exception = Redact(b.raised, 0)
                      /\ IsPath(<<"key">> \o b.exception)
    OBVIOUS
  <2>1. b.raised # None /\ IsPath(b.raised) /\ b.exception = Redact(b.raised, 0)
    BY DEF BuilderOK
  <2>2. IsPath(b.exception)
    BY <2>1, RedactionIsSafe DEF IsSafe
  <2> QED BY <1>4, <2>1, <2>2, Prefixed
<1>7. \A p \in Extra(b) : IsPath(p)
  BY <1>5, <1>6 DEF Extra
<1>8. \A p \in e.extra : IsSafe(p)
  BY <1>1, <1>7, RedactionIsSafe DEF RedactForLogging
<1>9. ASSUME NEW p \in e.source, Len(p) - 1 <= MaxDepth, Harmless(p)
      PROVE  Kept(p) \in e.extra
  <2>1. ASSUME NEW name \in b.extra, p = <<LinkOf(name)>> \o object
        PROVE  Kept(p) \in e.extra
    <3>1. p \in Extra(b) /\ IsPath(p)
      BY <1>5, <2>1 DEF Extra
    <3>2. RedactForLogging(p) = Kept(p)
      BY <1>9, <3>1, RedactKeeps
    <3> QED BY <1>1, <3>1, <3>2
  <2>2. CASE b.raised # None /\ p = <<"key">> \o b.raised
    <3>1. b.exception # None
      BY <2>2 DEF BuilderOK
    <3>2. IsPath(b.raised) /\ b.exception = Redact(b.raised, 0)
      BY <1>6, <3>1
    <3>3. RedactForLogging(<<"key">> \o b.exception) = Kept(p)
      BY <1>9, <2>2, <3>2, SecondPassKeeps
    <3>4. <<"key">> \o b.exception \in Extra(b)
      BY <3>1 DEF Extra
    <3> QED BY <1>1, <3>3, <3>4
  <2> QED BY <1>1, <2>1, <2>2 DEF Source
<1>10. EventOK(e)
  BY <1>2, <1>8, <1>9 DEF EventOK
<1> QED BY <1>1, <1>10 DEF e

LEMMA NoEventIsOK == EventOK(NoEvent) /\ NoEvent.given = <<>>
<1>1. /\ NoEvent.id = None /\ NoEvent.tenant = NoTenant /\ NoEvent.extra = {}
      /\ NoEvent.given = <<>> /\ NoEvent.source = {}
  BY DEF NoEvent
<1>2. {i \in DOMAIN NoEvent.given : NoEvent.given[i].tenant # NoTenant} = {}
  BY <1>1
<1>3. Told(NoEvent)
  BY <1>1, <1>2 DEF Told
<1> QED BY <1>1, <1>3 DEF EventOK

-----------------------------------------------------------------------------
(* The inductive invariant. *)
LEMMA FillKeeps ==
    ASSUME LogInv, NEW t \in Threads, stage[t] \notin {"built", "logging"},
           NEW b, BuilderOK(b), NEW next \in {"idle", "filling", "calling"},
           next = "calling" => Len(b.given) <= 1,
           Fill(t, b, next)
    PROVE  LogInv'
<1>1. /\ builder' = [builder EXCEPT ![t] = b] /\ stage' = [stage EXCEPT ![t] = next]
      /\ object' = object /\ event' = event
  BY DEF Fill
<1>2. /\ object' \in Paths /\ stage' \in [Threads -> Stages]
      /\ DOMAIN builder' = Threads /\ DOMAIN event' = Threads
  BY <1>1 DEF LogInv, Stages, Paths
<1>3. ASSUME NEW u \in Threads
      PROVE  /\ BuilderOK(builder'[u]) /\ EventOK(event'[u])
             /\ event'[u] # NoEvent => stage'[u] \in {"built", "logging"}
             /\ stage'[u] = "calling" => Len(builder'[u].given) <= 1
             /\ stage'[u] = "logging" => Len(event'[u].given) <= 1
  <2>1. CASE u = t
    <3>1. builder'[u] = b /\ stage'[u] = next /\ event'[u] = event[t]
      BY <1>1, <2>1 DEF LogInv
    <3>2. event[t] = NoEvent /\ EventOK(event[t])
      BY DEF LogInv
    <3> QED BY <3>1, <3>2
  <2>2. CASE u # t
    <3>1. builder'[u] = builder[u] /\ stage'[u] = stage[u] /\ event'[u] = event[u]
      BY <1>1, <2>2 DEF LogInv
    <3> QED BY <3>1 DEF LogInv
  <2> QED BY <2>1, <2>2
<1> QED BY <1>2, <1>3 DEF LogInv

LEMMA LogInvariant == Spec => []LogInv
<1>1. Init => LogInv
  <2> SUFFICES ASSUME Init PROVE LogInv
    OBVIOUS
  <2>1. /\ object \in Paths /\ stage = [t \in Threads |-> "idle"]
        /\ builder = [t \in Threads |-> Fresh] /\ event = [t \in Threads |-> NoEvent]
    BY DEF Init
  <2>2. \A t \in Threads : stage[t] = "idle" /\ builder[t] = Fresh /\ event[t] = NoEvent
    BY <2>1
  <2>3. stage \in [Threads -> Stages] /\ DOMAIN builder = Threads /\ DOMAIN event = Threads
    BY <2>1 DEF Stages
  <2> QED BY <2>1, <2>2, <2>3, FreshIsOK, NoEventIsOK DEF LogInv
<1>2. LogInv /\ [Next]_vars => LogInv'
  <2> SUFFICES ASSUME LogInv, [Next]_vars PROVE LogInv'
    OBVIOUS
  <2>0. object \in Paths /\ \A t \in Threads : BuilderOK(builder[t])
    BY DEF LogInv
  <2>1. CASE Change
    <3>1. object' \in Paths
      BY <2>1, ChangesAssumption DEF Change
    <3> QED BY <2>1, <3>1 DEF Change, LogInv, Paths
  <2>2. ASSUME NEW t \in Threads, NewEvent(t) PROVE LogInv'
    BY <2>2, FreshIsOK, FillKeeps DEF NewEvent
  <2>3. ASSUME NEW t \in Threads, FillIn(t) PROVE LogInv'
    <3>1. stage[t] = "filling" /\ BuilderOK(builder[t])
      BY <2>0, <2>3 DEF FillIn
    <3>2. ASSUME NEW c \in Contexts, Fill(t, InContext(builder[t], c), "filling") PROVE LogInv'
      BY <3>1, <3>2, InContextIsOK, FillKeeps
    <3>3. ASSUME NEW name \in Names, Fill(t, WithExtra(builder[t], {name}), "filling")
          PROVE  LogInv'
      BY <3>1, <3>3, WithExtraIsOK, FillKeeps
    <3>4. ASSUME Fill(t, WithException(builder[t]), "filling") PROVE LogInv'
      BY <2>0, <3>1, <3>4, WithExceptionIsOK, FillKeeps
    <3> QED BY <2>3, <3>2, <3>3, <3>4 DEF FillIn
  <2>4. ASSUME NEW t \in Threads, Discard(t) PROVE LogInv'
    BY <2>4, FreshIsOK, FillKeeps DEF Discard
  <2>5. ASSUME NEW t \in Threads, NEW c \in Contexts, NEW names \in SUBSET Names,
               LogOperation(t, c, names)
        PROVE  LogInv'
    <3> DEFINE d == InContext(Fresh, c)
               b == WithExtra(d, names)
    <3>1. BuilderOK(d) /\ Len(d.given) <= 1
      BY FreshIsOK, InContextIsOK
    <3> HIDE DEF d
    <3>2. BuilderOK(b) /\ Len(b.given) <= 1
      BY <3>1, WithExtraIsOK
    <3>3. stage[t] = "idle" /\ Fill(t, b, "calling")
      BY <2>5 DEF LogOperation, d
    <3> HIDE DEF b
    <3> QED BY <3>2, <3>3, FillKeeps
  <2>6. ASSUME NEW t \in Threads, NEW c \in Contexts \cup {None},
               NEW names \in SUBSET DictLinks, LogError(t, c, names)
        PROVE  LogInv'
    <3> DEFINE d == IF c = None THEN Fresh ELSE InContext(Fresh, c)
               b == WithExtra(d, names)
               x == WithException(b)
    <3>1. BuilderOK(d) /\ Len(d.given) <= 1
      <4>1. CASE c = None
        BY <4>1, FreshIsOK
      <4>2. CASE c # None
        BY <4>2, FreshIsOK, InContextIsOK
      <4> QED BY <4>1, <4>2
    <3>2. stage[t] = "idle" /\ (Fill(t, b, "calling") \/ Fill(t, x, "calling"))
      BY <2>6 DEF LogError
    <3> HIDE DEF d
    <3>3. BuilderOK(b) /\ Len(b.given) <= 1
      <4>1. names \in SUBSET Names
        BY DEF Names
      <4> QED BY <3>1, <4>1, WithExtraIsOK
    <3> HIDE DEF b
    <3>4. BuilderOK(x) /\ Len(x.given) <= 1
      BY <2>0, <3>3, WithExceptionIsOK
    <3> HIDE DEF x
    <3> QED BY <3>2, <3>3, <3>4, FillKeeps
  <2>7. ASSUME NEW t \in Threads, Build(t) PROVE LogInv'
    <3> DEFINE e == Built(builder[t])
    <3>1. EventOK(e) /\ e.given = builder[t].given
      BY <2>0, BuiltIsOK
    <3> HIDE DEF e
    <3>2. /\ stage[t] \in {"filling", "calling"}
          /\ event' = [event EXCEPT ![t] = e]
          /\ stage' = [stage EXCEPT ![t] = IF stage[t] = "filling" THEN "built" ELSE "logging"]
          /\ object' = object /\ builder' = builder
      BY <2>7 DEF Build, e, LogInv
    <3>3. /\ object' \in Paths /\ stage' \in [Threads -> Stages]
          /\ DOMAIN builder' = Threads /\ DOMAIN event' = Threads
      BY <3>2 DEF LogInv, Stages, Paths
    <3>4. ASSUME NEW u \in Threads
          PROVE  /\ BuilderOK(builder'[u]) /\ EventOK(event'[u])
                 /\ event'[u] # NoEvent => stage'[u] \in {"built", "logging"}
                 /\ stage'[u] = "calling" => Len(builder'[u].given) <= 1
                 /\ stage'[u] = "logging" => Len(event'[u].given) <= 1
      <4>1. CASE u = t
        <5>1. /\ event'[u] = e /\ builder'[u] = builder[t]
              /\ stage'[u] = IF stage[t] = "filling" THEN "built" ELSE "logging"
          BY <3>2, <4>1 DEF LogInv
        <5>2. stage[t] # "filling" => Len(builder[t].given) <= 1
          BY <3>2 DEF LogInv
        <5> QED BY <2>0, <3>1, <5>1, <5>2
      <4>2. CASE u # t
        <5>1. builder'[u] = builder[u] /\ stage'[u] = stage[u] /\ event'[u] = event[u]
          BY <3>2, <4>2 DEF LogInv
        <5> QED BY <5>1 DEF LogInv
      <4> QED BY <4>1, <4>2
    <3> QED BY <3>3, <3>4 DEF LogInv
  <2>8. ASSUME NEW t \in Threads, Write(t) PROVE LogInv'
    <3>1. /\ event' = [event EXCEPT ![t] = NoEvent] /\ object' = object
          /\ \/ stage' = [stage EXCEPT ![t] = "filling"] /\ builder' = builder
             \/ stage' = [stage EXCEPT ![t] = "idle"] /\ builder' = [builder EXCEPT ![t] = Fresh]
      BY <2>8 DEF Write
    <3>2. /\ object' \in Paths /\ stage' \in [Threads -> Stages]
          /\ DOMAIN builder' = Threads /\ DOMAIN event' = Threads
      BY <3>1 DEF LogInv, Stages, Paths
    <3>3. ASSUME NEW u \in Threads
          PROVE  /\ BuilderOK(builder'[u]) /\ EventOK(event'[u])
                 /\ event'[u] # NoEvent => stage'[u] \in {"built", "logging"}
                 /\ stage'[u] = "calling" => Len(builder'[u].given) <= 1
                 /\ stage'[u] = "logging" => Len(event'[u].given) <= 1
      <4>1. CASE u = t
        <5>1. /\ event'[u] = NoEvent /\ stage'[u] \in {"filling", "idle"}
              /\ builder'[u] = builder[t] \/ builder'[u] = Fresh
          BY <3>1, <4>1 DEF LogInv
        <5> QED BY <2>0, <5>1, FreshIsOK, NoEventIsOK
      <4>2. CASE u # t
        <5>1. builder'[u] = builder[u] /\ stage'[u] = stage[u] /\ event'[u] = event[u]
          BY <3>1, <4>2 DEF LogInv
        <5> QED BY <5>1 DEF LogInv
      <4> QED BY <4>1, <4>2
    <3> QED BY <3>2, <3>3 DEF LogInv
  <2>9. CASE UNCHANGED vars
    BY <2>9 DEF vars, LogInv, Paths
  <2> QED BY <2>1, <2>2, <2>3, <2>4, <2>5, <2>6, <2>7, <2>8, <2>9 DEF Next
<1> QED BY <1>1, <1>2, PTL DEF Spec

-----------------------------------------------------------------------------
(* Type correctness (TypeOK): an event is there from its build to its      *)
(* write only, and holds paths of redacted values.                         *)
THEOREM TypeCorrect == Spec => []TypeOK
<1>1. LogInv => TypeOK
  <2> SUFFICES ASSUME LogInv PROVE TypeOK
    OBVIOUS
  <2>1. ASSUME NEW p, IsSafe(p) PROVE p \in Seq(Outcomes)
    <3>1. p \in [1..Len(p) -> Links \cup Ends] /\ Len(p) \in Nat
      BY <2>1 DEF IsSafe, IsPath
    <3>2. \A i \in 1..Len(p) : p[i] \in Outcomes
      BY <2>1, <3>1 DEF IsSafe, Outcomes, Ends, Leaves
    <3>3. p \in [1..Len(p) -> Outcomes]
      BY <3>1, <3>2
    <3> QED BY <3>1, <3>3
  <2>2. ASSUME NEW t \in Threads
        PROVE  /\ builder[t].extra \subseteq Names
               /\ "exception" \in builder[t].extra => builder[t].exception = None
               /\ builder[t].exception = None <=> builder[t].raised = None
               /\ {builder[t].given, event[t].given} \subseteq Seq(Contexts)
               /\ \A p \in event[t].extra : p \in Seq(Outcomes)
               /\ event[t] # NoEvent => stage[t] \in {"built", "logging"}
    <3>1. BuilderOK(builder[t]) /\ EventOK(event[t])
      BY DEF LogInv
    <3>2. event[t] # NoEvent => stage[t] \in {"built", "logging"}
      BY DEF LogInv
    <3> QED BY <2>1, <3>1, <3>2 DEF BuilderOK, EventOK
  <2> QED BY <2>2 DEF TypeOK, LogInv, Stages
<1> QED BY <1>1, LogInvariant, PTL

(* An event tells no secret (NothingSensitiveLogged), for every depth      *)
(* limit and every object: what _redact_string cleans is clean, and of a   *)
(* sensitive key's value nothing is left, after one pass over the extra    *)
(* data and two over an exception.                                         *)
THEOREM LogsAreSafe == Spec => []NothingSensitiveLogged
<1>1. LogInv => NothingSensitiveLogged
  <2> SUFFICES ASSUME LogInv, NEW t \in Threads, NEW p \in event[t].extra
               PROVE  /\ "secret" \notin ToSet(p)
                      /\ \A i \in DOMAIN p :
                            p[i] = "sensitive" => SubSeq(p, i + 1, Len(p)) = <<"redacted">>
    BY DEF NothingSensitiveLogged
  <2>1. IsSafe(p)
    BY DEF LogInv, EventOK
  <2>2. DOMAIN p = 1..Len(p) /\ p \in Seq(Links \cup Ends) /\ Len(p) \in Nat
    BY <2>1 DEF IsSafe, IsPath
  <2>3. "secret" \notin ToSet(p)
    BY <2>1, <2>2 DEF IsSafe, ToSet
  <2>4. ASSUME NEW i \in DOMAIN p, p[i] = "sensitive"
        PROVE  SubSeq(p, i + 1, Len(p)) = <<"redacted">>
    <3>0. i \in 1..Len(p)
      BY <2>2
    <3>1. i + 1 = Len(p) /\ p[Len(p)] = "redacted"
      BY <2>1, <2>4, <3>0 DEF IsSafe
    <3> DEFINE n == Len(p)
               q == SubSeq(p, n, n)
    <3>2. n \in Int /\ \A j \in n..n : p[j] \in Links \cup Ends
      BY <2>2, <3>1
    <3>3. /\ q \in Seq(Links \cup Ends)
          /\ Len(q) = IF n <= n THEN n - n + 1 ELSE 0
          /\ \A j \in 1..(n - n + 1) : q[j] = p[n + j - 1]
      BY <3>2, SubSeqProperties
    <3> HIDE DEF q
    <3>4. Len(q) = 1 /\ q[1] = p[n]
      BY <3>2, <3>3
    <3>5. q = <<"redacted">>
      BY <3>1, <3>3, <3>4
    <3> QED BY <3>1, <3>5 DEF q
  <2> QED BY <2>3, <2>4
<1> QED BY <1>1, LogInvariant, PTL

(* And redaction takes no more than that away (RedactedNoMore): what lies  *)
(* within max_depth and behind no sensitive key is logged as it was when   *)
(* the event was built, or the exception passed.                           *)
THEOREM NoMoreIsRedacted == Spec => []RedactedNoMore
<1>1. LogInv => RedactedNoMore
  BY DEF LogInv, EventOK, RedactedNoMore, Harmless
<1> QED BY <1>1, LogInvariant, PTL

(* An event is about the context its builder was given last; its tenant is *)
(* that context's if it has one, never one from elsewhere, and that of the *)
(* only context of a call of log_operation or log_error                    *)
(* (EventOfItsContext).                                                    *)
THEOREM EventsTellTheirContext == Spec => []EventOfItsContext
<1>1. LogInv => EventOfItsContext
  <2> SUFFICES ASSUME LogInv, NEW t \in Threads
               PROVE  LET e == event[t]
                          tenant == IF e.given = <<>> THEN NoTenant ELSE Last(e.given).tenant
                      IN  /\ e.id = IF e.given = <<>> THEN None ELSE Last(e.given).id
                          /\ tenant # NoTenant => e.tenant = tenant
                          /\ e.tenant # NoTenant =>
                                \E i \in DOMAIN e.given : e.given[i].tenant = e.tenant
                          /\ stage[t] = "logging" => e.tenant = tenant
    BY DEF EventOfItsContext
  <2> DEFINE e == event[t]
             n == Len(e.given)
             withTenant == {i \in DOMAIN e.given : e.given[i].tenant # NoTenant}
  <2>1. /\ e.given \in Seq(Contexts) /\ n \in Nat /\ DOMAIN e.given = 1..n
        /\ e.id = IF e.given = <<>> THEN None ELSE Last(e.given).id
        /\ \/ withTenant = {} /\ e.tenant = NoTenant
           \/ \E i \in withTenant :
                 (\A j \in withTenant : j <= i) /\ e.tenant = e.given[i].tenant
        /\ stage[t] = "logging" => n <= 1
    BY DEF LogInv, EventOK, Told
  <2> HIDE DEF e
  <2>2. e.given # <<>> => n \in DOMAIN e.given /\ Last(e.given) = e.given[n]
    BY <2>1 DEF Last
  <2>3. ASSUME e.given = <<>> PROVE e.tenant = NoTenant
    BY <2>1, <2>3
  <2>4. ASSUME e.given # <<>>, e.given[n].tenant # NoTenant
        PROVE  e.tenant = e.given[n].tenant
    <3>1. n \in withTenant /\ \A i \in withTenant : i \in 1..n
      BY <2>1, <2>2, <2>4
    <3> QED BY <2>1, <3>1
  <2>5. ASSUME e.given # <<>>, e.given[n].tenant = NoTenant, n <= 1
        PROVE  e.tenant = NoTenant
    <3>1. withTenant = {}
      BY <2>1, <2>2, <2>5
    <3> QED BY <2>1, <3>1
  <2>6. e.tenant # NoTenant => \E i \in DOMAIN e.given : e.given[i].tenant = e.tenant
    BY <2>1
  <2> QED BY <2>1, <2>2, <2>3, <2>4, <2>5, <2>6 DEF e
<1> QED BY <1>1, LogInvariant, PTL
=============================================================================
