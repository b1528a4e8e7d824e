--------------------------- MODULE Lifetimes_proofs ---------------------------
(***************************************************************************)
(* Theorems about lifetimes, for every resolution of the serialised        *)
(* instants and every bound on the clock.                                  *)
(***************************************************************************)
EXTENDS Lifetimes, TLAPS

-----------------------------------------------------------------------------
(* to_iso cuts off less than one unit, and cutting again takes nothing.    *)
LEMMA IsoCutsOnce ==
    ASSUME NEW t \in Nat
    PROVE  /\ ToIso(t) \in Nat
           /\ ToIso(t) <= t
           /\ t - ToIso(t) < Milli
           /\ ToIso(ToIso(t)) = ToIso(t)
<1> DEFINE q == t \div Milli
<1>1. Milli \in Nat /\ Milli > 0
  BY MilliAssumption
<1>2. q \in Nat /\ q * Milli <= t /\ t - q * Milli < Milli /\ q * Milli \in Nat
  BY <1>1, SMTT(30)
<1>3. (q * Milli) \div Milli = q
  BY <1>1, <1>2, SMTT(30)
<1> HIDE DEF q
<1>4. ToIso(t) = q * Milli
  BY DEF ToIso, q
<1>5. ToIso(q * Milli) = q * Milli
  BY <1>3 DEF ToIso
<1> QED BY <1>2, <1>4, <1>5

-----------------------------------------------------------------------------
(* What the predicates compare are instants, and nothing is asked of a     *)
(* moment still to come.                                                   *)
Instants ==
    /\ now \in 0..Horizon /\ expiresAt \in 0..Horizon
    /\ exp \in Nat /\ wire \in Nat
    /\ {status, loaded} \subseteq {"active", "revoked"}
    /\ tokenCheck \in [passed : BOOLEAN, at : -1..now]
    /\ sessionCheck \in [passed : BOOLEAN, at : -1..now]

LEMMA InstantsInvariant == Spec => []Instants
<1>1. Init => Instants
  <2> SUFFICES ASSUME Init PROVE Instants
    OBVIOUS
  <2>1. expiresAt \in Nat
    BY HorizonAssumption DEF Init
  <2>2. exp \in Nat /\ wire \in Nat
    BY <2>1, IsoCutsOnce DEF Init
  <2>3. now = 0 /\ Unasked \in [passed : BOOLEAN, at : -1..now]
    BY DEF Init, Unasked
  <2> QED BY <2>2, <2>3, HorizonAssumption DEF Init, Instants
<1>2. Instants /\ [Next]_vars => Instants'
  <2> SUFFICES ASSUME Instants, [Next]_vars PROVE Instants'
    OBVIOUS
  <2> USE HorizonAssumption DEF Instants
  <2>1. CASE Tick
    <3>1. -1..now \subseteq -1..now'
      BY <2>1 DEF Tick
    <3> QED BY <2>1, <3>1 DEF Tick
  <2>2. CASE Revoke
    BY <2>2 DEF Revoke
  <2>3. CASE Decode
    BY <2>3 DEF Decode, FromIso
  <2>4. CASE Encode
    <3>1. ToIso(exp) \in Nat
      BY IsoCutsOnce
    <3> QED BY <2>4, <3>1 DEF Encode
  <2>5. CASE Load
    BY <2>5 DEF Load
  <2>6. CASE CheckToken
    <3>1. (~TokenIsExpired(now)) \in BOOLEAN
      BY Zenon
    <3> QED BY <2>6, <3>1 DEF CheckToken
  <2>7. CASE CheckSession
    <3>1. SessionIsActive(loaded, now) \in BOOLEAN
      BY Zenon DEF SessionIsActive
    <3> QED BY <2>7, <3>1 DEF CheckSession
  <2>8. CASE UNCHANGED vars
    BY <2>8 DEF vars
  <2> QED BY <2>1, <2>2, <2>3, <2>4, <2>5, <2>6, <2>7, <2>8 DEF Next
<1> QED BY <1>1, <1>2, PTL DEF Spec

-----------------------------------------------------------------------------
(* The string always denotes the expiry cut off once, and the claims carry *)
(* either what was issued or what the string says.                         *)
SerializedOnce ==
    /\ wire = ToIso(expiresAt)
    /\ exp \in {expiresAt, wire}

(* SerializedOnce is inductive, given the types. *)
LEMMA SerializedInvariant == Spec => []SerializedOnce
<1>1. Init => SerializedOnce
  BY DEF Init, SerializedOnce
<1>2. Instants /\ SerializedOnce /\ [Next]_vars => SerializedOnce'
  <2> SUFFICES ASSUME Instants, SerializedOnce, [Next]_vars PROVE SerializedOnce'
    OBVIOUS
  <2>1. ToIso(ToIso(expiresAt)) = ToIso(expiresAt)
    BY IsoCutsOnce, HorizonAssumption DEF Instants
  <2>2. CASE Decode
    BY <2>2 DEF Decode, FromIso, SerializedOnce, ToIso
  <2>3. CASE Encode
    <3>1. wire' = ToIso(expiresAt)
      BY <2>1, <2>3 DEF Encode, SerializedOnce
    <3> QED BY <2>3, <3>1 DEF Encode, SerializedOnce, ToIso
  <2>4. CASE UNCHANGED <<wire, exp, expiresAt>>
    BY <2>4 DEF SerializedOnce, ToIso
  <2> QED BY <2>2, <2>3, <2>4
          DEF Next, Tick, Revoke, Load, CheckToken, CheckSession, vars
<1> QED BY <1>1, <1>2, InstantsInvariant, PTL DEF Spec

(* Claims end with the session or less than a unit before it, whatever is  *)
(* encoded and decoded in between, and the predicates of session, API key  *)
(* and role assignment agree on every instant.                             *)
THEOREM EndTogether == Spec => []OneEnd
<1>1. Instants /\ SerializedOnce => OneEnd
  <2> SUFFICES ASSUME Instants, SerializedOnce PROVE OneEnd
    OBVIOUS
  <2>1. expiresAt \in Nat /\ expiresAt # Never
    BY HorizonAssumption, NeverAssumption DEF Instants
  <2>2. /\ ToIso(expiresAt) \in Nat
        /\ ToIso(expiresAt) <= expiresAt
        /\ expiresAt - ToIso(expiresAt) < Milli
    BY <2>1, IsoCutsOnce
  <2>3. wire <= exp /\ exp <= expiresAt /\ expiresAt - exp < Milli /\ exp \in Nat
    BY <2>1, <2>2, MilliAssumption DEF SerializedOnce
  <2>4. ASSUME NEW at \in 0..(Horizon + 1)
        PROVE  LET alive == SessionIsActive("active", at)
               IN  /\ ~TokenIsExpired(at) => alive
                   /\ alive <=> ApiKeyIsActive("active", expiresAt, at)
                   /\ alive <=> ~AssignmentIsExpired(expiresAt, at)
                   /\ ApiKeyIsActive("active", Never, at) /\ ~AssignmentIsExpired(Never, at)
    <3>1. at \in Int
      BY HorizonAssumption
    <3> QED
      BY <2>1, <2>3, <3>1
      DEF SessionIsActive, TokenIsExpired, ApiKeyIsActive, AssignmentIsExpired, IsPast
  <2> QED BY <2>3, <2>4 DEF OneEnd
<1> QED BY <1>1, InstantsInvariant, SerializedInvariant, PTL

-----------------------------------------------------------------------------
(* What the last answers tell: one that passed was given before the        *)
(* session ended; a token that did not pass was found past what is left of *)
(* its expiry; a session that did not pass was revoked or had ended.       *)
ChecksTell ==
    /\ loaded = "revoked" => status = "revoked"
    /\ tokenCheck.passed => tokenCheck.at <= expiresAt
    /\ tokenCheck # Unasked /\ ~tokenCheck.passed => expiresAt - tokenCheck.at < Milli
    /\ sessionCheck.passed => sessionCheck.at <= expiresAt
    /\ sessionCheck # Unasked /\ ~sessionCheck.passed =>
          status = "revoked" \/ expiresAt < sessionCheck.at

(* ChecksTell is inductive, given the instants and SerializedOnce. *)
LEMMA ChecksInvariant == Spec => []ChecksTell
<1>1. Init => ChecksTell
  BY DEF Init, ChecksTell, Unasked
<1>2. Instants /\ SerializedOnce /\ ChecksTell /\ [Next]_vars => ChecksTell'
  <2> SUFFICES ASSUME Instants, SerializedOnce, ChecksTell, [Next]_vars PROVE ChecksTell'
    OBVIOUS
  <2>1. CASE CheckToken
    <3>1. tokenCheck'.passed <=> ~(now > exp)
      BY <2>1, Zenon DEF CheckToken, TokenIsExpired, IsPast
    <3>2. tokenCheck'.at = now
      BY <2>1 DEF CheckToken
    <3>3. exp \in Nat /\ exp <= expiresAt /\ expiresAt - exp < Milli /\ expiresAt \in Nat /\ now \in Nat
      BY IsoCutsOnce, HorizonAssumption, MilliAssumption DEF Instants, SerializedOnce
    <3>4. tokenCheck'.passed => tokenCheck'.at <= expiresAt
      BY <3>1, <3>2, <3>3
    <3>5. ~tokenCheck'.passed => expiresAt - tokenCheck'.at < Milli
      BY <3>1, <3>2, <3>3, MilliAssumption
    <3> QED BY <2>1, <3>4, <3>5 DEF CheckToken, ChecksTell
  <2>2. CASE CheckSession
    <3>1. sessionCheck'.passed <=> loaded = "active" /\ now <= expiresAt
      BY <2>2, Zenon DEF CheckSession, SessionIsActive
    <3>2. sessionCheck'.at = now /\ UNCHANGED <<now, expiresAt, status, loaded, tokenCheck>>
      BY <2>2 DEF CheckSession
    <3>3. loaded \in {"active", "revoked"} /\ now \in Int /\ expiresAt \in Int
      BY HorizonAssumption DEF Instants
    <3>4. ~sessionCheck'.passed => status = "revoked" \/ expiresAt < now
      BY <3>1, <3>3 DEF ChecksTell
    <3> QED BY <3>1, <3>2, <3>4, Zenon DEF ChecksTell, Unasked
  <2>3. CASE Revoke
    BY <2>3 DEF Revoke, ChecksTell, Unasked
  <2>4. CASE Load
    BY <2>4 DEF Load, ChecksTell, Unasked
  <2>5. CASE UNCHANGED <<expiresAt, status, loaded, tokenCheck, sessionCheck>>
    BY <2>5 DEF ChecksTell, Unasked
  <2> QED BY <2>1, <2>2, <2>3, <2>4, <2>5 DEF Next, Tick, Decode, Encode, vars
<1> QED BY <1>1, <1>2, InstantsInvariant, SerializedInvariant, PTL DEF Spec

(* Answers about token and session disagree only when the expiry or the    *)
(* revocation came between them, or in the last fraction of a unit of the  *)
(* session, in whatever order and however often they are asked for.        *)
THEOREM DisagreementIsAtTheEdge == Spec => []ChecksDisagreeOnlyAtTheEdge
<1>1. ChecksTell => ChecksDisagreeOnlyAtTheEdge
  BY DEF ChecksTell, ChecksDisagreeOnlyAtTheEdge
<1> QED BY <1>1, ChecksInvariant, PTL
=============================================================================
