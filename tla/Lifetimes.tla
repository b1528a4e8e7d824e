------------------------------ MODULE Lifetimes ------------------------------
(***************************************************************************)
(* Timestamps and what expires by them: the claims of a token, its         *)
(* session, an API key and a role assignment that were given one expiry.   *)
(* The claims travel as ISO strings, which end at the millisecond, and may *)
(* be encoded again after they were decoded.  Whoever asks a predicate     *)
(* asks it of the entity at hand, which may have been loaded before the    *)
(* session was revoked, and of the clock at that moment.                   *)
(*                                                                         *)
(* Time is counted in microseconds.  Who issues, encodes, loads and asks   *)
(* is outside of the repository, which declares these services only: all   *)
(* that may happen at any time, in any order and any number of times.      *)
(***************************************************************************)
EXTENDS Integers

CONSTANTS
    Milli,      \* microseconds in a millisecond
    Horizon,    \* bound on the clock
    Never       \* expires_at of what does not expire: None

VARIABLES
    now,
    expiresAt,    \* of session, API key and role assignment
    exp,          \* of the claims, as last decoded
    wire,         \* the instant the encoded claims denote
    status,       \* of the stored session
    loaded,       \* the status in the session entity at hand
    tokenCheck,   \* history: what the token was last found to be, and when
    sessionCheck  \* history: the same of the session

vars == <<now, expiresAt, exp, wire, status, loaded, tokenCheck, sessionCheck>>

ASSUME MilliAssumption == Milli \in Nat \ {0}
ASSUME HorizonAssumption == Horizon \in Nat
ASSUME NeverAssumption == Never \notin Nat

(* Slip: the fraction is rounded. *)
RoundedIso(t) == ((t + Milli \div 2) \div Milli) * Milli

(* to_iso: the last three of six digits are cut off. *)
ToIso(t) == (t \div Milli) * Milli

FromIso(instant) == instant

(* Timestamp.__gt__ of the clock *)
IsPast(t, at) == at > t

(* Slip: the session has ended at the instant it expires. *)
SessionEndsAtOnce(s, at) == s = "active" /\ at < expiresAt

(* TokenClaims.is_expired, Session.is_active, ApiKey.is_active and         *)
(* RoleAssignment.is_expired, each in the form the code has for it.        *)
TokenIsExpired(at) == IsPast(exp, at)
SessionIsActive(s, at) == s = "active" /\ at <= expiresAt
ApiKeyIsActive(s, e, at) == s = "active" /\ ~(e # Never /\ IsPast(e, at))
AssignmentIsExpired(e, at) == e # Never /\ IsPast(e, at)

Unasked == [passed |-> FALSE, at |-> -1]

(* A login: one instant of expiry for all. *)
Init ==
    /\ now = 0
    /\ expiresAt \in 0..Horizon
    /\ exp = expiresAt
    /\ wire = ToIso(expiresAt)
    /\ status = "active"
    /\ loaded = "active"
    /\ tokenCheck = Unasked
    /\ sessionCheck = Unasked

-----------------------------------------------------------------------------
Tick ==
    /\ now < Horizon
    /\ now' = now + 1
    /\ UNCHANGED <<expiresAt, exp, wire, status, loaded, tokenCheck, sessionCheck>>

Revoke ==
    /\ status' = "revoked"
    /\ UNCHANGED <<now, expiresAt, exp, wire, loaded, tokenCheck, sessionCheck>>

(* The claims are made from the string, and encoded from the claims. *)
Decode ==
    /\ exp' = FromIso(wire)
    /\ UNCHANGED <<now, expiresAt, wire, status, loaded, tokenCheck, sessionCheck>>

Encode ==
    /\ wire' = ToIso(exp)
    /\ UNCHANGED <<now, expiresAt, exp, status, loaded, tokenCheck, sessionCheck>>

(* The session is read from its repository. *)
Load ==
    /\ loaded' = status
    /\ UNCHANGED <<now, expiresAt, exp, wire, status, tokenCheck, sessionCheck>>

(* Someone asks whether the token is expired, whether the session is active. *)
CheckToken ==
    /\ tokenCheck' = [passed |-> ~TokenIsExpired(now), at |-> now]
    /\ UNCHANGED <<now, expiresAt, exp, wire, status, loaded, sessionCheck>>

CheckSession ==
    /\ sessionCheck' = [passed |-> SessionIsActive(loaded, now), at |-> now]
    /\ UNCHANGED <<now, expiresAt, exp, wire, status, loaded, tokenCheck>>

Next == Tick \/ Revoke \/ Decode \/ Encode \/ Load \/ CheckToken \/ CheckSession

Spec == Init /\ [][Next]_vars

-----------------------------------------------------------------------------
(* However often the claims are encoded and decoded, they expire with the  *)
(* session or before it, by less than a millisecond: the losses of the     *)
(* serialisation neither add up nor let a token outlive its session.  And  *)
(* session, API key and role assignment, whose predicates compare in       *)
(* different ways, end together: they agree on every instant, the very     *)
(* instant of expiry included, and None does not expire.                   *)
OneEnd ==
    /\ wire <= exp /\ exp <= expiresAt /\ expiresAt - exp < Milli
    /\ \A at \in 0..(Horizon + 1) :
          LET alive == SessionIsActive("active", at)
          IN  /\ ~TokenIsExpired(at) => alive
              /\ alive <=> ApiKeyIsActive("active", expiresAt, at)
              /\ alive <=> ~AssignmentIsExpired(expiresAt, at)
              /\ ApiKeyIsActive("active", Never, at) /\ ~AssignmentIsExpired(Never, at)

(* Two predicates asked at two instants, in either order: both pass only   *)
(* while session and token live; if a token that passed goes with a        *)
(* session that did not, the session was revoked or expired after the      *)
(* token was asked; if it is the other way round, the session had less     *)
(* than a millisecond left when the token was found expired, or had ended. *)
ChecksDisagreeOnlyAtTheEdge ==
    tokenCheck # Unasked /\ sessionCheck # Unasked =>
        /\ tokenCheck.passed => tokenCheck.at <= expiresAt
        /\ sessionCheck.passed => sessionCheck.at <= expiresAt
        /\ tokenCheck.passed /\ ~sessionCheck.passed =>
              status = "revoked" \/ expiresAt < sessionCheck.at
        /\ ~tokenCheck.passed /\ sessionCheck.passed =>
              expiresAt - tokenCheck.at < Milli
=============================================================================
