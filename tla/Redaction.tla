------------------------------ MODULE Redaction ------------------------------
(***************************************************************************)
(* SecretRedactor.  A structured value is taken apart into its paths: what *)
(* becomes of a leaf depends on nothing but the way down to it.  A path is *)
(* the sequence of the containers on the way, each named by how it leads   *)
(* on, and of the leaf:                                                    *)
(*   "key", "sensitive"     a dict, through an ordinary or a sensitive key *)
(*   "item"                 a list or tuple                                *)
(*   "message", "details"   an exception, through str or its details       *)
(* A leaf is a string without sensitive content ("plain") or with such     *)
(* ("secret"), or any other value ("opaque").                              *)
(***************************************************************************)
EXTENDS Integers, Sequences, FiniteSets

CONSTANT MaxDepth     \* max_depth of the RedactionConfig

ASSUME MaxDepthAssumption == MaxDepth \in Nat

DictLinks == {"key", "sensitive"}
Links == DictLinks \cup {"item", "message", "details"}
Leaves == {"plain", "secret", "opaque"}

(* The details of an exception are a dict, and str of it is a string. *)
WellFormed(p) ==
    /\ p[Len(p)] \in Leaves
    /\ \A i \in 1..(Len(p) - 1) :
          /\ p[i] \in Links
          /\ p[i] = "details" => p[i + 1] \in DictLinks
          /\ p[i] = "message" => p[i + 1] \in {"plain", "secret"}

(* The paths of at most n links. *)
PathsUpTo(n) ==
    {p \in UNION {[1..m -> Links \cup Leaves] : m \in 1..(n + 1)} : WellFormed(p)}

-----------------------------------------------------------------------------
RedactString(leaf) == IF leaf = "secret" THEN "cleaned" ELSE leaf

(* Slip: the limit is one level lower. *)
BeyondOrAt(depth) == depth >= MaxDepth

Beyond(depth) == depth > MaxDepth

(* Slip: the value of a sensitive key is redacted as any other. *)
Shown(rest) == rest

Hidden(rest) == <<"redacted">>

(* redact(value, depth), on a path of the value; the message of an         *)
(* exception is not subject to the limit, and an exception becomes a dict. *)
Redact(p, depth) ==
    LET at[i \in 1..Len(p)] ==
          IF Beyond(depth + i - 1) /\ (i > 1 => p[i - 1] # "message")
          THEN <<"redacted">>
          ELSE CASE p[i] = "sensitive" -> <<p[i]>> \o Hidden(at[i + 1])
                 [] p[i] \in {"key", "item"} -> <<p[i]>> \o at[i + 1]
                 [] p[i] \in {"message", "details"} -> <<"key">> \o at[i + 1]
                 [] p[i] \in {"plain", "secret"} -> <<RedactString(p[i])>>
                 [] OTHER -> <<p[i]>>
    IN  at[1]

(* Slip: what was redacted before is left alone. *)
LeftAlone(p) == p

(* redact_for_logging: p leads through a dict. *)
RedactForLogging(p) == Redact(p, 0)
=============================================================================
