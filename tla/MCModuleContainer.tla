-------------------------- MODULE MCModuleContainer --------------------------
(* Instances of ModuleContainer for TLC. *)
EXTENDS ModuleContainer, TLC

CONSTANTS m1, m2, other, h1, k1, HttpContextExtractor, CompositeAuthorizationHook

(* Other code registers one object, which cannot be called. *)
MCOffered == {<<CompositeAuthorizationHook, other>>}

MCSymmetry == Permutations(Containers)
==============================================================================
