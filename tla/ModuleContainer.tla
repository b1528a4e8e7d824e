--------------------------- MODULE ModuleContainer ---------------------------
(***************************************************************************)
(* Containers over one registry.  A container has an extractor and a       *)
(* composite of authorization hooks and registers them, one after the      *)
(* other, as instances; hooks are added to the composite later, through    *)
(* the container.  The registry and the composite may be handed to the     *)
(* constructor, so that containers share them, and other code registers    *)
(* and resolves meanwhile.                                                 *)
(*                                                                         *)
(* The extractor of a container is named after it, and so is the composite *)
(* that the dataclass makes for it by default.                             *)
(***************************************************************************)
EXTENDS ModuleRegistry, SequencesExt

CONSTANTS
    Containers,
    Hooks,
    ExtractorContract, HookContract

VARIABLES
    built,        \* how far the construction of a container has come
    composite,    \* the composite it has
    hooks,        \* the hooks of a composite, in order
    added,        \* history: the hooks added through a container,
    overlapped,   \* ... the pairs of containers whose constructions overlapped,
    latest        \* ... and the container that registered its composite last

containerVars == <<built, composite, hooks, added, overlapped, latest>>
vars == <<registryVars, containerVars>>

ASSUME ContainersAssumption == Containers \subseteq Values
ASSUME OfferedObjectsAssumption == \A offer \in Offered : offer[2] \notin Containers
ASSUME ContractsAssumption ==
    ExtractorContract # HookContract /\ {ExtractorContract, HookContract} \subseteq Contracts

Constructing == {c \in Containers : built[c] \in {"made", "half"}}

ContainerInit ==
    /\ Init
    /\ built = [c \in Containers |-> "none"]
    /\ composite = [c \in Containers |-> c]
    /\ hooks = [c \in Containers |-> <<>>]
    /\ added = [c \in Containers |-> {}]
    /\ overlapped = {}
    /\ latest = Nothing

-----------------------------------------------------------------------------
(* The fields: a composite of its own, or that of another container. *)
Construct(c) ==
    /\ built[c] = "none"
    /\ \E h \in {c} \cup {composite[d] : d \in {e \in Containers : built[e] = "ready"}} :
          composite' = [composite EXCEPT ![c] = h]
    /\ built' = [built EXCEPT ![c] = "made"]
    /\ overlapped' = overlapped \cup {{c, d} : d \in Constructing}
    /\ UNCHANGED <<registryVars, hooks, added, latest>>

(* Slip: the extractor is registered only where there is none. *)
RegisterFirstExtractor(c) ==
    /\ built[c] = "made"
    /\ IF ExtractorContract \in DOMAIN instances
       THEN UNCHANGED registryVars
       ELSE RegisterInstance(ExtractorContract, c)
    /\ built' = [built EXCEPT ![c] = "half"]
    /\ UNCHANGED <<composite, hooks, added, overlapped, latest>>

(* __post_init__ *)
RegisterExtractor(c) ==
    /\ built[c] = "made"
    /\ RegisterInstance(ExtractorContract, c)
    /\ built' = [built EXCEPT ![c] = "half"]
    /\ UNCHANGED <<composite, hooks, added, overlapped, latest>>

(* Slip: the composite is registered only where there is none. *)
RegisterFirstComposite(c) ==
    /\ built[c] = "half"
    /\ IF HookContract \in DOMAIN instances
       THEN UNCHANGED registryVars
       ELSE RegisterInstance(HookContract, composite[c])
    /\ latest' = c
    /\ built' = [built EXCEPT ![c] = "ready"]
    /\ UNCHANGED <<composite, hooks, added, overlapped>>

RegisterComposite(c) ==
    /\ built[c] = "half"
    /\ RegisterInstance(HookContract, composite[c])
    /\ latest' = c
    /\ built' = [built EXCEPT ![c] = "ready"]
    /\ UNCHANGED <<composite, hooks, added, overlapped>>

(* add_authorization_hook; with a new LoggingAuthorizationHook for h it is *)
(* enable_authorization_logging.  Each container adds a hook at most once. *)
AddAuthorizationHook(c, h) ==
    /\ built[c] = "ready"
    /\ h \notin added[c]
    /\ hooks' = [hooks EXCEPT ![composite[c]] = Append(@, h)]
    /\ added' = [added EXCEPT ![c] = @ \cup {h}]
    /\ UNCHANGED <<registryVars, built, composite, overlapped, latest>>

(* Other code registers a composite of its own. *)
RegisterOther(contract, value) ==
    /\ RegisterInstance(contract, value)
    /\ latest' = IF contract = HookContract THEN Nothing ELSE latest
    /\ UNCHANGED <<built, composite, hooks, added, overlapped>>

Building(c) ==
    \/ Construct(c) \/ RegisterExtractor(c) \/ RegisterComposite(c)
    \/ \E h \in Hooks : AddAuthorizationHook(c, h)

Next ==
    \/ \E c \in Containers : Building(c)
    \/ \E offer \in Offered : RegisterOther(offer[1], offer[2])
    \/ OtherwiseNext /\ UNCHANGED containerVars

Spec == ContainerInit /\ [][Next]_vars

-----------------------------------------------------------------------------
(* Type invariant; ModuleRegistry has its own for the registry. *)
TypeOK ==
    /\ RegistryTypeOK
    /\ built \in [Containers -> {"none", "made", "half", "ready"}]
    /\ composite \in [Containers -> Containers]
    /\ hooks \in [Containers -> Seq(Hooks)]
    /\ added \in [Containers -> SUBSET Hooks]
    /\ \A pair \in overlapped : pair \subseteq Containers /\ Cardinality(pair) = 2
    /\ latest \in Containers \cup {Nothing}

(* The hooks a container is given reach whoever resolves the composite:    *)
(* from the construction of a container until another instance is          *)
(* registered for the contract, what is resolved is the composite the      *)
(* container has now, with all the hooks added through the container, and  *)
(* no factory or implementation registered meanwhile comes before it.      *)
HooksReachResolvers ==
    latest # Nothing =>
        /\ Current(HookContract) = Entry("instances", composite[latest])
        /\ added[latest] \subseteq ToSet(hooks[composite[latest]])

(* The extractor and the composite that are resolved belong together: the  *)
(* pair is torn apart between two containers only if these were under      *)
(* construction at the same time (or other code registered a composite).   *)
PairIsOneContainers ==
    \A a \in Containers :
        LET b == latest
        IN  /\ built[a] = "ready" /\ instances[ExtractorContract] = a
            /\ b # Nothing
            => composite[a] = composite[b] \/ {a, b} \in overlapped
=============================================================================
