------------------------------ MODULE Injector ------------------------------
(***************************************************************************)
(* The sidecar injector (controlplane/injector/injector.go): net/http runs *)
(* handleMutate in a goroutine per admission review, and all of them share *)
(* the package variable mtlsEnabled.  injectSidecar sets it when the pod   *)
(* asks for mTLS and reads it three times, with no lock: for the proxy's   *)
(* environment, for the mount of the certificates and for their volume.    *)
(*                                                                         *)
(* The variable is a string, so a racing read may see one word of the old  *)
(* value and one of the new; no such mixture equals "true", and words are  *)
(* read no older than before.  Such a read is one that came before the     *)
(* write.                                                                  *)
(***************************************************************************)
EXTENDS Integers

CONSTANTS
    Reviews,  \* bound: admission reviews
    Pods      \* the pods they may carry

\* What injection depends on: whether the object decodes, HostNetwork, an ignored
\* namespace, the inject annotation ("other" for any value but true) and the mtls
\* annotation.
Pod == [decodes : BOOLEAN, hostNetwork : BOOLEAN, ignored : BOOLEAN,
        inject : {"absent", "true", "other"}, mtls : BOOLEAN]

ASSUME PodsAssumption == Pods \subseteq Pod

VARIABLES
    mtlsEnabled,  \* the package variable
    pod,          \* the pod of each review
    pc,           \* where its handler is
    patch         \* what injectSidecar has added on account of mtlsEnabled

injectorVars == <<mtlsEnabled, pod, pc, patch>>

NoMtls == [env |-> FALSE, mount |-> FALSE, volume |-> FALSE]

InjectorTypeOK ==
    /\ mtlsEnabled \in BOOLEAN
    /\ pod \in [Reviews -> Pod]
    /\ pc \in [Reviews -> {"arrives", "flag", "env", "mount", "volume", "patch",
                           "denied", "unchanged", "patched"}]
    /\ patch \in [Reviews -> [env : BOOLEAN, mount : BOOLEAN, volume : BOOLEAN]]

InjectorInit ==
    /\ mtlsEnabled = FALSE
    /\ pod \in [Reviews -> Pods]
    /\ pc = [r \in Reviews |-> "arrives"]
    /\ patch = [r \in Reviews |-> NoMtls]

Goto(r, l) == pc' = [pc EXCEPT ![r] = l]

-----------------------------------------------------------------------------
(* mutatePod *)

\* The decision hierarchy.  A sidecar the pod already has is not among the rules.
InjectRequired(p) == /\ ~p.hostNetwork
                     /\ ~p.ignored
                     /\ p.inject # "other"

\* Mutant: the annotation is read before the decision.
DecideAfterFlag(r) ==
    /\ pc[r] = "arrives"
    /\ mtlsEnabled' = (mtlsEnabled \/ pod[r].mtls)
    /\ Goto(r, IF ~pod[r].decodes THEN "denied"
               ELSE IF InjectRequired(pod[r]) THEN "flag" ELSE "unchanged")
    /\ UNCHANGED <<pod, patch>>

Decide(r) ==
    /\ pc[r] = "arrives"
    /\ Goto(r, IF ~pod[r].decodes THEN "denied"
               ELSE IF InjectRequired(pod[r]) THEN "flag" ELSE "unchanged")
    /\ UNCHANGED <<mtlsEnabled, pod, patch>>

-----------------------------------------------------------------------------
(* injectSidecar *)

\* Mutant: the variable follows the pod at hand.
SetFlagFromPod(r) ==
    /\ pc[r] = "flag"
    /\ mtlsEnabled' = pod[r].mtls
    /\ Goto(r, "env")
    /\ UNCHANGED <<pod, patch>>

SetFlag(r) ==
    /\ pc[r] = "flag"
    /\ mtlsEnabled' = (mtlsEnabled \/ pod[r].mtls)
    /\ Goto(r, "env")
    /\ UNCHANGED <<pod, patch>>

\* ANANSE_MTLS_ENABLED of the sidecar container.
BuildSidecar(r) ==
    /\ pc[r] = "env"
    /\ patch' = [patch EXCEPT ![r].env = mtlsEnabled]
    /\ Goto(r, "mount")
    /\ UNCHANGED <<mtlsEnabled, pod>>

\* The VolumeMounts, and then the containers are appended.
AddMount(r) ==
    /\ pc[r] = "mount"
    /\ patch' = [patch EXCEPT ![r].mount = mtlsEnabled]
    /\ Goto(r, "volume")
    /\ UNCHANGED <<mtlsEnabled, pod>>

\* Mutant: the volume goes with the environment, not with the mount.
AddVolumeByEnv(r) ==
    /\ pc[r] = "volume"
    /\ patch' = [patch EXCEPT ![r].volume = patch[r].env]
    /\ Goto(r, "patch")
    /\ UNCHANGED <<mtlsEnabled, pod>>

\* The volume, and then the status annotation and label.
AddVolume(r) ==
    /\ pc[r] = "volume"
    /\ patch' = [patch EXCEPT ![r].volume = mtlsEnabled]
    /\ Goto(r, "patch")
    /\ UNCHANGED <<mtlsEnabled, pod>>

\* createPatch: the difference of two JSON documents, or an error.
CreatePatch(r) ==
    /\ pc[r] = "patch"
    /\ Goto(r, "patched") \/ Goto(r, "denied")
    /\ UNCHANGED <<mtlsEnabled, pod, patch>>

Mutate(r) == \/ Decide(r) \/ SetFlag(r) \/ BuildSidecar(r) \/ AddMount(r)
             \/ AddVolume(r) \/ CreatePatch(r)

InjectorNext == \E r \in Reviews : Mutate(r)

InjectorSpec == InjectorInit /\ [][InjectorNext]_injectorVars

-----------------------------------------------------------------------------
(* Safety *)

\* However reviews overlap, a patched pod can start: a proxy told to use mTLS
\* has the certificates mounted (without them it exits at once), and a mount
\* has its volume (without it the API server refuses the pod).  It rests on the
\* order of the three reads and on a variable that never goes back.
PatchIsWhole ==
    \A r \in Reviews : pc[r] \in {"patch", "patched"} =>
        (patch[r].env => patch[r].mount) /\ (patch[r].mount => patch[r].volume)

\* A pod that asks for mTLS and is injected gets all of it, whatever the pods
\* admitted beside it ask for.
AskedIsGiven ==
    \A r \in Reviews : pod[r].mtls /\ pc[r] \in {"patch", "patched"} =>
        patch[r].env /\ patch[r].mount /\ patch[r].volume

\* The mesh is switched to mTLS by a pod that is to be injected: one that is
\* refused, opted out or not to be touched leaves the variable alone.
FlagHasCause ==
    mtlsEnabled => \E r \in Reviews : /\ pod[r].mtls /\ pod[r].decodes
                                      /\ InjectRequired(pod[r])
                                      /\ pc[r] \notin {"arrives", "flag", "unchanged"}

-----------------------------------------------------------------------------
(* The inductive invariant behind them *)

\* What a handler has read is no older than what was read before it, and a
\* handler past SetFlag has its own pod's wish in the variable.
ReadsInOrder ==
    \A r \in Reviews :
        /\ patch[r].env => mtlsEnabled
        /\ patch[r].mount => mtlsEnabled
        /\ pc[r] \in {"arrives", "flag", "env", "mount", "unchanged"} => ~patch[r].mount
        /\ pc[r] \in {"volume", "patch", "patched"} => (patch[r].env => patch[r].mount)
        /\ pod[r].mtls /\ pc[r] \in {"env", "mount", "volume", "patch", "patched"}
              => /\ mtlsEnabled
                 /\ pc[r] \notin {"env"} => patch[r].env
                 /\ pc[r] \notin {"env", "mount"} => patch[r].mount

\* A handler gets to injectSidecar only with a pod to be injected.
Decided ==
    \A r \in Reviews : pc[r] \notin {"arrives", "denied", "unchanged"}
        => pod[r].decodes /\ InjectRequired(pod[r])

InjectorIInv == InjectorTypeOK /\ ReadsInOrder /\ Decided /\ PatchIsWhole /\ AskedIsGiven /\ FlagHasCause
=============================================================================
