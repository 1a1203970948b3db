------------------------------- MODULE Packing -------------------------------
(***************************************************************************)
(* The pack of one architecture: PlatformPackager.pack and doPack, and     *)
(* MacPackager.pack, which packs the application once more for each MAS    *)
(* target, in order, while the application of all other targets is packed  *)
(* side by side.  doPack looks at the cancellation token between some of   *)
(* its steps and then just returns: its caller cannot tell, and hands a    *)
(* half-packed application to the targets.                                 *)
(***************************************************************************)
EXTENDS Integers, SequencesExt

CONSTANTS
    PackSettings, \* records: [mac |-> MacPackager?, targets |-> sequence of targets]
    MasTargets    \* "mas" and "mas-dev"

Main == "main"    \* the application of all targets that are not MAS targets
PackSteps == <<"stage", "appFiles", "integrity", "extraFiles",
               "afterPack", "sanityCheck", "signApp", "afterSign">>
\* The steps doPack returns after when it is cancelled.
CancelledAfter == {n \in DOMAIN PackSteps : PackSteps[n] \in {"appFiles", "integrity", "extraFiles"}}

ASSUME PackingAssumption ==
    /\ Main \notin MasTargets
    /\ \A s \in PackSettings :
           s.mac \in BOOLEAN /\ s.targets \in Seq(ToSet(s.targets)) /\ IsInjective(s.targets)

VARIABLES
    packSetting, packCancelled,
    packPromise, \* of pack: "none", "pending", "resolved" or "rejected"
    loop,        \* the target the loop of pack is at
    app,         \* of each application: "none", "packing", "whole", "cut", "failed", and
                 \*   for a MAS target "signed"
    steps,       \* the steps of doPack that are done
    handedOver,  \* was Main given to packageInDistributableFormat?
    builds       \* for each call of a target's build, and each application signed for a
                 \*   MAS target: [target, whole |-> was its application whole?]

packingVars == <<packSetting, packCancelled, packPromise, loop, app, steps, handedOver, builds>>

AskedFor == ToSet(packSetting.targets)
Mas == IF packSetting.mac THEN AskedFor \intersect MasTargets ELSE {}
AppNames == {Main} \union MasTargets

\* !hasMas || targets.length > 1
PacksMain == Mas = {} \/ Len(packSetting.targets) > 1

PackingInit ==
    /\ packSetting \in PackSettings /\ packCancelled = FALSE
    /\ packPromise = "none" /\ loop = 1
    /\ app = [a \in AppNames |-> "none"] /\ steps = [a \in AppNames |-> 0]
    /\ handedOver = FALSE /\ builds = {}

-----------------------------------------------------------------------------
\* pack

Pack ==
    /\ packPromise = "none" /\ packPromise' = "pending"
    /\ app' = [app EXCEPT ![Main] = IF PacksMain THEN "packing" ELSE @]
    /\ UNCHANGED <<packSetting, packCancelled, loop, steps, handedOver, builds>>

\* The loop of MacPackager.pack over the targets; a failure rejects pack, and
\* nonMasPromise is not awaited.
PackMas ==
    /\ packPromise = "pending" /\ loop <= Len(packSetting.targets)
    /\ LET t == packSetting.targets[loop] IN
       \/ /\ t \in Mas => app[t] = "signed"
          /\ loop' = loop + 1 /\ UNCHANGED <<app, packPromise>>
       \/ /\ t \in Mas /\ app[t] = "none"
          /\ app' = [app EXCEPT ![t] = "packing"] /\ UNCHANGED <<loop, packPromise>>
       \/ /\ t \in Mas /\ app[t] = "failed"
          /\ packPromise' = "rejected" /\ UNCHANGED <<app, loop>>
    /\ UNCHANGED <<packSetting, packCancelled, steps, handedOver, builds>>

AwaitsMasOnly == TRUE                                                  \* mutant
AwaitsMain == PacksMain => handedOver \/ app[Main] = "failed"

PackEnds ==
    /\ packPromise = "pending" /\ loop > Len(packSetting.targets)
    /\ AwaitsMain
    /\ packPromise' = IF app[Main] = "failed" THEN "rejected" ELSE "resolved"
    /\ UNCHANGED <<packSetting, packCancelled, loop, app, steps, handedOver, builds>>

-----------------------------------------------------------------------------
\* doPack and what follows it

DoPackStep(a) ==
    /\ app[a] = "packing"
    /\ \/ app' = [app EXCEPT ![a] = "failed"] /\ UNCHANGED steps
       \/ /\ steps' = [steps EXCEPT ![a] = @ + 1]
          /\ app' = [app EXCEPT ![a] =
                         IF packCancelled /\ steps'[a] \in CancelledAfter THEN "cut"
                         ELSE IF steps'[a] = Len(PackSteps) THEN "whole" ELSE @]
    /\ UNCHANGED <<packSetting, packCancelled, packPromise, loop, handedOver, builds>>

Build(ts, a) == builds' = builds \union {[target |-> t, whole |-> app[a] = "whole"] : t \in ts}

\* packageInDistributableFormat: build of a MAS target does nothing.
HandOver ==
    /\ app[Main] \in {"whole", "cut"} /\ ~handedOver
    /\ handedOver' = TRUE
    /\ Build(AskedFor \ Mas, Main)
    /\ UNCHANGED <<packSetting, packCancelled, packPromise, loop, app, steps>>

\* MacPackager.sign with the options of the MAS target, which fails without an
\* identity.  (Where isSignAllowed forbids signing, MAS targets make nothing.)
SignMas(t) ==
    /\ t \in Mas /\ app[t] \in {"whole", "cut"}
    /\ \/ app' = [app EXCEPT ![t] = "failed"] /\ UNCHANGED builds
       \/ app' = [app EXCEPT ![t] = "signed"] /\ Build({t}, t)
    /\ UNCHANGED <<packSetting, packCancelled, packPromise, loop, steps, handedOver>>

CancelPack ==
    /\ ~packCancelled /\ packPromise \notin {"resolved", "rejected"}
    /\ packCancelled' = TRUE
    /\ UNCHANGED <<packSetting, packPromise, loop, app, steps, handedOver, builds>>

PackingNext ==
    \/ Pack \/ PackMas \/ PackEnds \/ HandOver \/ CancelPack
    \/ \E a \in AppNames : DoPackStep(a)
    \/ \E t \in MasTargets : SignMas(t)

PackingSpec == PackingInit /\ [][PackingNext]_packingVars

-----------------------------------------------------------------------------
(***************************************************************************)
(* Of a build that is not cancelled every target gets an application all   *)
(* of whose steps were taken, signed and after the hooks; and when pack    *)
(* resolves, every target has got its own, though the applications were    *)
(* packed side by side.  (What a cancelled build hands over is not whole.) *)
(***************************************************************************)
PackedWhole ==
    ~packCancelled =>
        /\ \A b \in builds : b.whole
        /\ packPromise = "resolved" => {b.target : b \in builds} = AskedFor
=============================================================================
