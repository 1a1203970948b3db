------------------------------- MODULE Targets -------------------------------
(***************************************************************************)
(* Which targets are built for which architectures of one platform, from   *)
(* the command line and the configuration: normalizeOptions, compute-      *)
(* ArchToTargetNamesMap, and the loop of Packager.doBuild that creates the *)
(* targets.  A Map from architectures to arrays of names is a sequence of  *)
(* records in the order of insertion; the arrays are in `arrays`, because  *)
(* architectures may share one and addValue pushes to it in place.         *)
(***************************************************************************)
EXTENDS Integers, FiniteSetsExt, Lists

CONSTANTS
    TargetRequests, \* records: [mac, linux |-> is it this platform?, host |-> [arch, linux |->
                    \*   does the builder run on Linux?], flags |-> set of architectures,
                    \*   dir |-> --dir?, types, target |-> the two lists of targets]
    AllArchs,       \* the architectures in the order of commonArch
    KnownTargets,   \* names of targets, as they may be written
    LowerCase,      \* function: a name -> the name in lower case
    DefaultTargets, \* packager.defaultTarget
    Unspecified

\* A target of a list has a name, perhaps the architecture after its colon, perhaps a sequence
\* of architectures.  "default" is DEFAULT_TARGET and "dir" DIR_TARGET.
TargetItems == [name : KnownTargets, suffix : ToSet(AllArchs) \union {Unspecified},
                arch : Seq(ToSet(AllArchs)) \union {Unspecified}]

ASSUME TargetsAssumption ==
    /\ AllArchs \in Seq(ToSet(AllArchs)) /\ IsInjective(AllArchs) /\ "x64" \in ToSet(AllArchs)
    /\ DefaultTargets \in Seq(KnownTargets) /\ IsInjective(DefaultTargets)
    /\ LowerCase \in [KnownTargets -> KnownTargets] /\ {"default", "dir"} \subseteq KnownTargets
    /\ \A n \in ToSet(DefaultTargets) \union {"default", "dir"} : LowerCase[n] = n
    /\ "default" \notin ToSet(DefaultTargets)
    /\ Unspecified # <<>>
    /\ \A r \in TargetRequests :
        /\ r.dir \in BOOLEAN
        /\ r.flags \union {r.host.arch} \subseteq ToSet(AllArchs)
        /\ {r.types, r.target} \subseteq Seq(TargetItems)
        /\ \A t \in ToSet(r.types) : t.arch = Unspecified

VARIABLES
    targetRequest,
    targetPhase,  \* "types", "target", "build", "end"
    upNext,       \* the next one of the list of that phase
    arrays,       \* the arrays of names, as they were written
    archToType,   \* sequence of [arch, array |-> index into arrays]
    nameToTarget, \* sequence of [name, outDir |-> the architecture it was made for]
    built         \* what is built: sequence of [arch, name]

targetsVars == <<targetRequest, targetPhase, upNext, arrays, archToType, nameToTarget, built>>

TargetsInit ==
    /\ targetRequest \in TargetRequests /\ targetPhase = "types" /\ upNext = 1
    /\ arrays = <<>> /\ archToType = <<>> /\ nameToTarget = <<>> /\ built = <<>>

Has(map, arch) == \E i \in DOMAIN map : map[i].arch = arch
Get(map, arch) == map[CHOOSE i \in DOMAIN map : map[i].arch = arch].array

PushesAlways(m, arch, name) ==                                             \* mutant
    IF ~Has(m.map, arch)
    THEN [map |-> Append(m.map, [arch |-> arch, array |-> Len(m.arrays) + 1]),
          arrays |-> Append(m.arrays, <<name>>)]
    ELSE [m EXCEPT !.arrays[Get(m.map, arch)] = Append(@, name)]

AddValue(m, arch, name) ==
    IF ~Has(m.map, arch)
    THEN [map |-> Append(m.map, [arch |-> arch, array |-> Len(m.arrays) + 1]),
          arrays |-> Append(m.arrays, <<name>>)]
    ELSE [m EXCEPT !.arrays[Get(m.map, arch)] = IF Contains(@, name) THEN @ ELSE Append(@, name)]

AddForEach(map, archs, name) ==
    LET add(m, a) == AddValue(m, a, name) IN FoldLeft(add, map, archs)
AddTo(archs, name) ==
    LET m == AddForEach([map |-> archToType, arrays |-> arrays], archs, name)
    IN  archToType' = m.map /\ arrays' = m.arrays

-----------------------------------------------------------------------------
\* processTargets

CurrentArch == IF targetRequest.mac THEN "x64" ELSE targetRequest.host.arch

CommonArch(currentIfNotSpecified) ==
    LET flagged == Filtered(IF targetRequest.mac THEN <<"x64">> ELSE AllArchs, targetRequest.flags)
    IN  IF flagged = <<>> /\ currentIfNotSpecified THEN <<CurrentArch>> ELSE flagged

\* Without types the architectures share the array defaultTargetValue.
ProcessNoTypes ==
    /\ targetPhase = "types" /\ targetRequest.types = <<>>
    /\ LET archs == CommonArch(targetRequest.dir) IN
       archToType' = [i \in DOMAIN archs |-> [arch |-> archs[i], array |-> 1]]
    /\ arrays' = <<IF targetRequest.dir THEN <<"dir">> ELSE <<>>>>
    /\ targetPhase' = "target" /\ UNCHANGED <<targetRequest, upNext, nameToTarget, built>>

ProcessType ==
    /\ targetPhase = "types" /\ upNext <= Len(targetRequest.types)
    /\ LET t == targetRequest.types[upNext] IN
       AddTo(IF t.suffix # Unspecified THEN <<t.suffix>> ELSE CommonArch(TRUE), t.name)
    /\ upNext' = upNext + 1
    /\ UNCHANGED <<targetRequest, targetPhase, nameToTarget, built>>

TypesProcessed ==
    /\ targetPhase = "types" /\ targetRequest.types # <<>> /\ upNext > Len(targetRequest.types)
    /\ targetPhase' = "target" /\ upNext' = 1
    /\ UNCHANGED <<targetRequest, arrays, archToType, nameToTarget, built>>

-----------------------------------------------------------------------------
\* computeArchToTargetNamesMap
AnyNamed == \E i \in DOMAIN archToType : arrays[archToType[i].array] # <<>>

ForArchs(t, defaultArchs) ==
    IF t.arch # Unspecified THEN t.arch
    ELSE IF t.suffix # Unspecified THEN <<t.suffix>>
    ELSE defaultArchs

RawArchs ==
    LET archs == CommonArch(targetRequest.dir) IN IF archs # <<>> THEN archs ELSE <<CurrentArch>>

RawIsReturned ==
    /\ targetPhase = "target" /\ upNext = 1 /\ AnyNamed
    /\ targetPhase' = "build"
    /\ UNCHANGED <<targetRequest, upNext, arrays, archToType, nameToTarget, built>>

ProcessTarget ==
    /\ targetPhase = "target" /\ upNext <= Len(targetRequest.target)
    /\ upNext = 1 => ~AnyNamed
    /\ AddTo(ForArchs(targetRequest.target[upNext], RawArchs), targetRequest.target[upNext].name)
    /\ upNext' = upNext + 1
    /\ UNCHANGED <<targetRequest, targetPhase, nameToTarget, built>>

LinuxElsewhere == targetRequest.linux /\ ~targetRequest.host.linux

\* An empty map gets defaultTarget.
TargetsProcessed ==
    /\ targetPhase = "target" /\ upNext > Len(targetRequest.target)
    /\ upNext = 1 => ~AnyNamed
    /\ IF archToType # <<>> THEN UNCHANGED <<archToType, arrays>>
       ELSE /\ archToType' = <<[arch |-> IF LinuxElsewhere THEN "x64" ELSE RawArchs[1],
                                array |-> 1]>>
            /\ arrays' = <<DefaultTargets>>
    /\ targetPhase' = "build" /\ upNext' = 1
    /\ UNCHANGED <<targetRequest, nameToTarget, built>>

-----------------------------------------------------------------------------
\* The loop of doBuild

\* normalizeTargets: names that differ in case stay two.
Normalized(names) ==
    LET targets(n) == IF n = "default" THEN DefaultTargets ELSE <<n>>
    IN  FlattenSeq([i \in DOMAIN names |-> targets(LowerCase[names[i]])])

TargetNames(i) ==
    LET names == arrays[archToType[i].array] IN IF names = <<>> THEN DefaultTargets ELSE names

\* The Map from the names of targets to the targets, with those that are new.
WithTargets(targets, names, arch) ==
    LET new(l, n) == IF \E i \in DOMAIN l : l[i].name = n THEN l
                     ELSE Append(l, [name |-> n, outDir |-> arch])
    IN  FoldLeft(new, targets, names)

\* createTargets of one architecture, and pack, which builds each of them; "dir" is none.
CreateTargets ==
    /\ targetPhase = "build" /\ upNext <= Len(archToType)
    /\ LET arch == archToType[upNext].arch
           names == Normalized(TargetNames(upNext))
           list == Filtered(names, ToSet(names) \ {"dir"})
       IN /\ nameToTarget' = WithTargets(nameToTarget, list, arch)
          /\ built' = built \o [i \in DOMAIN list |-> [arch |-> arch, name |-> list[i]]]
    /\ upNext' = upNext + 1
    /\ UNCHANGED <<targetRequest, targetPhase, arrays, archToType>>

FinishBuilds ==
    /\ targetPhase = "build" /\ upNext > Len(archToType)
    /\ targetPhase' = "end"
    /\ UNCHANGED <<targetRequest, upNext, arrays, archToType, nameToTarget, built>>

TargetsNext ==
    \/ ProcessNoTypes \/ ProcessType \/ TypesProcessed
    \/ RawIsReturned \/ ProcessTarget \/ TargetsProcessed \/ CreateTargets \/ FinishBuilds

TargetsSpec == TargetsInit /\ [][TargetsNext]_targetsVars

-----------------------------------------------------------------------------
\* What was asked for: pairs of an architecture and a target.
GivenArchs ==
    IF targetRequest.mac THEN targetRequest.flags \intersect {"x64"} ELSE targetRequest.flags
\* A target for an empty list of architectures is none.
Given == {t \in ToSet(IF targetRequest.types # <<>> THEN targetRequest.types
                      ELSE targetRequest.target) : t.arch # <<>>}
OwnArchs(t) == IF t.arch # Unspecified THEN ToSet(t.arch) ELSE {t.suffix} \ {Unspecified}

UsualArchs ==
    IF GivenArchs # {} THEN GivenArchs
    ELSE IF targetRequest.mac \/ (LinuxElsewhere /\ Given = {}) THEN {"x64"}
    ELSE {targetRequest.host.arch}

Named ==
    UNION {(IF OwnArchs(t) = {} THEN UsualArchs ELSE OwnArchs(t))
           \X ToSet(Normalized(<<t.name>>)) : t \in Given}

\* A flag for an architecture no target is given for asks for the default targets.
ByDefault ==
    LET archs == IF Given = {} THEN UsualArchs ELSE GivenArchs
    IN  (archs \ {p[1] : p \in Named}) \X ToSet(DefaultTargets)

Asked ==
    IF targetRequest.types # <<>> THEN Named
    ELSE IF targetRequest.dir THEN {}
    ELSE Named \union ByDefault

\* Architectures share an array and a target of the configuration is for some of them.
ArraysShared ==
    /\ targetRequest.types = <<>> /\ Cardinality(GivenArchs) > 1
    /\ \E t \in ToSet(targetRequest.target) : OwnArchs(t) # {}

Pairs(ps) == {p \in ps : p[2] # "dir"}
BuiltPairs == {<<b.arch, b.name>> : b \in ToSet(built)}
\* "default" may stand for a target that is asked for too, and addValue compares the names
\* before they are in lower case.
TwiceAsked ==
    \E t \in Given :
        \/ LowerCase[t.name] = "default"
        \/ \E u \in Given : u.name # t.name /\ LowerCase[u.name] = LowerCase[t.name]

(***************************************************************************)
(* What is built is what the command line asks for or, if it names no      *)
(* target, the configuration; nothing twice, unless "default" is asked for *)
(* or one target under two spellings ("nsis", "NSIS").  Two architectures  *)
(* on the command line share one array if no target is named there, so a   *)
(* target the configuration wants for one of them is built for the other   *)
(* as well.                                                                *)
(***************************************************************************)
TargetsAsAsked ==
    targetPhase = "end" /\ ~ArraysShared =>
        /\ BuiltPairs = Pairs(Asked)
        /\ ~TwiceAsked => IsInjective(built)
        /\ ToSet([i \in DOMAIN nameToTarget |-> nameToTarget[i].name]) = {p[2] : p \in BuiltPairs}

(***************************************************************************)
(* TargetConfiguration.arch: "The arch or list of archs."  This does not   *)
(* hold because of the shared array (--x64 --ia32).                        *)
(***************************************************************************)
OnlyConfiguredArchs ==
    targetPhase = "end" /\ targetRequest.types = <<>> =>
        \A b \in ToSet(built) :
            b.name \in ToSet(DefaultTargets)
              \/ \E t \in ToSet(targetRequest.target) :
                     LowerCase[t.name] = b.name /\ (OwnArchs(t) = {} \/ b.arch \in OwnArchs(t))
=============================================================================
