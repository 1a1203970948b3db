--------------------------- MODULE PackagingProofs ---------------------------
(***************************************************************************)
(* Theorems about what becomes of a compiled application: it is packed     *)
(* (Packing), its files into an asar archive (AsarPackager), its           *)
(* executable is edited and signed (WindowsSigning) or it is signed for    *)
(* macOS (MacSigning), and the Windows installers are made of it           *)
(* (NsisTargets).                                                          *)
(***************************************************************************)
EXTENDS Packing, WindowsSigning, MacSigning, NsisTargets, AsarPackager, SequenceLemmas

-----------------------------------------------------------------------------
(***************************************************************************)
(* Packing                                                                 *)
(***************************************************************************)
AppStates == {"none", "packing", "whole", "cut", "failed", "signed"}

PackingTypes ==
    /\ packSetting \in PackSettings
    /\ packCancelled \in BOOLEAN /\ handedOver \in BOOLEAN
    /\ packPromise \in {"none", "pending", "resolved", "rejected"}
    /\ loop \in 1..(Len(packSetting.targets) + 1)
    /\ app \in [AppNames -> AppStates]

\* Only the cancelled token makes doPack return early.
CutByCancelOnly == ~packCancelled => \A a \in AppNames : app[a] # "cut"

BuiltWhole == ~packCancelled => \A b \in builds : b.whole

\* Main is built for all its targets at once, a MAS target when it is signed.
BuiltSoFar == (IF handedOver THEN AskedFor \ Mas ELSE {}) \union {t \in Mas : app[t] = "signed"}
BuiltForEach == {b.target : b \in builds} = BuiltSoFar

\* The loop passes a MAS target when its application is signed.
LoopPasses ==
    \A n \in 1..Len(packSetting.targets) :
        n < loop /\ packSetting.targets[n] \in Mas => app[packSetting.targets[n]] = "signed"

ResolvedAfterAll ==
    packPromise = "resolved" =>
        loop = Len(packSetting.targets) + 1 /\ (PacksMain => handedOver)

PackingInv ==
    /\ PackingTypes /\ CutByCancelOnly /\ BuiltWhole /\ BuiltForEach /\ LoopPasses
    /\ ResolvedAfterAll

LEMMA TargetsAreListed ==
    ASSUME packSetting \in PackSettings
    PROVE  /\ Len(packSetting.targets) \in Nat
           /\ DOMAIN packSetting.targets = 1..Len(packSetting.targets)
<1>1. packSetting.targets \in Seq(ToSet(packSetting.targets))
    BY PackingAssumption
<1> HIDE DEF PackingAssumption
<1> QED BY <1>1, LenProperties

LEMMA PackingStart == PackingInit => PackingInv
<1> SUFFICES ASSUME PackingInit PROVE PackingInv
    OBVIOUS
<1> USE DEF PackingInit
<1>1. Len(packSetting.targets) \in Nat
    BY TargetsAreListed
<1>2. PackingTypes
    <2>1. loop \in 1..(Len(packSetting.targets) + 1)
        BY <1>1
    <2>2. app \in [AppNames -> AppStates]
        BY DEF AppStates
    <2>3. packCancelled \in BOOLEAN /\ handedOver \in BOOLEAN
        BY Zenon
    <2> QED BY <2>1, <2>2, <2>3 DEF PackingTypes
<1>3. Mas \subseteq AppNames
    BY DEF Mas, AppNames
<1>4. BuiltForEach
    BY <1>3 DEF BuiltForEach, BuiltSoFar
<1> QED
    BY <1>1, <1>2, <1>4 DEF PackingInv, CutByCancelOnly, BuiltWhole, LoopPasses, ResolvedAfterAll

\* What is built for depends on nothing else, and neither do the other parts.
LEMMA BuiltUnchanged ==
    ASSUME PackingTypes, BuiltForEach, BuiltWhole, packCancelled' \in BOOLEAN,
           ~packCancelled' => ~packCancelled,
           UNCHANGED <<packSetting, handedOver, builds>>,
           \A t \in Mas : app'[t] = "signed" <=> app[t] = "signed"
    PROVE  BuiltForEach' /\ BuiltWhole'
<1>1. UNCHANGED <<AskedFor, Mas>>
    BY DEF AskedFor, Mas
<1> QED
    BY <1>1 DEF BuiltForEach, BuiltSoFar, BuiltWhole

\* A call of build adds its targets.
LEMMA Built ==
    ASSUME NEW ts, NEW a, Build(ts, a)
    PROVE  /\ {b.target : b \in builds'} = {b.target : b \in builds} \union ts
           /\ app[a] = "whole" => \A b \in builds' : b \in builds \/ b.whole
<1>1. /\ \A b \in builds' : b \in builds \/ \E t \in ts : b = [target |-> t, whole |-> app[a] = "whole"]
      /\ builds \subseteq builds'
      /\ \A t \in ts : [target |-> t, whole |-> app[a] = "whole"] \in builds'
    BY DEF Build
<1>2. \A t \in ts : [target |-> t, whole |-> app[a] = "whole"].target = t
    OBVIOUS
<1>3. {b.target : b \in builds'} \subseteq {b.target : b \in builds} \union ts
    BY <1>1
<1>4. {b.target : b \in builds} \union ts \subseteq {b.target : b \in builds'}
    BY <1>1, <1>2
<1>5. app[a] = "whole" => \A t \in ts : [target |-> t, whole |-> app[a] = "whole"].whole
    BY Zenon
<1>6. app[a] = "whole" => \A b \in builds' : b \in builds \/ b.whole
    BY <1>1, <1>5, Zenon
<1> QED BY <1>3, <1>4, <1>6

LEMMA PackingStep == PackingInv /\ [PackingNext]_packingVars => PackingInv'
<1> SUFFICES ASSUME PackingInv, [PackingNext]_packingVars PROVE PackingInv'
    OBVIOUS
<1> USE DEF PackingInv
<1> DEFINE N == Len(packSetting.targets)
           T(n) == packSetting.targets[n]
<1>a. N \in Nat /\ Main \notin Mas /\ Main \in AppNames /\ Mas \subseteq AppNames
    BY TargetsAreListed, PackingAssumption DEF PackingTypes, Mas, AppNames
<1>b. ASSUME UNCHANGED packSetting
      PROVE  UNCHANGED <<AskedFor, Mas, PacksMain>>
    BY <1>b DEF AskedFor, Mas, PacksMain
<1>1. CASE Pack
    <2> USE <1>1 DEF Pack
    <2>0. UNCHANGED packSetting
        OBVIOUS
    <2>1. app' \in [AppNames -> AppStates]
        BY DEF PackingTypes, AppStates
    <2>2. \A t \in AppNames : t # Main => app'[t] = app[t]
        BY DEF PackingTypes
    <2>3. PackingTypes'
        BY <2>1 DEF PackingTypes
    <2>4. CutByCancelOnly'
        BY DEF PackingTypes, CutByCancelOnly
    <2>5. BuiltForEach' /\ BuiltWhole'
        BY <1>a, <2>2, BuiltUnchanged DEF PackingTypes
    <2>6. LoopPasses'
        BY <1>a, <1>b, <2>0, <2>2 DEF LoopPasses
    <2>7. ResolvedAfterAll'
        BY DEF ResolvedAfterAll
    <2> QED BY <2>3, <2>4, <2>5, <2>6, <2>7
<1>2. CASE PackMas
    <2> USE <1>2 DEF PackMas
    <2>0. UNCHANGED packSetting
        OBVIOUS
    <2>1. CASE UNCHANGED app /\ loop' = loop + 1 /\ UNCHANGED packPromise
                   /\ (T(loop) \in Mas => app[T(loop)] = "signed")
        <3>1. loop \in 1..N
            BY <1>a DEF PackingTypes
        <3>2. PackingTypes'
            BY <2>1, <3>1, <1>a DEF PackingTypes
        <3>3. LoopPasses'
            <4>1. \A n \in 1..N : n < loop + 1 => n < loop \/ n = loop
                BY <3>1, <1>a
            <4> QED BY <4>1, <2>1, <1>b, <2>0 DEF LoopPasses
        <3>4. BuiltForEach' /\ BuiltWhole' /\ CutByCancelOnly'
            BY <2>1, BuiltUnchanged DEF PackingTypes, CutByCancelOnly
        <3>5. ResolvedAfterAll'
            BY <2>1 DEF ResolvedAfterAll
        <3> QED BY <3>2, <3>3, <3>4, <3>5
    <2>2. CASE /\ T(loop) \in Mas /\ app[T(loop)] = "none"
               /\ app' = [app EXCEPT ![T(loop)] = "packing"] /\ UNCHANGED <<loop, packPromise>>
        <3>1. PackingTypes'
            BY <2>2 DEF PackingTypes, AppStates
        <3>2. \A t \in AppNames : app'[t] = "signed" <=> app[t] = "signed"
            BY <2>2 DEF PackingTypes
        <3>3. BuiltForEach' /\ BuiltWhole'
            BY <2>2, <3>2, <1>a, BuiltUnchanged DEF PackingTypes
        <3>4. CutByCancelOnly'
            BY <2>2 DEF PackingTypes, CutByCancelOnly
        <3>5. LoopPasses'
            BY <2>2, <3>2, <1>a, <1>b, <2>0 DEF LoopPasses
        <3>6. ResolvedAfterAll'
            BY <2>2 DEF ResolvedAfterAll
        <3> QED BY <3>1, <3>3, <3>4, <3>5, <3>6
    <2>3. CASE packPromise' = "rejected" /\ UNCHANGED <<app, loop>>
        <3>1. PackingTypes'
            BY <2>3 DEF PackingTypes
        <3>2. BuiltForEach' /\ BuiltWhole' /\ CutByCancelOnly'
            BY <2>3, BuiltUnchanged DEF PackingTypes, CutByCancelOnly
        <3>3. LoopPasses' /\ ResolvedAfterAll'
            BY <2>3, <1>b, <2>0 DEF LoopPasses, ResolvedAfterAll
        <3> QED BY <3>1, <3>2, <3>3
    <2> QED BY <2>1, <2>2, <2>3
<1>3. CASE PackEnds
    <2> USE <1>3 DEF PackEnds
    <2>0. UNCHANGED packSetting
        OBVIOUS
    <2>1. PackingTypes'
        BY DEF PackingTypes
    <2>2. BuiltForEach' /\ BuiltWhole' /\ CutByCancelOnly' /\ LoopPasses'
        BY BuiltUnchanged, <1>b, <2>0 DEF PackingTypes, CutByCancelOnly, LoopPasses
    <2>3. loop = N + 1
        BY <1>a DEF PackingTypes
    <2>4. packPromise' = "resolved" => app[Main] # "failed"
        OBVIOUS
    <2>5. ResolvedAfterAll'
        BY <2>3, <2>4, <1>b, <2>0 DEF ResolvedAfterAll, AwaitsMain
    <2> QED BY <2>1, <2>2, <2>5
<1>4. CASE HandOver
    <2> USE <1>4 DEF HandOver
    <2>0. UNCHANGED packSetting
        OBVIOUS
    <2>1. PackingTypes'
        <3>1. handedOver' \in BOOLEAN
            BY Zenon
        <3> QED BY <3>1 DEF PackingTypes
    <2>2. CutByCancelOnly' /\ LoopPasses' /\ ResolvedAfterAll'
        BY <1>b, <2>0 DEF CutByCancelOnly, LoopPasses, ResolvedAfterAll
    <2>3. BuiltForEach'
        <3>1. {b.target : b \in builds'} = {b.target : b \in builds} \union (AskedFor \ Mas)
            BY Built
        <3>2. BuiltSoFar' = BuiltSoFar \union (AskedFor \ Mas)
            BY <1>b, <2>0 DEF BuiltSoFar
        <3> QED BY <3>1, <3>2 DEF BuiltForEach
    <2>4. BuiltWhole'
        BY <1>a, Built DEF CutByCancelOnly, BuiltWhole
    <2> QED BY <2>1, <2>2, <2>3, <2>4
<1>5. CASE CancelPack
    <2> USE <1>5 DEF CancelPack
    <2>0. UNCHANGED packSetting
        OBVIOUS
    <2>1. PackingTypes'
        <3>1. packCancelled' \in BOOLEAN
            BY Zenon
        <3> QED BY <3>1 DEF PackingTypes
    <2>2. BuiltForEach' /\ BuiltWhole'
        BY <2>1, BuiltUnchanged DEF PackingTypes
    <2> QED BY <2>1, <2>2, <1>b, <2>0 DEF CutByCancelOnly, LoopPasses, ResolvedAfterAll
<1>6. ASSUME NEW a \in AppNames, DoPackStep(a) PROVE PackingInv'
    <2> USE <1>6 DEF DoPackStep
    <2>0. UNCHANGED packSetting
        OBVIOUS
    <2>1. PackingTypes'
        BY DEF PackingTypes, AppStates
    <2>2. \A t \in AppNames : app'[t] = "signed" <=> app[t] = "signed"
        BY DEF PackingTypes
    <2>3. BuiltForEach' /\ BuiltWhole'
        BY <2>2, <1>a, BuiltUnchanged DEF PackingTypes
    <2>4. CutByCancelOnly'
        BY DEF PackingTypes, CutByCancelOnly
    <2>5. LoopPasses' /\ ResolvedAfterAll'
        BY <2>2, <1>a, <1>b, <2>0 DEF LoopPasses, ResolvedAfterAll
    <2> QED BY <2>1, <2>3, <2>4, <2>5
<1>7. ASSUME NEW t \in MasTargets, SignMas(t) PROVE PackingInv'
    <2> USE <1>7 DEF SignMas
    <2>0. UNCHANGED packSetting
        OBVIOUS
    <2>1. PackingTypes' /\ CutByCancelOnly'
        BY DEF PackingTypes, AppStates, CutByCancelOnly
    <2>2. LoopPasses' /\ ResolvedAfterAll'
        BY <1>a, <1>b, <2>0 DEF LoopPasses, ResolvedAfterAll, PackingTypes
    <2>3. CASE app' = [app EXCEPT ![t] = "failed"] /\ UNCHANGED builds
        <3>1. \A u \in Mas : app'[u] = "signed" <=> app[u] = "signed"
            BY <2>3, <1>a DEF PackingTypes
        <3>2. BuiltForEach' /\ BuiltWhole'
            BY <2>3, <3>1, BuiltUnchanged DEF PackingTypes
        <3> QED BY <2>1, <2>2, <3>2
    <2>4. CASE app' = [app EXCEPT ![t] = "signed"] /\ Build({t}, t)
        <3>1. {b.target : b \in builds'} = {b.target : b \in builds} \union {t}
            BY <2>4, Built
        <3>2. \A u \in Mas : app'[u] = "signed" <=> app[u] = "signed" \/ u = t
            BY <2>4, <1>a DEF PackingTypes
        <3>3. BuiltSoFar' = BuiltSoFar \union {t}
            BY <3>2, <1>b, <2>0 DEF BuiltSoFar
        <3>4. BuiltForEach'
            BY <3>1, <3>3 DEF BuiltForEach
        <3>5. BuiltWhole'
            BY <2>4, <1>a, Built DEF CutByCancelOnly, BuiltWhole
        <3> QED BY <2>1, <2>2, <3>4, <3>5
    <2> QED BY <2>3, <2>4
<1>8. CASE UNCHANGED packingVars
    <2> USE <1>8 DEF packingVars
    <2>0. UNCHANGED packSetting
        OBVIOUS
    <2>1. PackingTypes' /\ CutByCancelOnly'
        BY DEF PackingTypes, CutByCancelOnly
    <2>2. BuiltForEach' /\ BuiltWhole'
        BY BuiltUnchanged DEF PackingTypes
    <2> QED BY <2>1, <2>2, <1>b, <2>0 DEF LoopPasses, ResolvedAfterAll
<1> QED
    BY <1>1, <1>2, <1>3, <1>4, <1>5, <1>6, <1>7, <1>8 DEF PackingNext

(***************************************************************************)
(* The invariant of a pack: only a cancelled token makes doPack return     *)
(* before its last step, and Main's targets and the signed MAS targets are *)
(* those built for.                                                        *)
(***************************************************************************)
THEOREM PackingInvariant == PackingSpec => []PackingInv
BY PackingStart, PackingStep, PTL DEF PackingSpec

(***************************************************************************)
(* PlatformPackager.pack and MacPackager.pack: whatever the targets, their *)
(* order and the interleaving of the applications packed side by side, of  *)
(* a pack that is not cancelled every target gets a whole application, and *)
(* when it resolves each of them got its own.                              *)
(***************************************************************************)
THEOREM EveryTargetGetsAWholeApp == PackingSpec => []PackedWhole
<1>1. PackingInv => PackedWhole
    <2> SUFFICES ASSUME PackingInv, packPromise = "resolved"
                 PROVE  BuiltSoFar = AskedFor
        BY DEF PackingInv, PackedWhole, BuiltWhole, BuiltForEach
    <2> USE DEF PackingInv
    <2>1. \A t \in AskedFor :
              \E n \in 1..Len(packSetting.targets) : packSetting.targets[n] = t
        BY TargetsAreListed DEF AskedFor, ToSet, PackingTypes
    <2>2. \A t \in Mas : app[t] = "signed"
        <3>1. Mas \subseteq AskedFor
            BY DEF Mas
        <3>2. \A n \in 1..Len(packSetting.targets) : n < loop
            BY TargetsAreListed DEF ResolvedAfterAll, PackingTypes
        <3> QED BY <2>1, <3>1, <3>2 DEF LoopPasses
    <2>3. CASE PacksMain
        BY <2>2, <2>3 DEF ResolvedAfterAll, BuiltSoFar, Mas
    <2>4. CASE ~PacksMain
        <3>1. \A m, n \in 1..Len(packSetting.targets) : m = n
            BY <2>4, TargetsAreListed DEF PacksMain, PackingTypes
        <3>2. Mas = AskedFor
            BY <2>1, <2>4, <3>1 DEF PacksMain, Mas
        <3> QED BY <2>2, <3>2 DEF BuiltSoFar
    <2> QED BY <2>3, <2>4
<1> QED BY PackingInvariant, <1>1, PTL

-----------------------------------------------------------------------------
(***************************************************************************)
(* WindowsSigning                                                          *)
(***************************************************************************)
SigningSteps ==
    {"cache", "edit", "sign", "again", "save", "saving", "built", "copied", "failed"}

SigningTypes ==
    /\ signSetting \in SignSettings
    /\ input \in Inputs /\ step \in SigningSteps
    /\ signed \in 0..Len(Hashes) /\ retry \in 0..3
    /\ step \in {"cache", "edit"} => signed = 0 /\ retry = 0
    /\ step \in {"sign", "again"} => signed < Len(Hashes) /\ retry < 3
    /\ writes \subseteq {"info", "exe"}
    /\ saved \in {"whole", "unsigned", "torn"}

FirstHashes(k) == {Hashes[n] : n \in 1..k}
SignedFor(i) == Exe(i, ToSet(Hashes))

\* The executable between rcedit and the last algorithm.  What an earlier attempt
\* left on it goes with the next signature.
SignsItsInput ==
    /\ step \in {"sign", "again"} =>
           /\ \E sigs \in SUBSET ToSet(Hashes) : exe = Exe(input, sigs)
           /\ signed > 0 => exe = Exe(input, FirstHashes(signed))
    /\ step = "sign" /\ ~signSetting.csc => exe = Exe(input, {})
    /\ step = "again" => signSetting.csc

\* What is saved is signed, unless the name was not resolved.  A build that ended
\* while one write goes on lost the other, and what a write has begun is torn.
SavesComplete ==
    /\ step \in {"save", "saving"} => Keeps /\ (retry < 3 => exe = SignedFor(input))
    /\ writes # {} => step \in {"saving", "built"}
    /\ writes \intersect started # {} => saved = "torn"

\* The two files of the cache are of one save once it has written both.
CachePaired ==
    /\ saved = "whole" =>
           \/ info = None /\ cacheFile = None
           \/ info \in Inputs /\ cacheFile = SignedFor(info)
    /\ step = "saving" /\ retry < 3 =>
           /\ "info" \notin writes => info = input
           /\ "exe" \notin writes => cacheFile = SignedFor(input)

SigningInv ==
    SigningTypes /\ SignsItsInput /\ SavesComplete /\ CachePaired /\ BuiltAsConfigured

LEMMA HashesAreListed ==
    /\ Len(Hashes) \in Nat \ {0}
    /\ FirstHashes(0) = {} /\ FirstHashes(Len(Hashes)) = ToSet(Hashes)
    /\ \A k \in 0..(Len(Hashes) - 1) :
           /\ Hashes[k + 1] \in ToSet(Hashes)
           /\ FirstHashes(k + 1) = FirstHashes(k) \union {Hashes[k + 1]}
<1>1. Hashes \in Seq(ToSet(Hashes)) /\ Hashes # <<>>
    BY SigningAssumption
<1>2. Len(Hashes) \in Nat /\ DOMAIN Hashes = 1..Len(Hashes)
    BY <1>1, LenProperties
<1>3. Len(Hashes) # 0
    BY <1>1, EmptySeq
<1>4. ToSet(Hashes) = FirstHashes(Len(Hashes)) /\ FirstHashes(0) = {}
    BY <1>2 DEF ToSet, FirstHashes
<1>5. ASSUME NEW k \in 0..(Len(Hashes) - 1)
      PROVE  /\ Hashes[k + 1] \in ToSet(Hashes)
             /\ FirstHashes(k + 1) = FirstHashes(k) \union {Hashes[k + 1]}
    <2>1. k + 1 \in DOMAIN Hashes
        BY <1>2
    <2>2. 1..(k + 1) = (1..k) \union {k + 1}
        OBVIOUS
    <2> QED BY <2>1, <2>2 DEF ToSet, FirstHashes
<1> QED BY <1>2, <1>3, <1>4, <1>5

LEMMA SigningStart == SigningInit => SigningInv
<1> SUFFICES ASSUME SigningInit PROVE SigningInv
    OBVIOUS
<1> USE DEF SigningInit
<1>1. SigningTypes
    BY HashesAreListed DEF SigningTypes, SigningSteps
<1> QED
    BY <1>1 DEF SigningInv, SignsItsInput, SavesComplete, CachePaired, BuiltAsConfigured

\* A signature of doSign, which is the first of an attempt or one more.
LEMMA OneMoreSignature ==
    ASSUME SigningTypes, SignsItsInput, step \in {"sign", "again"}
    PROVE  Signature(Hashes[signed + 1]) = Exe(input, FirstHashes(signed + 1))
<1>1. PICK sigs \in SUBSET ToSet(Hashes) : exe = Exe(input, sigs)
    BY DEF SignsItsInput
<1>2. signed > 0 => sigs = FirstHashes(signed)
    BY <1>1 DEF SignsItsInput, Exe
<1>3. signed \in 0..(Len(Hashes) - 1)
    BY HashesAreListed DEF SigningTypes
<1>4. FirstHashes(signed + 1) = FirstHashes(signed) \union {Hashes[signed + 1]}
    BY <1>3, HashesAreListed
<1>5. FirstHashes(signed + 1) = (IF signed = 0 THEN {} ELSE sigs) \union {Hashes[signed + 1]}
    <2>1. CASE signed = 0
        BY <1>4, <2>1, HashesAreListed
    <2>2. CASE signed # 0
        BY <1>2, <1>3, <1>4, <2>2
    <2> QED BY <2>1, <2>2
<1> QED BY <1>1, <1>5 DEF Signature, Exe

\* Steps that neither read nor write the cache leave its files a pair.
LEMMA PairUnchanged ==
    ASSUME CachePaired, UNCHANGED <<diskVars, saved>>, step' # "saving"
    PROVE  CachePaired'
BY DEF CachePaired, diskVars

LEMMA SigningGoesOn ==
    ASSUME SigningInv, step \in {"sign", "again"}, signSetting.csc, Signs,
           UNCHANGED <<signSetting, input, diskVars, saveVars, saved>>
    PROVE  SigningInv'
<1> USE DEF SigningInv
<1>1. exe' = Exe(input, FirstHashes(signed + 1)) /\ signed' = signed + 1
    BY OneMoreSignature DEF Signs
<1>2. signed \in 0..(Len(Hashes) - 1)
    BY HashesAreListed DEF SigningTypes
<1>3. signed' \in 1..Len(Hashes) /\ (signed' # Len(Hashes) => signed' < Len(Hashes))
    BY <1>1, <1>2, HashesAreListed
<1>4. FirstHashes(signed + 1) \in SUBSET ToSet(Hashes)
    <2>1. \A k \in 0..Len(Hashes) : FirstHashes(k) \subseteq FirstHashes(Len(Hashes))
        <3>1. \A k \in 0..Len(Hashes) : 1..k \subseteq 1..Len(Hashes)
            BY HashesAreListed
        <3> QED BY <3>1 DEF FirstHashes
    <2> QED BY <2>1, <1>2, HashesAreListed
<1>5. CASE signed' = Len(Hashes)
    <2>1. step' = AfterSign /\ step' \in {"save", "built"} /\ (step' = "save" => Keeps)
        BY <1>5 DEF Signs, AfterSign
    <2>2. exe' = SignedFor(input)
        BY <1>1, <1>5, HashesAreListed DEF SignedFor
    <2>3. SigningTypes'
        BY <1>3, <2>1 DEF SigningTypes, SigningSteps, saveVars, Signs
    <2>4. SignsItsInput' /\ SavesComplete'
        BY <2>1, <2>2 DEF SignsItsInput, SavesComplete, SignedFor, Keeps, saveVars
    <2>5. CachePaired => CachePaired'
        BY <2>1, PairUnchanged
    <2>7. BuiltAsConfigured'
        BY <2>2 DEF BuiltAsConfigured, SignedFor
    <2> QED BY <2>3, <2>4, <2>5, <2>7
<1>6. CASE signed' # Len(Hashes)
    <2>1. step' = "sign"
        BY <1>6 DEF Signs
    <2>2. SigningTypes'
        BY <1>3, <1>6, <2>1 DEF SigningTypes, SigningSteps, saveVars, Signs
    <2>3. SignsItsInput'
        BY <1>1, <1>4, <2>1 DEF SignsItsInput
    <2>4. SavesComplete'
        BY <2>1 DEF SavesComplete, saveVars
    <2>5. CachePaired => CachePaired'
        BY <2>1, PairUnchanged
    <2> QED BY <2>1, <2>2, <2>3, <2>4, <2>5 DEF BuiltAsConfigured
<1> QED BY <1>5, <1>6

LEMMA SigningStartsAgain ==
    ASSUME SigningInv, step \in {"sign", "again"}, signSetting.csc, HostNotResolved,
           UNCHANGED <<signSetting, input, diskVars, saveVars, saved>>
    PROVE  SigningInv'
<1> USE DEF SigningInv
<1>1. /\ step' \in {"save", "built", "sign"}
      /\ step' = "save" => Keeps
      /\ IF step' = "sign" THEN retry' < 3 ELSE retry' = 3
    BY DEF HostNotResolved, AfterSign, SigningTypes
<1>2. signed' = 0 /\ UNCHANGED exe /\ retry' \in 0..3
    BY DEF HostNotResolved, SigningTypes
<1>3. SigningTypes'
    BY <1>1, <1>2, HashesAreListed DEF SigningTypes, SigningSteps, saveVars
<1>4. SignsItsInput'
    BY <1>1, <1>2 DEF SignsItsInput
<1>5. SavesComplete'
    BY <1>1 DEF SavesComplete, saveVars, Keeps
<1>6. CachePaired'
    BY <1>1, PairUnchanged
<1>7. BuiltAsConfigured'
    BY <1>1 DEF BuiltAsConfigured
<1> QED BY <1>3, <1>4, <1>5, <1>6, <1>7

LEMMA SigningStep == SigningInv /\ [SigningNext]_signingVars => SigningInv'
<1> SUFFICES ASSUME SigningInv, [SigningNext]_signingVars PROVE SigningInv'
    OBVIOUS
<1> USE DEF SigningInv
<1>1. CASE StartBuild
    <2> USE <1>1 DEF StartBuild
    <2>1. SigningTypes'
        BY HashesAreListed DEF SigningTypes, SigningSteps, saveVars
    <2>2. SignsItsInput' /\ SavesComplete' /\ BuiltAsConfigured'
        BY DEF SignsItsInput, SavesComplete, BuiltAsConfigured, saveVars
    <2>3. CachePaired => CachePaired'
        BY PairUnchanged
    <2> QED BY <2>1, <2>2, <2>3
<1>2. CASE CopyIfValid
    <2> USE <1>2 DEF CopyIfValid
    <2>1. step' \in {"failed", "edit", "copied"} /\ UNCHANGED <<signSetting, input, signVars, saveVars, saved>>
        BY DEF signVars
    <2>2. SigningTypes'
        BY <2>1 DEF SigningTypes, SigningSteps, saveVars, signVars
    <2>3. SignsItsInput' /\ SavesComplete'
        BY <2>1 DEF SignsItsInput, SavesComplete, saveVars
    <2>4. CachePaired => CachePaired'
        BY <2>1, PairUnchanged
    <2>5. BuiltAsConfigured'
        <3> SUFFICES ASSUME step' = "copied", saved = "whole" PROVE exe' = SignedFor(input)
            BY <2>1 DEF BuiltAsConfigured, Keeps, SignedFor
        <3>1. info = input /\ cacheFile # None /\ exe' = cacheFile
            OBVIOUS
        <3> QED BY <3>1, SigningAssumption DEF CachePaired
    <2> QED BY <2>2, <2>3, <2>4, <2>5
<1>3. CASE EditResources
    <2> USE <1>3 DEF EditResources
    <2>1. step' \in {"sign", "failed"} /\ (step' = "sign" => exe' = Exe(input, {}))
        OBVIOUS
    <2>2. signed = 0
        BY DEF SigningTypes
    <2>3. SigningTypes'
        BY <2>1, <2>2, HashesAreListed DEF SigningTypes, SigningSteps, saveVars, signVars
    <2>4. SignsItsInput' /\ SavesComplete' /\ BuiltAsConfigured'
        BY <2>1, <2>2 DEF SignsItsInput, SavesComplete, BuiltAsConfigured, saveVars, signVars
    <2>5. CachePaired => CachePaired'
        BY <2>1, PairUnchanged
    <2> QED BY <2>3, <2>4, <2>5
<1>4. CASE SignNothing
    <2> USE <1>4 DEF SignNothing
    <2>1. step' \in {"built", "failed"}
        OBVIOUS
    <2>2. SigningTypes'
        BY <2>1 DEF SigningTypes, SigningSteps, saveVars, signVars
    <2>3. SignsItsInput' /\ SavesComplete'
        BY <2>1 DEF SignsItsInput, SavesComplete, saveVars
    <2>4. BuiltAsConfigured'
        BY DEF SignsItsInput, BuiltAsConfigured
    <2>5. CachePaired => CachePaired'
        BY <2>1, PairUnchanged
    <2> QED BY <2>2, <2>3, <2>4, <2>5
<1>5. ASSUME NEW as \in {"again", "failed"}, SignFails(as),
             step = "sign" \/ (step = "again" /\ as = "failed"), signSetting.csc,
             UNCHANGED <<signSetting, input, diskVars, saveVars, saved>>
      PROVE  SigningInv'
    <2> USE <1>5 DEF SignFails
    <2>1. SigningTypes'
        BY DEF SigningTypes, SigningSteps, saveVars, signVars
    <2>2. SignsItsInput' /\ SavesComplete' /\ BuiltAsConfigured'
        BY DEF SignsItsInput, SavesComplete, BuiltAsConfigured, saveVars, signVars
    <2>3. CachePaired => CachePaired'
        BY PairUnchanged
    <2> QED BY <2>1, <2>2, <2>3
<1>6. CASE SignExecutable
    BY <1>5, <1>6, SigningGoesOn, SigningStartsAgain DEF SignExecutable
<1>7. CASE SignAgain
    <2> USE <1>7 DEF SignAgain
    <2>1. signSetting.csc
        BY DEF SignsItsInput
    <2>2. CASE step' = "failed" /\ UNCHANGED signVars
        <3>1. SigningTypes'
            BY <2>2 DEF SigningTypes, SigningSteps, saveVars, signVars
        <3>2. SignsItsInput' /\ SavesComplete' /\ BuiltAsConfigured'
            BY <2>2 DEF SignsItsInput, SavesComplete, BuiltAsConfigured, saveVars, signVars
        <3>3. CachePaired => CachePaired'
            BY <2>2, PairUnchanged
        <3> QED BY <2>2, <3>1, <3>2, <3>3
    <2> QED BY <1>5, <2>1, <2>2, SigningStartsAgain
<1>8. CASE Save
    <2> USE <1>8 DEF Save
    <2>1. CASE step' = "saving" /\ writes' = {"info", "exe"} /\ started' = {}
        <3>1. SigningTypes'
            BY <2>1 DEF SigningTypes, SigningSteps, signVars
        <3>2. SignsItsInput' /\ SavesComplete' /\ BuiltAsConfigured' /\ CachePaired'
            BY <2>1 DEF SignsItsInput, SavesComplete, BuiltAsConfigured, CachePaired, SignedFor,
                        Keeps, signVars, diskVars
        <3> QED BY <3>1, <3>2
    <2>2. CASE step' = "built" /\ UNCHANGED saveVars
        <3>1. SigningTypes'
            BY <2>2 DEF SigningTypes, SigningSteps, signVars, saveVars
        <3>2. SignsItsInput' /\ SavesComplete'
            BY <2>2 DEF SignsItsInput, SavesComplete, saveVars
        <3>3. BuiltAsConfigured'
            BY <2>2 DEF BuiltAsConfigured, SavesComplete, SignedFor, Keeps, signVars
        <3>4. CachePaired => CachePaired'
            BY <2>2, PairUnchanged
        <3> QED BY <3>1, <3>2, <3>3, <3>4
    <2> QED BY <2>1, <2>2
<1>9. ASSUME NEW w \in {"info", "exe"}, SaveWrites(w) PROVE SigningInv'
    <2> USE <1>9 DEF SaveWrites
    <2>1. CASE /\ w \notin started /\ started' = started \union {w} /\ saved' = "torn"
               /\ UNCHANGED <<writes, step>> /\ WriteCache(w, Partial)
        <3>1. SigningTypes' /\ SignsItsInput' /\ BuiltAsConfigured'
            BY <2>1 DEF SigningTypes, SignsItsInput, BuiltAsConfigured, signVars
        <3>2. SavesComplete'
            BY <2>1 DEF SavesComplete, SignedFor, Keeps, signVars
        <3>3. CachePaired'
            BY <2>1 DEF CachePaired, WriteCache, SignedFor, signVars
        <3> QED BY <3>1, <3>2, <3>3
    <2>2. CASE /\ w \in started /\ writes' = writes \ {w}
               /\ WriteCache(w, IF w = "info" THEN DigestToSave ELSE exe)
               /\ saved' = IF writes' # {} \/ step # "saving" THEN saved
                           ELSE IF retry = 3 THEN "unsigned" ELSE "whole"
               /\ UNCHANGED <<started, step>>
        <3>1. saved = "torn"
            BY <2>2 DEF SavesComplete
        <3>2. /\ writes' # {} \/ step # "saving" => saved' = "torn"
              /\ saved' = "whole" => step = "saving" /\ writes' = {} /\ retry # 3
              /\ saved' \in {"whole", "unsigned", "torn"}
            BY <2>2, <3>1
        <3>3. SigningTypes' /\ SignsItsInput'
            BY <2>2, <3>2 DEF SigningTypes, SignsItsInput, signVars
        <3>4. BuiltAsConfigured'
            BY <2>2, <3>2 DEF BuiltAsConfigured, signVars
        <3>5. SavesComplete'
            BY <2>2, <3>2 DEF SavesComplete, SignedFor, Keeps, signVars
        <3>6. step = "saving" /\ retry < 3 =>
                  /\ "info" \notin writes' => info' = input
                  /\ "exe" \notin writes' => cacheFile' = SignedFor(input)
            BY <2>2 DEF CachePaired, SavesComplete, WriteCache, DigestToSave
        <3>7. saved' = "whole" => info' \in Inputs /\ cacheFile' = SignedFor(info')
            BY <3>2, <3>6 DEF SigningTypes
        <3>8. CachePaired'
            BY <2>2, <3>6, <3>7 DEF CachePaired, SignedFor, signVars
        <3> QED BY <3>3, <3>4, <3>5, <3>8
    <2>3. CASE /\ writes' = writes \ {w} /\ step' = "built" /\ UNCHANGED <<started, saved>>
               /\ IF w \in started /\ w = "exe" THEN WriteCache(w, None)
                                              ELSE UNCHANGED diskVars
        <3>1. SigningTypes' /\ SignsItsInput'
            BY <2>3 DEF SigningTypes, SigningSteps, SignsItsInput, signVars
        <3>2. SavesComplete'
            BY <2>3 DEF SavesComplete
        <3>3. BuiltAsConfigured'
            BY <2>3 DEF SavesComplete, BuiltAsConfigured, SignedFor, Keeps, signVars
        <3>4. CachePaired'
            BY <2>3 DEF CachePaired, SavesComplete, SignedFor, diskVars
        <3> QED BY <3>1, <3>2, <3>3, <3>4
    <2> QED BY <2>1, <2>2, <2>3
<1>10. CASE SaveEnds
    <2> USE <1>10 DEF SaveEnds
    <2>1. SigningTypes'
        BY DEF SigningTypes, SigningSteps, signVars, saveVars
    <2>2. SignsItsInput' /\ SavesComplete'
        BY DEF SignsItsInput, SavesComplete, saveVars
    <2>3. BuiltAsConfigured'
        BY DEF BuiltAsConfigured, SavesComplete, SignedFor, Keeps, signVars
    <2>4. CachePaired'
        BY PairUnchanged
    <2> QED BY <2>1, <2>2, <2>3, <2>4
<1>11. CASE BuildKilled
    <2> USE <1>11 DEF BuildKilled
    <2>1. SigningTypes'
        BY DEF SigningTypes, SigningSteps, signVars
    <2>2. SignsItsInput' /\ SavesComplete' /\ BuiltAsConfigured'
        BY DEF SignsItsInput, SavesComplete, BuiltAsConfigured
    <2>3. CachePaired'
        BY PairUnchanged
    <2> QED BY <2>1, <2>2, <2>3
<1>12. CASE UNCHANGED signingVars
    <2> USE <1>12 DEF signingVars, saveVars, signVars, diskVars
    <2>1. SigningTypes' /\ SignsItsInput'
        BY DEF SigningTypes, SignsItsInput
    <2>2. SavesComplete' /\ BuiltAsConfigured' /\ CachePaired'
        BY DEF SavesComplete, BuiltAsConfigured, CachePaired, Keeps, SignedFor
    <2> QED BY <2>1, <2>2
<1> QED
    BY <1>1, <1>2, <1>3, <1>4, <1>6, <1>7, <1>8, <1>9, <1>10, <1>11, <1>12 DEF SigningNext

(***************************************************************************)
(* WinPackager and BuildCacheManager: a build that succeeds leaves the     *)
(* executable made from its own input and signed by every algorithm, for   *)
(* any number of builds, inputs and algorithms.  It is not stated of two   *)
(* builds: one that signed while the host name was not resolved three      *)
(* times, and one that copied from the cache while the last save that      *)
(* began to write had been cut off by a kill or an error, or was of such   *)
(* an unsigned executable.  Builds killed at any other place, and those    *)
(* after the next complete save, are covered.  The invariant says that the *)
(* cache holds one executable and the digest of what it was made from,     *)
(* from the end of a save to the first write of the next.                  *)
(***************************************************************************)
THEOREM BuildsAsConfigured == SigningSpec => []BuiltAsConfigured
<1>1. SigningSpec => []SigningInv
    BY SigningStart, SigningStep, PTL DEF SigningSpec
<1>2. SigningInv => BuiltAsConfigured
    BY DEF SigningInv
<1> QED BY <1>1, <1>2, PTL

-----------------------------------------------------------------------------
(***************************************************************************)
(* NsisTargets                                                             *)
(***************************************************************************)
BranchStates == {"none", "wait", "list", "done", "failed"}
JobStates == {"none", "remove", "write", "done", "failed"}
Flags == {"unset", "delete", "keep"}
Archs == DOMAIN order

Users(h) == {t \in Wanted : HelperOf(t) = h}
Waiting(h) == {t \in Users(h) : stage[t] # "ended"}

NsisTypes ==
    /\ order \in Orders
    /\ stage \in [Wanted -> {"start", "packing", "compile", "release", "ended"}]
    /\ DOMAIN branch = Wanted
    /\ \A t \in Wanted : branch[t] \in [ArchsOf(t) -> BranchStates]
    /\ job \in [Helpers -> [Archs -> JobStates]]
    /\ DOMAIN package = BOOLEAN \X Archs
    /\ isDelete \in [Helpers -> [Archs -> Flags]]
    /\ refCount \in [Helpers -> Nat]

\* A helper counts the targets that have not released it.
CountsUsers == \A h \in Helpers : refCount[h] = Cardinality(Waiting(h))

\* A branch that got its package has settled what becomes of it.
GotPackage ==
    \A t \in Wanted : \A a \in ArchsOf(t) :
        branch[t][a] \in {"list", "done"} =>
            /\ job[HelperOf(t)][a] = "done"
            /\ isDelete[HelperOf(t)][a] = IF t = "web" THEN "keep" ELSE "delete"

\* A target goes on when all of its branches are done, or one failed, or buildInstaller
\* did before its map.
StagesFollow ==
    \A t \in Wanted :
        /\ stage[t] = "start" => \A a \in ArchsOf(t) : branch[t][a] = "none"
        /\ stage[t] = "compile" => \A a \in ArchsOf(t) : branch[t][a] = "done"
        /\ stage[t] \in {"release", "ended"} =>
               \/ \A a \in ArchsOf(t) : branch[t][a] = "none"
               \/ \A a \in ArchsOf(t) : branch[t][a] = "done"
               \/ \E a \in ArchsOf(t) : branch[t][a] = "failed"

\* A package is made because a target asked for it, and is on the disk since.
MadeWhenAsked ==
    \A h \in Helpers : \A a \in Archs :
        job[h][a] # "none" => \E t \in Users(h) : a \in ArchsOf(t) /\ branch[t][a] # "none"

OnlyMadeThere ==
    \A p \in BOOLEAN \X Archs : package[p] # NoFile =>
        \E h \in Helpers : /\ package[p].by = h /\ p = Place(h, p[2])
                           /\ job[h][p[2]] \notin {"none", "remove"}

FlagsOfHelpers ==
    \A h \in Helpers : \A a \in Archs :
        isDelete[h][a] # IF h = Web THEN "delete" ELSE "keep"

WebStays ==
    Web \in Helpers => \A a \in Archs :
        job[Web][a] = "done" => package[Place(Web, a)].whole

StaysWhileUsed ==
    OneHelper => \A h \in Helpers : \A a \in Archs :
        job[h][a] = "done" /\ Waiting(h) # {} => package[Place(h, a)] = [by |-> h, whole |-> TRUE]

\* When its last target has released a helper none of whose branches failed or goes on,
\* nothing it made is left.
AllGood(h) == \A t \in Users(h) : \A a \in ArchsOf(t) : branch[t][a] \in {"none", "done"}
GoneAfterUse ==
    \A h \in Helpers \ {Web} : Waiting(h) = {} /\ AllGood(h) =>
        \A a \in Archs : package[Place(h, a)].by # h

NsisInv ==
    /\ NsisTypes /\ CountsUsers /\ GotPackage /\ StagesFollow /\ MadeWhenAsked
    /\ OnlyMadeThere /\ FlagsOfHelpers /\ WebStays /\ StaysWhileUsed /\ GoneAfterUse

LEMMA HelpersOfTargets ==
    ASSUME order \in Orders
    PROVE  /\ Archs \subseteq Nat
           /\ \A t \in Wanted : ArchsOf(t) # {} /\ ArchsOf(t) \subseteq Archs
           /\ \A t \in Wanted : HelperOf(t) \in Helpers /\ (HelperOf(t) = Web <=> t = "web")
           /\ Helpers \subseteq Nat
           /\ IsFiniteSet(Wanted) /\ IsFiniteSet(Helpers)
<1>1. order \in Seq(SUBSET Targets)
    BY NsisAssumption
<1>2. Len(order) \in Nat /\ Archs = 1..Len(order)
    BY <1>1, LenProperties DEF Archs
<1>3. \A t \in Wanted : ArchsOf(t) # {} /\ ArchsOf(t) \subseteq Archs
    BY DEF Wanted, ArchsOf, Archs
<1>4. \A t \in Wanted : t # "web" => HelperOf(t) \in 1..Len(order)
    BY <1>2, <1>3, LeastIsThere DEF HelperOf
<1>5. HelperOf("web") = 0
    BY DEF HelperOf, Web
<1>6. \A t \in Wanted : HelperOf(t) \in 0..Len(order) /\ (HelperOf(t) = Web <=> t = "web")
    BY <1>2, <1>4, <1>5 DEF Web
<1>7. Helpers \subseteq 0..Len(order) /\ \A t \in Wanted : HelperOf(t) \in Helpers
    BY <1>6 DEF Helpers
<1>8. IsFiniteSet(Wanted)
    <2>1. IsFiniteSet({} \union {"nsis"} \union {"portable"} \union {"web"})
        BY FS_EmptySet, FS_AddElement
    <2>2. Wanted \in SUBSET ({} \union {"nsis"} \union {"portable"} \union {"web"})
        BY DEF Wanted, Targets
    <2> QED BY <2>1, <2>2, FS_Subset
<1>9. IsFiniteSet(Helpers)
    <2>1. IsFiniteSet(0..Len(order))
        BY <1>2, FS_Interval
    <2> QED BY <1>7, <2>1, FS_Subset
<1> QED BY <1>2, <1>3, <1>6, <1>7, <1>8, <1>9

\* What is derived from the order does not change with anything else.
LEMMA OrderStays ==
    ASSUME UNCHANGED order
    PROVE  /\ UNCHANGED <<Archs, Wanted, Helpers, OneHelper>>
           /\ \A t : ArchsOf(t)' = ArchsOf(t) /\ HelperOf(t)' = HelperOf(t)
           /\ \A h : Users(h)' = Users(h)
           /\ \A h : Waiting(h)' = {t \in Users(h) : stage'[t] # "ended"}
<1>1. \A t : ArchsOf(t)' = ArchsOf(t)
    BY DEF ArchsOf
<1>2. Wanted' = Wanted
    BY <1>1 DEF Wanted
<1>3. \A t : HelperOf(t)' = HelperOf(t)
    BY <1>1 DEF HelperOf
<1>4. Helpers' = Helpers
    BY <1>2, <1>3 DEF Helpers
<1>5. \A h : Users(h)' = Users(h)
    BY <1>2, <1>3 DEF Users
<1> QED BY <1>1, <1>2, <1>3, <1>4, <1>5 DEF Archs, OneHelper, Waiting

\* Two helpers have places of their own, when there is one besides Web.
LEMMA PlacesApart ==
    ASSUME order \in Orders, NEW h \in Helpers, NEW g \in Helpers, h # g,
           OneHelper \/ h = Web \/ g = Web
    PROVE  (h = Web) # (g = Web) /\ \A a, b : Place(h, a) # Place(g, b)
<1>1. h = Web \/ g = Web
    <2> SUFFICES ASSUME OneHelper, h # Web, g # Web PROVE FALSE
        OBVIOUS
    <2>1. IsFiniteSet(Helpers \ {Web})
        BY HelpersOfTargets, FS_RemoveElement
    <2>2. IsFiniteSet({h}) /\ Cardinality({h}) = 1
        BY FS_Singleton
    <2>3. Cardinality({h} \union {g}) = 2
        BY <2>2, FS_AddElement
    <2>4. {h} \union {g} \in SUBSET (Helpers \ {Web})
        OBVIOUS
    <2>5. Cardinality({h} \union {g}) <= Cardinality(Helpers \ {Web})
        BY <2>1, <2>4, FS_Subset
    <2>6. Cardinality(Helpers \ {Web}) \in Nat
        BY <2>1, FS_CardinalityType
    <2> QED BY <2>3, <2>5, <2>6 DEF OneHelper
<1>2. (h = Web) # (g = Web)
    BY <1>1
<1> QED BY <1>2 DEF Place

LEMMA NsisStart == NsisInit => NsisInv
<1> SUFFICES ASSUME NsisInit PROVE NsisInv
    OBVIOUS
<1> USE DEF NsisInit
<1>1. \A h \in Helpers : /\ Waiting(h) = {t \in Wanted : HelperOf(t) = h}
                         /\ IsFiniteSet(Waiting(h))
    <2>1. \A h \in Helpers : Waiting(h) = {t \in Wanted : HelperOf(t) = h}
        BY DEF Waiting, Users
    <2>2. \A h \in Helpers : Waiting(h) \in SUBSET Wanted
        BY <2>1
    <2> QED BY <2>1, <2>2, HelpersOfTargets, FS_Subset
<1>2. CountsUsers /\ refCount \in [Helpers -> Nat]
    BY <1>1, FS_CardinalityType DEF CountsUsers
<1>3. NsisTypes
    <2>1. \A t \in Wanted : branch[t] \in [ArchsOf(t) -> BranchStates]
        BY DEF BranchStates
    <2>2. job \in [Helpers -> [Archs -> JobStates]] /\ isDelete \in [Helpers -> [Archs -> Flags]]
        BY DEF JobStates, Flags, Archs
    <2> QED BY <1>2, <2>1, <2>2 DEF NsisTypes, Archs
<1>4. GotPackage /\ StagesFollow
    BY DEF GotPackage, StagesFollow
<1>5. MadeWhenAsked /\ OnlyMadeThere /\ FlagsOfHelpers /\ WebStays /\ StaysWhileUsed
    BY DEF MadeWhenAsked, OnlyMadeThere, FlagsOfHelpers, WebStays, StaysWhileUsed, Archs
<1>6. GoneAfterUse
    <2>1. \A h \in Helpers : h # -1
        BY HelpersOfTargets
    <2>2. \A h \in Helpers : \A a \in Archs : package[Place(h, a)].by = -1
        BY DEF NoFile, Archs, Place
    <2> QED BY <2>1, <2>2 DEF GoneAfterUse
<1> QED BY <1>2, <1>3, <1>4, <1>5, <1>6 DEF NsisInv

\* What GoTo, Branch and the steps of a job change.
LEMMA StageSet ==
    ASSUME NsisTypes, NEW t \in Wanted, NEW where, GoTo(t, where)
    PROVE  \A u \in Wanted : stage'[u] = IF u = t THEN where ELSE stage[u]
BY DEF NsisTypes, GoTo

LEMMA BranchSet ==
    ASSUME NsisTypes, NEW t \in Wanted, NEW a \in ArchsOf(t), NEW where \in BranchStates,
           Branch(t, a, where)
    PROVE  /\ DOMAIN branch' = Wanted
           /\ \A u \in Wanted : branch'[u] \in [ArchsOf(u) -> BranchStates]
           /\ \A u \in Wanted : \A b \in ArchsOf(u) :
                  branch'[u][b] = IF u = t /\ b = a THEN where ELSE branch[u][b]
<1>1. branch' = [branch EXCEPT ![t] = [branch[t] EXCEPT ![a] = where]]
    BY DEF Branch
<1>2. branch'[t] = [branch[t] EXCEPT ![a] = where] /\ \A u \in Wanted \ {t} : branch'[u] = branch[u]
    BY <1>1 DEF NsisTypes
<1>3. DOMAIN branch' = Wanted
    BY <1>1 DEF NsisTypes
<1>4. \A u \in Wanted : branch'[u] \in [ArchsOf(u) -> BranchStates]
    <2>1. branch[t] \in [ArchsOf(t) -> BranchStates]
        BY DEF NsisTypes
    <2>2. branch'[t] \in [ArchsOf(t) -> BranchStates]
        BY <1>2, <2>1
    <2>3. \A u \in Wanted \ {t} : branch'[u] \in [ArchsOf(u) -> BranchStates]
        BY <1>2 DEF NsisTypes
    <2> QED BY <2>2, <2>3
<1>5. \A b \in ArchsOf(t) : branch'[t][b] = IF b = a THEN where ELSE branch[t][b]
    BY <1>2 DEF NsisTypes
<1> QED BY <1>2, <1>3, <1>4, <1>5

LEMMA JobSet ==
    ASSUME NsisTypes, NEW h \in Helpers, NEW a \in Archs, NEW where \in JobStates,
           job' = [job EXCEPT ![h][a] = where]
    PROVE  /\ job' \in [Helpers -> [Archs -> JobStates]]
           /\ \A g \in Helpers : \A b \in Archs :
                  job'[g][b] = IF g = h /\ b = a THEN where ELSE job[g][b]
BY DEF NsisTypes

\* Steps that leave the packages alone.
LEMMA FilesUnchanged ==
    ASSUME NsisInv, UNCHANGED <<order, job, package, isDelete, refCount>>,
           \A t \in Wanted : stage'[t] = "ended" <=> stage[t] = "ended"
    PROVE  /\ CountsUsers' /\ OnlyMadeThere' /\ FlagsOfHelpers' /\ WebStays' /\ StaysWhileUsed'
           /\ \A h : Waiting(h)' = Waiting(h)
<1>1. \A h : Waiting(h)' = Waiting(h)
    <2>1. \A h : Users(h) \subseteq Wanted
        BY DEF Users
    <2> QED BY <2>1, OrderStays DEF Waiting
<1>2. CountsUsers'
    BY <1>1, OrderStays DEF NsisInv, CountsUsers
<1>3. OnlyMadeThere' /\ FlagsOfHelpers' /\ WebStays'
    BY OrderStays DEF NsisInv, OnlyMadeThere, FlagsOfHelpers, WebStays
<1>4. StaysWhileUsed'
    BY <1>1, OrderStays DEF NsisInv, StaysWhileUsed
<1> QED BY <1>1, <1>2, <1>3, <1>4

LEMMA BeginStep == ASSUME NsisInv, NEW t \in Wanted, Begin(t) PROVE NsisInv'
<1> USE DEF NsisInv
<1> DEFINE h == HelperOf(t)
           MapBegins ==
               /\ branch' = [branch EXCEPT ![t] = [a \in ArchsOf(t) |-> "wait"]]
               /\ job' = [job EXCEPT ![h] =
                             [a \in Archs |-> IF a \in ArchsOf(t) /\ @[a] = "none" THEN "remove"
                                              ELSE @[a]]]
<1>1. UNCHANGED <<order, package, isDelete, refCount>> /\ stage[t] = "start"
    BY DEF Begin
<1>2. PICK where \in {"packing", "release"} :
          /\ GoTo(t, where)
          /\ \/ where = "packing" /\ MapBegins
             \/ where = "release" /\ UNCHANGED <<branch, job>>
    <2>1. \/ GoTo(t, "packing") /\ MapBegins
          \/ GoTo(t, "release") /\ UNCHANGED <<branch, job>>
        BY DEF Begin, Archs
    <2> HIDE DEF MapBegins
    <2> QED BY <2>1
<1>3. \A u \in Wanted : stage'[u] = IF u = t THEN where ELSE stage[u]
    BY <1>2, StageSet
<1>4. \A g : Waiting(g)' = Waiting(g)
    <2>1. \A g : Users(g) \subseteq Wanted
        BY DEF Users
    <2> QED BY <1>1, <1>2, <1>3, <2>1, OrderStays DEF Waiting
<1>5. h \in Helpers /\ ArchsOf(t) \subseteq Archs
    BY HelpersOfTargets DEF NsisTypes
<1>6. CASE UNCHANGED <<branch, job>> /\ where = "release"
    <2>1. NsisTypes'
        BY <1>1, <1>2, <1>6, OrderStays DEF NsisTypes, GoTo
    <2>2. CountsUsers' /\ OnlyMadeThere' /\ FlagsOfHelpers' /\ WebStays' /\ StaysWhileUsed'
        BY <1>1, <1>2, <1>3, <1>6, FilesUnchanged
    <2>3. GotPackage' /\ MadeWhenAsked'
        BY <1>1, <1>6, OrderStays DEF GotPackage, MadeWhenAsked
    <2>4. StagesFollow'
        BY <1>1, <1>2, <1>3, <1>6, OrderStays DEF StagesFollow
    <2>5. GoneAfterUse'
        BY <1>1, <1>4, <1>6, OrderStays DEF GoneAfterUse, AllGood, Place
    <2> QED BY <2>1, <2>2, <2>3, <2>4, <2>5
<1>7. CASE where = "packing" /\ MapBegins
    <2>1. /\ DOMAIN branch' = Wanted
          /\ \A u \in Wanted : branch'[u] \in [ArchsOf(u) -> BranchStates]
          /\ \A u \in Wanted : \A a \in ArchsOf(u) :
                 branch'[u][a] = IF u = t THEN "wait" ELSE branch[u][a]
        <3>1. branch'[t] = [a \in ArchsOf(t) |-> "wait"] /\ \A u \in Wanted \ {t} : branch'[u] = branch[u]
            BY <1>7 DEF NsisTypes
        <3> QED BY <1>7, <3>1 DEF NsisTypes, BranchStates
    <2>2. \A g \in Helpers : \A a \in Archs :
              job'[g][a] = IF g = h /\ a \in ArchsOf(t) /\ job[g][a] = "none" THEN "remove"
                           ELSE job[g][a]
        BY <1>5, <1>7 DEF NsisTypes
    <2>3. job' \in [Helpers -> [Archs -> JobStates]]
        <3>1. [a \in Archs |-> IF a \in ArchsOf(t) /\ job[h][a] = "none" THEN "remove" ELSE job[h][a]]
                  \in [Archs -> JobStates]
            BY <1>5 DEF NsisTypes, JobStates
        <3> QED BY <1>7, <3>1 DEF NsisTypes
    <2>4. NsisTypes'
        BY <1>1, <1>2, <2>1, <2>3, OrderStays DEF NsisTypes, GoTo
    <2>5. CountsUsers' /\ FlagsOfHelpers'
        BY <1>1, <1>4, OrderStays DEF CountsUsers, FlagsOfHelpers
    <2>6. GotPackage'
        <3>1. \A u \in Wanted : HelperOf(u) \in Helpers /\ ArchsOf(u) \subseteq Archs
            BY HelpersOfTargets DEF NsisTypes
        <3> QED BY <1>1, <2>1, <2>2, <3>1, OrderStays DEF GotPackage
    <2>7. StagesFollow'
        BY <1>1, <1>3, <1>7, <2>1, OrderStays DEF StagesFollow
    <2>8. MadeWhenAsked'
        <3> SUFFICES ASSUME NEW g \in Helpers, NEW a \in Archs, job'[g][a] # "none"
                     PROVE  \E u \in Users(g) : a \in ArchsOf(u) /\ branch'[u][a] # "none"
            BY <1>1, OrderStays DEF MadeWhenAsked
        <3>1. CASE g = h /\ a \in ArchsOf(t)
            BY <2>1, <3>1 DEF Users
        <3>2. CASE job[g][a] # "none"
            BY <2>1, <3>2 DEF MadeWhenAsked, Users
        <3> QED BY <2>2, <3>1, <3>2
    <2>9. OnlyMadeThere'
        <3>1. \A p \in BOOLEAN \X Archs : p[2] \in Archs
            OBVIOUS
        <3> QED BY <1>1, <2>2, <3>1, OrderStays DEF OnlyMadeThere, Place
    <2>10. WebStays' /\ StaysWhileUsed'
        BY <1>1, <1>4, <2>2, OrderStays DEF WebStays, StaysWhileUsed, Place
    <2>11. GoneAfterUse'
        <3> SUFFICES ASSUME NEW g \in Helpers \ {Web}, Waiting(g) = {}, AllGood(g)',
                            NEW a \in Archs
                     PROVE  package[Place(g, a)].by # g
            BY <1>1, <1>4, OrderStays DEF GoneAfterUse, Place
        <3>1. g # h
            BY <1>1 DEF Waiting, Users
        <3>2. AllGood(g)
            BY <1>1, <2>1, <3>1, OrderStays DEF AllGood, Users
        <3> QED BY <3>2 DEF GoneAfterUse
    <2> QED BY <2>4, <2>5, <2>6, <2>7, <2>8, <2>9, <2>10, <2>11
<1> QED BY <1>2, <1>6, <1>7

\* Steps of the branches and of a target's own, which leave the packages alone.
LEMMA BranchStep ==
    ASSUME NsisInv, NEW t \in Wanted, NEW a \in ArchsOf(t),
           \/ Listed(t, a)
           \/ BranchFails(t, a)
    PROVE  NsisInv'
<1> USE DEF NsisInv
<1> DEFINE h == HelperOf(t)
<1>1. UNCHANGED <<order, job, package, isDelete, refCount>>
    BY DEF Listed, BranchFails
<1>2. PICK to \in {"done", "failed"} :
          /\ Branch(t, a, to)
          /\ to = "done" => branch[t][a] = "list" /\ UNCHANGED stage
    BY DEF Listed, BranchFails
<1>3. /\ DOMAIN branch' = Wanted
      /\ \A u \in Wanted : branch'[u] \in [ArchsOf(u) -> BranchStates]
      /\ \A u \in Wanted : \A b \in ArchsOf(u) :
             branch'[u][b] = IF u = t /\ b = a THEN to ELSE branch[u][b]
    BY <1>2, BranchSet DEF BranchStates
<1>4. branch[t][a] \in {"wait", "list"}
    BY DEF Listed, BranchFails
<1>5. /\ stage' \in [Wanted -> {"start", "packing", "compile", "release", "ended"}]
      /\ \A u \in Wanted : \/ stage'[u] = stage[u]
                           \/ /\ u = t /\ to = "failed"
                              /\ stage[u] = "packing" /\ stage'[u] = "release"
    <2>1. CASE UNCHANGED stage
        BY <2>1 DEF NsisTypes
    <2>2. CASE stage[t] = "packing" /\ GoTo(t, "release") /\ to = "failed"
        BY <2>2, StageSet DEF NsisTypes, GoTo
    <2> QED BY <1>2, <2>1, <2>2 DEF Listed, BranchFails
<1>6. NsisTypes'
    BY <1>1, <1>3, <1>5, OrderStays DEF NsisTypes
<1>7. /\ CountsUsers' /\ OnlyMadeThere' /\ FlagsOfHelpers' /\ WebStays' /\ StaysWhileUsed'
      /\ \A g : Waiting(g)' = Waiting(g)
    BY <1>1, <1>5, FilesUnchanged
<1>8. GotPackage'
    BY <1>1, <1>2, <1>3, OrderStays DEF GotPackage
<1>9. StagesFollow'
    <2> SUFFICES ASSUME NEW u \in Wanted
                 PROVE  /\ stage'[u] = "start" => \A b \in ArchsOf(u) : branch'[u][b] = "none"
                        /\ stage'[u] = "compile" => \A b \in ArchsOf(u) : branch'[u][b] = "done"
                        /\ stage'[u] \in {"release", "ended"} =>
                               \/ \A b \in ArchsOf(u) : branch'[u][b] = "none"
                               \/ \A b \in ArchsOf(u) : branch'[u][b] = "done"
                               \/ \E b \in ArchsOf(u) : branch'[u][b] = "failed"
        BY <1>1, OrderStays DEF StagesFollow
    <2>1. CASE u # t
        BY <1>3, <1>5, <2>1 DEF StagesFollow
    <2>2. CASE u = t /\ to = "failed"
        BY <1>3, <1>4, <1>5, <2>2 DEF StagesFollow
    <2>3. CASE u = t /\ to = "done"
        BY <1>2, <1>3, <2>3 DEF StagesFollow
    <2> QED BY <2>1, <2>2, <2>3
<1>10. MadeWhenAsked'
    BY <1>1, <1>3, OrderStays DEF MadeWhenAsked, Users
<1>11. GoneAfterUse'
    <2> SUFFICES ASSUME NEW g \in Helpers \ {Web}, Waiting(g) = {}, AllGood(g)', NEW b \in Archs
                 PROVE  package[Place(g, b)].by # g
        BY <1>1, <1>7, OrderStays DEF GoneAfterUse, Place
    <2>1. \A u \in Users(g) : \A c \in ArchsOf(u) : branch'[u][c] \in {"none", "done"}
        BY <1>1, OrderStays DEF AllGood
    <2>2. CASE g # h
        <3>1. AllGood(g)
            BY <1>3, <2>1, <2>2 DEF AllGood, Users
        <3> QED BY <3>1 DEF GoneAfterUse
    <2>3. CASE g = h
        <3>1. t \in Users(g) /\ stage[t] = "ended" /\ to = "done"
            BY <1>3, <2>1, <2>3 DEF Users, Waiting
        <3>2. \E c \in ArchsOf(t) : c # a /\ branch[t][c] = "failed"
            BY <1>2, <3>1 DEF StagesFollow
        <3> QED BY <1>3, <2>1, <3>1, <3>2
    <2> QED BY <2>2, <2>3
<1> QED BY <1>6, <1>7, <1>8, <1>9, <1>10, <1>11

LEMMA CompileStep ==
    ASSUME NsisInv, NEW t \in Wanted, Compile(t) \/ Compiled(t)
    PROVE  NsisInv'
<1> USE DEF NsisInv
<1>1. UNCHANGED <<order, branch, job, package, isDelete, refCount>>
    BY DEF Compile, Compiled
<1>2. PICK where \in {"compile", "release"} :
          /\ GoTo(t, where)
          /\ \A a \in ArchsOf(t) : branch[t][a] = "done"
          /\ stage[t] \notin {"start", "ended"}
    <2>1. CASE Compile(t)
        BY <2>1 DEF Compile
    <2>2. CASE Compiled(t)
        BY <2>2 DEF Compiled, StagesFollow, AfterCompile
    <2> QED BY <2>1, <2>2
<1>3. \A u \in Wanted : stage'[u] = IF u = t THEN where ELSE stage[u]
    BY <1>2, StageSet
<1>4. NsisTypes'
    BY <1>1, <1>2, OrderStays DEF NsisTypes, GoTo
<1>5. /\ CountsUsers' /\ OnlyMadeThere' /\ FlagsOfHelpers' /\ WebStays' /\ StaysWhileUsed'
      /\ \A g : Waiting(g)' = Waiting(g)
    BY <1>1, <1>2, <1>3, FilesUnchanged
<1>6. GotPackage' /\ MadeWhenAsked'
    BY <1>1, OrderStays DEF GotPackage, MadeWhenAsked
<1>7. StagesFollow'
    BY <1>1, <1>2, <1>3, OrderStays DEF StagesFollow
<1>8. GoneAfterUse'
    BY <1>1, <1>5, OrderStays DEF GoneAfterUse, AllGood, Place
<1> QED BY <1>4, <1>5, <1>6, <1>7, <1>8

LEMMA PackedStep ==
    ASSUME NsisInv, NEW t \in Wanted, NEW a \in ArchsOf(t), Packed(t, a)
    PROVE  NsisInv'
<1> USE DEF NsisInv
<1> DEFINE h == HelperOf(t)
           flag == FlagFor(t, isDelete[h][a])
<1>1. /\ UNCHANGED <<order, stage, job, package, refCount>>
      /\ branch[t][a] = "wait" /\ job[h][a] = "done"
      /\ isDelete' = [isDelete EXCEPT ![h][a] = flag] /\ Branch(t, a, "list")
    BY DEF Packed
<1>2. h \in Helpers /\ (h = Web <=> t = "web") /\ a \in Archs
    BY HelpersOfTargets DEF NsisTypes
<1>3. flag = IF t = "web" THEN "keep" ELSE "delete"
    BY <1>2 DEF FlagFor, FlagsOfHelpers, NsisTypes, Flags
<1>4. /\ DOMAIN branch' = Wanted
      /\ \A u \in Wanted : branch'[u] \in [ArchsOf(u) -> BranchStates]
      /\ \A u \in Wanted : \A b \in ArchsOf(u) :
             branch'[u][b] = IF u = t /\ b = a THEN "list" ELSE branch[u][b]
    BY <1>1, BranchSet DEF BranchStates
<1>5. /\ isDelete' \in [Helpers -> [Archs -> Flags]]
      /\ \A g \in Helpers : \A b \in Archs :
             isDelete'[g][b] = IF g = h /\ b = a THEN flag ELSE isDelete[g][b]
    BY <1>1, <1>2, <1>3 DEF NsisTypes, Flags
<1>6. NsisTypes'
    BY <1>1, <1>4, <1>5, OrderStays DEF NsisTypes
<1>7. \A g : Waiting(g)' = Waiting(g)
    BY <1>1, OrderStays DEF Waiting
<1>8. CountsUsers' /\ OnlyMadeThere' /\ WebStays' /\ StaysWhileUsed'
    BY <1>1, <1>7, OrderStays DEF CountsUsers, OnlyMadeThere, WebStays, StaysWhileUsed, Place
<1>9. FlagsOfHelpers'
    BY <1>1, <1>2, <1>3, <1>5, OrderStays DEF FlagsOfHelpers
<1>10. GotPackage'
    <2>1. \A u \in Wanted : /\ HelperOf(u) \in Helpers /\ ArchsOf(u) \subseteq Archs
                            /\ HelperOf(u) = Web <=> u = "web"
        BY HelpersOfTargets DEF NsisTypes
    <2> SUFFICES ASSUME NEW u \in Wanted, NEW b \in ArchsOf(u), branch'[u][b] \in {"list", "done"}
                 PROVE  /\ job[HelperOf(u)][b] = "done"
                        /\ isDelete'[HelperOf(u)][b] = IF u = "web" THEN "keep" ELSE "delete"
        BY <1>1, OrderStays DEF GotPackage
    <2>2. job[HelperOf(u)][b] = "done"
        BY <1>1, <1>4 DEF GotPackage
    <2>3. CASE HelperOf(u) = h /\ b = a
        <3>1. isDelete'[h][a] = flag
            BY <1>2, <1>5
        <3>2. u = "web" <=> t = "web"
            BY <1>2, <2>1, <2>3
        <3>3. isDelete'[HelperOf(u)][b] = flag
            BY <2>3, <3>1
        <3>4. flag = IF u = "web" THEN "keep" ELSE "delete"
            BY <1>3, <3>2
        <3> HIDE DEF flag
        <3> QED BY <2>2, <3>3, <3>4
    <2>4. CASE ~(HelperOf(u) = h /\ b = a)
        BY <1>4, <1>5, <2>1, <2>4 DEF GotPackage
    <2> QED BY <2>2, <2>3, <2>4
<1>11. StagesFollow'
    BY <1>1, <1>4, OrderStays DEF StagesFollow
<1>12. MadeWhenAsked'
    BY <1>1, <1>4, OrderStays DEF MadeWhenAsked, Users
<1>13. GoneAfterUse'
    <2> SUFFICES ASSUME NEW g \in Helpers \ {Web}, Waiting(g) = {}, AllGood(g)', NEW b \in Archs
                 PROVE  package[Place(g, b)].by # g
        BY <1>1, <1>7, OrderStays DEF GoneAfterUse, Place
    <2>1. \A u \in Users(g) : \A c \in ArchsOf(u) : branch'[u][c] \in {"none", "done"}
        BY <1>1, OrderStays DEF AllGood
    <2>2. AllGood(g) \/ g = h
        BY <1>4, <2>1 DEF AllGood, Users
    <2>3. g # h
        BY <1>4, <2>1 DEF Users
    <2> QED BY <2>2, <2>3 DEF GoneAfterUse
<1> QED BY <1>6, <1>8, <1>9, <1>10, <1>11, <1>12, <1>13

LEMMA PlaceIsThere ==
    ASSUME NEW h, NEW a \in Archs
    PROVE  Place(h, a) \in BOOLEAN \X Archs /\ Place(h, a)[2] = a
<1>1. (h = Web) \in BOOLEAN
    BY Zenon
<1> QED BY <1>1 DEF Place

\* packArch: what is removed and written is of a job no branch has got anything from.
LEMMA ArchiveStep ==
    ASSUME NsisInv, NEW h \in Helpers, NEW a \in Archs, Archive(h, a) \/ Archived(h, a)
    PROVE  NsisInv'
<1> USE DEF NsisInv
<1>1. UNCHANGED <<order, stage, branch, isDelete, refCount>> /\ job[h][a] \in {"remove", "write"}
    BY DEF Archive, Archived
<1>2. PICK to \in {"write", "done", "failed"} :
          /\ job' = [job EXCEPT ![h][a] = to]
          /\ \/ to = "failed" /\ UNCHANGED package
             \/ to = "done" /\ package' = [package EXCEPT ![Place(h, a)] = [by |-> h, whole |-> TRUE]]
             \/ to = "write" /\ package' = [package EXCEPT ![Place(h, a)] = [by |-> h, whole |-> FALSE]]
    BY DEF Archive, Archived
<1>3. /\ job' \in [Helpers -> [Archs -> JobStates]]
      /\ \A g \in Helpers : \A b \in Archs :
             job'[g][b] = IF g = h /\ b = a THEN to ELSE job[g][b]
    <2>1. to \in JobStates
        BY DEF JobStates
    <2> QED BY <1>2, <2>1, JobSet
<1>4. /\ DOMAIN package' = BOOLEAN \X Archs
      /\ \A p \in BOOLEAN \X Archs : p # Place(h, a) => package'[p] = package[p]
      /\ \/ to = "failed" /\ package' = package
         \/ to # "failed" /\ package'[Place(h, a)].by = h
      /\ to = "done" => package'[Place(h, a)] = [by |-> h, whole |-> TRUE]
    <2> DEFINE here == Place(h, a)
    <2>1. here \in BOOLEAN \X Archs /\ DOMAIN package = BOOLEAN \X Archs
        BY PlaceIsThere DEF NsisTypes
    <2> HIDE DEF here
    <2>2. ASSUME NEW w, package' = [package EXCEPT ![here] = [by |-> h, whole |-> w]]
          PROVE  /\ DOMAIN package' = BOOLEAN \X Archs
                 /\ \A p \in BOOLEAN \X Archs : p # here => package'[p] = package[p]
                 /\ package'[here] = [by |-> h, whole |-> w]
        BY <2>1, <2>2
    <2>3. CASE to = "failed" /\ UNCHANGED package
        BY <2>1, <2>3 DEF here
    <2>4. CASE to = "done" /\ package' = [package EXCEPT ![here] = [by |-> h, whole |-> TRUE]]
        <3>1. /\ DOMAIN package' = BOOLEAN \X Archs
              /\ \A p \in BOOLEAN \X Archs : p # here => package'[p] = package[p]
              /\ package'[here] = [by |-> h, whole |-> TRUE]
            BY <2>2, <2>4
        <3> QED BY <2>4, <3>1 DEF here
    <2>5. CASE to = "write" /\ package' = [package EXCEPT ![here] = [by |-> h, whole |-> FALSE]]
        <3>1. /\ DOMAIN package' = BOOLEAN \X Archs
              /\ \A p \in BOOLEAN \X Archs : p # here => package'[p] = package[p]
              /\ package'[here] = [by |-> h, whole |-> FALSE]
            BY <2>2, <2>5
        <3> QED BY <2>5, <3>1 DEF here
    <2> QED BY <1>2, <2>3, <2>4, <2>5 DEF here
<1>5. NsisTypes'
    BY <1>1, <1>3, <1>4, OrderStays DEF NsisTypes
<1>6. \A g : Waiting(g)' = Waiting(g)
    BY <1>1, OrderStays DEF Waiting
<1>7. CountsUsers' /\ FlagsOfHelpers' /\ StagesFollow'
    BY <1>1, <1>6, OrderStays DEF CountsUsers, FlagsOfHelpers, StagesFollow
<1>8. GotPackage'
    <2>1. \A t \in Wanted : HelperOf(t) \in Helpers /\ ArchsOf(t) \subseteq Archs
        BY HelpersOfTargets DEF NsisTypes
    <2> QED BY <1>1, <1>3, <2>1, OrderStays DEF GotPackage
<1>9. MadeWhenAsked'
    BY <1>1, <1>3, OrderStays DEF MadeWhenAsked
<1>10. OnlyMadeThere'
    <2> SUFFICES ASSUME NEW p \in BOOLEAN \X Archs, package'[p] # NoFile
                 PROVE  \E g \in Helpers : /\ package'[p].by = g /\ p = Place(g, p[2])
                                           /\ job'[g][p[2]] \notin {"none", "remove"}
        BY <1>1, OrderStays DEF OnlyMadeThere, Place
    <2>1. CASE p = Place(h, a) /\ to # "failed"
        <3>1. p[2] = a /\ package'[p].by = h
            BY <1>4, <2>1, PlaceIsThere
        <3> QED BY <1>3, <2>1, <3>1
    <2>2. CASE p # Place(h, a) \/ to = "failed"
        <3>1. package'[p] = package[p] /\ p[2] \in Archs
            BY <1>4, <2>2
        <3> QED BY <1>3, <3>1 DEF OnlyMadeThere
    <2> QED BY <2>1, <2>2
<1>11. \A g \in Helpers, b \in Archs :
           (g # h \/ b # a) /\ (OneHelper \/ g = Web) => package'[Place(g, b)] = package[Place(g, b)]
    <2> SUFFICES ASSUME NEW g \in Helpers, NEW b \in Archs, g # h \/ b # a, OneHelper \/ g = Web
                 PROVE  Place(g, b) # Place(h, a)
        BY <1>4, PlaceIsThere
    <2>1. CASE g = h
        BY <2>1, PlaceIsThere
    <2>2. CASE g # h
        BY <2>2, PlacesApart DEF NsisTypes
    <2> QED BY <2>1, <2>2
<1>12. WebStays'
    <2> SUFFICES ASSUME Web \in Helpers, NEW b \in Archs, job'[Web][b] = "done"
                 PROVE  package'[Place(Web, b)].whole
        BY <1>1, OrderStays DEF WebStays, Place
    <2>1. CASE Web = h /\ b = a
        BY <1>3, <1>4, <2>1
    <2>2. CASE ~(Web = h /\ b = a)
        BY <1>3, <1>11, <2>2 DEF WebStays
    <2> QED BY <2>1, <2>2
<1>13. StaysWhileUsed'
    <2> SUFFICES ASSUME OneHelper, NEW g \in Helpers, NEW b \in Archs, job'[g][b] = "done",
                        Waiting(g) # {}
                 PROVE  package'[Place(g, b)] = [by |-> g, whole |-> TRUE]
        BY <1>1, <1>6, OrderStays DEF StaysWhileUsed, Place
    <2>1. CASE g = h /\ b = a
        BY <1>3, <1>4, <2>1
    <2>2. CASE ~(g = h /\ b = a)
        BY <1>3, <1>11, <2>2 DEF StaysWhileUsed
    <2> QED BY <2>1, <2>2
<1>14. GoneAfterUse'
    <2> SUFFICES ASSUME NEW g \in Helpers \ {Web}, Waiting(g) = {}, AllGood(g), NEW b \in Archs
                 PROVE  package'[Place(g, b)].by # g
        BY <1>1, <1>6, OrderStays DEF GoneAfterUse, AllGood, Place
    <2>1. g # h
        <3> SUFFICES ASSUME g = h PROVE FALSE
            OBVIOUS
        <3>1. PICK t \in Users(h) : a \in ArchsOf(t) /\ branch[t][a] # "none"
            BY <1>1 DEF MadeWhenAsked
        <3>2. branch[t][a] = "done"
            BY <3>1 DEF AllGood
        <3> QED BY <1>1, <3>1, <3>2 DEF GotPackage, Users
    <2>2. package[Place(g, b)].by # g
        BY DEF GoneAfterUse
    <2> QED BY <1>4, <2>1, <2>2, PlaceIsThere
<1> QED BY <1>5, <1>7, <1>8, <1>9, <1>10, <1>12, <1>13, <1>14

LEMMA ReleaseStep == ASSUME NsisInv, NEW t \in Wanted, Release(t) PROVE NsisInv'
<1> USE DEF NsisInv
<1> DEFINE h == HelperOf(t)
<1>1. /\ UNCHANGED <<order, branch, job, isDelete>> /\ stage[t] = "release"
      /\ refCount' = [refCount EXCEPT ![h] = @ - 1] /\ GoTo(t, "ended")
    BY DEF Release
<1>2. \A u \in Wanted : stage'[u] = IF u = t THEN "ended" ELSE stage[u]
    BY <1>1, StageSet
<1>3. h \in Helpers /\ t \in Waiting(h) /\ (\A g \in Helpers : IsFiniteSet(Waiting(g)))
    <2>1. \A g \in Helpers : Waiting(g) \in SUBSET Wanted
        BY DEF Waiting, Users
    <2> QED BY <1>1, <2>1, HelpersOfTargets, FS_Subset DEF NsisTypes, Waiting, Users
<1>4. \A g \in Helpers : Waiting(g)' = Waiting(g) \ {t} /\ (g # h => Waiting(g)' = Waiting(g))
    BY <1>1, <1>2, OrderStays DEF Waiting, Users
<1>5. Cardinality(Waiting(h) \ {t}) = refCount[h] - 1
    BY <1>3, FS_RemoveElement DEF CountsUsers
<1>6. IsFiniteSet(Waiting(h) \ {t}) /\ refCount[h] - 1 \in Nat
    BY <1>3, <1>5, FS_RemoveElement, FS_CardinalityType
<1>7. IsLast(h) <=> Waiting(h) \ {t} = {}
    BY <1>5, <1>6, FS_EmptySet DEF IsLast
<1>8. CountsUsers' /\ refCount' \in [Helpers -> Nat]
    BY <1>1, <1>3, <1>4, <1>5, <1>6, OrderStays DEF CountsUsers, NsisTypes
<1>9. /\ DOMAIN package' = BOOLEAN \X Archs
      /\ \A p \in BOOLEAN \X Archs :
             package'[p] = IF IsLast(h) /\ p \in Leftovers(h) THEN NoFile ELSE package[p]
    BY DEF Release, NsisTypes
<1>10. NsisTypes'
    BY <1>1, <1>8, <1>9, OrderStays DEF NsisTypes, GoTo
<1>11. GotPackage' /\ MadeWhenAsked' /\ FlagsOfHelpers'
    BY <1>1, OrderStays DEF GotPackage, MadeWhenAsked, FlagsOfHelpers
<1>12. StagesFollow'
    BY <1>1, <1>2, OrderStays DEF StagesFollow
<1>13. OnlyMadeThere'
    BY <1>1, <1>9, OrderStays DEF OnlyMadeThere, Place
<1>14. \A g \in Helpers, b \in Archs :
           /\ g # h /\ (OneHelper \/ g = Web) => Place(g, b) \notin Leftovers(h)
           /\ g = Web => Place(g, b) \notin Leftovers(h)
    <2>1. \A c \in Archs : h = Web => isDelete[h][c] # "delete"
        BY <1>3 DEF FlagsOfHelpers
    <2>2. \A g \in Helpers, b \in Archs :
              g # h /\ (OneHelper \/ g = Web) => Place(g, b) \notin Leftovers(h)
        BY <1>3, PlacesApart DEF Leftovers, NsisTypes
    <2>3. h = Web => Leftovers(h) = {}
        BY <2>1 DEF Leftovers, Archs
    <2> QED BY <2>2, <2>3
<1>15. WebStays'
    BY <1>1, <1>9, <1>14, PlaceIsThere, OrderStays DEF WebStays, Place
<1>16. StaysWhileUsed'
    <2> SUFFICES ASSUME OneHelper, NEW g \in Helpers, NEW b \in Archs, job[g][b] = "done",
                        Waiting(g) \ {t} # {}
                 PROVE  package'[Place(g, b)] = [by |-> g, whole |-> TRUE]
        BY <1>1, <1>4, OrderStays DEF StaysWhileUsed, Place
    <2>1. package[Place(g, b)] = [by |-> g, whole |-> TRUE]
        BY DEF StaysWhileUsed
    <2>2. ~(IsLast(h) /\ Place(g, b) \in Leftovers(h))
        BY <1>7, <1>14
    <2> QED BY <1>9, <2>1, <2>2, PlaceIsThere
<1>17. GoneAfterUse'
    <2> SUFFICES ASSUME NEW g \in Helpers \ {Web}, Waiting(g)' = {}, AllGood(g), NEW b \in Archs,
                        package'[Place(g, b)].by = g
                 PROVE  FALSE
        BY <1>1, OrderStays DEF GoneAfterUse, AllGood, Place
    <2>1. package'[Place(g, b)] # NoFile
        <3>1. g # -1
            BY HelpersOfTargets DEF NsisTypes
        <3> QED BY <3>1 DEF NoFile
    <2>2. package[Place(g, b)].by = g /\ package[Place(g, b)] # NoFile
        BY <1>9, <2>1, PlaceIsThere
    <2>3. CASE g # h
        BY <1>4, <2>2, <2>3 DEF GoneAfterUse
    <2>4. CASE g = h
        <3>1. IsLast(h)
            BY <1>4, <1>7, <2>4
        <3>2. job[g][b] \notin {"none", "remove"}
            BY <2>2, PlaceIsThere DEF OnlyMadeThere
        <3>3. PICK u \in Users(g) : b \in ArchsOf(u) /\ branch[u][b] # "none"
            BY <3>2 DEF MadeWhenAsked
        <3>4. branch[u][b] = "done" /\ u \in Wanted /\ HelperOf(u) = g
            BY <3>3 DEF AllGood, Users
        <3>5. u # "web"
            BY <3>4, HelpersOfTargets DEF NsisTypes
        <3>6. isDelete[g][b] = "delete"
            BY <3>3, <3>4, <3>5 DEF GotPackage
        <3>7. Place(g, b) \in Leftovers(h)
            BY <2>4, <3>6 DEF Leftovers, Archs
        <3> QED BY <1>9, <2>1, <3>1, <3>7, PlaceIsThere
    <2> QED BY <2>3, <2>4
<1> QED BY <1>8, <1>10, <1>11, <1>12, <1>13, <1>15, <1>16, <1>17

LEMMA NsisStep == NsisInv /\ [NsisNext]_nsisVars => NsisInv'
<1> SUFFICES ASSUME NsisInv, [NsisNext]_nsisVars PROVE NsisInv'
    OBVIOUS
<1>1. ASSUME NEW t \in Wanted, TargetStep(t) PROVE NsisInv'
    BY <1>1, BeginStep, BranchStep, CompileStep, PackedStep, ReleaseStep DEF TargetStep
<1>2. ASSUME NEW h \in Helpers, NEW a \in Archs, Archive(h, a) \/ Archived(h, a) PROVE NsisInv'
    BY <1>2, ArchiveStep
<1>3. CASE UNCHANGED nsisVars
    <2> USE <1>3 DEF nsisVars, NsisInv
    <2>1. /\ CountsUsers' /\ OnlyMadeThere' /\ FlagsOfHelpers' /\ WebStays' /\ StaysWhileUsed'
          /\ \A h : Waiting(h)' = Waiting(h)
        BY FilesUnchanged
    <2>2. NsisTypes'
        BY OrderStays DEF NsisTypes
    <2>3. GotPackage' /\ MadeWhenAsked' /\ StagesFollow'
        BY OrderStays DEF GotPackage, MadeWhenAsked, StagesFollow
    <2>4. GoneAfterUse'
        BY <2>1, OrderStays DEF GoneAfterUse, AllGood, Place
    <2> QED BY <2>1, <2>2, <2>3, <2>4
<1> QED BY <1>1, <1>2, <1>3 DEF NsisNext, Archs

(***************************************************************************)
(* The invariant of the Windows installers: who has asked for a package,   *)
(* who waits for it, which packages are on the disk and what becomes of    *)
(* them; the count of a helper is the number of its targets that have not  *)
(* released it.                                                            *)
(***************************************************************************)
THEOREM NsisInvariant == NsisSpec => []NsisInv
BY NsisStart, NsisStep, PTL DEF NsisSpec

(***************************************************************************)
(* AppPackageHelper: with one helper for nsis and portable, the packages   *)
(* an installer embeds are there, whole, as long as it is compiled, for    *)
(* any architectures and whichever other target fails or ends meanwhile.   *)
(***************************************************************************)
THEOREM PackagesThereWhileCompiling == NsisSpec => []PackagesWhileCompiling
<1>1. NsisInv => PackagesWhileCompiling
    <2> SUFFICES ASSUME NsisInv, OneHelper, NEW t \in Wanted, stage[t] = "compile",
                        NEW a \in ArchsOf(t)
                 PROVE  package[Place(HelperOf(t), a)] = [by |-> HelperOf(t), whole |-> TRUE]
        BY DEF PackagesWhileCompiling
    <2> USE DEF NsisInv
    <2>1. HelperOf(t) \in Helpers /\ a \in Archs
        BY HelpersOfTargets DEF NsisTypes
    <2>2. job[HelperOf(t)][a] = "done"
        BY DEF StagesFollow, GotPackage
    <2>3. t \in Waiting(HelperOf(t))
        BY DEF Waiting, Users
    <2> QED BY <2>1, <2>2, <2>3 DEF StaysWhileUsed
<1> QED BY NsisInvariant, <1>1, PTL

(***************************************************************************)
(* finishBuild: the package the web installer has announced stays, and     *)
(* when all installers have ended without a failed package, the shared     *)
(* packages are gone, with any number of helpers.                          *)
(***************************************************************************)
THEOREM PackagesRightAfterwards == NsisSpec => []PackagesAfterwards
<1>1. NsisInv => PackagesAfterwards
    <2> SUFFICES ASSUME NsisInv PROVE PackagesAfterwards
        OBVIOUS
    <2> USE DEF NsisInv
    <2>1. ASSUME "web" \in Wanted, NEW a \in ArchsOf("web"), branch["web"][a] \in {"list", "done"}
          PROVE  package[Place(Web, a)].whole
        <3>1. HelperOf("web") = Web /\ Web \in Helpers /\ a \in Archs
            BY <2>1, HelpersOfTargets DEF NsisTypes
        <3>2. job[Web][a] = "done"
            BY <2>1, <3>1 DEF GotPackage
        <3> QED BY <3>1, <3>2 DEF WebStays
    <2>2. ASSUME \A t \in Wanted : /\ stage[t] = "ended"
                                   /\ \A a \in ArchsOf(t) : branch[t][a] \in {"none", "done"},
                 NEW p \in BOOLEAN \X Archs, ~p[1], package[p] # NoFile
          PROVE  FALSE
        <3>1. PICK g \in Helpers : package[p].by = g /\ p = Place(g, p[2])
            BY <2>2 DEF OnlyMadeThere
        <3>2. g # Web /\ p[2] \in Archs
            BY <2>2, <3>1 DEF Place
        <3>3. Waiting(g) = {} /\ AllGood(g)
            BY <2>2 DEF Waiting, Users, AllGood
        <3> QED BY <3>1, <3>2, <3>3 DEF GoneAfterUse
    <2>3. DOMAIN package = BOOLEAN \X Archs
        BY DEF NsisTypes
    <2> QED BY <2>1, <2>2, <2>3 DEF PackagesAfterwards
<1> QED BY NsisInvariant, <1>1, PTL

-----------------------------------------------------------------------------
(* MacSigning                                                              *)

Steps == {"none", "roots", "setRoots", "remove", "list", "commands", "import", "ready", "failed"}
Begun == {"roots", "setRoots", "remove", "list"}
Results == {"signed", "unsigned"}

MacSigningTypeOK ==
    /\ keySetting \in KeySettings
    /\ keychain \in [Projects -> {Absent} \union SUBSET Kinds]
    /\ process \in [MacBuilds -> {"none", "running", "disposing", "over", "killed"}]
    /\ keyStep \in [MacBuilds -> Steps] /\ DOMAIN listed = MacBuilds
    /\ securityCommands \in
           [MacBuilds -> {<<>>, <<"create">>, <<"set">>, <<"create", "set">>}]
    /\ certificate \in [MacBuilds -> {"none", "downloading", "there", "imported"}]
    /\ disposer \in [MacBuilds -> {"none", "registered", "taken", "done"}]
    /\ signing \in
           [MacBuilds -> [Signers -> {"none", "waiting", "signing", "failed"} \union Results]]
    /\ identity \in [MacBuilds -> [Signers -> Kinds \union {Absent}]]

\* What the steps of a build have to do with each other.
InOrder(b) ==
    /\ process[b] # "none" => b \in DOMAIN keySetting.project
    /\ process[b] = "none" => keyStep[b] = "none" /\ \A s \in Signers : signing[b][s] = "none"
    /\ \A s \in Signers : signing[b][s] # "none" => s \in SignersOf
    /\ keyStep[b] \in {"none"} \union Begun => securityCommands[b] = <<>> /\ certificate[b] = "none"
    /\ keyStep[b] \in {"import", "ready"} =>
           securityCommands[b] = <<>> /\ certificate[b] = "imported"
    /\ keyStep[b] = "commands" => certificate[b] \in {"downloading", "there"}
    /\ keyStep[b] = "import" => Len(keySetting.certificates) = 2
    /\ disposer[b] # "none" => keyStep[b] = "ready"
    /\ process[b] = "running" /\ keyStep[b] = "ready" => disposer[b] = "registered"

\* The list the build sets has the user's keychain.
ListIsWhole(b) ==
    \/ Login \in listed[b]
    \/ keyStep[b] \in {"none", "roots", "failed"} /\ securityCommands[b] = <<>>

\* While the keychain is not ready, a signer waits for it, or one has failed.
Fails(b) == \E s \in SignersOf : signing[b][s] = "failed"
SignersWait(b) ==
    keyStep[b] \notin {"none", "ready"} =>
        Fails(b) \/ \E s \in SignersOf : signing[b][s] = "waiting"

\* A build that has ended has failed or has nothing left to sign; its keychain, if it made
\* one, is with the disposer.
EndedInOrder(b) ==
    process[b] \in {"disposing", "over"} =>
        \/ Fails(b)
        \/ /\ Succeeds(b)
           /\ \/ keyStep[b] = "none"
              \/ /\ keyStep[b] = "ready"
                 /\ disposer[b] = IF process[b] = "disposing" THEN "taken" ELSE "done"

FitsItsPurpose(b) ==
    \A s \in Signers : signing[b][s] \in {"signing", "signed"} => Fits(s, identity[b][s])

OfBuild(b) ==
    /\ InOrder(b) /\ ListIsWhole(b) /\ SignersWait(b) /\ EndedInOrder(b) /\ FitsItsPurpose(b)

\* The keychain of a build that is the only one of its project.
Sole(b) == \A c \in MacBuilds \ {b} : process[c] # "none" => ProjectOf(c) # ProjectOf(b)
NoneLeft(b) ==
    /\ b \in DOMAIN keySetting.project /\ Sole(b)
    /\ keyStep[b] = "none" \/ (keyStep[b] = "ready" /\ disposer[b] = "done")
    => keychain[ProjectOf(b)] = Absent

\* The keychain of a build that runs by itself, as far as it is made.
OwnKeychain(b) ==
    LET p == ProjectOf(b)
    IN  /\ keyStep[b] = "list" => keychain[p] = Absent
        /\ keyStep[b] = "commands" =>
               /\ keychain[p] = IF securityCommands[b] \in {<<"create">>, <<"create", "set">>}
                                THEN Absent ELSE {}
               /\ securityCommands[b] \in {<<>>, <<"create">>} => p \in searchList
        /\ keyStep[b] = "import" => keychain[p] = keySetting.certificates[1] /\ p \in searchList
        /\ keyStep[b] = "ready" => keychain[p] = Certified /\ p \in searchList

RunsAlone(b) == process[b] = "running" /\ b \notin overlapped
Alone(b) == RunsAlone(b) => OwnKeychain(b) /\ \A c \in MacBuilds \ {b} : ~Busy(c)

\* Nothing is left unsigned that could be signed, but by a build that has failed.
RightlyUnsigned(b) ==
    b \notin overlapped =>
        \A s \in Signers : signing[b][s] = "unsigned" =>
            \/ process[b] # "running" /\ Fails(b)
            \/ /\ s # "mas" /\ ~keySetting.force
               /\ keySetting.identity = "null" \/ \A i \in Certified : ~Fits(s, i)

MacSigningInv ==
    /\ MacSigningTypeOK /\ Login \in searchList
    /\ \A b \in MacBuilds : OfBuild(b) /\ NoneLeft(b) /\ Alone(b) /\ RightlyUnsigned(b)

\* An action of the build b.
SignerStep(b, s) == AskForKeychain(b, s) \/ LookForIdentity(b, s) \/ Sign(b, s)
BuildStep(b) ==
    \/ StartMacBuild(b) \/ CreateKeychainStep(b) \/ EndMacBuild(b) \/ DisposeKeychain(b)
    \/ KillMacBuild(b)
    \/ \E s \in Signers : SignerStep(b, s)

Own(b) == <<process[b], keyStep[b], listed[b], securityCommands[b], certificate[b], disposer[b],
            signing[b], identity[b]>>

\* An action of one build leaves what the others are about.
LEMMA OthersStay ==
    ASSUME MacSigningTypeOK, NEW b \in MacBuilds, BuildStep(b), NEW c \in MacBuilds, c # b
    PROVE  Own(c)' = Own(c)
<1>1. CASE StartMacBuild(b)
  BY <1>1 DEF MacSigningTypeOK, StartMacBuild, Own, creationVars, signerVars
<1>2. CASE CreateKeychainStep(b)
  <2> USE DEF MacSigningTypeOK, CreateKeychainStep, CreationFails, Own, signerVars
  <2>1. CASE ListForRoots(b)
    BY <1>2, <2>1 DEF ListForRoots
  <2>2. CASE SetRoots(b)
    BY <1>2, <2>2 DEF SetRoots
  <2>3. CASE RemoveOld(b)
    BY <1>2, <2>3 DEF RemoveOld
  <2>4. CASE ListKeychains(b)
    BY <1>2, <2>4 DEF ListKeychains
  <2>5. CASE DownloadCertificate(b)
    BY <1>2, <2>5 DEF DownloadCertificate
  <2>6. CASE RunCommand(b)
    BY <1>2, <2>6 DEF RunCommand
  <2>7. CASE ImportCerts(b)
    BY <1>2, <2>7 DEF ImportCerts
  <2> QED
    BY <1>2, <2>1, <2>2, <2>3, <2>4, <2>5, <2>6, <2>7 DEF CreateKeychainStep
<1>3. CASE EndMacBuild(b) \/ DisposeKeychain(b) \/ KillMacBuild(b)
  BY <1>3 DEF MacSigningTypeOK, EndMacBuild, DisposeKeychain, KillMacBuild, Own, creationVars,
              signerVars
<1>4. CASE \E s \in Signers : SignerStep(b, s)
  BY <1>4 DEF MacSigningTypeOK, SignerStep, AskForKeychain, LookForIdentity, Sign, SignsAs, Own,
              creationVars
<1> QED
  BY <1>1, <1>2, <1>3, <1>4 DEF BuildStep

\* What was begun is not undone, and who acts has begun.
LEMMA BegunStays ==
    ASSUME MacSigningTypeOK, NEW b \in MacBuilds, BuildStep(b)
    PROVE  /\ keySetting' = keySetting /\ overlapped \subseteq overlapped'
           /\ process'[b] # "none"
           /\ \A c \in MacBuilds : process[c] # "none" => process'[c] # "none"
           /\ StartMacBuild(b) \/ process[b] # "none"
<1> USE DEF MacSigningTypeOK
<1>1. CASE StartMacBuild(b)
  BY <1>1 DEF StartMacBuild
<1>2. CASE CreateKeychainStep(b)
  BY <1>2 DEF CreateKeychainStep, Alive
<1>3. CASE EndMacBuild(b) \/ DisposeKeychain(b)
  BY <1>3 DEF EndMacBuild, DisposeKeychain
<1>4. CASE KillMacBuild(b)
  BY <1>4 DEF KillMacBuild, Busy
<1>5. CASE \E s \in Signers : SignerStep(b, s)
  BY <1>5 DEF SignerStep, AskForKeychain, LookForIdentity, Sign, Alive
<1> QED
  BY <1>1, <1>2, <1>3, <1>4, <1>5 DEF BuildStep

\* Only the keychain of its project is touched by a build.
LEMMA OtherKeychainsStay ==
    ASSUME MacSigningTypeOK, NEW b \in MacBuilds, BuildStep(b),
           NEW p \in Projects, p # ProjectOf(b)
    PROVE  keychain'[p] = keychain[p]
<1> USE DEF MacSigningTypeOK, keychainVars
<1>1. CASE StartMacBuild(b) \/ EndMacBuild(b) \/ KillMacBuild(b)
  BY <1>1 DEF StartMacBuild, EndMacBuild, KillMacBuild
<1>2. CASE DisposeKeychain(b)
  BY <1>2 DEF DisposeKeychain, RemoveKeychain
<1>3. CASE CreateKeychainStep(b)
  BY <1>3 DEF CreateKeychainStep, ListForRoots, SetRoots, RemoveOld, RemoveKeychain, ListKeychains,
              DownloadCertificate, RunCommand, ImportCerts, CreationFails
<1>4. CASE \E s \in Signers : SignerStep(b, s)
  BY <1>4 DEF SignerStep, AskForKeychain, LookForIdentity, Sign
<1> QED
  BY <1>1, <1>2, <1>3, <1>4 DEF BuildStep
\* A build that has begun has a project, which is one of those there are.
LEMMA ProjectIsKnown ==
    ASSUME MacSigningTypeOK, NEW b \in DOMAIN keySetting.project
    PROVE  b \in MacBuilds /\ ProjectOf(b) \in Projects
BY MacSigningAssumption DEF MacSigningTypeOK, ProjectOf, Projects, Range

\* One certificate or two, each with identities of the known kinds.
LEMMA CertificatesAreKnown ==
    ASSUME MacSigningTypeOK
    PROVE  /\ Len(keySetting.certificates) \in {1, 2}
           /\ keySetting.certificates[1] \subseteq Kinds
           /\ Len(keySetting.certificates) = 2 => keySetting.certificates[2] \subseteq Kinds
           /\ \A identities \in SUBSET Kinds : identities # Absent
<1>1. keySetting.certificates \in Seq(SUBSET Kinds) /\ Len(keySetting.certificates) \in {1, 2}
  BY MacSigningAssumption DEF MacSigningTypeOK
<1>2. \A i \in 1..Len(keySetting.certificates) : keySetting.certificates[i] \in SUBSET Kinds
  BY <1>1
<1> QED
  BY <1>1, <1>2, MacSigningAssumption

\* All identities are those of the first certificate and of the second.
LEMMA AllCertified ==
    ASSUME MacSigningTypeOK
    PROVE  Certified = IF Len(keySetting.certificates) = 1 THEN keySetting.certificates[1]
                       ELSE keySetting.certificates[1] \union keySetting.certificates[2]
<1>1. keySetting.certificates \in Seq(SUBSET Kinds) /\ Len(keySetting.certificates) \in {1, 2}
  BY MacSigningAssumption DEF MacSigningTypeOK
<1>2. CASE Len(keySetting.certificates) = 1
  <2>1. ToSet(keySetting.certificates) = {keySetting.certificates[1]}
    BY <1>1, <1>2 DEF ToSet
  <2> QED
    BY <1>2, <2>1 DEF Certified
<1>3. CASE Len(keySetting.certificates) = 2
  <2>1. ToSet(keySetting.certificates) = {keySetting.certificates[1], keySetting.certificates[2]}
    BY <1>1, <1>3 DEF ToSet
  <2> QED
    BY <1>3, <2>1 DEF Certified
<1> QED
  BY <1>1, <1>2, <1>3

\* findIdentity finds one of the identities there are, or none.
LEMMA IdentitiesAreKnown ==
    ASSUME NEW s \in Signers, NEW identities
    PROVE  IdentityOf(s, identities) \in identities \union {Absent} /\
           IdentityOf(s, identities) \in Kinds \union {Absent}
BY DEF IdentityOf, FindIdentity, CertificateType, Kinds

\* A signer gets a state of a signer.
LEMMA SignersTyped ==
    ASSUME MacSigningTypeOK, NEW b \in MacBuilds, NEW s \in Signers,
           NEW v \in {"waiting", "signing", "failed"} \union Results, SignsAs(b, s, v)
    PROVE  signing' \in
               [MacBuilds -> [Signers -> {"none", "waiting", "signing", "failed"} \union Results]]
BY DEF MacSigningTypeOK, SignsAs

LEMMA MacSigningTyped ==
    ASSUME MacSigningTypeOK, NEW b \in MacBuilds, InOrder(b), BuildStep(b)
    PROVE  MacSigningTypeOK'
<1> USE DEF MacSigningTypeOK
<1>0. keySetting' = keySetting /\ MacSigningTypeOK
  BY BegunStays
<1>1. CASE StartMacBuild(b)
  BY <1>0, <1>1 DEF StartMacBuild, keychainVars, creationVars, signerVars
<1>2. CASE CreateKeychainStep(b)
  <2> USE DEF Steps, keychainVars, signerVars
  <2>0. UNCHANGED <<process, signing, identity>>
    BY <1>2 DEF CreateKeychainStep
  <2>1. CASE ListForRoots(b)
    BY <1>0, <2>0, <2>1 DEF ListForRoots, CreationFails
  <2>2. CASE SetRoots(b)
    BY <1>0, <2>0, <2>2 DEF SetRoots, CreationFails
  <2>3. CASE RemoveOld(b)
    BY <1>0, <2>0, <2>3 DEF RemoveOld, RemoveKeychain
  <2>4. CASE ListKeychains(b)
    <3>1. CASE CreationFails(b)
      BY <1>0, <2>0, <2>4, <3>1 DEF ListKeychains, CreationFails
    <3>2. CASE ~CreationFails(b)
      <4>1. PICK q \in {<<"create">>, <<"create", "set">>} :
                securityCommands' = [securityCommands EXCEPT ![b] = q]
        BY <2>4, <3>2 DEF ListKeychains
      <4>2. securityCommands' \in
                [MacBuilds -> {<<>>, <<"create">>, <<"set">>, <<"create", "set">>}]
        BY <4>1
      <4>3. UNCHANGED keychainVars /\ UNCHANGED disposer
        BY <2>4, <3>2 DEF ListKeychains
      <4>4. /\ keyStep' = [keyStep EXCEPT ![b] = "commands"]
            /\ certificate' = [certificate EXCEPT ![b] = "downloading"]
            /\ listed' = [listed EXCEPT ![b] = searchList]
        BY <2>4, <3>2 DEF ListKeychains
      <4>5. /\ keyStep' \in [MacBuilds -> Steps] /\ DOMAIN listed' = MacBuilds
            /\ certificate' \in [MacBuilds -> {"none", "downloading", "there", "imported"}]
        BY <4>4
      <4> QED
        BY <1>0, <2>0, <4>2, <4>3, <4>5
    <3> QED
      BY <3>1, <3>2
  <2>5. CASE DownloadCertificate(b)
    BY <1>0, <2>0, <2>5 DEF DownloadCertificate
  <2>6. CASE RunCommand(b)
    <3>1. Tail(securityCommands[b]) \in {<<>>, <<"create">>, <<"set">>, <<"create", "set">>}
      <4>1. Tail(<<"create">>) = <<>> /\ Tail(<<"set">>) = <<>>
        OBVIOUS
      <4>2. Tail(<<"create", "set">>) = <<"set">>
        OBVIOUS
      <4>3. securityCommands[b] \in {<<"create">>, <<"set">>, <<"create", "set">>}
        BY <2>6 DEF RunCommand
      <4> QED
        BY <4>1, <4>2, <4>3
    <3> QED
      BY <1>0, <2>0, <2>6, <3>1 DEF RunCommand, CreationFails
  <2>7. CASE ImportCerts(b)
    <3> DEFINE n == IF certificate[b] = "there" THEN 1 ELSE 2
    <3>1. keySetting.certificates[n] \subseteq Kinds
      BY <2>7, CertificatesAreKnown DEF ImportCerts, InOrder
    <3>2. keychain[ProjectOf(b)] # Absent =>
              keychain' \in [Projects -> {Absent} \union SUBSET Kinds]
      <4> HIDE DEF n
      <4>1. SUFFICES ASSUME keychain[ProjectOf(b)] # Absent, keychain' # keychain
                     PROVE  keychain' \in [Projects -> {Absent} \union SUBSET Kinds]
        OBVIOUS
      <4>2. keychain' = [keychain EXCEPT ![ProjectOf(b)] = @ \union keySetting.certificates[n]]
        BY <2>7, <4>1 DEF ImportCerts, CreationFails, n
      <4> QED
        BY <3>1, <4>1, <4>2
    <3>3. keychain' \in [Projects -> {Absent} \union SUBSET Kinds]
      BY <1>0, <2>7, <3>2 DEF ImportCerts, CreationFails
    <3> QED
      BY <1>0, <2>0, <2>7, <3>3 DEF ImportCerts, CreationFails
  <2> QED
    BY <1>2, <2>1, <2>2, <2>3, <2>4, <2>5, <2>6, <2>7 DEF CreateKeychainStep
<1>3. CASE EndMacBuild(b) \/ KillMacBuild(b)
  BY <1>0, <1>3 DEF EndMacBuild, KillMacBuild, keychainVars, creationVars, signerVars
<1>4. CASE DisposeKeychain(b)
  BY <1>0, <1>4 DEF DisposeKeychain, RemoveKeychain, keychainVars, creationVars, signerVars
<1>5. CASE \E s \in Signers : SignerStep(b, s)
  <2>1. PICK s \in Signers : SignerStep(b, s)
    BY <1>5
  <2>2. CASE AskForKeychain(b, s)
    <3>1. PICK v \in {"waiting", "failed", "unsigned"} : SignsAs(b, s, v)
      BY <2>2 DEF AskForKeychain
    <3>2. keyStep' \in [MacBuilds -> Steps]
      BY <2>2 DEF AskForKeychain, Steps
    <3> QED
      BY <1>0, <2>2, <3>1, <3>2, SignersTyped DEF AskForKeychain, Results, keychainVars
  <2>3. CASE LookForIdentity(b, s)
    <3> DEFINE found == IdentityOf(s, Identities(b))
    <3>1. found \in Kinds \union {Absent}
      BY IdentitiesAreKnown
    <3>2. PICK v \in {"signing", "failed", "unsigned"} : SignsAs(b, s, v)
      BY <2>3 DEF LookForIdentity
    <3>3. identity' = identity \/ identity' = [identity EXCEPT ![b][s] = found]
      BY <2>3 DEF LookForIdentity
    <3>4. identity' \in [MacBuilds -> [Signers -> Kinds \union {Absent}]]
      <4> HIDE DEF found, MacSigningTypeOK
      <4>1. identity \in [MacBuilds -> [Signers -> Kinds \union {Absent}]]
        BY DEF MacSigningTypeOK
      <4> QED
        BY <3>1, <3>3, <4>1
    <3> QED
      BY <1>0, <2>3, <3>2, <3>4, SignersTyped
         DEF LookForIdentity, Results, keychainVars, creationVars
  <2>4. CASE Sign(b, s)
    <3>1. PICK v \in {"signed", "failed"} : SignsAs(b, s, v)
      BY <2>4 DEF Sign
    <3> QED
      BY <1>0, <2>4, <3>1, SignersTyped DEF Sign, Results, keychainVars, creationVars
  <2> QED
    BY <2>1, <2>2, <2>3, <2>4 DEF SignerStep
<1> QED
  BY <1>1, <1>2, <1>3, <1>4, <1>5 DEF BuildStep

\* Whoever sets the list has read the user's keychain on it; removing a keychain takes the
\* project's off, never the user's.
LEMMA LoginStays ==
    ASSUME MacSigningTypeOK, Login \in searchList,
           NEW b \in MacBuilds, InOrder(b), ListIsWhole(b), BuildStep(b)
    PROVE  Login \in searchList'
<1> USE DEF keychainVars
<1>1. CASE \/ StartMacBuild(b) \/ EndMacBuild(b) \/ KillMacBuild(b)
           \/ \E s \in Signers : SignerStep(b, s)
  BY <1>1 DEF StartMacBuild, EndMacBuild, KillMacBuild, SignerStep, AskForKeychain,
              LookForIdentity, Sign
<1>2. CASE CreateKeychainStep(b) \/ DisposeKeychain(b)
  <2>1. CASE process[b] # "none"
    <3>1. ProjectOf(b) # Login
      BY <2>1, ProjectIsKnown, MacSigningAssumption DEF InOrder
    <3> QED
      BY <1>2, <3>1 DEF DisposeKeychain, CreateKeychainStep, ListForRoots, SetRoots, RemoveOld,
             ListKeychains, DownloadCertificate, RunCommand, ImportCerts, CreationFails,
             RemoveKeychain, Added, ListIsWhole, MacSigningTypeOK
  <2> QED
    BY <1>2, <2>1 DEF DisposeKeychain, CreateKeychainStep, Alive
<1> QED
  BY <1>1, <1>2 DEF BuildStep

\* What depends on the settings only does not change.
LEMMA SettingStays ==
    ASSUME keySetting' = keySetting
    PROVE  /\ SignersOf' = SignersOf /\ Certified' = Certified
           /\ \A b : ProjectOf(b)' = ProjectOf(b)
           /\ \A s, i : Fits(s, i)' = Fits(s, i)
BY DEF SignersOf, Certified, ProjectOf, Fits, Type

\* The calls of sign are among the three there may be.
LEMMA SignersAreKnown ==
    ASSUME MacSigningTypeOK
    PROVE  SignersOf \subseteq Signers
BY MacSigningAssumption DEF MacSigningTypeOK, SignersOf, Signers

\* What is true of a build stays so while others act.
LEMMA OfBuildStays ==
    ASSUME NEW b \in MacBuilds, OfBuild(b), Own(b)' = Own(b), keySetting' = keySetting
    PROVE  OfBuild(b)'
BY SettingStays
   DEF OfBuild, Own, InOrder, ListIsWhole, SignersWait, EndedInOrder, FitsItsPurpose, Fails,
       Succeeds

\* createKeychain has to do only while a signer waits for it, or after it has failed.
LEMMA CreationIsBegun ==
    ASSUME NEW b \in MacBuilds, InOrder(b), CreateKeychainStep(b)
    PROVE  keyStep[b] \notin {"none", "ready"}
BY DEF InOrder, CreateKeychainStep, ListForRoots, SetRoots, RemoveOld, ListKeychains,
       DownloadCertificate, RunCommand, ImportCerts, Begun

\* Each step of createKeychain leaves the state that the next one starts from.
LEMMA CreationInOrder ==
    ASSUME MacSigningTypeOK, NEW b \in MacBuilds, InOrder(b), ListIsWhole(b), Login \in searchList,
           CreateKeychainStep(b)
    PROVE  InOrder(b)' /\ ListIsWhole(b)'
<1> USE DEF MacSigningTypeOK, InOrder, ListIsWhole, Begun, Steps
<1>1. UNCHANGED <<keySetting, process, signing>> /\ SignersOf' = SignersOf
  BY SettingStays DEF CreateKeychainStep, signerVars
<1>2. process[b] # "none" /\ process'[b] # "none"
  BY <1>1 DEF CreateKeychainStep, Alive
<1>3. CASE ListForRoots(b)
  BY <1>1, <1>2, <1>3 DEF ListForRoots, CreationFails
<1>4. CASE SetRoots(b)
  BY <1>1, <1>2, <1>4 DEF SetRoots, CreationFails
<1>5. CASE RemoveOld(b)
  BY <1>1, <1>2, <1>5 DEF RemoveOld
<1>6. CASE ListKeychains(b)
  BY <1>1, <1>2, <1>6 DEF ListKeychains, CreationFails
<1>7. CASE DownloadCertificate(b)
  BY <1>1, <1>2, <1>7 DEF DownloadCertificate
<1>8. CASE RunCommand(b)
  BY <1>1, <1>2, <1>8 DEF RunCommand, CreationFails
<1>9. CASE ImportCerts(b)
  BY <1>1, <1>2, <1>9, CertificatesAreKnown DEF ImportCerts, CreationFails
<1> QED
  BY <1>3, <1>4, <1>5, <1>6, <1>7, <1>8, <1>9 DEF CreateKeychainStep

\* createKeychain ends no signer, and runs for one that waits.
LEMMA OfBuildInCreation ==
    ASSUME MacSigningTypeOK, NEW b \in MacBuilds, OfBuild(b), Login \in searchList,
           CreateKeychainStep(b)
    PROVE  OfBuild(b)'
<1>1. InOrder(b)' /\ ListIsWhole(b)'
  BY CreationInOrder DEF OfBuild
<1>2. UNCHANGED <<keySetting, process, signing, identity>>
  BY DEF CreateKeychainStep, signerVars
<1>3. keyStep[b] \notin {"none", "ready"}
  BY CreationIsBegun DEF OfBuild
<1> QED
  BY <1>1, <1>2, <1>3, SettingStays
     DEF OfBuild, SignersWait, EndedInOrder, FitsItsPurpose, Fails, Succeeds

\* An identity is found if and only if there is one that will do.
LEMMA IdentityFits ==
    ASSUME NEW s \in Signers, NEW identities, Absent \notin identities,
           MacSigningTypeOK
    PROVE  /\ IdentityOf(s, identities) # Absent => Fits(s, IdentityOf(s, identities))
           /\ IdentityOf(s, identities) = Absent => \A i \in identities : ~Fits(s, i)
<1>1. Type(s) \in {"unset", "distribution", "development"} /\ Absent \notin Kinds
  BY MacSigningAssumption DEF MacSigningTypeOK, Type
<1>2. CASE s = "mas"
  <2>1. CertificateType(s) \in {"Mac Developer", "3rd Party"}
    BY <1>2 DEF CertificateType
  <2>2. CertificateType(s) = IF Type(s) = "development" THEN "Mac Developer" ELSE "3rd Party"
    BY <1>2 DEF CertificateType
  <2>3. ASSUME NEW i PROVE Fits(s, i) <=> i = CertificateType(s)
    BY <1>1, <1>2, <2>2 DEF Fits
  <2> QED
    BY <1>1, <1>2, <2>1, <2>3 DEF IdentityOf, FindIdentity, Kinds
<1>3. CASE s # "mas" /\ Type(s) = "unset"
  <2>1. /\ CertificateType(s) = "Developer ID"
        /\ \A i : Fits(s, i) <=> i \in {"Developer ID", "custom", "Mac Developer"}
    BY <1>3 DEF CertificateType, Fits
  <2> QED
    BY <1>1, <1>3, <2>1 DEF IdentityOf, FindIdentity, Kinds
<1>4. CASE s # "mas" /\ Type(s) = "distribution"
  <2>1. /\ CertificateType(s) = "Developer ID"
        /\ \A i : Fits(s, i) <=> i \in {"Developer ID", "custom"}
    BY <1>4 DEF CertificateType, Fits
  <2> QED
    BY <1>1, <1>4, <2>1 DEF IdentityOf, FindIdentity, Kinds
<1>5. CASE s # "mas" /\ Type(s) = "development"
  <2>1. CertificateType(s) = "Mac Developer" /\ \A i : Fits(s, i) <=> i = "Mac Developer"
    BY <1>5 DEF CertificateType, Fits
  <2> QED
    BY <1>1, <1>5, <2>1 DEF IdentityOf, FindIdentity, Kinds
<1> QED
  BY <1>1, <1>2, <1>3, <1>4, <1>5

\* A signer acts only as long as it is not settled, and fails for good.
LEMMA OfBuildAtSigner ==
    ASSUME MacSigningTypeOK, MacSigningTypeOK', NEW b \in MacBuilds, OfBuild(b), NEW s \in Signers,
           SignerStep(b, s)
    PROVE  OfBuild(b)'
<1>1. /\ UNCHANGED <<keySetting, process, listed, securityCommands, certificate, disposer>>
      /\ SignersOf' = SignersOf
      /\ process[b] \notin {"none", "killed"}
  BY SettingStays DEF SignerStep, AskForKeychain, LookForIdentity, Sign, creationVars, Alive
<1>2. \E v \in {"waiting", "signing", "failed"} \union Results : SignsAs(b, s, v)
  BY DEF SignerStep, AskForKeychain, LookForIdentity, Sign, Results
<1>3. \A t \in Signers \ {s} : signing'[b][t] = signing[b][t]
  BY <1>2 DEF SignsAs, MacSigningTypeOK
<1>4. s \in SignersOf /\ signing[b][s] \in {"none", "waiting", "signing"}
  BY DEF SignerStep, AskForKeychain, LookForIdentity, Sign, OfBuild, InOrder
<1>5. Fails(b) => Fails(b)'
  BY <1>1, <1>3, <1>4, SignersAreKnown DEF Fails
<1>6. ~Succeeds(b)
  BY <1>4 DEF Succeeds
<1>7. \/ keyStep' = keyStep
      \/ /\ keyStep' = [keyStep EXCEPT ![b] = "roots"] /\ keyStep[b] = "none"
         /\ signing'[b][s] = "waiting"
  BY DEF SignerStep, AskForKeychain, LookForIdentity, Sign, creationVars, SignsAs, MacSigningTypeOK
<1>8. InOrder(b)' /\ ListIsWhole(b)'
  <2>1. CASE keyStep' = keyStep
    BY <1>1, <1>3, <1>4, <2>1 DEF OfBuild, InOrder, ListIsWhole, Begun
  <2>2. CASE keyStep' = [keyStep EXCEPT ![b] = "roots"] /\ keyStep[b] = "none"
    BY <1>1, <1>3, <1>4, <2>2 DEF OfBuild, InOrder, ListIsWhole, Begun, MacSigningTypeOK
  <2> QED
    BY <1>7, <2>1, <2>2
<1>9. EndedInOrder(b)'
  BY <1>1, <1>5, <1>6 DEF OfBuild, EndedInOrder
<1>10. SignersWait(b)'
  <2>1. CASE Fails(b)
    BY <1>5, <2>1 DEF SignersWait
  <2>2. CASE AskForKeychain(b, s)
    BY <1>1, <1>3, <1>4, <1>5, <1>7, <2>2, SignersAreKnown
       DEF OfBuild, SignersWait, AskForKeychain, MacSigningTypeOK
  <2>3. CASE LookForIdentity(b, s)
    <3>1. keyStep[b] = "failed" => signing'[b][s] = "failed"
      BY <2>3 DEF LookForIdentity, SignsAs, MacSigningTypeOK
    <3> QED
      BY <1>1, <1>4, <2>3, <3>1 DEF SignersWait, Fails, LookForIdentity, creationVars
  <2>4. CASE Sign(b, s)
    <3>1. Fails(b)' \/ signing'[b][s] = "signed"
      BY <1>1, <1>4, <2>4 DEF Sign, SignsAs, Fails, MacSigningTypeOK
    <3> QED
      BY <1>1, <1>3, <1>4, <1>5, <2>4, <3>1, SignersAreKnown
         DEF OfBuild, SignersWait, Sign, creationVars
  <2> QED
    BY <2>2, <2>3, <2>4 DEF SignerStep
<1>11. FitsItsPurpose(b)'
  <2>1. ASSUME NEW t \in Signers, signing'[b][t] \in {"signing", "signed"}
        PROVE  Fits(t, identity'[b][t])
    <3>1. CASE t # s
      <4>1. identity'[b][t] = identity[b][t]
        BY <3>1 DEF SignerStep, AskForKeychain, LookForIdentity, Sign, MacSigningTypeOK
      <4> QED
        BY <1>3, <2>1, <3>1, <4>1 DEF OfBuild, FitsItsPurpose
    <3>2. CASE t = s /\ LookForIdentity(b, s)
      <4>1. /\ IdentityOf(s, Identities(b)) # Absent
            /\ identity'[b][s] = IdentityOf(s, Identities(b))
        BY <2>1, <3>2 DEF LookForIdentity, SignsAs, MacSigningTypeOK
      <4>2. Absent \notin Identities(b)
        BY <1>1, ProjectIsKnown, MacSigningAssumption
           DEF Identities, MacSigningTypeOK, OfBuild, InOrder
      <4> QED
        BY <3>2, <4>1, <4>2, IdentityFits
    <3>3. CASE t = s /\ Sign(b, s)
      BY <3>3 DEF Sign, OfBuild, FitsItsPurpose
    <3>4. CASE t = s /\ AskForKeychain(b, s)
      BY <2>1, <3>4 DEF AskForKeychain, SignsAs, MacSigningTypeOK
    <3> QED
      BY <3>1, <3>2, <3>3, <3>4 DEF SignerStep
  <2> QED
    BY <1>1, <2>1, SettingStays DEF FitsItsPurpose
<1> QED
  BY <1>8, <1>9, <1>10, <1>11 DEF OfBuild

\* EndMacBuild, when nothing failed: all is signed, so no keychain is being made.
LEMMA OfBuildAtEnd ==
    ASSUME MacSigningTypeOK, NEW b \in MacBuilds, OfBuild(b),
           EndMacBuild(b) \/ DisposeKeychain(b) \/ KillMacBuild(b) \/ StartMacBuild(b)
    PROVE  OfBuild(b)'
<1> USE DEF MacSigningTypeOK
<1>1. UNCHANGED <<keySetting, creationVars, signerVars>> /\ SignersOf' = SignersOf
  BY SettingStays DEF EndMacBuild, DisposeKeychain, KillMacBuild, StartMacBuild
<1>2. UNCHANGED <<keyStep, listed, securityCommands, certificate, signing, identity>>
  BY <1>1 DEF creationVars, signerVars
<1>3. /\ ListIsWhole(b)' /\ SignersWait(b)' /\ FitsItsPurpose(b)'
      /\ Fails(b)' = Fails(b) /\ Succeeds(b)' = Succeeds(b)
  BY <1>1, <1>2, SettingStays
     DEF OfBuild, ListIsWhole, SignersWait, FitsItsPurpose, Fails, Succeeds
<1>4. CASE StartMacBuild(b)
  BY <1>1, <1>2, <1>3, <1>4 DEF StartMacBuild, OfBuild, InOrder, EndedInOrder, Begun
<1>5. CASE EndMacBuild(b)
  <2>1. InOrder(b)'
    BY <1>1, <1>2, <1>5 DEF EndMacBuild, OfBuild, InOrder, Begun
  <2>2. Fails(b) \/ Succeeds(b)
    <3>1. CASE \E s \in {"masPack", "mas"} : signing[b][s] = "failed"
      BY <3>1 DEF Fails, OfBuild, InOrder, Signers
    <3>2. CASE \A s \in SignersOf : SignerSettled(b, s)
      <4>1. SUFFICES ASSUME ~Fails(b), NEW s \in SignersOf
                     PROVE  signing[b][s] \in {"signed", "unsigned"}
        BY DEF Succeeds
      <4>2. signing[b][s] # "failed" /\ signing[b]["masPack"] # "failed"
        BY <4>1 DEF Fails, OfBuild, InOrder, Signers
      <4> QED
        BY <3>2, <4>2, SignersAreKnown DEF SignerSettled, Results
    <3> QED
      BY <1>5, <3>1, <3>2 DEF EndMacBuild
  <2>3. ~Fails(b) => Succeeds(b) /\ keyStep[b] \in {"none", "ready"}
    BY <2>2 DEF OfBuild, SignersWait, Succeeds
  <2>4. keyStep[b] = "ready" => disposer'[b] = "taken"
    BY <1>5 DEF EndMacBuild, OfBuild, InOrder
  <2>5. EndedInOrder(b)'
    BY <1>2, <1>3, <1>5, <2>3, <2>4 DEF EndMacBuild, EndedInOrder
  <2> QED
    BY <1>3, <2>1, <2>5 DEF OfBuild
<1>6. CASE DisposeKeychain(b)
  <2>1. /\ process[b] = "disposing" /\ process'[b] = "over"
        /\ disposer'[b] = IF disposer[b] = "taken" THEN "done" ELSE disposer[b]
    BY <1>6 DEF DisposeKeychain
  <2>2. InOrder(b)'
    BY <1>1, <1>2, <2>1 DEF OfBuild, InOrder, Begun
  <2>3. EndedInOrder(b)'
    BY <1>2, <1>3, <2>1 DEF OfBuild, EndedInOrder
  <2> QED
    BY <1>3, <2>2, <2>3 DEF OfBuild
<1>7. CASE KillMacBuild(b)
  <2>1. process[b] # "none" /\ process'[b] = "killed" /\ disposer' = disposer
    BY <1>7 DEF KillMacBuild, Busy
  <2> QED
    BY <1>1, <1>2, <1>3, <2>1 DEF OfBuild, InOrder, EndedInOrder, Begun
<1> QED
  BY <1>4, <1>5, <1>6, <1>7

\* Whatever build acts, every build stays in order.
LEMMA OfBuildHolds ==
    ASSUME MacSigningTypeOK, MacSigningTypeOK', Login \in searchList,
           NEW b \in MacBuilds, BuildStep(b), NEW c \in MacBuilds, OfBuild(b), OfBuild(c)
    PROVE  OfBuild(c)'
<1>1. CASE c = b
  BY <1>1, OfBuildInCreation, OfBuildAtSigner, OfBuildAtEnd DEF BuildStep
<1>2. CASE c # b
  BY <1>2, OthersStay, BegunStays, OfBuildStays
<1> QED
  BY <1>1, <1>2

-----------------------------------------------------------------------------
\* The keychain of a build that is the only one of its project is its own to remove.
LEMMA NoneLeftHolds ==
    ASSUME MacSigningTypeOK, NEW b \in MacBuilds, BuildStep(b), OfBuild(b),
           NEW c \in MacBuilds, NoneLeft(c)
    PROVE  NoneLeft(c)'
<1>1. SUFFICES ASSUME c \in DOMAIN keySetting.project, Sole(c)',
                      keyStep'[c] = "none" \/ (keyStep'[c] = "ready" /\ disposer'[c] = "done")
               PROVE  keychain'[ProjectOf(c)] = Absent
  BY BegunStays, SettingStays DEF NoneLeft
<1>2. Sole(c)
  BY <1>1, BegunStays, SettingStays DEF Sole
<1>3. ProjectOf(c) \in Projects
  BY <1>1, ProjectIsKnown
<1>4. CASE b # c
  <2>1. Own(c)' = Own(c)
    BY <1>4, OthersStay
  <2>2. keychain[ProjectOf(c)] = Absent
    BY <1>1, <1>2, <2>1 DEF NoneLeft, Own
  <2>3. ProjectOf(c) # ProjectOf(b)
    BY <1>1, <1>4, BegunStays, SettingStays DEF Sole
  <2> QED
    BY <1>3, <2>2, <2>3, OtherKeychainsStay
<1>5. CASE b = c
  <2>1. CASE CreateKeychainStep(b)
    BY <1>1, <1>5, <2>1, CreationIsBegun
       DEF OfBuild, InOrder, Begun, CreateKeychainStep, ListForRoots, SetRoots, RemoveOld,
           ListKeychains, DownloadCertificate, RunCommand, ImportCerts, CreationFails,
           MacSigningTypeOK
  <2>2. CASE DisposeKeychain(b)
    BY <1>1, <1>2, <1>3, <1>5, <2>2
       DEF DisposeKeychain, RemoveKeychain, NoneLeft, MacSigningTypeOK, creationVars, keychainVars
  <2>3. CASE StartMacBuild(b) \/ KillMacBuild(b)
    BY <1>1, <1>2, <1>5, <2>3 DEF StartMacBuild, KillMacBuild, NoneLeft, creationVars, keychainVars
  <2>4. CASE EndMacBuild(b)
    BY <1>1, <1>2, <1>5, <2>4
       DEF EndMacBuild, NoneLeft, creationVars, keychainVars, MacSigningTypeOK
  <2>5. CASE \E s \in Signers : SignerStep(b, s)
    <3>1. /\ UNCHANGED <<keychain, disposer>>
          /\ keyStep'[b] \in {"none", "ready"} => keyStep'[b] = keyStep[b]
      BY <2>5 DEF SignerStep, AskForKeychain, LookForIdentity, Sign, keychainVars, creationVars,
                  MacSigningTypeOK
    <3> QED
      BY <1>1, <1>2, <1>5, <3>1 DEF NoneLeft
  <2> QED
    BY <2>1, <2>2, <2>3, <2>4, <2>5 DEF BuildStep
<1> QED
  BY <1>4, <1>5

\* A build that has come to rest does no more than to look for what it will not find.
LEMMA QuietStays ==
    ASSUME MacSigningTypeOK, NEW c \in MacBuilds, InOrder(c), ~Busy(c), BuildStep(c),
           ~StartMacBuild(c)
    PROVE  ~Busy(c)' /\ UNCHANGED keychainVars /\ overlapped' = overlapped
<1>1. ~EndMacBuild(c) /\ ~DisposeKeychain(c) /\ ~KillMacBuild(c)
  BY DEF EndMacBuild, DisposeKeychain, KillMacBuild, Busy
<1>2. CASE CreateKeychainStep(c)
  <2>1. process[c] = "over" /\ keyStep[c] = "failed" /\ securityCommands[c] = <<>>
    BY <1>2, CreationIsBegun DEF CreateKeychainStep, Alive, Busy, MacSigningTypeOK
  <2>2. DownloadCertificate(c)
    BY <1>2, <2>1 DEF CreateKeychainStep, ListForRoots, SetRoots, RemoveOld, ListKeychains,
                      RunCommand, ImportCerts
  <2>3. /\ keyStep'[c] = "failed" /\ UNCHANGED <<keychainVars, securityCommands, keySetting,
                                                process, signing, overlapped>>
        /\ SignersOf' = SignersOf
    BY <1>2, <2>1, <2>2, SettingStays
       DEF CreateKeychainStep, DownloadCertificate, signerVars, MacSigningTypeOK
  <2> QED
    BY <2>1, <2>3 DEF Busy, SignerSettled
<1>3. CASE \E s \in Signers : SignerStep(c, s)
  <2>1. PICK s \in Signers : SignerStep(c, s)
    BY <1>3
  <2>2. process[c] = "over" /\ s \in SignersOf
    BY <2>1 DEF SignerStep, AskForKeychain, LookForIdentity, Sign, Alive, Busy, InOrder,
                MacSigningTypeOK
  <2>3. SignerSettled(c, s)
    BY <2>2 DEF Busy
  <2>4. ~AskForKeychain(c, s) /\ s = "mas" /\ signing[c]["masPack"] = "failed"
    BY <2>1, <2>3 DEF AskForKeychain, SignerStep, LookForIdentity, Sign, SignerSettled
  <2>5. /\ UNCHANGED <<keychainVars, creationVars, keySetting, process, overlapped>>
        /\ SignersOf' = SignersOf
    BY <2>1, <2>4, SettingStays DEF SignerStep, LookForIdentity, Sign
  <2>6. \A t \in Signers \ {s} : signing'[c][t] = signing[c][t]
    BY <2>1, <2>4 DEF SignerStep, LookForIdentity, Sign, SignsAs, MacSigningTypeOK
  <2>7. \A t \in SignersOf : SignerSettled(c, t)'
    BY <2>2, <2>4, <2>6, SignersAreKnown DEF Busy, SignerSettled, Signers
  <2> QED
    BY <2>2, <2>5, <2>7 DEF Busy, creationVars
<1> QED
  BY <1>1, <1>2, <1>3 DEF BuildStep

\* What a build that runs by itself has done so far is what it finds.
LEMMA OwnKeychainHolds ==
    ASSUME MacSigningTypeOK, NEW b \in MacBuilds, InOrder(b), OwnKeychain(b), RunsAlone(b),
           CreateKeychainStep(b)
    PROVE  OwnKeychain(b)'
<1> DEFINE p == ProjectOf(b)
<1> USE DEF MacSigningTypeOK
<1>1. keySetting' = keySetting /\ ProjectOf(b)' = p /\ Certified' = Certified
  BY SettingStays DEF CreateKeychainStep
<1>2. p \in Projects
  BY ProjectIsKnown DEF InOrder, RunsAlone
<1> HIDE DEF p
<1>3. CASE ListForRoots(b)
  BY <1>1, <1>3 DEF ListForRoots, CreationFails, OwnKeychain
<1>4. CASE SetRoots(b)
  BY <1>1, <1>4 DEF SetRoots, CreationFails, OwnKeychain
<1>5. CASE RemoveOld(b)
  BY <1>1, <1>2, <1>5 DEF RemoveOld, RemoveKeychain, OwnKeychain, p
<1>6. CASE ListKeychains(b)
  <2>1. CASE keyStep'[b] = "failed"
    BY <1>6, <2>1 DEF OwnKeychain
  <2>2. CASE keyStep'[b] # "failed"
    <3>1. /\ keyStep[b] = "list" /\ keyStep'[b] = "commands" /\ UNCHANGED <<searchList, keychain>>
          /\ securityCommands'[b] =
                 IF ProjectOf(b) \in searchList THEN <<"create">> ELSE <<"create", "set">>
      BY <1>6, <2>2 DEF ListKeychains, CreationFails, keychainVars
    <3> QED
      BY <1>1, <3>1 DEF OwnKeychain, p
  <2> QED
    BY <2>1, <2>2
<1>7. CASE DownloadCertificate(b)
  <2>1. UNCHANGED <<searchList, keychain, securityCommands>>
        /\ keyStep'[b] \in {"failed", keyStep[b]}
    BY <1>7 DEF DownloadCertificate, keychainVars
  <2>2. CASE keyStep'[b] = "failed"
    BY <2>2 DEF OwnKeychain
  <2>3. CASE keyStep'[b] = keyStep[b]
    BY <1>1, <2>1, <2>3 DEF OwnKeychain, p
  <2> QED
    BY <2>1, <2>2, <2>3
<1>8. CASE RunCommand(b)
  <2>1. CASE keyStep'[b] = "failed"
    BY <1>8, <2>1 DEF OwnKeychain
  <2>2. CASE keyStep'[b] # "failed"
    <3>1. keyStep[b] = "commands" /\ keyStep' = keyStep
      BY <1>8, <2>2 DEF RunCommand, CreationFails, InOrder, Begun, Steps
    <3>2. /\ securityCommands'[b] = Tail(securityCommands[b])
          /\ \/ /\ Head(securityCommands[b]) = "create"
                /\ keychain'[p] = {} /\ searchList' = searchList
             \/ /\ Head(securityCommands[b]) = "set"
                /\ p \in searchList' /\ keychain' = keychain
      BY <1>2, <1>8, <2>2 DEF RunCommand, CreationFails, p, Added
    <3>3. CASE securityCommands[b] = <<"create">>
      BY <1>1, <3>1, <3>2, <3>3 DEF OwnKeychain, p
    <3>4. CASE securityCommands[b] = <<"set">>
      BY <1>1, <3>1, <3>2, <3>4 DEF OwnKeychain, p
    <3>5. CASE securityCommands[b] = <<"create", "set">>
      BY <1>1, <3>1, <3>2, <3>5 DEF OwnKeychain, p
    <3> QED
      BY <1>8, <3>3, <3>4, <3>5 DEF RunCommand
  <2> QED
    BY <2>1, <2>2
<1>9. CASE ImportCerts(b)
  <2>1. CASE keyStep'[b] = "failed"
    BY <1>9, <2>1 DEF OwnKeychain
  <2>2. CASE keyStep'[b] # "failed"
    <3> DEFINE n == IF certificate[b] = "there" THEN 1 ELSE 2
    <3>1. /\ keychain'[p] = keychain[p] \union keySetting.certificates[n]
          /\ keyStep'[b] = IF n = Len(keySetting.certificates) THEN "ready" ELSE "import"
          /\ searchList' = searchList
      BY <1>2, <1>9, <2>2 DEF ImportCerts, CreationFails, p
    <3>2. CASE keyStep[b] = "import"
      BY <1>1, <3>1, <3>2, CertificatesAreKnown, AllCertified DEF OwnKeychain, InOrder, p
    <3>3. CASE keyStep[b] # "import"
      <4>1. /\ keyStep[b] = "commands" /\ securityCommands[b] = <<>>
            /\ certificate[b] = "there"
        BY <1>9, <3>3 DEF ImportCerts
      <4>2. keychain[p] = {} /\ p \in searchList
        BY <4>1 DEF OwnKeychain, p
      <4> QED
        BY <1>1, <3>1, <4>1, <4>2, CertificatesAreKnown, AllCertified DEF OwnKeychain, p
    <3> QED
      BY <3>2, <3>3
  <2> QED
    BY <2>1, <2>2
<1> QED
  BY <1>3, <1>4, <1>5, <1>6, <1>7, <1>8, <1>9 DEF CreateKeychainStep

\* Of a build that runs by itself, no other one touches the keychain or the list.
LEMMA AloneHolds ==
    ASSUME MacSigningTypeOK, MacSigningTypeOK', NEW b \in MacBuilds, BuildStep(b), InOrder(b),
           NEW c \in MacBuilds, Alone(c), InOrder(c)
    PROVE  Alone(c)'
<1>1. SUFFICES ASSUME RunsAlone(c)'
               PROVE  OwnKeychain(c)' /\ \A d \in MacBuilds \ {c} : ~Busy(d)'
  BY DEF Alone
<1>2. c \notin overlapped /\ keySetting' = keySetting
  BY <1>1, BegunStays DEF RunsAlone
<1>3. \A d \in MacBuilds \ {b} : Busy(d)' = Busy(d)
  BY <1>2, OthersStay, SettingStays DEF Busy, SignerSettled, Own
<1>4. CASE b = c /\ StartMacBuild(b)
  <2>1. \A d \in MacBuilds : ~Busy(d)
    BY <1>1, <1>4 DEF StartMacBuild, RunsAlone
  <2>2. keyStep'[c] = "none"
    BY <1>4 DEF StartMacBuild, creationVars, InOrder
  <2> QED
    BY <1>3, <1>4, <2>1, <2>2 DEF OwnKeychain
<1>5. CASE b = c /\ ~StartMacBuild(b)
  <2>1. process' = process /\ (CreateKeychainStep(b) \/ \E s \in Signers : SignerStep(b, s))
    BY <1>1, <1>5 DEF BuildStep, RunsAlone, EndMacBuild, DisposeKeychain, KillMacBuild,
           CreateKeychainStep, SignerStep, AskForKeychain, LookForIdentity, Sign, MacSigningTypeOK
  <2>2. RunsAlone(c)
    BY <1>1, <1>2, <2>1 DEF RunsAlone
  <2>3. CASE CreateKeychainStep(b)
    BY <1>3, <1>5, <2>2, <2>3, OwnKeychainHolds DEF Alone
  <2>4. CASE \E s \in Signers : SignerStep(b, s)
    <3>1. /\ UNCHANGED <<keychainVars, securityCommands>>
          /\ keyStep'[b] \in {"roots", keyStep[b]}
      BY <2>4 DEF SignerStep, AskForKeychain, LookForIdentity, Sign, creationVars,
                  MacSigningTypeOK
    <3>2. OwnKeychain(c)'
      <4>1. CASE keyStep'[b] = "roots"
        BY <1>5, <4>1 DEF OwnKeychain
      <4>2. CASE keyStep'[b] = keyStep[b]
        BY <1>2, <1>5, <2>2, <3>1, <4>2, SettingStays DEF Alone, OwnKeychain, keychainVars
      <4> QED
        BY <3>1, <4>1, <4>2
    <3> QED
      BY <1>3, <1>5, <2>2, <3>2 DEF Alone
  <2> QED
    BY <2>1, <2>3, <2>4
<1>6. CASE b # c
  <2>1. Own(c)' = Own(c)
    BY <1>6, OthersStay
  <2>2. RunsAlone(c)
    BY <1>1, <1>2, <2>1 DEF RunsAlone, Own
  <2>3. ~Busy(b) /\ OwnKeychain(c)
    BY <1>6, <2>2 DEF Alone
  <2>4. ~StartMacBuild(b)
    BY <1>1, <2>2 DEF StartMacBuild, RunsAlone, Busy
  <2>5. ~Busy(b)' /\ UNCHANGED keychainVars
    BY <2>3, <2>4, QuietStays
  <2>6. OwnKeychain(c)'
    BY <1>2, <2>1, <2>3, <2>5, SettingStays DEF OwnKeychain, Own, keychainVars
  <2> QED
    BY <1>3, <2>2, <2>5, <2>6 DEF Alone
<1> QED
  BY <1>4, <1>5, <1>6

\* What is left unsigned has been looked for in the build's own, complete keychain.
LEMMA RightlyUnsignedHolds ==
    ASSUME MacSigningTypeOK, MacSigningTypeOK', NEW b \in MacBuilds, BuildStep(b), OfBuild(b),
           Alone(b), NEW c \in MacBuilds, RightlyUnsigned(c)
    PROVE  RightlyUnsigned(c)'
<1>1. SUFFICES ASSUME c \notin overlapped', NEW s \in Signers, signing'[c][s] = "unsigned"
               PROVE  \/ process'[c] # "running" /\ Fails(c)'
                      \/ /\ s # "mas" /\ ~keySetting.force
                         /\ keySetting.identity = "null" \/ \A i \in Certified : ~Fits(s, i)
  BY BegunStays, SettingStays DEF RightlyUnsigned
<1>2. c \notin overlapped /\ keySetting' = keySetting /\ SignersOf' = SignersOf
  BY <1>1, BegunStays, SettingStays
<1>3. CASE b # c
  <2>1. Own(c)' = Own(c) /\ Fails(c)' = Fails(c)
    BY <1>2, <1>3, OthersStay DEF Own, Fails
  <2> QED
    BY <1>1, <1>2, <2>1 DEF RightlyUnsigned, Own
<1>4. CASE b = c /\ ~\E t \in Signers : SignerStep(b, t)
  <2>1. signing' = signing /\ Fails(c)' = Fails(c)
    BY <1>2, <1>4 DEF BuildStep, StartMacBuild, CreateKeychainStep, EndMacBuild, DisposeKeychain,
                      KillMacBuild, signerVars, Fails
  <2>2. process[c] # "running" => process'[c] # "running"
    <3>1. CASE StartMacBuild(b)
      BY <1>1, <1>4, <2>1, <3>1 DEF StartMacBuild, OfBuild, InOrder
    <3> QED
      BY <1>4, <3>1 DEF BuildStep, CreateKeychainStep, EndMacBuild, DisposeKeychain, KillMacBuild,
                        MacSigningTypeOK
  <2> QED
    BY <1>1, <1>2, <2>1, <2>2 DEF RightlyUnsigned
<1>5. CASE b = c /\ \E t \in Signers : SignerStep(b, t)
  <2>1. PICK t \in Signers : SignerStep(b, t)
    BY <1>5
  <2>2. process' = process /\ process[b] \in {"running", "disposing", "over"}
    BY <2>1 DEF SignerStep, AskForKeychain, LookForIdentity, Sign, Alive, MacSigningTypeOK
  <2>3. \A u \in Signers \ {t} : signing'[b][u] = signing[b][u]
    BY <2>1 DEF SignerStep, AskForKeychain, LookForIdentity, Sign, SignsAs, MacSigningTypeOK
  <2>4. t \in SignersOf /\ signing[b][t] \in {"none", "waiting", "signing"}
    BY <2>1 DEF SignerStep, AskForKeychain, LookForIdentity, Sign, OfBuild, InOrder
  <2>5. Fails(c) => Fails(c)'
    BY <1>2, <1>5, <2>3, <2>4, SignersAreKnown DEF Fails
  <2>6. CASE s # t
    BY <1>1, <1>2, <1>5, <2>2, <2>3, <2>5, <2>6 DEF RightlyUnsigned
  <2>7. CASE s = t /\ AskForKeychain(b, t)
    BY <1>1, <1>5, <2>7 DEF AskForKeychain, SignsAs, MacSigningTypeOK
  <2>8. CASE s = t /\ Sign(b, t)
    BY <1>1, <1>5, <2>8 DEF Sign, SignsAs, MacSigningTypeOK
  <2>9. CASE s = t /\ LookForIdentity(b, t)
    <3>1. /\ keyStep[b] = "ready" /\ IdentityOf(t, Identities(b)) = Absent
          /\ t # "mas" /\ ~keySetting.force /\ signing[b][t] = "waiting"
      BY <1>1, <1>5, <2>9 DEF LookForIdentity, SignsAs, MacSigningTypeOK
    <3>2. CASE process[b] = "running"
      <4>1. keychain[ProjectOf(b)] = Certified
        BY <1>2, <1>5, <3>1, <3>2 DEF Alone, RunsAlone, OwnKeychain
      <4>2. ProjectOf(b) \in Projects
        BY <3>2, ProjectIsKnown DEF OfBuild, InOrder
      <4>3. Identities(b) = Certified /\ Absent \notin Certified
        BY <4>1, <4>2, MacSigningAssumption, CertificatesAreKnown, AllCertified
           DEF Identities, MacSigningTypeOK
      <4> QED
        BY <2>9, <3>1, <4>3, IdentityFits
    <3>3. CASE process[b] # "running"
      <4>1. ~Succeeds(b)
        BY <2>4 DEF Succeeds
      <4> QED
        BY <1>5, <2>2, <2>5, <3>3, <4>1 DEF OfBuild, EndedInOrder
    <3> QED
      BY <3>2, <3>3
  <2> QED
    BY <2>1, <2>6, <2>7, <2>8, <2>9 DEF SignerStep
<1> QED
  BY <1>3, <1>4, <1>5

(***************************************************************************)
(* The invariant of signing on macOS: in what order a build takes its      *)
(* steps, which keychain it finds while it runs by itself, that a build    *)
(* that has ended well has nothing left to do, and that the list a build   *)
(* is about to set has the user's keychain.                                *)
(***************************************************************************)
THEOREM MacSigningInvariant == MacSigningSpec => []MacSigningInv
<1>1. MacSigningInit => MacSigningInv
  <2> SUFFICES ASSUME MacSigningInit
               PROVE  MacSigningInv
    OBVIOUS
  <2> USE DEF MacSigningInit
  <2>1. MacSigningTypeOK
    BY DEF MacSigningTypeOK, Steps
  <2>2. ASSUME NEW b \in MacBuilds
        PROVE  OfBuild(b)
    BY DEF OfBuild, InOrder, ListIsWhole, SignersWait, EndedInOrder, FitsItsPurpose, Begun
  <2>3. ASSUME NEW b \in MacBuilds
        PROVE  NoneLeft(b) /\ Alone(b) /\ RightlyUnsigned(b)
    <3>1. NoneLeft(b)
      BY <2>1, ProjectIsKnown DEF NoneLeft
    <3>2. Alone(b) /\ RightlyUnsigned(b)
      BY DEF Alone, RunsAlone, RightlyUnsigned
    <3> QED
      BY <3>1, <3>2
  <2> QED
    BY <2>1, <2>2, <2>3 DEF MacSigningInv
<1>2. MacSigningInv /\ [MacSigningNext]_macSigningVars => MacSigningInv'
  <2> SUFFICES ASSUME MacSigningInv, [MacSigningNext]_macSigningVars
               PROVE  MacSigningInv'
    OBVIOUS
  <2>1. CASE UNCHANGED macSigningVars
    <3> USE <2>1 DEF macSigningVars, keychainVars, creationVars, signerVars
    <3>1. MacSigningTypeOK'
      BY DEF MacSigningInv, MacSigningTypeOK
    <3>2. ASSUME NEW b \in MacBuilds
          PROVE  Own(b)' = Own(b) /\ Busy(b)' = Busy(b) /\ Fails(b)' = Fails(b)
      BY SettingStays DEF Own, Busy, SignerSettled, Fails
    <3>3. ASSUME NEW b \in MacBuilds
          PROVE  OfBuild(b)'
      BY <3>2, OfBuildStays DEF MacSigningInv
    <3>4. ASSUME NEW b \in MacBuilds
          PROVE  NoneLeft(b)' /\ Alone(b)' /\ RightlyUnsigned(b)'
      <4>1. NoneLeft(b)'
        BY SettingStays DEF MacSigningInv, NoneLeft, Sole
      <4>2. Alone(b)'
        BY <3>2, SettingStays DEF MacSigningInv, Alone, RunsAlone, OwnKeychain
      <4>3. RightlyUnsigned(b)'
        BY <3>2, SettingStays DEF MacSigningInv, RightlyUnsigned
      <4> QED
        BY <4>1, <4>2, <4>3
    <3> QED
      BY <3>1, <3>3, <3>4 DEF MacSigningInv
  <2>2. CASE MacSigningNext
    <3>1. PICK b \in MacBuilds : BuildStep(b)
      BY <2>2 DEF MacSigningNext, BuildStep, SignerStep
    <3>2. /\ MacSigningTypeOK /\ Login \in searchList
          /\ \A c \in MacBuilds :
                 OfBuild(c) /\ InOrder(c) /\ NoneLeft(c) /\ Alone(c) /\ RightlyUnsigned(c)
          /\ ListIsWhole(b)
      BY DEF MacSigningInv, OfBuild
    <3>3. MacSigningTypeOK' /\ Login \in searchList'
      BY <3>1, <3>2, MacSigningTyped, LoginStays
    <3>4. ASSUME NEW c \in MacBuilds
          PROVE  (OfBuild(c) /\ NoneLeft(c) /\ Alone(c) /\ RightlyUnsigned(c))'
      BY <3>1, <3>2, <3>3, OfBuildHolds, NoneLeftHolds, AloneHolds, RightlyUnsignedHolds
    <3> QED
      BY <3>3, <3>4 DEF MacSigningInv
  <2> QED
    BY <2>1, <2>2
<1> QED
  BY <1>1, <1>2, PTL DEF MacSigningSpec

(***************************************************************************)
(* The signers of a build that no other overlaps find their keychain as    *)
(* createKeychain made it, and nothing is left unsigned that need not be.  *)
(***************************************************************************)
THEOREM SignersUseOwnKeychain == MacSigningSpec => []SignsWithOwnKeychain
<1>1. MacSigningInv => SignsWithOwnKeychain
  <2> SUFFICES ASSUME MacSigningInv, NEW b \in MacBuilds, NEW s \in Signers
               PROVE  /\ process[b] = "running" /\ keyStep[b] = "ready" /\ b \notin overlapped =>
                             keychain[ProjectOf(b)] = Certified /\ ProjectOf(b) \in searchList
                      /\ signing[b][s] = "signed" => Fits(s, identity[b][s])
                      /\ signing[b][s] = "unsigned" /\ b \notin overlapped
                           /\ (process[b] = "running" \/ Succeeds(b)) =>
                             /\ s # "mas" /\ ~keySetting.force
                             /\ keySetting.identity = "null" \/ \A i \in Certified : ~Fits(s, i)
    BY DEF SignsWithOwnKeychain
  <2>1. process[b] = "running" /\ keyStep[b] = "ready" /\ b \notin overlapped =>
            keychain[ProjectOf(b)] = Certified /\ ProjectOf(b) \in searchList
    BY DEF MacSigningInv, Alone, RunsAlone, OwnKeychain
  <2>2. signing[b][s] = "signed" => Fits(s, identity[b][s])
    BY DEF MacSigningInv, OfBuild, FitsItsPurpose
  <2>3. ~(Succeeds(b) /\ Fails(b))
    BY DEF Succeeds, Fails
  <2> QED
    BY <2>1, <2>2, <2>3 DEF MacSigningInv, RightlyUnsigned
<1> QED
  BY <1>1, MacSigningInvariant, PTL

(***************************************************************************)
(* The user's keychain stays on the search list, and a build that succeeds *)
(* has its keychain removed.                                               *)
(***************************************************************************)
THEOREM KeychainsAreRestored == MacSigningSpec => []KeychainsRestored
<1>1. MacSigningInv => KeychainsRestored
  <2> SUFFICES ASSUME MacSigningInv, NEW b \in MacBuilds, process[b] = "over", Succeeds(b), Sole(b)
               PROVE  keychain[ProjectOf(b)] = Absent
    BY DEF MacSigningInv, KeychainsRestored, Sole
  <2>1. ~Fails(b)
    BY DEF Succeeds, Fails
  <2>2. b \in DOMAIN keySetting.project
    BY DEF MacSigningInv, OfBuild, InOrder
  <2>3. keyStep[b] = "none" \/ (keyStep[b] = "ready" /\ disposer[b] = "done")
    BY <2>1 DEF MacSigningInv, OfBuild, EndedInOrder
  <2> QED
    BY <2>2, <2>3 DEF MacSigningInv, NoneLeft
<1> QED
  BY <1>1, MacSigningInvariant, PTL

-----------------------------------------------------------------------------
\* AsarPackager

Position == Nat \X Nat
FileAt(s, i) == FilesOf(s)[i]
HeaderDone == phase \in {"write", "packed"}

\* The files that are in the header, and in the archive.
InHeader(s, i) == HeaderDone \/ s < set \/ (s = set /\ phase = "header" /\ i < index)
Written(s, i) == s < set \/ (s = set /\ i < index)

AsarTypeOK ==
    /\ fileSets \in FileSets
    /\ phase \in {"detect", "header", "write", "packed"}
    /\ set \in 1..Len(fileSets) /\ index \in 1..(Len(FilesOf(set)) + 1)
    /\ nextOffset \in Nat
    /\ keptOut \subseteq Position /\ copied \subseteq Position
    /\ archive \in Seq(Nat \X Nat \X Nat)

AtEnd == phase = "packed" => set = Len(fileSets) /\ index = Len(FilesOf(set)) + 1

KeptOutInHeader == \A s, i \in Nat : <<s, i>> \in keptOut => InHeader(s, i)

DirsAreMade == unpackedDirs \union dirNodes \subseteq made

\* A node under a path is that of a link, or of a file with the path: kept out and copied,
\* or at the start that the loops agree upon.
IsNodeOf(start, p, s, i) ==
    /\ InHeader(s, i) /\ FileAt(s, i).kind # "link" /\ PathOf(FileAt(s, i)) = p
    /\ nodes[p].of = <<s, i>> /\ nodes[p].size = SizeOf(FileAt(s, i))
    /\ nodes[p].unpacked \in BOOLEAN /\ (nodes[p].unpacked <=> <<s, i>> \in keptOut)
    /\ nodes[p].unpacked => <<s, i>> \in copied /\ FileAt(s, i).dir \in made
    /\ ~nodes[p].unpacked => nodes[p].offset = start[<<s, i>>]

IsLink(p) == \E s \in DOMAIN fileSets : \E i \in DOMAIN FilesOf(s) :
                 FileAt(s, i).kind = "link" /\ PathOf(FileAt(s, i)) = p

NodesAreRight(start) ==
    /\ \A p \in DOMAIN nodes :
           \/ IsLink(p)
           \/ \E s \in DOMAIN fileSets : \E i \in DOMAIN FilesOf(s) : IsNodeOf(start, p, s, i)
    /\ \A s \in DOMAIN fileSets : \A i \in DOMAIN FilesOf(s) :
           InHeader(s, i) => PathOf(FileAt(s, i)) \in DOMAIN nodes

\* Where each file starts, once it is known, and the header's offset.
Room(s, i) == IF <<s, i>> \in keptOut THEN 0 ELSE SizeOf(FileAt(s, i))
StartsFollow(start) ==
    /\ start[<<1, 1>>] = 0
    /\ \A s \in DOMAIN fileSets : \A i \in DOMAIN FilesOf(s) :
           InHeader(s, i) => start[<<s, i + 1>>] = start[<<s, i>>] + Room(s, i)
    /\ \A s \in DOMAIN fileSets :
           (s < set \/ HeaderDone) /\ s < Len(fileSets) =>
               start[<<s + 1, 1>>] = start[<<s, Len(FilesOf(s)) + 1>>]
    /\ ~HeaderDone => nextOffset = start[<<set, IF phase = "header" THEN index ELSE 1>>]

BytesInPlace(start) ==
    /\ ~HeaderDone => archive = <<>>
    /\ HeaderDone => /\ Len(archive) = start[<<set, index>>]
                     /\ \A s \in DOMAIN fileSets : \A i \in DOMAIN FilesOf(s) :
                            Written(s, i) /\ <<s, i>> \notin keptOut =>
                                /\ start[<<s, i>>] + SizeOf(FileAt(s, i)) <= Len(archive)
                                /\ \A k \in 1..SizeOf(FileAt(s, i)) :
                                       archive[start[<<s, i>>] + k] = <<s, i, k>>

AsarInv ==
    /\ AsarTypeOK /\ AtEnd /\ KeptOutInHeader /\ DirsAreMade
    /\ \E start \in [Position -> Nat] :
           NodesAreRight(start) /\ StartsFollow(start) /\ BytesInPlace(start)

LEMMA AsarFiles ==
  ASSUME AsarTypeOK
  PROVE  /\ Len(fileSets) \in Nat \ {0} /\ DOMAIN fileSets = 1..Len(fileSets)
         /\ \A s \in DOMAIN fileSets :
                /\ Len(FilesOf(s)) \in Nat /\ DOMAIN FilesOf(s) = 1..Len(FilesOf(s))
                /\ \A i \in DOMAIN FilesOf(s) : SizeOf(FileAt(s, i)) \in Nat
         /\ set \in DOMAIN fileSets /\ set \in Nat /\ index \in Nat
<1>1. /\ Len(fileSets) \in Nat \ {0} /\ DOMAIN fileSets = 1..Len(fileSets)
      /\ \A s \in DOMAIN fileSets :
             /\ Len(FilesOf(s)) \in Nat /\ DOMAIN FilesOf(s) = 1..Len(FilesOf(s))
             /\ \A i \in DOMAIN FilesOf(s) :
                    FileAt(s, i).size \in Nat /\ FileAt(s, i).data \in Nat \union {NoData}
  BY AsarAssumption DEF AsarTypeOK, FilesOf, FileAt
<1>2. \A s \in DOMAIN fileSets : \A i \in DOMAIN FilesOf(s) : SizeOf(FileAt(s, i)) \in Nat
  BY <1>1 DEF SizeOf
<1>3. set \in DOMAIN fileSets
  BY <1>1 DEF AsarTypeOK
<1>4. set \in Nat /\ index \in Nat
  BY <1>1, <1>3 DEF AsarTypeOK
<1> QED
  BY <1>1, <1>2, <1>3, <1>4

\* No file is in the header before it is its turn.
LEMMA NotYet ==
  ASSUME AsarTypeOK
  PROVE  /\ ~HeaderDone => ~InHeader(set, index)
         /\ \A s, i \in Nat : InHeader(s, i) /\ ~HeaderDone => s < set \/ (s = set /\ i < index)
BY AsarFiles DEF InHeader

LEMMA AsarInitInv == AsarInit => AsarInv
<1> SUFFICES ASSUME AsarInit PROVE AsarInv
  OBVIOUS
<1>1. AsarTypeOK
  <2>1. Len(fileSets) \in Nat \ {0} /\ Len(FilesOf(1)) \in Nat
    BY AsarAssumption DEF AsarInit, FilesOf
  <2>2. 1 \in 1..Len(fileSets) /\ 1 \in 1..(Len(FilesOf(1)) + 1)
    BY <2>1
  <2> QED
    BY <2>2 DEF AsarInit, AsarTypeOK
<1>2. /\ phase = "detect" /\ ~HeaderDone /\ set = 1 /\ index = 1 /\ nextOffset = 0
      /\ DOMAIN nodes = {} /\ archive = <<>>
      /\ unpackedDirs = {} /\ dirNodes = {} /\ keptOut = {}
  BY DEF AsarInit, HeaderDone
<1>3. \A s \in DOMAIN fileSets : ~(s < set) /\ \A i \in DOMAIN FilesOf(s) : ~InHeader(s, i)
  BY <1>1, <1>2, AsarFiles DEF InHeader
<1> DEFINE start == [q \in Position |-> 0]
<1>4. start \in [Position -> Nat] /\ start[<<1, 1>>] = 0
  BY DEF Position
<1> HIDE DEF start
<1>5. NodesAreRight(start)
  BY <1>2, <1>3 DEF NodesAreRight
<1>6. StartsFollow(start)
  BY <1>2, <1>3, <1>4 DEF StartsFollow
<1>7. BytesInPlace(start)
  BY <1>2 DEF BytesInPlace
<1> QED
  BY <1>1, <1>2, <1>4, <1>5, <1>6, <1>7 DEF AsarInv, AtEnd, KeptOutInHeader, DirsAreMade

\* Steps that add no file to the header.
LEMMA NodesStay ==
  ASSUME AsarTypeOK, NEW start, NEW later, NodesAreRight(start),
         UNCHANGED <<fileSets, nodes, keptOut, copied>>, made \subseteq made',
         \A s \in DOMAIN fileSets : \A i \in DOMAIN FilesOf(s) :
             /\ InHeader(s, i)' <=> InHeader(s, i)
             /\ InHeader(s, i) => later[<<s, i>>] = start[<<s, i>>]
  PROVE  NodesAreRight(later)'
<1>1. /\ \A s : FilesOf(s)' = FilesOf(s) /\ \A i : FileAt(s, i)' = FileAt(s, i)
      /\ \A s, i : SizeOf(FileAt(s, i))' = SizeOf(FileAt(s, i))
                   /\ PathOf(FileAt(s, i))' = PathOf(FileAt(s, i))
      /\ nodes' = nodes /\ fileSets' = fileSets
  BY DEF FilesOf, FileAt, SizeOf, PathOf
<1>2. \A p : IsLink(p) => IsLink(p)'
  BY <1>1 DEF IsLink
<1>3. ASSUME NEW p \in DOMAIN nodes, NEW s \in DOMAIN fileSets, NEW i \in DOMAIN FilesOf(s),
             IsNodeOf(start, p, s, i)
      PROVE  IsNodeOf(later, p, s, i)'
  BY <1>1, <1>3 DEF IsNodeOf
<1>4. \A p \in DOMAIN nodes' :
          \/ IsLink(p)'
          \/ \E s \in DOMAIN fileSets' : \E i \in DOMAIN FilesOf(s)' : IsNodeOf(later, p, s, i)'
  BY <1>1, <1>2, <1>3 DEF NodesAreRight
<1>5. \A s \in DOMAIN fileSets' : \A i \in DOMAIN FilesOf(s)' :
          InHeader(s, i)' => PathOf(FileAt(s, i))' \in DOMAIN nodes'
  BY <1>1 DEF NodesAreRight
<1> QED
  BY <1>4, <1>5 DEF NodesAreRight

LEMMA PlacesStay ==
  ASSUME UNCHANGED <<fileSets, keptOut>>
  PROVE  /\ \A s : FilesOf(s)' = FilesOf(s) /\ \A i : FileAt(s, i)' = FileAt(s, i)
         /\ \A s, i : /\ SizeOf(FileAt(s, i))' = SizeOf(FileAt(s, i)) /\ Room(s, i)' = Room(s, i)
BY DEF FilesOf, FileAt, SizeOf, Room

\* The directories of a set are detected; nothing is in the header for it yet.
LEMMA DetectSteps ==
  ASSUME AsarInv, DetectFile \/ Detected
  PROVE  AsarInv'
<1>1. /\ phase = "detect" /\ phase' \in {"detect", "header"} /\ set' = set
      /\ phase' = "header" => index' = 1
      /\ index' \in 1..(Len(FilesOf(set)) + 1)
      /\ UNCHANGED <<fileSets, nodes, dirNodes, nextOffset, keptOut, copied, archive>>
      /\ unpackedDirs' \union dirNodes' \subseteq made' /\ made \subseteq made'
  <2>1. AsarTypeOK
    BY DEF AsarInv
  <2>2. CASE DetectFile
    BY <2>1, <2>2, AsarFiles DEF DetectFile, InPhase, NextFile, AsarInv, DirsAreMade
  <2>3. CASE Detected
    BY <2>1, <2>3, AsarFiles DEF Detected, AsarInv, DirsAreMade
  <2> QED
    BY <2>2, <2>3
<1>2. \A s, i \in Nat : /\ InHeader(s, i) => InHeader(s, i)'
                        /\ 1 <= i => (InHeader(s, i)' <=> InHeader(s, i))
  <2>1. \A i \in Nat : 1 <= i => ~(i < 1)
    OBVIOUS
  <2> QED
    BY <1>1, <2>1 DEF InHeader, HeaderDone
<1>3. AsarTypeOK /\ AsarTypeOK'
  BY <1>1 DEF AsarInv, AsarTypeOK, FilesOf
<1>4. \A s \in DOMAIN fileSets : s \in Nat /\ \A i \in DOMAIN FilesOf(s) : i \in Nat /\ 1 <= i
  BY <1>3, AsarFiles
<1>5. \A s \in DOMAIN fileSets : \A i \in DOMAIN FilesOf(s) : InHeader(s, i)' <=> InHeader(s, i)
  BY <1>2, <1>4
<1>6. PICK start \in [Position -> Nat] :
          NodesAreRight(start) /\ StartsFollow(start) /\ BytesInPlace(start)
  BY DEF AsarInv
<1>7. NodesAreRight(start)'
  BY <1>1, <1>3, <1>5, <1>6, NodesStay
<1>8. ~HeaderDone /\ ~HeaderDone'
  BY <1>1 DEF HeaderDone
<1>9. StartsFollow(start)'
  BY <1>1, <1>5, <1>6, <1>8, PlacesStay DEF StartsFollow
<1>10. BytesInPlace(start)'
  BY <1>1, <1>6, <1>8 DEF BytesInPlace
<1>11. AtEnd' /\ KeptOutInHeader' /\ DirsAreMade'
  BY <1>1, <1>2 DEF AtEnd, AsarInv, KeptOutInHeader, DirsAreMade
<1> QED
  BY <1>3, <1>6, <1>7, <1>9, <1>10, <1>11 DEF AsarInv

\* The files of the set are all in the header.
LEMMA SetInHeader ==
  ASSUME AsarTypeOK, HeaderOfSet
  PROVE  /\ \/ set < Len(fileSets) /\ phase' = "detect" /\ set' = set + 1
            \/ set = Len(fileSets) /\ phase' = "write" /\ set' = 1
         /\ phase = "header" /\ index = Len(FilesOf(set)) + 1
         /\ \A s \in DOMAIN fileSets : \A i \in DOMAIN FilesOf(s) :
                /\ InHeader(s, i) <=> s <= set
                /\ InHeader(s, i)' <=> InHeader(s, i)
<1>1. /\ phase = "header" /\ index = Len(FilesOf(set)) + 1 /\ index' = 1
      /\ UNCHANGED <<fileSets, made, nodes, dirNodes, nextOffset, keptOut, copied, archive>>
      /\ unpackedDirs' = {} /\ AsarTypeOK /\ ~HeaderDone
  <2>1. AsarTypeOK
    OBVIOUS
  <2>2. /\ phase = "header" /\ ~(index <= Len(FilesOf(set))) /\ index' = 1
        /\ UNCHANGED <<fileSets, made, nodes, dirNodes, nextOffset, keptOut, copied, archive>>
        /\ unpackedDirs' = {} /\ ~HeaderDone
    BY DEF HeaderOfSet, InPhase, HeaderDone
  <2>3. index \in 1..(Len(FilesOf(set)) + 1) /\ Len(FilesOf(set)) \in Nat
    BY <2>1, AsarFiles DEF AsarTypeOK
  <2> QED
    BY <2>1, <2>2, <2>3
<1>2. \/ set < Len(fileSets) /\ phase' = "detect" /\ set' = set + 1
      \/ set = Len(fileSets) /\ phase' = "write" /\ set' = 1
  BY <1>1, AsarFiles DEF HeaderOfSet, AsarTypeOK
<1>3. \A s \in DOMAIN fileSets : s \in 1..Len(fileSets)
                                 /\ \A i \in DOMAIN FilesOf(s) : i \in 1..Len(FilesOf(s))
  BY <1>1, AsarFiles
<1>4. ASSUME NEW s \in DOMAIN fileSets, NEW i \in DOMAIN FilesOf(s)
      PROVE  /\ InHeader(s, i) <=> s <= set
             /\ InHeader(s, i)' <=> InHeader(s, i)
  <2>1. s \in Nat /\ i \in Nat /\ s <= Len(fileSets) /\ (s = set => i < index)
        /\ set \in Nat /\ Len(fileSets) \in Nat
    BY <1>1, <1>3, AsarFiles
  <2>2. InHeader(s, i) <=> s <= set
    BY <1>1, <2>1 DEF InHeader
  <2>3. CASE set < Len(fileSets) /\ phase' = "detect" /\ set' = set + 1
    <3>1. InHeader(s, i)' <=> s < set + 1
      BY <2>3 DEF InHeader, HeaderDone
    <3> QED
      BY <2>1, <2>2, <3>1
  <2>4. CASE set = Len(fileSets) /\ phase' = "write" /\ set' = 1
    <3>1. InHeader(s, i)'
      BY <2>4 DEF InHeader, HeaderDone
    <3> QED
      BY <2>1, <2>2, <2>4, <3>1
  <2> QED
    BY <1>2, <2>2, <2>3, <2>4
<1> QED
  BY <1>1, <1>2, <1>4

LEMMA HeaderOfSetStep ==
  ASSUME AsarInv, HeaderOfSet
  PROVE  AsarInv'
<1>1. /\ phase = "header" /\ index = Len(FilesOf(set)) + 1 /\ index' = 1
      /\ UNCHANGED <<fileSets, made, nodes, dirNodes, nextOffset, keptOut, copied, archive>>
      /\ unpackedDirs' = {} /\ AsarTypeOK /\ ~HeaderDone
  <2>1. AsarTypeOK
    BY DEF AsarInv
  <2> QED
    BY <2>1, SetInHeader DEF HeaderOfSet, HeaderDone
<1>2. \/ set < Len(fileSets) /\ phase' = "detect" /\ set' = set + 1
      \/ set = Len(fileSets) /\ phase' = "write" /\ set' = 1
  BY <1>1, SetInHeader
<1>3. \A s \in DOMAIN fileSets : s \in 1..Len(fileSets)
                                 /\ \A i \in DOMAIN FilesOf(s) : i \in 1..Len(FilesOf(s))
  BY <1>1, AsarFiles
<1>4. \A s \in DOMAIN fileSets : \A i \in DOMAIN FilesOf(s) :
          /\ InHeader(s, i) <=> s <= set
          /\ InHeader(s, i)' <=> InHeader(s, i)
  BY <1>1, SetInHeader
<1>5. AsarTypeOK'
  <2>1. \A s : FilesOf(s)' = FilesOf(s)
    BY <1>1 DEF FilesOf
  <2>2. set' \in 1..Len(fileSets) /\ Len(FilesOf(set')) \in Nat
    BY <1>1, <1>2, AsarFiles
  <2>3. index' \in 1..(Len(FilesOf(set')) + 1)
    BY <1>1, <2>2
  <2>4. FilesOf(set)' = FilesOf(set')
    BY <1>1 DEF FilesOf
  <2> QED
    BY <1>1, <1>2, <2>2, <2>3, <2>4 DEF AsarTypeOK
<1>6. KeptOutInHeader'
  <2> SUFFICES ASSUME NEW s \in Nat, NEW i \in Nat, <<s, i>> \in keptOut PROVE InHeader(s, i)'
    BY <1>1 DEF KeptOutInHeader
  <2>1. s < set \/ s = set
    BY <1>1 DEF AsarInv, KeptOutInHeader, InHeader
  <2> QED
    BY <1>1, <1>2, <2>1, AsarFiles DEF InHeader, HeaderDone
<1>7. AtEnd' /\ DirsAreMade'
  BY <1>1, <1>2 DEF AtEnd, DirsAreMade, AsarInv
<1>8. PICK start \in [Position -> Nat] :
          NodesAreRight(start) /\ StartsFollow(start) /\ BytesInPlace(start)
  BY DEF AsarInv
<1>9. PICK later \in [Position -> Nat] :
          /\ later[<<set + 1, 1>>] = start[<<set, index>>]
          /\ \A s, i \in Nat : s # set + 1 => later[<<s, i>>] = start[<<s, i>>]
          /\ nextOffset = start[<<set, index>>]
  <2> DEFINE next == [start EXCEPT ![<<set + 1, 1>>] = start[<<set, index>>]]
  <2>1. <<set + 1, 1>> \in Position /\ <<set, index>> \in Position
    BY <1>1, AsarFiles DEF Position
  <2>2. \A s, i \in Nat : <<s, i>> \in Position /\ (s # set + 1 => <<s, i>> # <<set + 1, 1>>)
    BY DEF Position
  <2>3. nextOffset = start[<<set, index>>]
    BY <1>1, <1>8 DEF StartsFollow
  <2>4. /\ next \in [Position -> Nat] /\ next[<<set + 1, 1>>] = start[<<set, index>>]
        /\ \A s, i \in Nat : s # set + 1 => next[<<s, i>>] = start[<<s, i>>]
    BY <2>1, <2>2
  <2> HIDE DEF next
  <2> QED
    BY <2>3, <2>4
<1>10. \A s \in DOMAIN fileSets : \A i \in DOMAIN FilesOf(s) :
           InHeader(s, i) => /\ later[<<s, i>>] = start[<<s, i>>]
                             /\ later[<<s, i + 1>>] = start[<<s, i + 1>>]
  <2> SUFFICES ASSUME NEW s \in DOMAIN fileSets, NEW i \in DOMAIN FilesOf(s), InHeader(s, i)
               PROVE  /\ later[<<s, i>>] = start[<<s, i>>]
                      /\ later[<<s, i + 1>>] = start[<<s, i + 1>>]
    OBVIOUS
  <2>1. s \in Nat /\ i \in Nat /\ i + 1 \in Nat /\ s # set + 1
    BY <1>1, <1>3, <1>4, AsarFiles
  <2> QED
    BY <1>9, <2>1
<1>11. NodesAreRight(later)'
  <2>1. \A s \in DOMAIN fileSets : \A i \in DOMAIN FilesOf(s) :
            /\ InHeader(s, i)' <=> InHeader(s, i)
            /\ InHeader(s, i) => later[<<s, i>>] = start[<<s, i>>]
    BY <1>4, <1>10
  <2>2. UNCHANGED <<fileSets, nodes, keptOut, copied>> /\ made \subseteq made'
    BY <1>1
  <2> QED
    BY <1>1, <1>8, <2>1, <2>2, NodesStay
<1>12. StartsFollow(later)'
  <2>1. later[<<1, 1>>] = 0
    <3>1. 1 # set + 1 /\ start[<<1, 1>>] = 0
      BY <1>1, <1>8, AsarFiles DEF StartsFollow
    <3> QED
      BY <1>9, <3>1
  <2>2. ASSUME NEW s \in DOMAIN fileSets', NEW i \in DOMAIN FilesOf(s)', InHeader(s, i)'
        PROVE  later[<<s, i + 1>>] = later[<<s, i>>] + Room(s, i)'
    <3>1. s \in DOMAIN fileSets /\ i \in DOMAIN FilesOf(s) /\ Room(s, i)' = Room(s, i)
      BY <1>1, PlacesStay
    <3>2. InHeader(s, i)
      BY <1>4, <2>2, <3>1
    <3>3. start[<<s, i + 1>>] = start[<<s, i>>] + Room(s, i)
      BY <1>8, <3>1, <3>2 DEF StartsFollow
    <3> QED
      BY <1>10, <3>1, <3>2, <3>3
  <2>3. ASSUME NEW s \in DOMAIN fileSets, s < set' \/ HeaderDone', s < Len(fileSets)
        PROVE  later[<<s + 1, 1>>] = later[<<s, Len(FilesOf(s)) + 1>>]
    <3>1. s \in Nat /\ s <= set /\ Len(FilesOf(s)) + 1 \in Nat /\ s # set + 1 /\ set \in Nat
      BY <1>1, <1>2, <1>3, <2>3, AsarFiles DEF HeaderDone
    <3>2. later[<<s, Len(FilesOf(s)) + 1>>] = start[<<s, Len(FilesOf(s)) + 1>>]
      BY <1>9, <3>1
    <3>3. CASE s = set
      BY <1>1, <1>9, <3>2, <3>3
    <3>4. CASE s # set
      <4>1. s < set /\ s + 1 # set + 1 /\ s + 1 \in Nat
        BY <3>1, <3>4
      <4>2. start[<<s + 1, 1>>] = start[<<s, Len(FilesOf(s)) + 1>>]
        BY <1>8, <2>3, <4>1 DEF StartsFollow
      <4> QED
        BY <1>9, <3>2, <4>1, <4>2
    <3> QED
      BY <3>3, <3>4
  <2>4. ~HeaderDone' => nextOffset' = later[<<set', IF phase' = "header" THEN index' ELSE 1>>]
    BY <1>1, <1>2, <1>9 DEF HeaderDone
  <2>5. \A s : FilesOf(s)' = FilesOf(s)
    BY <1>1 DEF FilesOf
  <2> QED
    BY <1>1, <2>1, <2>2, <2>3, <2>4, <2>5 DEF StartsFollow
<1>13. BytesInPlace(later)'
  <2>1. archive' = <<>> /\ Len(archive') = 0
    BY <1>1, <1>8 DEF BytesInPlace
  <2>2. HeaderDone' => set' = 1 /\ index' = 1
    BY <1>1, <1>2 DEF HeaderDone
  <2>3. later[<<1, 1>>] = 0
    BY <1>12 DEF StartsFollow
  <2>4. ASSUME HeaderDone', NEW s \in DOMAIN fileSets', NEW i \in DOMAIN FilesOf(s)'
        PROVE  ~Written(s, i)'
    <3>1. s \in DOMAIN fileSets /\ i \in DOMAIN FilesOf(s)
      BY <1>1, PlacesStay
    <3>2. ~(s < 1) /\ ~(i < 1)
      BY <1>3, <3>1
    <3> QED
      BY <2>2, <2>4, <3>2 DEF Written
  <2> QED
    BY <2>1, <2>2, <2>3, <2>4 DEF BytesInPlace
<1> QED
  BY <1>5, <1>6, <1>7, <1>9, <1>11, <1>12, <1>13 DEF AsarInv

\* What a file adds to the header.
LEMMA FileAdded ==
  ASSUME AsarInv, HeaderFile, NEW f, f = FileAt(set, index), NEW pos, pos = <<set, index>>
  PROVE  /\ keptOut' \in {keptOut, keptOut \union {pos}}
         /\ copied' \in {copied, copied \union {pos}}
         /\ made \subseteq made' /\ unpackedDirs' \union dirNodes' \subseteq made'
         /\ nextOffset' = nextOffset + (IF pos \in keptOut' THEN 0 ELSE SizeOf(f))
         /\ \E n : /\ nodes' = NodesWith(PathOf(f), n)
                   /\ f.kind # "link" =>
                          /\ n.of = pos /\ n.size = SizeOf(f)
                          /\ n.unpacked \in BOOLEAN /\ (n.unpacked <=> pos \in keptOut')
                          /\ n.unpacked => pos \in copied' /\ f.dir \in made'
                          /\ ~n.unpacked => n.offset = nextOffset
<1>1. f = File /\ AsarTypeOK /\ nextOffset \in Nat /\ unpackedDirs \union dirNodes \subseteq made
  BY DEF File, FileAt, AsarInv, AsarTypeOK, DirsAreMade
<1>2. pos \notin keptOut
  <2>1. phase = "header" /\ ~HeaderDone
    BY DEF HeaderFile, InPhase, HeaderDone
  <2> QED
    BY <1>1, <2>1, NotYet, AsarFiles DEF AsarInv, KeptOutInHeader
<1>3. CASE f.kind = "link"
  <2>1. AddLink(f)
    BY <1>1, <1>3 DEF HeaderFile
  <2> QED
    BY <1>1, <1>3, <2>1 DEF AddLink
<1>4. CASE f.kind # "link"
  <2> DEFINE inDir == IsDirUnpacked(f.dir)
             unpacked == inDir \/ f.unpack
             n == [of |-> pos, size |-> SizeOf(f), unpacked |-> unpacked, offset |-> nextOffset]
  <2>1. AddFile(f)
    BY <1>1, <1>4 DEF HeaderFile
  <2>2. /\ nodes' = NodesWith(PathOf(f), n)
        /\ nextOffset' = IF unpacked THEN nextOffset ELSE nextOffset + SizeOf(f)
        /\ dirNodes' = IF inDir THEN dirNodes \union {f.dir} ELSE dirNodes
        /\ unpackedDirs' = IF Corrected(f.dir) THEN unpackedDirs \union {f.dir} ELSE unpackedDirs
        /\ made' = made \union DirsToMake(f)
        /\ keptOut' = IF unpacked THEN keptOut \union {pos} ELSE keptOut
        /\ copied' = IF unpacked THEN copied \union {pos} ELSE copied
    BY <2>1 DEF AddFile
  <2>3. unpacked => f.dir \in made'
    BY <1>1, <2>2 DEF IsDirUnpacked, DirsToMake
  <2>4. inDir => f.dir \in made'
    BY <2>3
  <2>5. Corrected(f.dir) => f.dir \in made'
    BY <2>2 DEF DirsToMake
  <2>6. unpackedDirs' \union dirNodes' \subseteq made' /\ made \subseteq made'
    BY <1>1, <2>2, <2>4, <2>5
  <2>7. unpacked \in BOOLEAN
    OBVIOUS
  <2> HIDE DEF unpacked, inDir
  <2>8. unpacked <=> pos \in keptOut'
    BY <1>2, <2>2
  <2>9. nextOffset' = nextOffset + (IF pos \in keptOut' THEN 0 ELSE SizeOf(f))
    BY <1>1, <2>2, <2>8
  <2>10. /\ n.of = pos /\ n.size = SizeOf(f) /\ n.unpacked = unpacked /\ n.offset = nextOffset
    OBVIOUS
  <2> HIDE DEF n
  <2> QED
    BY <2>2, <2>3, <2>6, <2>7, <2>8, <2>9, <2>10
<1> QED
  BY <1>3, <1>4

LEMMA HeaderFileStep ==
  ASSUME AsarInv, HeaderFile
  PROVE  AsarInv'
<1> DEFINE f == FileAt(set, index)
           pos == <<set, index>>
<1>1. /\ AsarTypeOK /\ phase = "header" /\ index <= Len(FilesOf(set)) /\ index' = index + 1
      /\ UNCHANGED <<phase, set, fileSets, archive>> /\ ~HeaderDone /\ ~HeaderDone'
  BY DEF AsarInv, HeaderFile, InPhase, NextFile, HeaderDone
<1>2. /\ keptOut' \in {keptOut, keptOut \union {pos}}
      /\ copied' \in {copied, copied \union {pos}}
      /\ made \subseteq made' /\ unpackedDirs' \union dirNodes' \subseteq made'
      /\ nextOffset' = nextOffset + (IF pos \in keptOut' THEN 0 ELSE SizeOf(f))
      /\ \E n : /\ nodes' = NodesWith(PathOf(f), n)
                /\ f.kind # "link" =>
                       /\ n.of = pos /\ n.size = SizeOf(f)
                       /\ n.unpacked \in BOOLEAN /\ (n.unpacked <=> pos \in keptOut')
                       /\ n.unpacked => pos \in copied' /\ f.dir \in made'
                       /\ ~n.unpacked => n.offset = nextOffset
  BY FileAdded
<1>3. /\ set \in DOMAIN fileSets /\ index \in DOMAIN FilesOf(set) /\ set \in Nat /\ index \in Nat
      /\ index + 1 \in Nat /\ SizeOf(f) \in Nat /\ pos \in Position
      /\ index + 1 \in 1..(Len(FilesOf(set)) + 1) /\ nextOffset \in Nat
  <2>1. /\ set \in DOMAIN fileSets /\ set \in Nat /\ index \in Nat /\ Len(FilesOf(set)) \in Nat
        /\ index \in 1..(Len(FilesOf(set)) + 1) /\ nextOffset \in Nat
        /\ DOMAIN FilesOf(set) = 1..Len(FilesOf(set))
    BY <1>1, AsarFiles DEF AsarTypeOK
  <2>2. index \in DOMAIN FilesOf(set) /\ index + 1 \in 1..(Len(FilesOf(set)) + 1)
    BY <1>1, <2>1
  <2>3. SizeOf(f) \in Nat
    BY <1>1, <2>1, <2>2, AsarFiles
  <2> QED
    BY <2>1, <2>2, <2>3 DEF Position
<1>4. \A s \in DOMAIN fileSets : s \in Nat /\ \A i \in DOMAIN FilesOf(s) : i \in Nat /\ i + 1 \in Nat
  BY <1>1, AsarFiles
<1>5. \A s, i \in Nat : InHeader(s, i)' <=> InHeader(s, i) \/ (s = set /\ i = index)
  BY <1>1, <1>3 DEF InHeader
<1>6. /\ ~InHeader(set, index)
      /\ \A s, i \in Nat : InHeader(s, i) => s < set \/ (s = set /\ i < index)
  BY <1>1, NotYet
<1>7. AsarTypeOK'
  <2>1. keptOut' \subseteq Position /\ copied' \subseteq Position
    BY <1>1, <1>2, <1>3 DEF AsarTypeOK
  <2>2. nextOffset' \in Nat
    BY <1>2, <1>3
  <2> QED
    BY <1>1, <1>3, <2>1, <2>2 DEF AsarTypeOK, FilesOf
<1>8. AtEnd' /\ KeptOutInHeader' /\ DirsAreMade'
  <2>1. \A s, i \in Nat : <<s, i>> \in keptOut' => InHeader(s, i)'
    <3>1. \A s, i \in Nat : <<s, i>> \in keptOut' => <<s, i>> \in keptOut \/ (s = set /\ i = index)
      BY <1>2
    <3> QED
      BY <1>5, <3>1 DEF AsarInv, KeptOutInHeader
  <2> QED
    BY <1>1, <1>2, <2>1 DEF AtEnd, KeptOutInHeader, DirsAreMade
<1>9. PICK start \in [Position -> Nat] :
          NodesAreRight(start) /\ StartsFollow(start) /\ BytesInPlace(start)
  BY DEF AsarInv
<1>10. PICK later \in [Position -> Nat] :
           /\ later[<<set, index + 1>>] = nextOffset'
           /\ \A s, i \in Nat : s # set \/ i # index + 1 => later[<<s, i>>] = start[<<s, i>>]
  <2> DEFINE next == [start EXCEPT ![<<set, index + 1>>] = nextOffset']
  <2>1. <<set, index + 1>> \in Position /\ nextOffset' \in Nat
    BY <1>3, <1>7 DEF Position, AsarTypeOK
  <2>2. \A s, i \in Nat : <<s, i>> \in Position
                          /\ (s # set \/ i # index + 1 => <<s, i>> # <<set, index + 1>>)
    BY DEF Position
  <2>3. /\ next \in [Position -> Nat] /\ next[<<set, index + 1>>] = nextOffset'
        /\ \A s, i \in Nat : s # set \/ i # index + 1 => next[<<s, i>>] = start[<<s, i>>]
    BY <2>1, <2>2
  <2> HIDE DEF next
  <2> QED
    BY <2>3
<1>11. /\ later[pos] = start[pos] /\ nextOffset = later[pos]
       /\ \A s, i \in Nat : InHeader(s, i) => later[<<s, i>>] = start[<<s, i>>]
                                              /\ later[<<s, i + 1>>] = start[<<s, i + 1>>]
  <2>1. nextOffset = start[pos]
    BY <1>1, <1>9 DEF StartsFollow
  <2>2. index # index + 1 /\ \A s, i \in Nat : InHeader(s, i) =>
            i + 1 \in Nat /\ (s # set \/ i # index + 1) /\ (s # set \/ i + 1 # index + 1)
    BY <1>3, <1>6
  <2>3. later[pos] = start[pos]
    BY <1>3, <1>10, <2>2
  <2> QED
    BY <1>10, <2>1, <2>2, <2>3
<1>12. /\ \A s : FilesOf(s)' = FilesOf(s) /\ \A i : FileAt(s, i)' = FileAt(s, i)
       /\ \A s, i : SizeOf(FileAt(s, i))' = SizeOf(FileAt(s, i))
                    /\ PathOf(FileAt(s, i))' = PathOf(FileAt(s, i))
  BY <1>1 DEF FilesOf, FileAt, SizeOf, PathOf
<1>13. \A s \in DOMAIN fileSets : \A i \in DOMAIN FilesOf(s) :
           InHeader(s, i) => <<s, i>> # pos /\ (<<s, i>> \in keptOut' <=> <<s, i>> \in keptOut)
                             /\ (<<s, i>> \in copied => <<s, i>> \in copied')
  BY <1>2, <1>4, <1>6
<1>14. NodesAreRight(later)'
  <2>1. PICK n : /\ nodes' = NodesWith(PathOf(f), n)
                 /\ f.kind # "link" =>
                        /\ n.of = pos /\ n.size = SizeOf(f)
                        /\ n.unpacked \in BOOLEAN /\ (n.unpacked <=> pos \in keptOut')
                        /\ n.unpacked => pos \in copied' /\ f.dir \in made'
                        /\ ~n.unpacked => n.offset = nextOffset
    BY <1>2
  <2>2. /\ DOMAIN nodes' = DOMAIN nodes \union {PathOf(f)} /\ nodes'[PathOf(f)] = n
        /\ \A p \in DOMAIN nodes : p # PathOf(f) => nodes'[p] = nodes[p]
    BY <2>1 DEF NodesWith
  <2>3. \A p : IsLink(p) => IsLink(p)'
    BY <1>1, <1>12 DEF IsLink
  <2>4. ASSUME NEW p \in DOMAIN nodes, p # PathOf(f), NEW s \in DOMAIN fileSets,
               NEW i \in DOMAIN FilesOf(s), IsNodeOf(start, p, s, i)
        PROVE  IsNodeOf(later, p, s, i)'
    <3>1. InHeader(s, i) /\ InHeader(s, i)' /\ nodes'[p] = nodes[p]
      BY <1>4, <1>5, <2>2, <2>4 DEF IsNodeOf
    <3>2. later[<<s, i>>] = start[<<s, i>>]
      BY <1>4, <1>11, <3>1
    <3> QED
      BY <1>2, <1>12, <1>13, <2>4, <3>1, <3>2 DEF IsNodeOf
  <2>5. PICK s0, i0, p0 : s0 = set /\ i0 = index /\ p0 = PathOf(f)
    OBVIOUS
  <2>6. s0 \in DOMAIN fileSets /\ i0 \in Nat /\ i0 \in DOMAIN FilesOf(s0) /\ FileAt(s0, i0) = f
    BY <1>3, <2>5
  <2>7. f.kind = "link" => IsLink(p0)
    BY <2>5, <2>6 DEF IsLink
  <2>8. f.kind # "link" => IsNodeOf(later, p0, s0, i0)'
    <3> SUFFICES ASSUME f.kind # "link" PROVE IsNodeOf(later, p0, s0, i0)'
      OBVIOUS
    <3>1. InHeader(s0, i0)'
      BY <1>3, <1>5, <2>5
    <3>2. FileAt(s0, i0)' = f /\ PathOf(FileAt(s0, i0))' = p0 /\ SizeOf(FileAt(s0, i0))' = SizeOf(f)
      BY <1>12, <2>5, <2>6
    <3>3. nodes'[p0] = n /\ pos = <<s0, i0>>
      BY <2>2, <2>5
    <3>4. /\ n.of = <<s0, i0>> /\ n.size = SizeOf(f)
          /\ n.unpacked \in BOOLEAN /\ (n.unpacked <=> <<s0, i0>> \in keptOut')
          /\ n.unpacked => <<s0, i0>> \in copied' /\ f.dir \in made'
          /\ ~n.unpacked => n.offset = later[<<s0, i0>>]
      BY <1>11, <2>1, <3>3
    <3> QED
      BY <3>1, <3>2, <3>3, <3>4 DEF IsNodeOf
  <2>9. ASSUME NEW p \in DOMAIN nodes'
        PROVE  \/ IsLink(p)'
               \/ \E s \in DOMAIN fileSets' : \E i \in DOMAIN FilesOf(s)' : IsNodeOf(later, p, s, i)'
    <3>1. CASE p = p0
      BY <1>1, <1>12, <2>3, <2>6, <2>7, <2>8, <3>1
    <3>2. CASE p # p0
      <4>1. p \in DOMAIN nodes /\ p # PathOf(f)
        BY <2>2, <2>5, <3>2
      <4>2. \/ IsLink(p)
            \/ \E s \in DOMAIN fileSets : \E i \in DOMAIN FilesOf(s) : IsNodeOf(start, p, s, i)
        BY <1>9, <4>1 DEF NodesAreRight
      <4> QED
        BY <1>1, <1>12, <2>3, <2>4, <4>1, <4>2
    <3> QED
      BY <3>1, <3>2
  <2>10. ASSUME NEW s \in DOMAIN fileSets', NEW i \in DOMAIN FilesOf(s)', InHeader(s, i)'
         PROVE  PathOf(FileAt(s, i))' \in DOMAIN nodes'
    <3>1. s \in DOMAIN fileSets /\ i \in DOMAIN FilesOf(s) /\ s \in Nat /\ i \in Nat
      BY <1>1, <1>4, <1>12
    <3>2. InHeader(s, i) \/ (s = set /\ i = index)
      BY <1>5, <2>10, <3>1
    <3>3. PathOf(FileAt(s, i)) \in DOMAIN nodes \/ FileAt(s, i) = f
      BY <1>9, <3>1, <3>2 DEF NodesAreRight
    <3> QED
      BY <1>12, <2>2, <3>3
  <2> QED
    BY <2>9, <2>10 DEF NodesAreRight
<1>15. StartsFollow(later)'
  <2>1. later[<<1, 1>>] = 0
    <3>1. 1 # set \/ 1 # index + 1
      BY <1>1, <1>3, AsarFiles DEF AsarTypeOK
    <3> QED
      BY <1>9, <1>10, <3>1 DEF StartsFollow
  <2>2. ASSUME NEW s \in DOMAIN fileSets', NEW i \in DOMAIN FilesOf(s)', InHeader(s, i)'
        PROVE  later[<<s, i + 1>>] = later[<<s, i>>] + Room(s, i)'
    <3>1. s \in DOMAIN fileSets /\ i \in DOMAIN FilesOf(s) /\ s \in Nat /\ i \in Nat
      BY <1>1, <1>4, <1>12
    <3>2. CASE InHeader(s, i)
      <4>1. start[<<s, i + 1>>] = start[<<s, i>>] + Room(s, i)
        BY <1>9, <3>1, <3>2 DEF StartsFollow
      <4>2. Room(s, i)' = Room(s, i)
        BY <1>12, <1>13, <3>1, <3>2 DEF Room
      <4> QED
        BY <1>11, <3>1, <3>2, <4>1, <4>2
    <3>3. CASE s = set /\ i = index
      <4>1. Room(s, i)' = IF pos \in keptOut' THEN 0 ELSE SizeOf(f)
        BY <1>12, <3>3 DEF Room
      <4>2. later[<<s, i + 1>>] = nextOffset' /\ later[<<s, i>>] = nextOffset
        BY <1>10, <1>11, <3>3
      <4> QED
        BY <1>2, <4>1, <4>2
    <3> QED
      BY <1>5, <2>2, <3>1, <3>2, <3>3
  <2>3. ASSUME NEW s \in DOMAIN fileSets, s < set, s < Len(fileSets)
        PROVE  later[<<s + 1, 1>>] = later[<<s, Len(FilesOf(s)) + 1>>]
    <3>1. s \in Nat /\ s # set /\ s + 1 \in Nat /\ Len(FilesOf(s)) + 1 \in Nat /\ 1 # index + 1
      BY <1>1, <1>3, <1>4, <2>3, AsarFiles DEF AsarTypeOK
    <3>2. start[<<s + 1, 1>>] = start[<<s, Len(FilesOf(s)) + 1>>]
      BY <1>9, <2>3 DEF StartsFollow
    <3> QED
      BY <1>10, <3>1, <3>2
  <2>4. nextOffset' = later[<<set', IF phase' = "header" THEN index' ELSE 1>>]
    BY <1>1, <1>10
  <2> QED
    BY <1>1, <1>12, <2>1, <2>2, <2>3, <2>4 DEF StartsFollow
<1>16. BytesInPlace(later)'
  BY <1>1, <1>9 DEF BytesInPlace
<1> QED
  BY <1>7, <1>8, <1>14, <1>15, <1>16 DEF AsarInv

LEMMA BytesOfFile ==
  ASSUME AsarTypeOK, NEW s \in DOMAIN fileSets, NEW i \in DOMAIN FilesOf(s)
  PROVE  /\ BytesOf(s, i) \in Seq(Nat \X Nat \X Nat) /\ Len(BytesOf(s, i)) = SizeOf(FileAt(s, i))
         /\ \A k \in 1..SizeOf(FileAt(s, i)) : BytesOf(s, i)[k] = <<s, i, k>>
<1> DEFINE size == SizeOf(FileAt(s, i))
<1>1. BytesOf(s, i) = [k \in 1..size |-> <<s, i, k>>]
  BY DEF BytesOf, SizeOf, FileAt
<1>2. size \in Nat /\ s \in Nat /\ i \in Nat
  BY AsarFiles
<1> HIDE DEF size
<1>3. \A k \in 1..size : <<s, i, k>> \in Nat \X Nat \X Nat
  BY <1>2
<1>4. [k \in 1..size |-> <<s, i, k>>] \in Seq(Nat \X Nat \X Nat)
  BY <1>2, <1>3
<1>5. Len([k \in 1..size |-> <<s, i, k>>]) = size
  BY <1>2, <1>4
<1> QED
  BY <1>1, <1>4, <1>5 DEF size

LEMMA WriteFileStep ==
  ASSUME AsarInv, WriteFile
  PROVE  AsarInv'
<1> DEFINE size(s, i) == SizeOf(FileAt(s, i))
<1>1. /\ AsarTypeOK /\ phase = "write" /\ index <= Len(FilesOf(set)) /\ index' = index + 1
      /\ UNCHANGED <<phase, set, fileSets, unpackedDirs, made, nodes, dirNodes, nextOffset,
                     keptOut, copied>>
      /\ HeaderDone /\ HeaderDone'
  BY DEF AsarInv, WriteFile, InPhase, NextFile, HeaderDone
<1>2. /\ set \in DOMAIN fileSets /\ index \in DOMAIN FilesOf(set) /\ set \in Nat /\ index \in Nat
      /\ index + 1 \in 1..(Len(FilesOf(set)) + 1)
  BY <1>1, AsarFiles DEF AsarTypeOK
<1>3. archive' = IF <<set, index>> \in keptOut THEN archive ELSE archive \o BytesOf(set, index)
  BY DEF WriteFile
<1>4. /\ BytesOf(set, index) \in Seq(Nat \X Nat \X Nat)
      /\ Len(BytesOf(set, index)) = size(set, index)
      /\ \A k \in 1..size(set, index) : BytesOf(set, index)[k] = <<set, index, k>>
  BY <1>1, <1>2, BytesOfFile
<1>5. PICK start \in [Position -> Nat] :
          NodesAreRight(start) /\ StartsFollow(start) /\ BytesInPlace(start)
  BY DEF AsarInv
<1>6. archive \in Seq(Nat \X Nat \X Nat) /\ Len(archive) = start[<<set, index>>]
      /\ Len(archive) \in Nat
  BY <1>1, <1>5 DEF AsarTypeOK, BytesInPlace
<1>7. /\ archive' \in Seq(Nat \X Nat \X Nat) /\ Len(archive') = Len(archive) + Room(set, index)
      /\ \A n \in 1..Len(archive) : archive'[n] = archive[n]
      /\ <<set, index>> \notin keptOut =>
             \A k \in 1..size(set, index) : archive'[Len(archive) + k] = <<set, index, k>>
  <2> DEFINE bytes == BytesOf(set, index)
  <2>1. size(set, index) \in Nat
    BY <1>1, <1>2, AsarFiles
  <2> HIDE DEF bytes, size
  <2>2. CASE <<set, index>> \in keptOut
    BY <1>3, <1>6, <2>2 DEF Room
  <2>3. CASE <<set, index>> \notin keptOut
    <3>1. archive' = archive \o bytes /\ bytes \in Seq(Nat \X Nat \X Nat) /\ Len(bytes) = size(set, index)
      BY <1>3, <1>4, <2>3 DEF bytes
    <3>2. /\ archive' \in Seq(Nat \X Nat \X Nat) /\ Len(archive') = Len(archive) + Len(bytes)
          /\ \A n \in 1..Len(archive) : archive'[n] = archive[n]
          /\ \A k \in 1..Len(bytes) : archive'[Len(archive) + k] = bytes[k]
      <4>1. /\ archive' \in Seq(Nat \X Nat \X Nat) /\ Len(archive') = Len(archive) + Len(bytes)
            /\ \A n \in 1..(Len(archive) + Len(bytes)) :
                   archive'[n] = IF n <= Len(archive) THEN archive[n] ELSE bytes[n - Len(archive)]
        BY <1>6, <3>1, ConcatProperties
      <4>2. Len(bytes) \in Nat
        BY <2>1, <3>1
      <4>3. \A n \in 1..Len(archive) : n \in 1..(Len(archive) + Len(bytes)) /\ n <= Len(archive)
        BY <1>6, <4>2
      <4>4. \A k \in 1..Len(bytes) : /\ Len(archive) + k \in 1..(Len(archive) + Len(bytes))
                                     /\ ~(Len(archive) + k <= Len(archive))
                                     /\ (Len(archive) + k) - Len(archive) = k
        BY <1>6, <4>2
      <4> QED
        BY <4>1, <4>3, <4>4
    <3>3. Room(set, index) = size(set, index)
      BY <2>3 DEF Room, size
    <3> QED
      BY <1>4, <3>1, <3>2, <3>3 DEF bytes
  <2> QED
    BY <2>2, <2>3
<1>8. AsarTypeOK'
  BY <1>1, <1>2, <1>7 DEF AsarTypeOK, FilesOf
<1>9. AtEnd' /\ KeptOutInHeader' /\ DirsAreMade'
  BY <1>1 DEF AtEnd, KeptOutInHeader, DirsAreMade, AsarInv, InHeader
<1>10. \A s, i : InHeader(s, i) /\ InHeader(s, i)'
  BY <1>1 DEF InHeader
<1>11. NodesAreRight(start)'
  BY <1>1, <1>5, <1>10, NodesStay
<1>12. StartsFollow(start)'
  BY <1>1, <1>5, <1>10, PlacesStay DEF StartsFollow
<1>13. BytesInPlace(start)'
  <2>1. Len(archive') = start[<<set', index'>>]
    BY <1>1, <1>2, <1>5, <1>6, <1>7, <1>10 DEF StartsFollow
  <2>2. ASSUME NEW s \in DOMAIN fileSets, NEW i \in DOMAIN FilesOf(s), Written(s, i)',
               <<s, i>> \notin keptOut
        PROVE  /\ start[<<s, i>>] + size(s, i) <= Len(archive')
               /\ \A k \in 1..size(s, i) : archive'[start[<<s, i>>] + k] = <<s, i, k>>
    <3>1. size(s, i) \in Nat /\ s \in Nat /\ i \in Nat /\ start[<<s, i>>] \in Nat
      BY <1>1, AsarFiles DEF Position
    <3>2. Written(s, i) \/ (s = set /\ i = index)
      BY <1>1, <1>2, <2>2, <3>1 DEF Written
    <3> DEFINE first == start[<<s, i>>]
               after == Len(archive')
    <3>5. archive' \in Seq(Nat \X Nat \X Nat) /\ after = Len(archive) + Room(set, index)
      BY <1>7
    <3> HIDE DEF size, first, after
    <3>3. CASE Written(s, i)
      <4>1. /\ first + size(s, i) <= Len(archive)
            /\ \A k \in 1..size(s, i) : archive[first + k] = <<s, i, k>>
        BY <1>1, <1>5, <2>2, <3>3 DEF BytesInPlace, first, size
      <4>2. Room(set, index) \in Nat
        BY <1>1, <1>2, AsarFiles DEF Room
      <4>3. first \in Nat
        BY <3>1 DEF first
      <4>4. first + size(s, i) <= after
        <5> DEFINE before == Len(archive)
                   room == Room(set, index)
        <5>1. /\ before \in Nat /\ room \in Nat /\ after = before + room
              /\ first + size(s, i) <= before /\ first \in Nat /\ size(s, i) \in Nat
          BY <1>6, <3>1, <3>5, <4>1, <4>2, <4>3
        <5> HIDE DEF before, room
        <5> QED
          BY <5>1
      <4>5. \A k \in 1..size(s, i) : first + k \in 1..Len(archive)
        <5> DEFINE before == Len(archive)
                   room == size(s, i)
        <5>1. before \in Nat /\ room \in Nat /\ first + room <= before /\ first \in Nat
          BY <1>6, <3>1, <4>1, <4>3
        <5> HIDE DEF before, room
        <5>2. \A k \in 1..room : first + k \in 1..before
          BY <5>1
        <5> QED
          BY <5>2 DEF before, room
      <4>6. \A k \in 1..size(s, i) : archive'[first + k] = <<s, i, k>>
        BY <1>7, <4>1, <4>5
      <4> QED
        BY <4>4, <4>6 DEF first, after
    <3>4. CASE s = set /\ i = index
      <4>1. first = Len(archive) /\ Room(set, index) = size(s, i)
        BY <1>6, <2>2, <3>4 DEF Room, first, size
      <4>2. first + size(s, i) <= after
        BY <1>6, <3>1, <3>5, <4>1
      <4>3. \A k \in 1..size(s, i) : archive'[first + k] = <<s, i, k>>
        BY <1>7, <2>2, <3>4, <4>1 DEF size
      <4> QED
        BY <4>2, <4>3 DEF first, after
    <3> QED
      BY <3>2, <3>3, <3>4
  <2>3. ASSUME NEW s \in DOMAIN fileSets', NEW i \in DOMAIN FilesOf(s)',
               Written(s, i)' /\ <<s, i>> \notin keptOut'
        PROVE  (/\ start[<<s, i>>] + SizeOf(FileAt(s, i)) <= Len(archive)
                /\ \A k \in 1..SizeOf(FileAt(s, i)) : archive[start[<<s, i>>] + k] = <<s, i, k>>)'
    <3>1. /\ s \in DOMAIN fileSets /\ i \in DOMAIN FilesOf(s) /\ <<s, i>> \notin keptOut
          /\ SizeOf(FileAt(s, i))' = SizeOf(FileAt(s, i))
      BY <1>1, <2>3, PlacesStay
    <3> QED
      BY <2>2, <2>3, <3>1
  <2> QED
    BY <1>1, <2>1, <2>3 DEF BytesInPlace
<1> QED
  BY <1>5, <1>8, <1>9, <1>11, <1>12, <1>13 DEF AsarInv

LEMMA WrittenSetStep ==
  ASSUME AsarInv, WrittenSet
  PROVE  AsarInv'
<1>1. /\ AsarTypeOK /\ phase = "write" /\ ~(index <= Len(FilesOf(set)))
      /\ UNCHANGED <<fileSets, unpackedDirs, made, nodes, dirNodes, nextOffset,
                     keptOut, copied, archive>>
      /\ HeaderDone
  BY DEF AsarInv, WrittenSet, InPhase, HeaderDone
<1>2. /\ set \in DOMAIN fileSets /\ set \in Nat /\ index = Len(FilesOf(set)) + 1
      /\ Len(fileSets) \in Nat /\ set <= Len(fileSets) /\ DOMAIN fileSets = 1..Len(fileSets)
  BY <1>1, AsarFiles DEF AsarTypeOK
<1>3. \/ set < Len(fileSets) /\ set' = set + 1 /\ index' = 1 /\ phase' = phase
      \/ set = Len(fileSets) /\ phase' = "packed" /\ set' = set /\ index' = index
  BY <1>2 DEF WrittenSet
<1>4. HeaderDone' /\ \A s, i : InHeader(s, i) /\ InHeader(s, i)'
  BY <1>1, <1>3 DEF HeaderDone, InHeader
<1>5. PICK start \in [Position -> Nat] :
          NodesAreRight(start) /\ StartsFollow(start) /\ BytesInPlace(start)
  BY DEF AsarInv
<1>6. AsarTypeOK'
  <2>1. set' \in DOMAIN fileSets /\ \A s : FilesOf(s)' = FilesOf(s)
    BY <1>1, <1>2, <1>3 DEF FilesOf
  <2>2. Len(FilesOf(set')) \in Nat
    BY <1>1, <2>1, AsarFiles
  <2>3. index' \in 1..(Len(FilesOf(set')) + 1) /\ FilesOf(set)' = FilesOf(set')
    BY <1>1, <1>2, <1>3, <2>2 DEF AsarTypeOK, FilesOf
  <2> QED
    BY <1>1, <1>2, <1>3, <2>1, <2>3 DEF AsarTypeOK
<1>7. AtEnd' /\ KeptOutInHeader' /\ DirsAreMade'
  BY <1>1, <1>2, <1>3, <1>4 DEF AtEnd, KeptOutInHeader, DirsAreMade, AsarInv, FilesOf
<1>8. NodesAreRight(start)'
  BY <1>1, <1>4, <1>5, NodesStay
<1>9. StartsFollow(start)'
  BY <1>1, <1>4, <1>5, PlacesStay DEF StartsFollow
<1>10. BytesInPlace(start)'
  <2>1. Len(archive') = start[<<set', index'>>]
    BY <1>1, <1>2, <1>3, <1>5 DEF BytesInPlace, StartsFollow
  <2>2. ASSUME NEW s \in DOMAIN fileSets, NEW i \in DOMAIN FilesOf(s), Written(s, i)'
        PROVE  Written(s, i)
    <3>1. s \in Nat /\ i \in Nat /\ i <= Len(FilesOf(s)) /\ ~(i < 1)
      BY <1>1, AsarFiles
    <3>2. Len(FilesOf(s)) \in Nat
      BY <1>1, AsarFiles
    <3> QED
      BY <1>2, <1>3, <2>2, <3>1, <3>2 DEF Written
  <2>3. ASSUME NEW s \in DOMAIN fileSets', NEW i \in DOMAIN FilesOf(s)',
               Written(s, i)' /\ <<s, i>> \notin keptOut'
        PROVE  (/\ start[<<s, i>>] + SizeOf(FileAt(s, i)) <= Len(archive)
                /\ \A k \in 1..SizeOf(FileAt(s, i)) : archive[start[<<s, i>>] + k] = <<s, i, k>>)'
    <3>1. /\ s \in DOMAIN fileSets /\ i \in DOMAIN FilesOf(s) /\ <<s, i>> \notin keptOut
          /\ SizeOf(FileAt(s, i))' = SizeOf(FileAt(s, i)) /\ archive' = archive
      BY <1>1, <2>3, PlacesStay
    <3>2. Written(s, i)
      BY <2>2, <2>3, <3>1
    <3> QED
      BY <1>1, <1>5, <3>1, <3>2 DEF BytesInPlace
  <2> QED
    BY <1>4, <2>1, <2>3 DEF BytesInPlace
<1> QED
  BY <1>5, <1>6, <1>7, <1>8, <1>9, <1>10 DEF AsarInv

THEOREM AsarInvariant == AsarSpec => []AsarInv
<1>1. AsarInv /\ [AsarNext]_asarVars => AsarInv'
  <2> SUFFICES ASSUME AsarInv, [AsarNext]_asarVars PROVE AsarInv'
    OBVIOUS
  <2>1. CASE UNCHANGED asarVars
    <3>1. UNCHANGED <<fileSets, phase, set, index, unpackedDirs, made, nodes, dirNodes, nextOffset,
                      keptOut, copied, archive>>
      BY <2>1 DEF asarVars
    <3>2. \A s, i : InHeader(s, i)' = InHeader(s, i) /\ Written(s, i)' = Written(s, i)
      BY <3>1 DEF InHeader, Written, HeaderDone
    <3>3. AsarTypeOK /\ AsarTypeOK' /\ AtEnd' /\ KeptOutInHeader' /\ DirsAreMade'
      BY <3>1, <3>2 DEF AsarInv, AsarTypeOK, AtEnd, KeptOutInHeader, DirsAreMade, FilesOf
    <3>4. PICK start \in [Position -> Nat] :
              NodesAreRight(start) /\ StartsFollow(start) /\ BytesInPlace(start)
      BY DEF AsarInv
    <3>5. NodesAreRight(start)'
      BY <3>1, <3>2, <3>3, <3>4, NodesStay
    <3>6. StartsFollow(start)'
      BY <3>1, <3>2, <3>4, PlacesStay DEF StartsFollow, HeaderDone
    <3>7. BytesInPlace(start)'
      <4>1. HeaderDone' = HeaderDone /\ archive' = archive /\ set' = set /\ index' = index
        BY <3>1 DEF HeaderDone
      <4>2. ASSUME HeaderDone, NEW s \in DOMAIN fileSets', NEW i \in DOMAIN FilesOf(s)',
                   Written(s, i)' /\ <<s, i>> \notin keptOut'
            PROVE  (/\ start[<<s, i>>] + SizeOf(FileAt(s, i)) <= Len(archive)
                    /\ \A k \in 1..SizeOf(FileAt(s, i)) : archive[start[<<s, i>>] + k] = <<s, i, k>>)'
        <5>1. /\ s \in DOMAIN fileSets /\ i \in DOMAIN FilesOf(s) /\ <<s, i>> \notin keptOut
              /\ SizeOf(FileAt(s, i))' = SizeOf(FileAt(s, i)) /\ Written(s, i)
          BY <3>1, <3>2, <4>2, PlacesStay
        <5> QED
          BY <3>4, <4>1, <4>2, <5>1 DEF BytesInPlace
      <4> QED
        BY <3>4, <4>1, <4>2 DEF BytesInPlace
    <3> QED
      BY <3>3, <3>4, <3>5, <3>6, <3>7 DEF AsarInv
  <2> QED
    BY <2>1, DetectSteps, HeaderFileStep, HeaderOfSetStep, WriteFileStep, WrittenSetStep
       DEF AsarNext
<1> QED
  BY <1>1, AsarInitInv, PTL DEF AsarSpec

(***************************************************************************)
(* Whatever files an application has, in however many sets: the loop that  *)
(* makes the header and the loop that writes the bytes agree where each    *)
(* file is, and what is kept out is copied to a directory that was made.   *)
(***************************************************************************)
THEOREM EveryFileIsWhereTheHeaderSays == AsarSpec => []EveryFileIsFound
<1>1. AsarInv => EveryFileIsFound
  <2> SUFFICES ASSUME AsarInv, phase = "packed",
                      NEW s \in DOMAIN fileSets, NEW i \in DOMAIN FilesOf(s),
                      FileAt(s, i).kind # "link"
               PROVE  LET n == NodeOf(s, i) IN
                      IF n.unpacked
                      THEN n.of \in copied /\ FilesOf(n.of[1])[n.of[2]].dir \in made \union {<<>>}
                      ELSE SubSeq(archive, n.offset + 1, n.offset + n.size) = BytesOf(n.of[1], n.of[2])
    BY DEF EveryFileIsFound, Packable, FileAt
  <2>1. AsarTypeOK /\ HeaderDone /\ set = Len(fileSets) /\ index = Len(FilesOf(set)) + 1
    BY DEF AsarInv, AtEnd, HeaderDone
  <2>2. PICK start \in [Position -> Nat] :
            NodesAreRight(start) /\ StartsFollow(start) /\ BytesInPlace(start)
    BY DEF AsarInv
  <2> DEFINE path == PathOf(FileAt(s, i))
  <2>3. path \in DOMAIN nodes /\ ~IsLink(path) /\ NodeOf(s, i) = nodes[path]
    <3>1. path \in DOMAIN nodes
      BY <2>1, <2>2 DEF NodesAreRight, InHeader
    <3>2. ~IsLink(path)
      <4>1. \A u, v \in DOMAIN fileSets : \A k \in DOMAIN FilesOf(u), l \in DOMAIN FilesOf(v) :
                FileAt(u, k).kind = "link" /\ FileAt(v, l).kind # "link" =>
                    PathOf(FileAt(u, k)) # PathOf(FileAt(v, l))
        BY <2>1, AsarAssumption DEF AsarTypeOK, FileAt, FilesOf, PathOf
      <4> QED
        BY <4>1 DEF IsLink
    <3> QED
      BY <3>1, <3>2 DEF NodeOf, FileAt
  <2>4. PICK t \in DOMAIN fileSets : \E j \in DOMAIN FilesOf(t) : IsNodeOf(start, path, t, j)
    BY <2>2, <2>3 DEF NodesAreRight
  <2>5. PICK j \in DOMAIN FilesOf(t) : IsNodeOf(start, path, t, j)
    BY <2>4
  <2> DEFINE n == NodeOf(s, i)
             size == SizeOf(FileAt(t, j))
  <2>6. /\ n.of = <<t, j>> /\ n.size = size /\ n.unpacked \in BOOLEAN
        /\ (n.unpacked <=> <<t, j>> \in keptOut)
        /\ n.unpacked => <<t, j>> \in copied /\ FileAt(t, j).dir \in made
        /\ ~n.unpacked => n.offset = start[<<t, j>>]
    BY <2>3, <2>5 DEF IsNodeOf
  <2>7. n.of[1] = t /\ n.of[2] = j
    BY <2>6
  <2> HIDE DEF n
  <2>8. CASE n.unpacked
    BY <2>6, <2>7, <2>8 DEF FileAt, n
  <2>9. CASE ~n.unpacked
    <3>1. size \in Nat /\ t \in Nat /\ j \in Nat /\ start[<<t, j>>] \in Nat
          /\ archive \in Seq(Nat \X Nat \X Nat)
      <4>1. size \in Nat /\ t \in Nat /\ j \in Nat
        BY <2>1, AsarFiles
      <4>2. start[<<t, j>>] \in Nat
        BY <4>1 DEF Position
      <4> QED
        BY <2>1, <4>1, <4>2 DEF AsarTypeOK
    <3>2. Written(t, j)
      <4>1. t <= set /\ set \in Nat /\ j <= Len(FilesOf(t)) /\ Len(FilesOf(t)) \in Nat
        BY <2>1, AsarFiles
      <4> QED
        BY <2>1, <3>1, <4>1 DEF Written
    <3>3. /\ start[<<t, j>>] + size <= Len(archive)
          /\ \A k \in 1..size : archive[start[<<t, j>>] + k] = <<t, j, k>>
      BY <2>1, <2>2, <2>6, <2>9, <3>2 DEF BytesInPlace
    <3>4. /\ BytesOf(t, j) \in Seq(Nat \X Nat \X Nat) /\ Len(BytesOf(t, j)) = size
          /\ \A k \in 1..size : BytesOf(t, j)[k] = <<t, j, k>>
      BY <2>1, BytesOfFile
    <3> DEFINE first == start[<<t, j>>]
               part == SubSeq(archive, first + 1, first + size)
    <3>5. first \in Nat /\ n.offset = first
      BY <2>6, <2>9, <3>1
    <3> HIDE DEF size, first
    <3>6. \A m \in (first + 1)..(first + size) : archive[m] \in Nat \X Nat \X Nat
      <4>1. Len(archive) \in Nat /\ first + size <= Len(archive)
        BY <3>1, <3>3 DEF first
      <4>2. (first + 1)..(first + size) \subseteq 1..Len(archive)
        BY <3>1, <3>5, <4>1
      <4> QED
        BY <3>1, <4>2
    <3>7. /\ part \in Seq(Nat \X Nat \X Nat)
          /\ Len(part) = IF first + 1 <= first + size THEN (first + size) - (first + 1) + 1 ELSE 0
          /\ \A k \in 1..((first + size) - (first + 1) + 1) : part[k] = archive[first + 1 + k - 1]
      <4>1. first + 1 \in Int /\ first + size \in Int
        BY <3>1, <3>5
      <4> QED
        BY <3>6, <4>1, SubSeqProperties
    <3>8. Len(part) = size /\ \A k \in 1..size : part[k] = archive[first + k]
      <4>1. (first + size) - (first + 1) + 1 = size
            /\ (first + 1 <= first + size <=> size # 0)
            /\ \A k \in 1..size : first + 1 + k - 1 = first + k
        BY <3>1, <3>5
      <4> QED
        BY <3>7, <4>1
    <3> HIDE DEF part
    <3>9. part = BytesOf(t, j)
      <4>1. \A k \in 1..size : part[k] = <<t, j, k>>
        BY <3>3, <3>8 DEF first
      <4> QED
        <5>1. part \in Seq(Nat \X Nat \X Nat) /\ BytesOf(t, j) \in Seq(Nat \X Nat \X Nat)
          BY <3>4, <3>7
        <5>2. Len(part) = Len(BytesOf(t, j)) /\ \A k \in 1..Len(part) : part[k] = BytesOf(t, j)[k]
          BY <3>4, <3>8, <4>1 DEF size
        <5> QED
          BY <5>1, <5>2, SeqEqual
    <3> QED
      BY <2>6, <2>7, <2>9, <3>5, <3>9 DEF part, n, size
  <2> QED
    BY <2>6, <2>8, <2>9
<1> QED
  BY <1>1, AsarInvariant, PTL

\* A file for which its package is unpacked, and one of the same package.
UnpacksPackage(f) == f.kind = "binary" /\ InPackage(f.dir)
OfPackageOf(f, g) == /\ UnpacksPackage(f) /\ InPackage(g.dir) /\ g.kind # "link"
                     /\ PackageDir(f.dir) = PackageDir(g.dir)

\* The packages of the files that were looked at, and of all once they are.
PackagesDetected ==
    \A i \in DOMAIN FilesOf(set) :
        /\ phase = "header" \/ (phase = "detect" /\ i < index)
        /\ UnpacksPackage(FileAt(set, i))
        => PackageDir(FileAt(set, i).dir) \in unpackedDirs

KeptWhole ==
    \A s \in DOMAIN fileSets : \A i, j \in DOMAIN FilesOf(s) :
        InHeader(s, j) /\ OfPackageOf(FileAt(s, i), FileAt(s, j)) => <<s, j>> \in keptOut

WholeInv == PackagesDetected /\ (LongNames => KeptWhole)

LEMMA PackageDirOf ==
  ASSUME NEW dir \in Seq(STRING), InPackage(dir)
  PROVE  /\ PackageDir(dir) = dir \/ IsStrictPrefix(PackageDir(dir), dir)
         /\ PackageDir(dir) \in Parents(PackageDir(dir), dir)
         /\ Len(dir) \in Nat \ {0}
<1> DEFINE root == PackageDir(dir)
           n == LastModules(dir) + 1
<1>1. Len(dir) \in Nat /\ n \in 2..Len(dir) /\ root = SubSeq(dir, 1, n)
  BY DEF InPackage, PackageDir
<1> HIDE DEF n, root
<1>2. root \in Seq(STRING) /\ Len(root) = n /\ \A k \in 1..n : root[k] = dir[k]
  <2>1. 1 \in Int /\ n \in Int /\ \A k \in 1..n : dir[k] \in STRING
    BY <1>1
  <2>2. /\ root \in Seq(STRING) /\ Len(root) = IF 1 <= n THEN n - 1 + 1 ELSE 0
        /\ \A k \in 1..(n - 1 + 1) : root[k] = dir[1 + k - 1]
    BY <1>1, <2>1, SubSeqProperties
  <2>3. 1 <= n /\ n - 1 + 1 = n /\ \A k \in 1..n : 1 + k - 1 = k
    BY <1>1
  <2> QED
    BY <2>2, <2>3
<1>3. SubSeq(root, 1, Len(root)) = root
  <2>1. 1 \in Int /\ n \in Int /\ \A k \in 1..n : root[k] \in STRING
    BY <1>1, <1>2
  <2>2. /\ SubSeq(root, 1, n) \in Seq(STRING)
        /\ Len(SubSeq(root, 1, n)) = IF 1 <= n THEN n - 1 + 1 ELSE 0
        /\ \A k \in 1..(n - 1 + 1) : SubSeq(root, 1, n)[k] = root[1 + k - 1]
    BY <2>1, SubSeqProperties
  <2>3. 1 <= n /\ n - 1 + 1 = n /\ \A k \in 1..n : 1 + k - 1 = k
    BY <1>1
  <2> DEFINE part == SubSeq(root, 1, n)
  <2>4. part \in Seq(STRING) /\ Len(part) = n /\ \A k \in 1..n : part[k] = root[k]
    BY <2>2, <2>3
  <2> HIDE DEF part
  <2>5. part = root
    BY <1>2, <2>4, SeqEqual
  <2> QED
    BY <1>2, <2>5 DEF part
<1>4. IsPrefix(root, dir)
  BY <1>1, <1>2, <1>3 DEF IsPrefix
<1>5. root \in Parents(root, dir)
  <2>1. n \in Len(root)..Len(dir)
    BY <1>1, <1>2
  <2> QED
    BY <1>1, <2>1 DEF Parents
<1>6. Len(dir) \in Nat \ {0}
  BY <1>1
<1>7. root = dir \/ IsStrictPrefix(root, dir)
  BY <1>4 DEF IsStrictPrefix
<1> QED
  BY <1>5, <1>6, <1>7 DEF root

\* A file below the directory of an unpacked package is kept out of the archive.
LEMMA KeptWithPackage ==
  ASSUME AsarInv, HeaderFile, LongNames, InPackage(File.dir), File.kind # "link",
         PackageDir(File.dir) \in unpackedDirs
  PROVE  <<set, index>> \in keptOut'
<1> DEFINE dir == File.dir
           root == PackageDir(dir)
<1>1. /\ set \in DOMAIN fileSets /\ index \in DOMAIN FilesOf(set) /\ AsarTypeOK
  <2>1. AsarTypeOK /\ index <= Len(FilesOf(set))
    BY DEF AsarInv, HeaderFile, InPhase
  <2>2. /\ set \in DOMAIN fileSets /\ index \in 1..(Len(FilesOf(set)) + 1)
        /\ Len(FilesOf(set)) \in Nat /\ DOMAIN FilesOf(set) = 1..Len(FilesOf(set))
    BY <2>1, AsarFiles DEF AsarTypeOK
  <2> QED
    BY <2>1, <2>2
<1>2. dir \in Seq(STRING)
  BY <1>1, AsarAssumption DEF AsarTypeOK, File, FilesOf
<1>3. /\ root = dir \/ IsStrictPrefix(root, dir)
      /\ Len(dir) \in Nat \ {0}
  BY <1>2, PackageDirOf
<1>4. Len(dir) \in DOMAIN dir
  BY <1>2, <1>3
<1>5. Last(dir) \notin ShortNames /\ dir # <<>>
  <2>1. Last(dir) \notin ShortNames
    BY <1>1, <1>4 DEF LongNames, Last, File, FilesOf
  <2>2. dir # <<>>
    BY <1>3
  <2> QED
    BY <2>1, <2>2
<1>6. IsDirUnpacked(dir)
  BY <1>3, <1>5 DEF IsDirUnpacked, Corrected, Below
<1>7. AddFile(File)
  BY DEF HeaderFile
<1> QED
  BY <1>6, <1>7 DEF AddFile

LEMMA WholeStep ==
  ASSUME AsarInv, WholeInv, [AsarNext]_asarVars
  PROVE  WholeInv'
<1>1. AsarTypeOK
  BY DEF AsarInv
<1>2. /\ set \in DOMAIN fileSets /\ set \in Nat /\ index \in Nat /\ fileSets' = fileSets
      /\ \A s \in DOMAIN fileSets : s \in Nat
             /\ \A i \in DOMAIN FilesOf(s) : i \in Nat /\ ~(i < 1) /\ i <= Len(FilesOf(s))
      /\ Len(FilesOf(set)) \in Nat
  BY <1>1, AsarFiles DEF AsarNext, DetectFile, Detected, HeaderFile, HeaderOfSet, WriteFile,
                         WrittenSet, AddLink, AddFile, asarVars
<1>3. /\ \A s : FilesOf(s)' = FilesOf(s) /\ \A i : FileAt(s, i)' = FileAt(s, i)
      /\ LongNames' = LongNames
  BY <1>2 DEF FilesOf, FileAt, LongNames
<1>4. \A f, g : UnpacksPackage(f)' = UnpacksPackage(f) /\ OfPackageOf(f, g)' = OfPackageOf(f, g)
  BY DEF UnpacksPackage, OfPackageOf
<1>12. ASSUME set' = set,
              \A i \in DOMAIN FilesOf(set) :
                  /\ phase' = "header" \/ (phase' = "detect" /\ i < index')
                  /\ UnpacksPackage(FileAt(set, i))
                  => PackageDir(FileAt(set, i).dir) \in unpackedDirs'
       PROVE  PackagesDetected'
  BY <1>2, <1>12 DEF PackagesDetected, FileAt, FilesOf
<1>5. ASSUME keptOut \subseteq keptOut',
             \A s \in DOMAIN fileSets : \A i \in DOMAIN FilesOf(s) : InHeader(s, i)' => InHeader(s, i)
      PROVE  (LongNames => KeptWhole)'
  BY <1>2, <1>3, <1>5 DEF WholeInv, KeptWhole, OfPackageOf, UnpacksPackage
<1>6. CASE DetectFile
  <2>1. /\ phase = "detect" /\ phase' = phase /\ set' = set /\ index' = index + 1 /\ keptOut' = keptOut
        /\ unpackedDirs \subseteq unpackedDirs' /\ index <= Len(FilesOf(set))
    BY <1>6 DEF DetectFile, InPhase, NextFile
  <2>2. UnpacksPackage(File) => PackageDir(File.dir) \in unpackedDirs'
    <3> SUFFICES ASSUME UnpacksPackage(File) PROVE PackageDir(File.dir) \in unpackedDirs'
      OBVIOUS
    <3>1. index \in DOMAIN FilesOf(set)
      <4>1. index \in 1..(Len(FilesOf(set)) + 1) /\ DOMAIN FilesOf(set) = 1..Len(FilesOf(set))
        BY <1>1, <1>2, AsarFiles DEF AsarTypeOK
      <4> QED
        BY <1>2, <2>1, <4>1
    <3>2. File.dir \in Seq(STRING)
      BY <1>1, <1>2, <3>1, AsarAssumption DEF AsarTypeOK, File, FilesOf
    <3>3. PackageDir(File.dir) \in Parents(PackageDir(File.dir), File.dir)
      BY <3>2, PackageDirOf DEF UnpacksPackage
    <3>4. unpackedDirs' = unpackedDirs \union Parents(PackageDir(File.dir), File.dir)
      BY <1>6 DEF DetectFile, UnpacksPackage
    <3> QED
      BY <3>3, <3>4
  <2>3. ASSUME NEW i \in DOMAIN FilesOf(set), i < index + 1, UnpacksPackage(FileAt(set, i))
        PROVE  PackageDir(FileAt(set, i).dir) \in unpackedDirs'
    <3>1. i < index \/ i = index
      BY <1>2, <2>3
    <3>2. CASE i < index
      BY <2>1, <2>3, <3>2 DEF WholeInv, PackagesDetected
    <3>3. CASE i = index
      BY <2>2, <2>3, <3>3 DEF File, FileAt
    <3> QED
      BY <3>1, <3>2, <3>3
  <2>4. PackagesDetected'
    BY <1>12, <2>1, <2>3
  <2>5. \A s, i : InHeader(s, i)' => InHeader(s, i)
    BY <2>1 DEF InHeader, HeaderDone
  <2> QED
    BY <1>5, <2>1, <2>4, <2>5 DEF WholeInv
<1>7. CASE Detected
  <2>1. /\ phase = "detect" /\ phase' = "header" /\ set' = set /\ index' = 1 /\ keptOut' = keptOut
        /\ unpackedDirs' = unpackedDirs /\ ~(index <= Len(FilesOf(set)))
    BY <1>7 DEF Detected, InPhase
  <2>2. \A i \in DOMAIN FilesOf(set) : i < index
    BY <1>2, <2>1
  <2>3. PackagesDetected'
    BY <1>12, <2>1, <2>2 DEF WholeInv, PackagesDetected
  <2>4. \A s \in DOMAIN fileSets : \A i \in DOMAIN FilesOf(s) : InHeader(s, i)' => InHeader(s, i)
    BY <1>2, <2>1 DEF InHeader, HeaderDone
  <2> QED
    BY <1>5, <2>1, <2>3, <2>4 DEF WholeInv
<1>8. CASE HeaderFile
  <2>1. /\ phase = "header" /\ phase' = phase /\ set' = set /\ index' = index + 1
        /\ unpackedDirs \subseteq unpackedDirs'
    BY <1>8 DEF HeaderFile, InPhase, NextFile, AddLink, AddFile
  <2>2. keptOut \subseteq keptOut'
    BY <1>8, FileAdded
  <2>3. PackagesDetected'
    BY <1>12, <2>1 DEF WholeInv, PackagesDetected
  <2>4. ASSUME LongNames, NEW s \in DOMAIN fileSets, NEW i \in DOMAIN FilesOf(s),
               NEW j \in DOMAIN FilesOf(s), InHeader(s, j)', OfPackageOf(FileAt(s, i), FileAt(s, j))
        PROVE  <<s, j>> \in keptOut'
    <3>1. InHeader(s, j) \/ (s = set /\ j = index)
      BY <1>2, <2>1, <2>4 DEF InHeader, HeaderDone
    <3>2. CASE InHeader(s, j)
      BY <2>2, <2>4, <3>2 DEF WholeInv, KeptWhole
    <3>3. CASE s = set /\ j = index
      <4>1. FileAt(s, j) = File
        BY <3>3 DEF File, FileAt
      <4>2. PackageDir(FileAt(s, i).dir) \in unpackedDirs
        BY <2>1, <2>4, <3>3 DEF WholeInv, PackagesDetected, OfPackageOf
      <4> QED
        BY <1>8, <2>4, <3>3, <4>1, <4>2, KeptWithPackage DEF OfPackageOf
    <3> QED
      BY <3>1, <3>2, <3>3
  <2>5. (LongNames => KeptWhole)'
    BY <1>2, <1>3, <1>4, <2>4 DEF KeptWhole
  <2> QED
    BY <2>3, <2>5 DEF WholeInv
<1>9. CASE HeaderOfSet
  <2>1. phase' \in {"detect", "write"} /\ index' = 1 /\ keptOut' = keptOut
    BY <1>1, <1>9, SetInHeader DEF HeaderOfSet
  <2>2. set' \in DOMAIN fileSets
    BY <1>1, <1>9, SetInHeader, AsarFiles
  <2>3. PackagesDetected'
    BY <1>2, <1>3, <2>1, <2>2 DEF PackagesDetected
  <2>4. \A s \in DOMAIN fileSets : \A i \in DOMAIN FilesOf(s) : InHeader(s, i)' => InHeader(s, i)
    BY <1>1, <1>9, SetInHeader
  <2> QED
    BY <1>5, <2>1, <2>3, <2>4 DEF WholeInv
<1>10. CASE WriteFile \/ WrittenSet
  <2>1. /\ phase = "write" /\ phase' \in {"write", "packed"} /\ keptOut' = keptOut
    BY <1>10 DEF WriteFile, WrittenSet, InPhase, NextFile
  <2>2. \A s, i : InHeader(s, i)
    BY <2>1 DEF InHeader, HeaderDone
  <2>3. PackagesDetected'
    BY <2>1 DEF PackagesDetected
  <2> QED
    BY <1>5, <2>1, <2>2, <2>3 DEF WholeInv
<1>11. CASE UNCHANGED asarVars
  <2>1. /\ phase' = phase /\ set' = set /\ index' = index /\ keptOut' = keptOut
        /\ unpackedDirs' = unpackedDirs
    BY <1>11 DEF asarVars
  <2>2. \A s, i : InHeader(s, i)' => InHeader(s, i)
    BY <2>1 DEF InHeader, HeaderDone
  <2>3. PackagesDetected'
    BY <1>12, <2>1 DEF WholeInv, PackagesDetected
  <2> QED
    BY <1>5, <2>1, <2>2, <2>3 DEF WholeInv
<1> QED
  BY <1>6, <1>7, <1>8, <1>9, <1>10, <1>11 DEF AsarNext

(***************************************************************************)
(* Whatever packages an application has: if one has a file that must be on *)
(* the disk, all its files are there, directories with names of one letter *)
(* aside.                                                                  *)
(***************************************************************************)
THEOREM PackagesAreKeptWhole == AsarSpec => []PackagesStayWhole
<1>1. AsarInit => WholeInv
  <2> SUFFICES ASSUME AsarInit PROVE WholeInv
    OBVIOUS
  <2>1. AsarTypeOK
    BY AsarInitInv DEF AsarInv
  <2>2. PackagesDetected
    BY <2>1, AsarFiles DEF AsarInit, PackagesDetected
  <2>3. \A s \in DOMAIN fileSets : \A i \in DOMAIN FilesOf(s) : ~InHeader(s, i)
    BY <2>1, AsarFiles DEF AsarInit, InHeader, HeaderDone
  <2> QED
    BY <2>2, <2>3 DEF WholeInv, KeptWhole
<1>2. AsarInv /\ WholeInv => PackagesStayWhole
  <2> SUFFICES ASSUME AsarInv, WholeInv, LongNames, phase = "packed",
                      NEW s \in DOMAIN fileSets, NEW i \in DOMAIN FilesOf(s),
                      NEW t \in DOMAIN fileSets, NEW j \in DOMAIN FilesOf(t),
                      OfPackageOf(FileAt(s, i), FileAt(t, j))
               PROVE  NodeOf(t, j).unpacked
    BY DEF PackagesStayWhole, WholePackages, Packable, OfPackageOf, UnpacksPackage, FileAt
  <2>1. AsarTypeOK /\ HeaderDone /\ KeptWhole
    BY DEF AsarInv, HeaderDone, WholeInv
  <2>2. PICK start \in [Position -> Nat] : NodesAreRight(start)
    BY DEF AsarInv
  <2> DEFINE path == PathOf(FileAt(t, j))
  <2>3. path \in DOMAIN nodes /\ ~IsLink(path) /\ NodeOf(t, j) = nodes[path]
    <3>1. path \in DOMAIN nodes
      BY <2>1, <2>2 DEF NodesAreRight, InHeader
    <3>2. ~IsLink(path)
      <4>1. \A u, v \in DOMAIN fileSets : \A k \in DOMAIN FilesOf(u), l \in DOMAIN FilesOf(v) :
                FileAt(u, k).kind = "link" /\ FileAt(v, l).kind # "link" =>
                    PathOf(FileAt(u, k)) # PathOf(FileAt(v, l))
        BY <2>1, AsarAssumption DEF AsarTypeOK, FileAt, FilesOf, PathOf
      <4> QED
        BY <4>1 DEF IsLink, OfPackageOf
    <3> QED
      BY <3>1, <3>2 DEF NodeOf, FileAt
  <2>4. PICK u \in DOMAIN fileSets : \E l \in DOMAIN FilesOf(u) : IsNodeOf(start, path, u, l)
    BY <2>2, <2>3 DEF NodesAreRight
  <2>5. PICK l \in DOMAIN FilesOf(u) : IsNodeOf(start, path, u, l)
    BY <2>4
  <2>6. /\ PathOf(FileAt(u, l)) = path /\ FileAt(u, l).kind # "link"
        /\ <<u, l>> \in keptOut => nodes[path].unpacked
    BY <2>5 DEF IsNodeOf
  <2>7. FileAt(u, l).dir = FileAt(t, j).dir
    <3>1. /\ FileAt(u, l).dir \in Seq(STRING) /\ FileAt(u, l).name \in STRING
          /\ FileAt(t, j).dir \in Seq(STRING) /\ FileAt(t, j).name \in STRING
      BY <2>1, AsarAssumption DEF AsarTypeOK, FileAt, FilesOf
    <3> DEFINE d == FileAt(u, l).dir  m == FileAt(u, l).name
               e == FileAt(t, j).dir  o == FileAt(t, j).name
    <3>2. Append(d, m) = Append(e, o)
      BY <2>6 DEF PathOf
    <3> HIDE DEF d, m, e, o
    <3>3. d \in Seq(STRING) /\ m \in STRING /\ e \in Seq(STRING) /\ o \in STRING
      BY <3>1 DEF d, m, e, o
    <3>4. d = e
      BY <3>2, <3>3, AppendInjective
    <3> QED
      BY <3>4 DEF d, e
  <2>8. OfPackageOf(FileAt(s, i), FileAt(u, l))
    BY <2>6, <2>7 DEF OfPackageOf
  <2>9. s = u
    BY <2>1, <2>8, PackagesAssumption
       DEF OfPackageOf, UnpacksPackage, AsarTypeOK, FileAt, FilesOf
  <2>10. <<u, l>> \in keptOut
    BY <2>1, <2>8, <2>9 DEF KeptWhole, InHeader
  <2> QED
    BY <2>3, <2>6, <2>10
<1> QED
  BY <1>1, <1>2, WholeStep, AsarInvariant, PTL DEF AsarSpec
=============================================================================
