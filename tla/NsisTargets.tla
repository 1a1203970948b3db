----------------------------- MODULE NsisTargets -----------------------------
(***************************************************************************)
(* NsisTargets: the Windows installers of a build.  nsis and portable      *)
(* embed the same package of the application, one for each architecture:   *)
(* whoever asks first makes it, and the last to finish deletes it.  The    *)
(* web installer has packages of its own, which are published.             *)
(*                                                                         *)
(* An AppPackageHelper is made per call of createTargets, that is per      *)
(* architecture, but a target keeps the helper of its first one.           *)
(***************************************************************************)
EXTENDS Integers, Sequences, FiniteSetsExt

CONSTANT Orders  \* what may be built: sequences of the targets of each architecture

Targets == {"nsis", "portable", "web"}
Web == 0         \* the helper of the web installer, the others are numbered from 1
NoFile == [by |-> -1, whole |-> FALSE]

\* A sequence of sets of these.
ASSUME NsisAssumption == \A o \in Orders : o \in Seq(SUBSET Targets)

VARIABLES
    order,     \* one of Orders, and it does not change
    stage,     \* of a target: "start", "packing", "compile", "release" or "ended"
    branch,    \* of a target's map over its architectures
    job,       \* archToFileInfo of a helper: "none", "remove", "write", "done" or "failed"
    package,   \* on the disk, of the web installer and of the others
    isDelete,  \* infoToIsDelete of a helper: "unset", "delete" or "keep"
    refCount   \* of a helper

nsisVars == <<order, stage, branch, job, package, isDelete, refCount>>

ArchsOf(t) == {a \in DOMAIN order : t \in order[a]}
Wanted == {t \in Targets : ArchsOf(t) # {}}
HelperOf(t) == IF t = "web" THEN Web ELSE Min(ArchsOf(t))
Helpers == {HelperOf(t) : t \in Wanted}
Place(h, a) == <<h = Web, a>>

NsisInit ==
    /\ order \in Orders
    /\ stage = [t \in Wanted |-> "start"]
    /\ branch = [t \in Wanted |-> [a \in ArchsOf(t) |-> "none"]]
    /\ job = [h \in Helpers |-> [a \in DOMAIN order |-> "none"]]
    /\ package = [p \in BOOLEAN \X DOMAIN order |-> NoFile]
    /\ isDelete = [h \in Helpers |-> [a \in DOMAIN order |-> "unset"]]
    /\ refCount = [h \in Helpers |-> Cardinality({t \in Wanted : HelperOf(t) = h})]

GoTo(t, where) == stage' = [stage EXCEPT ![t] = where]
Branch(t, a, where) == branch' = [branch EXCEPT ![t][a] = where]

-----------------------------------------------------------------------------
\* AppPackageHelper.packArch

\* buildInstaller up to its map, which asks for all packages at once.
Begin(t) ==
    /\ stage[t] = "start"
    /\ \/ /\ GoTo(t, "packing")
          /\ branch' = [branch EXCEPT ![t] = [a \in ArchsOf(t) |-> "wait"]]
          /\ job' = [job EXCEPT ![HelperOf(t)] =
                        [a \in DOMAIN order |->
                            IF a \in ArchsOf(t) /\ @[a] = "none" THEN "remove" ELSE @[a]]]
       \/ GoTo(t, "release") /\ UNCHANGED <<branch, job>>
    /\ UNCHANGED <<order, package, isDelete, refCount>>

\* archive: what is there is removed, then 7z writes.
Archive(h, a) ==
    /\ job[h][a] = "remove"
    /\ job' = [job EXCEPT ![h][a] = "write"]
    /\ package' = [package EXCEPT ![Place(h, a)] = [by |-> h, whole |-> FALSE]]
    /\ UNCHANGED <<order, stage, branch, isDelete, refCount>>

Archived(h, a) ==
    /\ job[h][a] = "write"
    /\ \/ /\ job' = [job EXCEPT ![h][a] = "done"]
          /\ package' = [package EXCEPT ![Place(h, a)] = [by |-> h, whole |-> TRUE]]
       \/ job' = [job EXCEPT ![h][a] = "failed"] /\ UNCHANGED package
    /\ UNCHANGED <<order, stage, branch, isDelete, refCount>>

FlagFor(t, flag) ==
    CASE t = "web" -> "keep"
      [] t # "web" /\ flag = "unset" -> "delete"
      [] OTHER -> flag

Packed(t, a) ==
    LET h == HelperOf(t) IN
    /\ branch[t][a] = "wait" /\ job[h][a] = "done"
    /\ isDelete' = [isDelete EXCEPT ![h][a] = FlagFor(t, @)]
    /\ Branch(t, a, "list")
    /\ UNCHANGED <<order, stage, job, package, refCount>>

-----------------------------------------------------------------------------
\* NsisTarget.buildInstaller and finishBuild

\* 7z lists the package.
Listed(t, a) ==
    /\ branch[t][a] = "list"
    /\ Branch(t, a, "done")
    /\ UNCHANGED <<order, stage, job, package, isDelete, refCount>>

\* The first branch that fails ends the map; the others go on.
BranchFails(t, a) ==
    /\ \/ branch[t][a] = "wait" /\ job[HelperOf(t)][a] = "failed"
       \/ branch[t][a] = "list"
    /\ Branch(t, a, "failed")
    /\ IF stage[t] = "packing" THEN GoTo(t, "release") ELSE UNCHANGED stage
    /\ UNCHANGED <<order, job, package, isDelete, refCount>>

Compile(t) ==
    /\ stage[t] = "packing"
    /\ \A a \in ArchsOf(t) : branch[t][a] = "done"
    /\ GoTo(t, "compile")
    /\ UNCHANGED <<order, branch, job, package, isDelete, refCount>>

OnlyIfBuilt == {"release", "ended"}                                  \* mutant
AfterCompile == {"release"}

\* The installer is made, signed and announced, or not: finally comes anyway.
Compiled(t) ==
    /\ stage[t] = "compile"
    /\ \E next \in AfterCompile : GoTo(t, next)
    /\ UNCHANGED <<order, branch, job, package, isDelete, refCount>>

OffByOne(h) == refCount[h] - 1 <= 1                                  \* mutant
IsLast(h) == refCount[h] - 1 <= 0

Leftovers(h) == {Place(h, a) : a \in {b \in DOMAIN order : isDelete[h][b] = "delete"}}

Release(t) ==
    LET h == HelperOf(t) IN
    /\ stage[t] = "release"
    /\ refCount' = [refCount EXCEPT ![h] = @ - 1]
    /\ package' = IF IsLast(h) THEN [p \in DOMAIN package |->
                                        IF p \in Leftovers(h) THEN NoFile ELSE package[p]]
                  ELSE package
    /\ GoTo(t, "ended")
    /\ UNCHANGED <<order, branch, job, isDelete>>

TargetStep(t) ==
    \/ Begin(t) \/ Compile(t) \/ Compiled(t) \/ Release(t)
    \/ \E a \in ArchsOf(t) : Packed(t, a) \/ Listed(t, a) \/ BranchFails(t, a)

NsisNext ==
    \/ \E t \in Wanted : TargetStep(t)
    \/ \E h \in Helpers, a \in DOMAIN order : Archive(h, a) \/ Archived(h, a)

NsisSpec == NsisInit /\ [][NsisNext]_nsisVars

-----------------------------------------------------------------------------
\* nsis and portable are first asked for with the same architecture.
OneHelper == Cardinality(Helpers \ {Web}) <= 1

(***************************************************************************)
(* While an installer is compiled the packages it embeds are there, whole, *)
(* and those its script has the hashes of, whichever other target fails or *)
(* ends.  With two helpers this does not hold: both write to one path, and *)
(* the first to end deletes it.                                            *)
(***************************************************************************)
PackagesWhileCompiling ==
    OneHelper =>
        \A t \in Wanted : stage[t] = "compile" =>
            \A a \in ArchsOf(t) :
                package[Place(HelperOf(t), a)] = [by |-> HelperOf(t), whole |-> TRUE]

(***************************************************************************)
(* The package the web installer announced as an artifact stays for the    *)
(* upload; and when all installers have ended, built or not, the shared    *)
(* packages are gone, if none failed to be made or read.                   *)
(***************************************************************************)
PackagesAfterwards ==
    /\ "web" \in Wanted =>
           \A a \in ArchsOf("web") :
               branch["web"][a] \in {"list", "done"} => package[Place(Web, a)].whole
    /\ (\A t \in Wanted : /\ stage[t] = "ended"
                         /\ \A a \in ArchsOf(t) : branch[t][a] \in {"none", "done"})
       => \A p \in DOMAIN package : ~p[1] => package[p] = NoFile
=============================================================================
