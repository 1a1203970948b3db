--------------------------- MODULE WindowsSigning ---------------------------
(***************************************************************************)
(* How WinPackager edits and signs the executable of an application, over  *)
(* several builds into one output directory: signAndEditResources, sign    *)
(* and doSign, the executor of windowsCodeSign, and BuildCacheManager,     *)
(* which keeps the signed executable beside the digest of everything it    *)
(* was made from.  The two are saved in parallel and each on its own; a    *)
(* killed build leaves whatever was written.                               *)
(*                                                                         *)
(* The sign tool is external: it signs, or fails because a host name is    *)
(* not resolved, because the file is in use or the timestamp server cannot *)
(* be reached, or for any other reason.  Only the executable is followed;  *)
(* other files are signed the same way, without a cache.                   *)
(***************************************************************************)
EXTENDS Integers, SequencesExt

CONSTANTS
    Inputs,     \* what a build is made from, as far as the digest tells
    Hashes,     \* signingHashAlgorithms
    SignSettings, \* records: [force |-> forceCodeSigning, csc |-> is there a cscInfo?,
                \*   cached |-> isBuildCacheEnabled, no CI and no electronDist]
    MaxBuilds,  \* bound on the builds
    Partial, None

ASSUME SigningAssumption ==
    /\ {Partial, None} \intersect Inputs = {} /\ Partial # None
    /\ Hashes \in Seq(ToSet(Hashes)) /\ Hashes # <<>> /\ IsInjective(Hashes)
    /\ SignSettings \subseteq [force : BOOLEAN, csc : BOOLEAN, cached : BOOLEAN]
    /\ MaxBuilds \in Nat

VARIABLES
    signSetting, buildCount,
    input, step,        \* the build that runs and where it is; it ends "built", "copied"
                        \*   from the cache, or "failed"
    retry, signed,      \* i of doSign, and how many algorithms this attempt has done
    exe,                \* the executable: [of |-> what it was edited for, sigs], or None
    cacheInfo,          \* as copyIfValid read it
    info, cacheFile,    \* info.json and app.exe on disk: a digest or an executable,
                        \*   None, or Partial
    writes,             \* what save still writes: of "info" and "exe"
    started,            \* those of them it has begun with
    saved               \* what the two files are: "whole" if of one save, or not there,
                        \*   "unsigned" if doSign gave up on that executable, or "torn"

diskVars == <<info, cacheFile>>
saveVars == <<writes, started>>
signVars == <<retry, signed>>
signingVars == <<signSetting, buildCount, input, step, signVars, exe, cacheInfo, diskVars,
                 saveVars, saved>>

Exe(i, sigs) == [of |-> i, sigs |-> sigs]
EndSteps == {"built", "copied", "failed"}
Keeps == signSetting.csc /\ signSetting.cached   \* is there a BuildCacheManager?

SigningInit ==
    /\ signSetting \in SignSettings /\ buildCount = 0
    /\ input \in Inputs /\ step = "failed" /\ retry = 0 /\ signed = 0
    /\ exe = None /\ cacheInfo = None
    /\ info = None /\ cacheFile = None /\ writes = {} /\ started = {}
    /\ saved = "whole"

-----------------------------------------------------------------------------
\* The next build unpacks the executable anew.
StartBuild ==
    /\ step \in EndSteps /\ writes = {} /\ buildCount < MaxBuilds
    /\ buildCount' = buildCount + 1
    /\ input' \in Inputs
    /\ exe' = Exe(None, {})
    /\ step' = "cache"
    /\ retry' = 0 /\ signed' = 0 /\ cacheInfo' = None
    /\ UNCHANGED <<signSetting, diskVars, saveVars, saved>>

\* copyIfValid: a damaged info.json fails the build, a copy that fails does not,
\* though it may have removed the executable.
ReuseAnyDigest ==                                                          \* mutant
    /\ step = "cache" /\ Keeps
    /\ cacheInfo' = info
    /\ \/ cacheFile # None /\ exe' = cacheFile /\ step' = "copied"
       \/ exe' \in {exe, None} /\ step' = "edit"
    /\ UNCHANGED <<signSetting, buildCount, input, signVars, diskVars, saveVars,
                   saved>>

CopyIfValid ==
    /\ step = "cache" /\ Keeps
    /\ \/ info = Partial /\ step' = "failed" /\ UNCHANGED <<exe, cacheInfo>>
       \/ /\ info # Partial /\ cacheInfo' = info
          /\ \/ info # input /\ step' = "edit" /\ UNCHANGED exe
             \/ info = input /\ cacheFile # None /\ exe' = cacheFile /\ step' = "copied"
             \/ info = input /\ exe' \in {exe, None} /\ step' = "edit"
    /\ UNCHANGED <<signSetting, buildCount, input, signVars, diskVars, saveVars,
                   saved>>

\* rcedit
EditResources ==
    /\ step = "edit" \/ (step = "cache" /\ ~Keeps)
    /\ \/ exe # None /\ exe' = Exe(input, {}) /\ step' = "sign"
       \/ step' = "failed" /\ UNCHANGED exe
    /\ UNCHANGED <<signSetting, buildCount, input, signVars, cacheInfo, diskVars, saveVars,
                   saved>>

-----------------------------------------------------------------------------
\* sign without cscInfo, and no sign function configured
SignNothing ==
    /\ step = "sign" /\ ~signSetting.csc
    /\ step' = IF signSetting.force THEN "failed" ELSE "built"
    /\ UNCHANGED <<signSetting, buildCount, input, signVars, exe, cacheInfo, diskVars, saveVars,
                   saved>>

AfterSign == IF Keeps THEN "save" ELSE "built"

\* The first algorithm replaces a signature, the others are added to it.
Signature(h) == [exe EXCEPT !.sigs = (IF signed = 0 THEN {} ELSE @) \union {h}]

Signs ==
    /\ exe' = Signature(Hashes[signed + 1])
    /\ signed' = signed + 1
    /\ step' = IF signed' = Len(Hashes) THEN AfterSign ELSE "sign"
    /\ UNCHANGED retry

\* The catch of WinPackager.doSign: all algorithms once more, and after the
\* third time the loop just ends.
HostNotResolved ==
    /\ retry' = retry + 1 /\ signed' = 0
    /\ step' = IF retry' = 3 THEN AfterSign ELSE "sign"
    /\ UNCHANGED exe

SignFails(as) == step' = as /\ UNCHANGED <<signVars, exe>>

SignExecutable ==
    /\ step = "sign" /\ signSetting.csc
    /\ Signs \/ HostNotResolved \/ SignFails("again") \/ SignFails("failed")
    /\ UNCHANGED <<signSetting, buildCount, input, cacheInfo, diskVars, saveVars, saved>>

\* The other attempt after 15 seconds.  Even when it signs, the error of the
\* first is thrown.
SignAgain ==
    /\ step = "again"
    /\ \/ SignFails("failed")
       \/ /\ exe' = Signature(Hashes[signed + 1]) /\ step' = "failed"
          /\ UNCHANGED signVars
       \/ HostNotResolved
    /\ UNCHANGED <<signSetting, buildCount, input, cacheInfo, diskVars, saveVars, saved>>

-----------------------------------------------------------------------------
\* BuildCacheManager.save
Save ==
    /\ step = "save"
    /\ \/ step' = "saving" /\ writes' = {"info", "exe"} /\ started' = {}
       \/ step' = "built" /\ UNCHANGED saveVars     \* ensureDir fails
    /\ UNCHANGED <<signSetting, buildCount, input, signVars, exe, cacheInfo, diskVars,
                   saved>>

WriteCache(w, content) ==
    IF w = "info" THEN info' = content /\ UNCHANGED cacheFile
                  ELSE cacheFile' = content /\ UNCHANGED info

DigestRead == IF cacheInfo = None THEN input ELSE cacheInfo                \* mutant
DigestToSave == input

\* Either write empties its file first, and may fail: a copy that fails removes
\* what it made, a file that cannot be opened stays as it was.  Promise.all is
\* awaited, or its first error caught while the other write goes on.
SaveWrites(w) ==
    /\ w \in writes
    /\ \/ /\ w \notin started /\ started' = started \union {w}
          /\ WriteCache(w, Partial) /\ saved' = "torn"
          /\ UNCHANGED <<writes, step>>
       \/ /\ w \in started /\ writes' = writes \ {w}
          /\ WriteCache(w, IF w = "info" THEN DigestToSave ELSE exe)
          /\ saved' = IF writes' # {} \/ step # "saving" THEN saved
                      ELSE IF retry = 3 THEN "unsigned" ELSE "whole"
          /\ UNCHANGED <<started, step>>
       \/ /\ writes' = writes \ {w}
          /\ IF w \in started /\ w = "exe" THEN WriteCache(w, None) ELSE UNCHANGED diskVars
          /\ step' = "built" /\ UNCHANGED <<started, saved>>
    /\ UNCHANGED <<signSetting, buildCount, input, signVars, exe, cacheInfo>>

SaveEnds ==
    /\ step = "saving" /\ writes = {}
    /\ step' = "built"
    /\ UNCHANGED <<signSetting, buildCount, input, signVars, exe, cacheInfo, diskVars, saveVars,
                   saved>>

\* The build is killed, and what save writes with it.
BuildKilled ==
    /\ step \notin EndSteps \/ writes # {}
    /\ step' = "failed"
    /\ writes' = {}
    /\ UNCHANGED <<signSetting, buildCount, input, signVars, exe, cacheInfo, diskVars, started,
                   saved>>

SigningNext ==
    \/ StartBuild \/ CopyIfValid \/ EditResources \/ SignNothing \/ SignExecutable
    \/ SignAgain \/ Save \/ (\E w \in {"info", "exe"} : SaveWrites(w)) \/ SaveEnds
    \/ BuildKilled

SigningSpec == SigningInit /\ [][SigningNext]_signingVars

-----------------------------------------------------------------------------
(***************************************************************************)
(* A build that succeeds leaves the executable made from its own input,    *)
(* signed by every algorithm when there is a certificate, whichever builds *)
(* and attempts failed or were killed before.  Signed now: unless the host *)
(* name was not resolved three times, after which doSign just ends.  Taken *)
(* from the cache: if the last save that began to write completed, and its *)
(* executable was signed.  A save cut off, by a kill or an error, can      *)
(* leave the digest beside a part of an executable or another one, until   *)
(* the next save completes.                                                *)
(***************************************************************************)
BuiltAsConfigured ==
    (step = "built" /\ retry < 3) \/ (step = "copied" /\ saved = "whole") =>
        exe = Exe(input, IF signSetting.csc THEN ToSet(Hashes) ELSE {})

(***************************************************************************)
(* forceCodeSigning: "Whether to fail if the application is not signed (to *)
(* prevent unsigned app if code signing configuration is not correct)".    *)
(* This does not hold when a host name is not resolved three times.        *)
(***************************************************************************)
ForcedMeansSigned ==
    step = "built" /\ signSetting.force => exe.sigs # {}
=============================================================================
