---------------------------- MODULE UpdaterProofs ----------------------------
(***************************************************************************)
(* What is proved of DownloadCache and of Updater, for every value of      *)
(* their constants.                                                        *)
(*                                                                         *)
(* Of DownloadCache its types in any case; and for an application that     *)
(* starts one download at a time, not before the request of a cancelled    *)
(* one has ended, that the helper and the directory agree and that what is *)
(* announced is complete.                                                  *)
(*                                                                         *)
(* Of Updater, for such an application: it never runs a file that is not a *)
(* whole release, installs what it holds on a quiet quit, and implements   *)
(* Installer.  The invariant of the cache is not one of Updater: an        *)
(* AppImage moves the update file away, and the helper goes on holding it. *)
(* What remains in any case is WritingInv, its part about what is written; *)
(* the whole of it holds until quitAndInstall is called, and again from    *)
(* the end of that run.                                                    *)
(***************************************************************************)
EXTENDS Updater, TLAPS

-----------------------------------------------------------------------------
\* DownloadCache

\* What the types alone do not say: a download that was started is for a release.
Started == \A d \in Downloads : pc[d] # "idle" => rel[d] \in Releases /\ dest[d] \in Names

Typed == CacheTypeOK /\ Started

\* Downloads are started one at a time.
OneAtATime == ~Overlap /\ ~LateWriters

OneActive == \A d, e \in Downloads : pc[d] \in Running /\ pc[e] \in Running => d = e

Failing == {"clearing", "emptying", "unlinking", "failed"}

\* A request outlives only the failure of its own download.
LateAlone ==
    \A d \in late :
        /\ pc[d] \in Failing
        /\ \A e \in Downloads : e # d => pc[e] \notin Running /\ e \notin late

BeforeWriting == {"idle", "validate", "exists", "readInfo", "hash", "clean",
                  "createTemp", "request"}

\* What a running download may rely on at each of its awaits.
Relies(d) ==
    /\ pc[d] \in Running \ {"hash"} => dest[d] = FileName[rel[d]]
    /\ pc[d] \in {"validate", "readInfo", "hash"} => file = None \/ updateFile[file] # None
    /\ pc[d] \in BeforeWriting => written[d] = "none"
    /\ pc[d] \in {"writing", "rename"} => tempFile[dest[d]] = d
    /\ pc[d] = "rename" => written[d] = "full"
    /\ pc[d] \in {"renamed", "saveInfo", "saving"} => updateFile[dest[d]] = d
    /\ pc[d] \in {"exists", "saveInfo", "saving"} => file = dest[d] /\ versionInfo = rel[d]
    /\ pc[d] \in {"emptying", "unlinking"} => file = None

\* No file that has lost its temp- prefix is partial or mixed.
WholeFiles ==
    /\ dirty = {}
    /\ \A n \in Names : updateFile[n] # None => written[updateFile[n]] = "full"

\* The helper's two fields go together, and the file they name is missing only
\* while a download is working on it.
HelperAgrees ==
    /\ file = None <=> versionInfo = None
    /\ file # None /\ updateFile[file] = None => \E d \in Downloads : pc[d] \in Running

IInv ==
    /\ Typed
    /\ OneActive
    /\ LateAlone
    /\ \A d \in Downloads : Relies(d)
    /\ WholeFiles
    /\ HelperAgrees
    /\ InstanceCheckSound

-----------------------------------------------------------------------------
\* Types

LEMMA InitTyped == CacheInit => Typed
  BY CacheAssumption DEF CacheAssumption, CacheInit, Typed, Started, CacheTypeOK

LEMMA NextTyped == Typed /\ [CacheNext]_cacheVars => Typed'
<1> SUFFICES ASSUME Typed, [CacheNext]_cacheVars PROVE Typed'
  OBVIOUS
<1> USE CacheAssumption DEF CacheAssumption, Typed, Started, CacheTypeOK, Running, Settled, Goto,
        downloadVars, writerVars, dirVars, helperVars, cacheVars
<1>1. ASSUME NEW d \in Downloads, NEW r \in Releases, StartDownload(d, r) PROVE Typed'
  BY <1>1 DEF StartDownload
<1>2. ASSUME NEW d \in Downloads, Validate(d) PROVE Typed'
  BY <1>2 DEF Validate, RemembersRelease
<1>3. ASSUME NEW d \in Downloads, CheckExists(d) PROVE Typed'
  BY <1>3 DEF CheckExists, SetFields
<1>4. ASSUME NEW d \in Downloads, ReadInfo(d) PROVE Typed'
  BY <1>4 DEF ReadInfo
<1>5. ASSUME NEW d \in Downloads, HashFile(d) PROVE Typed'
  <2>1. CASE CachedFileValid(d)
    BY <1>5, <2>1 DEF HashFile, SetFields
  <2>2. CASE ~CachedFileValid(d)
    BY <1>5, <2>2 DEF HashFile
  <2> QED
    BY <2>1, <2>2
<1>6. ASSUME NEW d \in Downloads, EmptyDir(d) PROVE Typed'
  BY <1>6 DEF EmptyDir, RemoveEntry
<1>7. ASSUME NEW d \in Downloads, EndClean(d) PROVE Typed'
  BY <1>7 DEF EndClean
<1>8. ASSUME NEW d \in Downloads, CreateTemp(d) PROVE Typed'
  BY <1>8 DEF CreateTemp
<1>9. ASSUME NEW d \in Downloads, Respond(d) PROVE Typed'
  BY <1>9 DEF Respond, OpenTemp
<1>10. ASSUME NEW d \in Downloads, FinishWriting(d) PROVE Typed'
  BY <1>10 DEF FinishWriting, Accepts
<1>11. ASSUME NEW d \in Downloads, FailTask(d) PROVE Typed'
  BY <1>11 DEF FailTask
<1>12. ASSUME NEW d \in Downloads, Rename(d) PROVE Typed'
  BY <1>12 DEF Rename
<1>13. ASSUME NEW d \in Downloads, SetDownloadedFile(d) PROVE Typed'
  BY <1>13 DEF SetDownloadedFile, SetFields
<1>14. ASSUME NEW d \in Downloads, OpenInfo(d) PROVE Typed'
  BY <1>14 DEF OpenInfo
<1>15. ASSUME NEW d \in Downloads, SaveInfo(d) PROVE Typed'
  BY <1>15 DEF SaveInfo, InfoToSave
<1>16. ASSUME NEW d \in Downloads, FailSave(d) PROVE Typed'
  BY <1>16 DEF FailSave
<1>17. ASSUME NEW d \in Downloads, ClearFields(d) PROVE Typed'
  BY <1>17 DEF ClearFields, ForgetUpdate
<1>18. ASSUME NEW d \in Downloads, EndClear(d) PROVE Typed'
  BY <1>18 DEF EndClear
<1>19. ASSUME NEW d \in Downloads, UnlinkUpdateFile(d) PROVE Typed'
  BY <1>19 DEF UnlinkUpdateFile
<1>20. ASSUME NEW d \in Downloads, Cancel(d) PROVE Typed'
  BY <1>20 DEF Cancel
<1>21. ASSUME NEW d \in Downloads, LateRespond(d) PROVE Typed'
  BY <1>21 DEF LateRespond, OpenTemp
<1>22. ASSUME NEW d \in Downloads, LateEnd(d) PROVE Typed'
  BY <1>22 DEF LateEnd
<1>23. ASSUME NEW d \in Downloads, FailHash(d) PROVE Typed'
  BY <1>23 DEF FailHash
<1>24. CASE Crash
  BY <1>24 DEF Crash, ProcessEnds
<1>25. CASE UNCHANGED cacheVars
  BY <1>25
<1> QED
  BY <1>1, <1>2, <1>3, <1>4, <1>5, <1>6, <1>7, <1>8, <1>9, <1>10, <1>11, <1>12, <1>13,
     <1>14, <1>15, <1>16, <1>17, <1>18, <1>19, <1>20, <1>21, <1>22, <1>23, <1>24, <1>25
     DEF CacheNext, DownloadStep

-----------------------------------------------------------------------------
\* One download at a time: what the step of one leaves alone

\* The others keep what they rely on while d is the one that runs.
LEMMA OthersKeep ==
  ASSUME IInv, CacheTypeOK', NEW d \in Downloads,
         pc[d] \in Running,
         \A e \in Downloads \ {d} : pc'[e] = pc[e] /\ written'[e] = written[e],
         late' \subseteq late \cup {d},
         d \in late' => pc'[d] \in Failing,
         Relies(d)'
  PROVE  OneActive' /\ LateAlone' /\ (\A e \in Downloads : Relies(e))'
<1>1. \A e \in Downloads \ {d} : pc[e] \notin Running /\ e \notin late
  BY DEF IInv, OneActive, LateAlone, Failing, Running
<1>2. \A e \in Downloads \ {d} : pc'[e] \notin Running /\ e \notin late'
  BY <1>1
<1>3. OneActive' /\ LateAlone'
  BY <1>2 DEF OneActive, LateAlone, CacheTypeOK
<1>4. ASSUME NEW e \in Downloads, e # d
      PROVE  Relies(e)'
  BY <1>2, <1>4 DEF IInv, Relies, Running, BeforeWriting
<1> QED
  BY <1>3, <1>4

\* A step that touches neither the update files nor what the helper remembers.
LEMMA FilesKeep ==
  ASSUME IInv, CacheTypeOK', NEW d \in Downloads,
         pc[d] \in Running \ {"renamed"},
         \A e \in Downloads \ {d} : pc'[e] = pc[e],
         UNCHANGED <<rel, written, dirty, updateFile, file, versionInfo>>,
         pc'[d] \in Running \/ file = None \/ updateFile[file] # None
  PROVE  WholeFiles' /\ HelperAgrees' /\ InstanceCheckSound'
<1>1. WholeFiles' /\ HelperAgrees'
  BY DEF IInv, WholeFiles, HelperAgrees
<1>2. \A e \in Downloads : pc[e] # "renamed"
  BY DEF IInv, OneActive, Running
<1>3. InstanceCheckSound'
  BY <1>2 DEF IInv, InstanceCheckSound, Complete, Holds
<1> QED
  BY <1>1, <1>3

-----------------------------------------------------------------------------
\* The invariant

LEMMA InitIInv == CacheInit => IInv
<1> SUFFICES ASSUME CacheInit PROVE IInv
  OBVIOUS
<1>1. Typed
  BY InitTyped
<1>2. OneActive /\ LateAlone /\ (\A d \in Downloads : Relies(d))
  BY DEF CacheInit, OneActive, LateAlone, Relies, Running, BeforeWriting
<1>3. WholeFiles /\ HelperAgrees /\ InstanceCheckSound
  BY DEF CacheInit, WholeFiles, HelperAgrees, InstanceCheckSound
<1> QED
  BY <1>1, <1>2, <1>3 DEF IInv

LEMMA NextIInv == OneAtATime /\ IInv /\ [CacheNext]_cacheVars => IInv'
<1> SUFFICES ASSUME OneAtATime, IInv, [CacheNext]_cacheVars PROVE IInv'
  OBVIOUS
<1> USE CacheAssumption DEF CacheAssumption, Goto, downloadVars, writerVars, dirVars, helperVars
<1>0. Typed /\ Typed' /\ CacheTypeOK /\ CacheTypeOK' /\ Started /\ Started'
  BY NextTyped DEF IInv, Typed
<1> USE DEF Running, Failing, BeforeWriting
<1>1. ASSUME NEW d \in Downloads, Validate(d) PROVE IInv'
  <2>1. /\ pc[d] \in Running \ {"renamed"}
        /\ \A e \in Downloads \ {d} : pc'[e] = pc[e] /\ written'[e] = written[e]
        /\ UNCHANGED <<rel, written, dirty, updateFile, file, versionInfo, late>>
    BY <1>0, <1>1 DEF Validate, CacheTypeOK
  <2>2. /\ pc'[d] \in Running \/ file = None \/ updateFile[file] # None
        /\ d \in late' => pc'[d] \in Failing
        /\ Relies(d)'
    BY <1>0, <1>1, <2>1 DEF Validate, RemembersRelease, IInv, LateAlone, Relies, CacheTypeOK, Started
  <2> QED
    BY <1>0, <2>1, <2>2, OthersKeep, FilesKeep DEF IInv
<1>2. ASSUME NEW d \in Downloads, ReadInfo(d) PROVE IInv'
  <2>1. /\ pc[d] \in Running \ {"renamed"}
        /\ \A e \in Downloads \ {d} : pc'[e] = pc[e] /\ written'[e] = written[e]
        /\ UNCHANGED <<rel, written, dirty, updateFile, file, versionInfo, late>>
    BY <1>0, <1>2 DEF ReadInfo, CacheTypeOK
  <2>2. /\ pc'[d] \in Running \/ file = None \/ updateFile[file] # None
        /\ d \in late' => pc'[d] \in Failing
        /\ Relies(d)'
    BY <1>0, <1>2, <2>1 DEF ReadInfo, IInv, LateAlone, Relies, CacheTypeOK, Started
  <2> QED
    BY <1>0, <2>1, <2>2, OthersKeep, FilesKeep DEF IInv
<1>3. ASSUME NEW d \in Downloads, EndClean(d) PROVE IInv'
  <2>1. /\ pc[d] \in Running \ {"renamed"}
        /\ \A e \in Downloads \ {d} : pc'[e] = pc[e] /\ written'[e] = written[e]
        /\ UNCHANGED <<rel, written, dirty, updateFile, file, versionInfo, late>>
    BY <1>0, <1>3 DEF EndClean, CacheTypeOK
  <2>2. /\ pc'[d] \in Running \/ file = None \/ updateFile[file] # None
        /\ d \in late' => pc'[d] \in Failing
        /\ Relies(d)'
    BY <1>0, <1>3, <2>1 DEF EndClean, IInv, LateAlone, Relies, CacheTypeOK, Started
  <2> QED
    BY <1>0, <2>1, <2>2, OthersKeep, FilesKeep DEF IInv
<1>4. ASSUME NEW d \in Downloads, CreateTemp(d) PROVE IInv'
  <2>1. /\ pc[d] \in Running \ {"renamed"}
        /\ \A e \in Downloads \ {d} : pc'[e] = pc[e] /\ written'[e] = written[e]
        /\ UNCHANGED <<rel, written, dirty, updateFile, file, versionInfo, late>>
    BY <1>0, <1>4 DEF CreateTemp, CacheTypeOK
  <2>2. /\ pc'[d] \in Running \/ file = None \/ updateFile[file] # None
        /\ d \in late' => pc'[d] \in Failing
        /\ Relies(d)'
    BY <1>0, <1>4, <2>1 DEF CreateTemp, IInv, LateAlone, Relies, CacheTypeOK, Started
  <2> QED
    BY <1>0, <2>1, <2>2, OthersKeep, FilesKeep DEF IInv
<1>5. ASSUME NEW d \in Downloads, FailTask(d) PROVE IInv'
  <2>1. /\ pc[d] \in Running \ {"renamed"}
        /\ \A e \in Downloads \ {d} : pc'[e] = pc[e] /\ written'[e] = written[e]
        /\ UNCHANGED <<rel, written, dirty, updateFile, file, versionInfo, late>>
    BY <1>0, <1>5 DEF FailTask, CacheTypeOK
  <2>2. /\ pc'[d] \in Running \/ file = None \/ updateFile[file] # None
        /\ d \in late' => pc'[d] \in Failing
        /\ Relies(d)'
    BY <1>0, <1>5, <2>1 DEF FailTask, IInv, LateAlone, Relies, CacheTypeOK, Started
  <2> QED
    BY <1>0, <2>1, <2>2, OthersKeep, FilesKeep DEF IInv
<1>6. ASSUME NEW d \in Downloads, OpenInfo(d) PROVE IInv'
  <2>1. /\ pc[d] \in Running \ {"renamed"}
        /\ \A e \in Downloads \ {d} : pc'[e] = pc[e] /\ written'[e] = written[e]
        /\ UNCHANGED <<rel, written, dirty, updateFile, file, versionInfo, late>>
    BY <1>0, <1>6 DEF OpenInfo, CacheTypeOK
  <2>2. /\ pc'[d] \in Running \/ file = None \/ updateFile[file] # None
        /\ d \in late' => pc'[d] \in Failing
        /\ Relies(d)'
    BY <1>0, <1>6, <2>1 DEF OpenInfo, IInv, LateAlone, Relies, CacheTypeOK, Started
  <2> QED
    BY <1>0, <2>1, <2>2, OthersKeep, FilesKeep DEF IInv
<1>7. ASSUME NEW d \in Downloads, SaveInfo(d) PROVE IInv'
  <2>1. /\ pc[d] \in Running \ {"renamed"}
        /\ \A e \in Downloads \ {d} : pc'[e] = pc[e] /\ written'[e] = written[e]
        /\ UNCHANGED <<rel, written, dirty, updateFile, file, versionInfo, late>>
    BY <1>0, <1>7 DEF SaveInfo, CacheTypeOK
  <2>2. /\ pc'[d] \in Running \/ file = None \/ updateFile[file] # None
        /\ d \in late' => pc'[d] \in Failing
        /\ Relies(d)'
    BY <1>0, <1>7, <2>1 DEF SaveInfo, InfoToSave, IInv, LateAlone, Relies, CacheTypeOK, Started
  <2> QED
    BY <1>0, <2>1, <2>2, OthersKeep, FilesKeep DEF IInv
<1>8. ASSUME NEW d \in Downloads, FailSave(d) PROVE IInv'
  <2>1. /\ pc[d] \in Running \ {"renamed"}
        /\ \A e \in Downloads \ {d} : pc'[e] = pc[e] /\ written'[e] = written[e]
        /\ UNCHANGED <<rel, written, dirty, updateFile, file, versionInfo, late>>
    BY <1>0, <1>8 DEF FailSave, CacheTypeOK
  <2>2. /\ pc'[d] \in Running \/ file = None \/ updateFile[file] # None
        /\ d \in late' => pc'[d] \in Failing
        /\ Relies(d)'
    BY <1>0, <1>8, <2>1 DEF FailSave, IInv, LateAlone, Relies, CacheTypeOK, Started
  <2> QED
    BY <1>0, <2>1, <2>2, OthersKeep, FilesKeep DEF IInv
<1>9. ASSUME NEW d \in Downloads, EndClear(d) PROVE IInv'
  <2>1. /\ pc[d] \in Running \ {"renamed"}
        /\ \A e \in Downloads \ {d} : pc'[e] = pc[e] /\ written'[e] = written[e]
        /\ UNCHANGED <<rel, written, dirty, updateFile, file, versionInfo, late>>
    BY <1>0, <1>9 DEF EndClear, CacheTypeOK
  <2>2. /\ pc'[d] \in Running \/ file = None \/ updateFile[file] # None
        /\ d \in late' => pc'[d] \in Failing
        /\ Relies(d)'
    BY <1>0, <1>9, <2>1 DEF EndClear, IInv, LateAlone, Relies, CacheTypeOK, Started
  <2> QED
    BY <1>0, <2>1, <2>2, OthersKeep, FilesKeep DEF IInv
<1>10. ASSUME NEW d \in Downloads, CheckExists(d) PROVE IInv'
  <2>1. /\ pc[d] = "exists" /\ file = dest[d] /\ versionInfo = rel[d] /\ d \notin late
        /\ \A e \in Downloads \ {d} : pc'[e] = pc[e] /\ written'[e] = written[e]
        /\ UNCHANGED <<rel, dest, written, dirty, updateFile, tempFile, late>>
    BY <1>0, <1>10 DEF CheckExists, IInv, Relies, LateAlone, CacheTypeOK
  <2>2. /\ UNCHANGED <<file, versionInfo>>
        /\ \/ pc'[d] = "done" /\ updateFile[file] # None
           \/ pc'[d] = "createTemp"
    BY <1>0, <1>10, <2>1 DEF CheckExists, SetFields, CacheTypeOK
  <2>3. Relies(d)'
    BY <1>0, <2>1, <2>2 DEF IInv, Relies
  <2> QED
    BY <1>0, <2>1, <2>2, <2>3, OthersKeep, FilesKeep DEF IInv
<1>11. ASSUME NEW d \in Downloads, HashFile(d) PROVE IInv'
  <2>1. /\ pc[d] = "hash" /\ d \notin late /\ written[d] = "none" /\ dest[d] \in Names
        /\ \A e \in Downloads \ {d} : pc'[e] = pc[e] /\ written'[e] = written[e]
        /\ UNCHANGED <<rel, written, dirty, updateFile, tempFile, late>>
    BY <1>0, <1>11 DEF HashFile, IInv, Relies, LateAlone, CacheTypeOK, Started
  <2>2. CASE CachedFileValid(d)
    <3>1. Complete(dest[d], rel[d])
      BY <2>2 DEF CachedFileValid
    <3>2. pc' = [pc EXCEPT ![d] = "done"] /\ dest' = dest /\ file' = dest[d] /\ versionInfo' = rel[d]
      BY <1>11, <2>2, Zenon DEF HashFile, SetFields
    <3>3. pc'[d] = "done" /\ updateFile[dest[d]] # None /\ rel[d] # None /\ dest[d] # None
      BY <1>0, <2>1, <3>1, <3>2 DEF Complete, CacheTypeOK, Started
    <3>4. OneActive' /\ LateAlone' /\ (\A e \in Downloads : Relies(e))'
      <4>1. Relies(d)'
        BY <3>3 DEF Relies
      <4> QED
        BY <1>0, <2>1, <3>3, <4>1, OthersKeep
    <3>5. WholeFiles' /\ HelperAgrees'
      BY <2>1, <3>2, <3>3 DEF IInv, WholeFiles, HelperAgrees
    <3>6. InstanceCheckSound'
      BY <2>1, <3>1, <3>2 DEF InstanceCheckSound, Complete, Holds
    <3> QED
      BY <1>0, <3>4, <3>5, <3>6 DEF IInv
  <2>3. CASE ~CachedFileValid(d)
    <3>1. /\ pc' = [pc EXCEPT ![d] = "clean"]
          /\ dest' = [dest EXCEPT ![d] = FileName[rel[d]]]
          /\ UNCHANGED <<file, versionInfo>>
      BY <1>11, <2>3, Zenon DEF HashFile
    <3>2. pc'[d] = "clean" /\ Relies(d)'
      BY <1>0, <2>1, <3>1 DEF CacheTypeOK, Relies
    <3> QED
      BY <1>0, <2>1, <3>1, <3>2, OthersKeep, FilesKeep DEF IInv
  <2> QED
    BY <2>2, <2>3
<1>12. ASSUME NEW d \in Downloads, EmptyDir(d) PROVE IInv'
  <2>1. /\ pc[d] \in {"clean", "emptying"}
        /\ UNCHANGED <<pc, rel, dest, late, written, dirty, file, versionInfo>>
        /\ \A n \in Names : updateFile'[n] \in {updateFile[n], None}
    BY <1>0, <1>12 DEF EmptyDir, RemoveEntry, CacheTypeOK
  <2>2. Relies(d)'
    BY <1>0, <2>1 DEF IInv, Relies
  <2>3. OneActive' /\ LateAlone' /\ (\A e \in Downloads : Relies(e))'
    BY <1>0, <2>1, <2>2, OthersKeep DEF IInv, LateAlone
  <2>4. WholeFiles' /\ HelperAgrees'
    BY <1>0, <2>1 DEF IInv, WholeFiles, HelperAgrees, CacheTypeOK
  <2>5. InstanceCheckSound'
    BY <1>0, <2>1 DEF IInv, InstanceCheckSound, Complete, Holds, CacheTypeOK
  <2> QED
    BY <1>0, <2>3, <2>4, <2>5 DEF IInv
<1>13. ASSUME NEW d \in Downloads, UnlinkUpdateFile(d) PROVE IInv'
  <2>1. /\ pc[d] = "unlinking" /\ pc'[d] = "failed" /\ file = None
        /\ \A e \in Downloads \ {d} : pc'[e] = pc[e] /\ written'[e] = written[e]
        /\ UNCHANGED <<rel, dest, late, written, dirty, file, versionInfo>>
        /\ \A n \in Names : updateFile'[n] \in {updateFile[n], None}
    BY <1>0, <1>13 DEF UnlinkUpdateFile, IInv, Relies, CacheTypeOK
  <2>2. OneActive' /\ LateAlone' /\ (\A e \in Downloads : Relies(e))'
    <3>1. Relies(d)'
      BY <2>1 DEF Relies
    <3> QED
      BY <1>0, <2>1, <3>1, OthersKeep
  <2>3. WholeFiles' /\ HelperAgrees' /\ InstanceCheckSound'
    BY <1>0, <2>1 DEF IInv, WholeFiles, HelperAgrees, InstanceCheckSound, CacheTypeOK
  <2> QED
    BY <1>0, <2>2, <2>3 DEF IInv
<1>14. ASSUME NEW d \in Downloads, Respond(d) PROVE IInv'
  <2>1. /\ pc[d] = "request" /\ written[d] = "none" /\ d \notin late /\ dest[d] = FileName[rel[d]]
        /\ dest[d] \in Names /\ UNCHANGED <<rel, dest, late, updateFile, file, versionInfo>>
    BY <1>0, <1>14 DEF Respond, IInv, Relies, LateAlone, Started
  <2>2. CASE d \in cancelled
    <3>1. /\ pc' = [pc EXCEPT ![d] = "clearing"]
          /\ UNCHANGED <<written, dirty>>
      BY <1>14, <2>2 DEF Respond
    <3>2. pc'[d] = "clearing" /\ Relies(d)' /\ \A e \in Downloads \ {d} : pc'[e] = pc[e]
      BY <1>0, <2>1, <3>1 DEF CacheTypeOK, Relies
    <3> QED
      BY <1>0, <2>1, <3>1, <3>2, OthersKeep, FilesKeep DEF IInv
  <2>3. CASE d \notin cancelled
    <3>1. pc' = [pc EXCEPT ![d] = "writing"] /\ OpenTemp(d)
      BY <1>14, <2>3 DEF Respond
    <3>2. dirty' = {}
      <4>1. \A e \in Downloads : ~StillWriting(e)
        BY <1>0, <2>1 DEF IInv, OneActive, LateAlone, StillWriting
      <4> QED
        BY <1>0, <2>1, <3>1, <4>1 DEF OpenTemp, IInv, WholeFiles, CacheTypeOK
    <3>3. /\ pc'[d] = "writing" /\ tempFile'[dest[d]] = d
          /\ \A e \in Downloads \ {d} : pc'[e] = pc[e] /\ written'[e] = written[e]
      BY <1>0, <2>1, <3>1 DEF OpenTemp, CacheTypeOK
    <3>4. \A n \in Names : updateFile[n] # d
      BY <2>1 DEF IInv, WholeFiles
    <3>5. OneActive' /\ LateAlone' /\ (\A e \in Downloads : Relies(e))'
      <4>1. Relies(d)'
        BY <2>1, <3>3 DEF Relies
      <4> QED
        BY <1>0, <2>1, <3>3, <4>1, OthersKeep
    <3>6. WholeFiles' /\ HelperAgrees'
      BY <1>0, <2>1, <3>2, <3>3, <3>4 DEF IInv, WholeFiles, HelperAgrees, CacheTypeOK
    <3>7. InstanceCheckSound'
      <4>1. \A e \in Downloads : pc[e] # "renamed"
        BY <2>1 DEF IInv, OneActive
      <4> QED
        BY <1>0, <2>1, <3>2, <3>3, <3>4, <4>1
           DEF IInv, InstanceCheckSound, Complete, Holds, WholeFiles, CacheTypeOK
    <3> QED
      BY <1>0, <3>5, <3>6, <3>7 DEF IInv
  <2> QED
    BY <2>2, <2>3
<1>15. ASSUME NEW d \in Downloads, FinishWriting(d) PROVE IInv'
  <2>1. /\ pc[d] = "writing" /\ pc'[d] = "rename" /\ written'[d] = "full" /\ d \notin late
        /\ \A e \in Downloads \ {d} : pc'[e] = pc[e] /\ written'[e] = written[e]
        /\ UNCHANGED <<rel, dest, late, dirty, tempFile, updateFile, file, versionInfo>>
    BY <1>0, <1>15 DEF FinishWriting, Accepts, IInv, LateAlone, CacheTypeOK
  <2>2. Relies(d)'
    BY <2>1 DEF IInv, Relies
  <2>3. OneActive' /\ LateAlone' /\ (\A e \in Downloads : Relies(e))'
    BY <1>0, <2>1, <2>2, OthersKeep
  <2>4. WholeFiles' /\ HelperAgrees'
    BY <1>0, <2>1 DEF IInv, WholeFiles, HelperAgrees, CacheTypeOK
  <2>5. InstanceCheckSound'
    <3>1. \A e \in Downloads : pc[e] # "renamed"
      BY <2>1 DEF IInv, OneActive
    <3> QED
      BY <1>0, <2>1, <3>1 DEF IInv, InstanceCheckSound, Complete, Holds, CacheTypeOK
  <2> QED
    BY <1>0, <2>3, <2>4, <2>5 DEF IInv
<1>16. ASSUME NEW d \in Downloads, Rename(d) PROVE IInv'
  <2>1. /\ pc[d] = "rename" /\ tempFile[dest[d]] = d /\ written[d] = "full" /\ d \notin late
        /\ dest[d] \in Names /\ dest[d] = FileName[rel[d]] /\ d # None
    BY <1>0, <1>16 DEF Rename, IInv, Relies, LateAlone, Started
  <2>2. /\ pc' = [pc EXCEPT ![d] = "renamed"]
        /\ updateFile' = [updateFile EXCEPT ![dest[d]] = d]
        /\ UNCHANGED <<rel, dest, late, written, dirty, file, versionInfo>>
    BY <1>16, <2>1 DEF Rename
  <2>3. /\ pc'[d] = "renamed" /\ updateFile'[dest[d]] = d
        /\ \A e \in Downloads \ {d} : pc'[e] = pc[e]
        /\ \A n \in Names \ {dest[d]} : updateFile'[n] = updateFile[n]
    BY <1>0, <2>1, <2>2 DEF CacheTypeOK
  <2>4. OneActive' /\ LateAlone' /\ (\A e \in Downloads : Relies(e))'
    <3>1. Relies(d)'
      BY <2>1, <2>2, <2>3 DEF Relies
    <3> QED
      BY <1>0, <2>1, <2>2, <2>3, <3>1, OthersKeep
  <2>5. WholeFiles' /\ HelperAgrees' /\ InstanceCheckSound'
    BY <1>0, <2>1, <2>2, <2>3 DEF IInv, WholeFiles, HelperAgrees, InstanceCheckSound
  <2> QED
    BY <1>0, <2>4, <2>5 DEF IInv
<1>17. ASSUME NEW d \in Downloads, SetDownloadedFile(d) PROVE IInv'
  <2>1. /\ pc[d] = "renamed" /\ pc'[d] = "saveInfo" /\ updateFile[dest[d]] = d /\ d \notin late
        /\ dest[d] \in Names /\ dest[d] = FileName[rel[d]] /\ rel[d] # None /\ dest[d] # None
        /\ \A e \in Downloads \ {d} : pc'[e] = pc[e]
        /\ file' = dest[d] /\ versionInfo' = rel[d]
        /\ UNCHANGED <<rel, dest, late, written, dirty, updateFile>>
    BY <1>0, <1>17 DEF SetDownloadedFile, SetFields, IInv, Relies, LateAlone, Started, CacheTypeOK
  <2>2. OneActive' /\ LateAlone' /\ (\A e \in Downloads : Relies(e))'
    <3>1. Relies(d)'
      BY <2>1 DEF Relies
    <3> QED
      BY <1>0, <2>1, <3>1, OthersKeep
  <2>3. WholeFiles' /\ HelperAgrees'
    BY <2>1 DEF IInv, WholeFiles, HelperAgrees
  <2>4. Complete(dest[d], rel[d])'
    BY <1>0, <2>1 DEF IInv, WholeFiles, Complete, Holds
  <2>5. InstanceCheckSound'
    BY <2>1, <2>4 DEF InstanceCheckSound, Complete, Holds
  <2> QED
    BY <1>0, <2>2, <2>3, <2>5 DEF IInv
<1>18. ASSUME NEW d \in Downloads, ClearFields(d) PROVE IInv'
  <2>1. /\ pc[d] = "clearing" /\ pc'[d] = "emptying" /\ file' = None /\ versionInfo' = None
        /\ \A e \in Downloads \ {d} : pc'[e] = pc[e]
        /\ UNCHANGED <<rel, dest, late, written, dirty, updateFile>>
    BY <1>0, <1>18 DEF ClearFields, ForgetUpdate, CacheTypeOK
  <2>2. OneActive' /\ LateAlone' /\ (\A e \in Downloads : Relies(e))'
    <3>1. Relies(d)'
      BY <2>1 DEF IInv, Relies
    <3> QED
      BY <1>0, <2>1, <3>1, OthersKeep
  <2>3. WholeFiles' /\ HelperAgrees' /\ InstanceCheckSound'
    BY <2>1 DEF IInv, WholeFiles, HelperAgrees, InstanceCheckSound
  <2> QED
    BY <1>0, <2>2, <2>3 DEF IInv
<1>19. ASSUME NEW d \in Downloads, Cancel(d) PROVE IInv'
  <2>1. /\ pc[d] \in Running /\ late' \subseteq late \cup {d}
        /\ UNCHANGED <<rel, dest, written, dirty, tempFile, updateFile, file, versionInfo>>
    BY <1>19 DEF Cancel, Active
  <2>2. CASE pc[d] \in {"request", "writing"}
    <3>1. pc' = [pc EXCEPT ![d] = "clearing"]
      BY <1>19, <2>2 DEF Cancel
    <3>2. pc'[d] = "clearing" /\ Relies(d)' /\ \A e \in Downloads \ {d} : pc'[e] = pc[e]
      BY <1>0, <2>1, <2>2, <3>1 DEF CacheTypeOK, IInv, Relies
    <3> QED
      BY <1>0, <2>1, <2>2, <3>2, OthersKeep, FilesKeep DEF IInv
  <2>3. CASE pc[d] \notin {"request", "writing"}
    <3>1. UNCHANGED <<pc, late>>
      BY <1>19, <2>3 DEF Cancel
    <3>2. OneActive' /\ LateAlone' /\ (\A e \in Downloads : Relies(e))'
      BY <2>1, <3>1 DEF IInv, OneActive, LateAlone, Relies
    <3>3. WholeFiles' /\ HelperAgrees' /\ InstanceCheckSound'
      BY <2>1, <3>1 DEF IInv, WholeFiles, HelperAgrees, InstanceCheckSound, Complete, Holds
    <3> QED
      BY <1>0, <3>2, <3>3 DEF IInv
  <2> QED
    BY <2>2, <2>3
<1>20. ASSUME NEW d \in Downloads, LateRespond(d) PROVE IInv'
  <2>1. /\ d \in late /\ written[d] = "none" /\ OpenTemp(d)
        /\ UNCHANGED <<pc, rel, dest, late, updateFile, file, versionInfo>>
        /\ \A e \in Downloads \ {d} : pc[e] \notin Running /\ e \notin late
        /\ pc[d] \in Failing
    BY <1>0, <1>20 DEF LateRespond, IInv, LateAlone, CacheTypeOK
  <2>2. dirty' = {}
    <3>1. \A e \in Downloads : ~StillWriting(e)
      BY <1>0, <2>1 DEF StillWriting
    <3> QED
      BY <1>0, <2>1, <3>1 DEF OpenTemp, IInv, WholeFiles, CacheTypeOK
  <2>3. \A e \in Downloads \ {d} : written'[e] = written[e]
    BY <1>0, <2>1 DEF OpenTemp, CacheTypeOK
  <2>4. \A n \in Names : updateFile[n] # d
    BY <2>1 DEF IInv, WholeFiles
  <2>5. OneActive' /\ LateAlone' /\ (\A e \in Downloads : Relies(e))'
    BY <1>0, <2>1, <2>3 DEF IInv, OneActive, LateAlone, Relies
  <2>6. WholeFiles' /\ HelperAgrees' /\ InstanceCheckSound'
    BY <1>0, <2>1, <2>2, <2>3, <2>4
       DEF IInv, WholeFiles, HelperAgrees, InstanceCheckSound, Complete, Holds, CacheTypeOK
  <2> QED
    BY <1>0, <2>5, <2>6 DEF IInv
<1>21. ASSUME NEW d \in Downloads, LateEnd(d) PROVE IInv'
  <2>1. /\ d \in late /\ late' = late \ {d} /\ pc[d] \in Failing
        /\ UNCHANGED <<pc, rel, dest, dirty, tempFile, updateFile, file, versionInfo>>
        /\ \A e \in Downloads : written'[e] = written[e] \/ written'[e] = "full"
        /\ \A e \in Downloads \ {d} : written'[e] = written[e]
    BY <1>0, <1>21 DEF LateEnd, IInv, LateAlone, CacheTypeOK
  <2>2. OneActive' /\ LateAlone' /\ (\A e \in Downloads : Relies(e))'
    BY <1>0, <2>1 DEF IInv, OneActive, LateAlone, Relies
  <2>3. WholeFiles' /\ HelperAgrees'
    BY <1>0, <2>1 DEF IInv, WholeFiles, HelperAgrees, CacheTypeOK
  <2>4. InstanceCheckSound'
    BY <1>0, <2>1 DEF IInv, WholeFiles, InstanceCheckSound, Complete, Holds, CacheTypeOK
  <2> QED
    BY <1>0, <2>2, <2>3, <2>4 DEF IInv
<1>22. ASSUME NEW d \in Downloads, NEW r \in Releases, StartDownload(d, r) PROVE IInv'
  <2>1. late = {} /\ \A e \in Downloads : pc[e] \notin Running
    BY <1>22, Zenon DEF StartDownload, Active, OneAtATime
  <2>2. /\ pc[d] = "idle" /\ pc'[d] = "validate" /\ dest'[d] = FileName[r] /\ rel'[d] = r
        /\ \A e \in Downloads \ {d} : pc'[e] = pc[e] /\ rel'[e] = rel[e] /\ dest'[e] = dest[e]
        /\ UNCHANGED <<late, written, dirty, tempFile, updateFile, file, versionInfo>>
    BY <1>0, <1>22 DEF StartDownload, CacheTypeOK
  <2>3. written[d] = "none" /\ \A n \in Names : updateFile[n] # d
    BY <2>2 DEF IInv, Relies, WholeFiles
  <2>4. OneActive' /\ LateAlone'
    BY <2>1, <2>2 DEF OneActive, LateAlone
  <2>5. (\A e \in Downloads : Relies(e))'
    <3>1. file = None \/ updateFile[file] # None
      BY <2>1 DEF IInv, HelperAgrees
    <3> QED
      BY <2>1, <2>2, <2>3, <3>1 DEF IInv, Relies
  <2>6. WholeFiles' /\ HelperAgrees'
    BY <2>1, <2>2 DEF IInv, WholeFiles, HelperAgrees
  <2>7. InstanceCheckSound'
    BY <1>0, <2>1, <2>2, <2>3 DEF IInv, InstanceCheckSound, Complete, Holds, CacheTypeOK
  <2> QED
    BY <1>0, <2>4, <2>5, <2>6, <2>7 DEF IInv
<1>23. CASE Crash
  <2>1. /\ \A e \in Downloads : pc'[e] \notin Running /\ (pc'[e] = "idle" => pc[e] = "idle")
        /\ late' = {} /\ file' = None /\ versionInfo' = None
        /\ \A e \in Downloads : pc'[e] \in BeforeWriting => pc'[e] = "idle"
        /\ UNCHANGED <<rel, dest, written, dirty, dirVars>>
    BY <1>0, <1>23 DEF Crash, ProcessEnds, CacheTypeOK, Settled
  <2>2. OneActive' /\ LateAlone' /\ (\A e \in Downloads : Relies(e))'
    BY <2>1 DEF IInv, OneActive, LateAlone, Relies
  <2>3. WholeFiles' /\ HelperAgrees' /\ InstanceCheckSound'
    BY <2>1 DEF IInv, WholeFiles, HelperAgrees, InstanceCheckSound
  <2> QED
    BY <1>0, <2>2, <2>3 DEF IInv
<1>24. ASSUME NEW d \in Downloads, FailHash(d) PROVE IInv'
  <2>1. /\ pc[d] = "hash" /\ pc'[d] = "failed"
        /\ \A e \in Downloads \ {d} : pc'[e] = pc[e] /\ written'[e] = written[e]
        /\ UNCHANGED <<rel, written, dirty, updateFile, file, versionInfo, late>>
    BY <1>0, <1>24 DEF FailHash, CacheTypeOK
  <2>2. /\ file = None \/ updateFile[file] # None
        /\ d \in late' => pc'[d] \in Failing
        /\ Relies(d)'
    BY <1>0, <2>1 DEF IInv, Relies
  <2> QED
    BY <1>0, <2>1, <2>2, OthersKeep, FilesKeep DEF IInv
<1>25. CASE UNCHANGED cacheVars
  BY <1>0, <1>25 DEF cacheVars, IInv, OneActive, LateAlone, Relies, WholeFiles,
                     HelperAgrees, InstanceCheckSound, Complete, Holds
<1> QED
  BY <1>1, <1>2, <1>3, <1>4, <1>5, <1>6, <1>7, <1>8, <1>9, <1>10, <1>11, <1>12, <1>13,
     <1>14, <1>15, <1>16, <1>17, <1>18, <1>19, <1>20, <1>21, <1>22, <1>23, <1>24, <1>25
     DEF CacheNext, DownloadStep

LEMMA CacheInvariant == ASSUME OneAtATime PROVE CacheSpec => []IInv
<1>1. IInv /\ [CacheNext]_cacheVars => IInv'
  BY NextIInv
<1> QED
  BY <1>1, InitIInv, PTL DEF CacheSpec

-----------------------------------------------------------------------------
(***************************************************************************)
(* Type correctness of the download cache, with or without overlapping     *)
(* downloads and late requests.                                            *)
(***************************************************************************)
THEOREM CacheTypeCorrect == CacheSpec => []CacheTypeOK
<1>1. Typed => CacheTypeOK
  BY DEF Typed
<1> QED
  BY <1>1, InitTyped, NextTyped, PTL DEF CacheSpec

(***************************************************************************)
(* One download at a time: the check of validateDownloadedPath, which only *)
(* looks whether the file is there, never takes a file of another release. *)
(***************************************************************************)
THEOREM InstanceCheckIsSound ==
  ASSUME OneAtATime PROVE CacheSpec => []InstanceCheckSound
<1>1. IInv => InstanceCheckSound
  BY DEF IInv
<1> QED
  BY <1>1, CacheInvariant, PTL

(***************************************************************************)
(* One download at a time: between downloads, what the helper holds for    *)
(* installation is on the disk, complete and of the release it says.       *)
(***************************************************************************)
THEOREM HeldIsComplete ==
  ASSUME OneAtATime PROVE CacheSpec => []HeldIsThere
<1>1. IInv => HeldIsThere
  BY DEF IInv, HelperAgrees, InstanceCheckSound, HeldIsThere, Active, Running
<1> QED
  BY <1>1, CacheInvariant, PTL

\* The steps with which a download succeeds.
LEMMA WhoAnnounces ==
  ASSUME CacheTypeOK, [CacheNext]_cacheVars, NEW d \in Downloads,
         pc[d] # "done", pc'[d] = "done"
  PROVE  CheckExists(d) \/ HashFile(d) \/ SaveInfo(d)
<1> USE DEF CacheTypeOK, Goto
<1>1. ASSUME NEW e \in Downloads, NEW r \in Releases, StartDownload(e, r) PROVE FALSE
  BY <1>1 DEF StartDownload
<1>2. ASSUME NEW e \in Downloads,
             \/ Validate(e) \/ ReadInfo(e) \/ FailHash(e) \/ EmptyDir(e) \/ EndClean(e) \/ CreateTemp(e)
             \/ Respond(e) \/ FinishWriting(e) \/ FailTask(e) \/ Rename(e)
      PROVE  FALSE
  BY <1>2 DEF Validate, ReadInfo, FailHash, EmptyDir, EndClean, CreateTemp, Respond, FinishWriting,
              FailTask, Rename, downloadVars
<1>3. ASSUME NEW e \in Downloads,
             \/ SetDownloadedFile(e) \/ OpenInfo(e) \/ FailSave(e) \/ ClearFields(e)
             \/ EndClear(e) \/ UnlinkUpdateFile(e)
      PROVE  FALSE
  BY <1>3 DEF SetDownloadedFile, OpenInfo, FailSave, ClearFields, EndClear, UnlinkUpdateFile
<1>4. ASSUME NEW e \in Downloads, Cancel(e) \/ LateRespond(e) \/ LateEnd(e)
      PROVE  FALSE
  BY <1>4 DEF Cancel, LateRespond, LateEnd, downloadVars
<1>5. ~Crash /\ ~UNCHANGED cacheVars
  BY DEF Crash, ProcessEnds, cacheVars, downloadVars
<1>6. ASSUME NEW e \in Downloads, CheckExists(e) \/ HashFile(e) \/ SaveInfo(e)
      PROVE  e = d
  <2>1. CASE CheckExists(e) \/ SaveInfo(e)
    BY <2>1 DEF CheckExists, SaveInfo
  <2>2. CASE HashFile(e)
    <3>1. pc' = [pc EXCEPT ![e] = "done"] \/ pc' = [pc EXCEPT ![e] = "clean"]
      BY <2>2, Zenon DEF HashFile
    <3> QED
      BY <3>1
  <2> QED
    BY <1>6, <2>1, <2>2
<1> QED
  BY <1>1, <1>2, <1>3, <1>4, <1>5, <1>6 DEF CacheNext, DownloadStep

(***************************************************************************)
(* One download at a time: what executeDownload resolves with is the whole *)
(* file of the release that was asked for, after any history of crashes,   *)
(* failures, cancellations and earlier releases.                           *)
(***************************************************************************)
THEOREM WhatIsAnnouncedIsComplete ==
  ASSUME OneAtATime PROVE CacheSpec => AnnouncedComplete
<1>1. ASSUME IInv, [CacheNext]_cacheVars, NEW d \in Downloads, pc[d] # "done", pc'[d] = "done"
      PROVE  Complete(dest[d], rel[d])'
  <2>1. CacheTypeOK /\ Started
    BY <1>1 DEF IInv, Typed
  <2>2. CASE CheckExists(d)
    <3>1. /\ pc[d] = "exists" /\ updateFile[dest[d]] # None
          /\ UNCHANGED <<rel, dest, written, dirty, updateFile>>
      BY <1>1, <2>1, <2>2 DEF CheckExists, Goto, writerVars, dirVars, CacheTypeOK
    <3>2. /\ file = dest[d] /\ versionInfo = rel[d] /\ dest[d] # None /\ rel[d] # None
          /\ \A e \in Downloads : pc[e] # "renamed"
      BY <2>1, <3>1, <1>1, CacheAssumption
         DEF IInv, Relies, OneActive, Running, Started, CacheAssumption
    <3>3. Complete(dest[d], rel[d])
      BY <1>1, <3>1, <3>2 DEF IInv, InstanceCheckSound
    <3> QED
      BY <3>1, <3>3 DEF Complete, Holds
  <2>3. CASE HashFile(d)
    <3>1. CachedFileValid(d) /\ UNCHANGED <<rel, dest, written, dirty, updateFile>>
      <4>1. CASE ~CachedFileValid(d)
        <5>1. pc' = [pc EXCEPT ![d] = "clean"]
          BY <2>3, <4>1, Zenon DEF HashFile, Goto
        <5> QED
          BY <1>1, <2>1, <5>1 DEF CacheTypeOK
      <4>2. CASE CachedFileValid(d)
        BY <2>3, <4>2, Zenon DEF HashFile, writerVars, dirVars
      <4> QED
        BY <4>1, <4>2
    <3> QED
      BY <3>1 DEF CachedFileValid, Complete, Holds
  <2>4. CASE SaveInfo(d)
    <3>1. pc[d] = "saving" /\ UNCHANGED <<rel, dest, written, dirty, updateFile>>
      BY <2>4 DEF SaveInfo, writerVars
    <3>2. updateFile[dest[d]] = d /\ dest[d] \in Names /\ d # None
      BY <1>1, <2>1, <3>1, CacheAssumption DEF IInv, Relies, Started, CacheAssumption
    <3> QED
      BY <1>1, <3>1, <3>2 DEF IInv, WholeFiles, Complete, Holds
  <2> QED
    BY <1>1, <2>1, <2>2, <2>3, <2>4, WhoAnnounces
<1> DEFINE Announced == \A d \in Downloads :
                          pc[d] # "done" /\ pc'[d] = "done" => Complete(dest[d], rel[d])'
<1>2. IInv /\ [CacheNext]_cacheVars => [Announced]_cacheVars
  BY <1>1
<1> QED
  BY <1>2, CacheInvariant, PTL DEF CacheSpec, AnnouncedComplete

-----------------------------------------------------------------------------
\* Updater

\* The part of Relies that the files rest on.
Writes(d) ==
    /\ pc[d] \in Running \ {"hash"} => dest[d] = FileName[rel[d]]
    /\ pc[d] \in BeforeWriting => written[d] = "none"
    /\ pc[d] \in {"writing", "rename"} => tempFile[dest[d]] = d
    /\ pc[d] = "rename" => written[d] = "full"

WritingInv ==
    /\ Typed
    /\ OneActive
    /\ LateAlone
    /\ \A d \in Downloads : Writes(d)
    /\ WholeFiles

\* A download that is about to be announced is held.
HoldsWhenSaving ==
    \A d \in Downloads : pc[d] \in {"saveInfo", "saving"} =>
        file = dest[d] /\ downloadedFileInfo # None

\* What a process that has ended has left in memory.
NothingInMemory ==
    ~alive => /\ ~checking /\ file = None /\ versionInfo = None
              /\ \A d \in Downloads : pc[d] \notin Running

UpdaterTyped ==
    /\ platform \in {"nsis", "appImage"}
    /\ autoDownload \in BOOLEAN
    /\ checking \in BOOLEAN
    /\ updateInfoAndProvider \in Releases \cup {None}
    /\ Inst!InstallerTypeOK
    /\ app \in {"current", "updated", "damaged", "gone"}

\* Without a call of quitAndInstall nothing has moved the update file in this run.
UntouchedWithoutCall ==
    calls = 0 => IInv /\ (alive => ~quitAndInstallCalled)

UpdaterInv ==
    /\ UpdaterTyped
    /\ WritingInv
    /\ HoldsWhenSaving
    /\ NothingInMemory
    /\ UntouchedWithoutCall
    /\ NeverDamaged

-----------------------------------------------------------------------------
\* Writing, while nothing but the downloads works on the directory

LEMMA OthersWrite ==
  ASSUME WritingInv, CacheTypeOK', NEW d \in Downloads,
         pc[d] \in Running,
         \A e \in Downloads \ {d} : pc'[e] = pc[e] /\ written'[e] = written[e],
         late' \subseteq late \cup {d},
         d \in late' => pc'[d] \in Failing,
         Writes(d)'
  PROVE  OneActive' /\ LateAlone' /\ (\A e \in Downloads : Writes(e))'
<1>1. \A e \in Downloads \ {d} : pc[e] \notin Running /\ e \notin late
  BY DEF WritingInv, OneActive, LateAlone, Failing, Running
<1>2. \A e \in Downloads \ {d} : pc'[e] \notin Running /\ e \notin late'
  BY <1>1
<1>3. OneActive' /\ LateAlone'
  BY <1>2 DEF OneActive, LateAlone, CacheTypeOK
<1>4. ASSUME NEW e \in Downloads, e # d
      PROVE  Writes(e)'
  BY <1>2, <1>4 DEF WritingInv, Writes, Running, BeforeWriting
<1> QED
  BY <1>3, <1>4

\* A step of a download that opens, fills and moves no file.
LEMMA WritingKept ==
  ASSUME WritingInv, Typed', NEW d \in Downloads,
         pc[d] \in Running,
         \A e \in Downloads \ {d} : pc'[e] = pc[e],
         UNCHANGED <<written, dirty, late>>,
         \A n \in Names : updateFile'[n] \in {updateFile[n], None},
         d \in late => pc'[d] \in Failing,
         Writes(d)'
  PROVE  WritingInv'
<1>1. OneActive' /\ LateAlone' /\ (\A e \in Downloads : Writes(e))'
  BY OthersWrite DEF Typed
<1>2. WholeFiles'
  BY DEF WritingInv, WholeFiles
<1> QED
  BY <1>1, <1>2 DEF WritingInv

LEMMA InitWriting == CacheInit => WritingInv
  BY InitIInv DEF IInv, WritingInv, Relies, Writes

LEMMA NextWriting == OneAtATime /\ WritingInv /\ [CacheNext]_cacheVars => WritingInv'
<1> SUFFICES ASSUME OneAtATime, WritingInv, [CacheNext]_cacheVars PROVE WritingInv'
  OBVIOUS
<1> USE CacheAssumption DEF CacheAssumption, Goto, downloadVars, writerVars, dirVars, helperVars
<1>0. Typed /\ Typed' /\ CacheTypeOK /\ CacheTypeOK' /\ Started /\ Started'
  BY NextTyped DEF WritingInv, Typed
<1> USE DEF Running, Failing, BeforeWriting
<1>1. ASSUME NEW d \in Downloads, Validate(d) \/ CheckExists(d) \/ ReadInfo(d) \/ EndClean(d)
      PROVE  WritingInv'
  <2>1. /\ pc[d] \in Running \ {"hash"} /\ d \notin late /\ written[d] = "none"
        /\ \A e \in Downloads \ {d} : pc'[e] = pc[e]
        /\ UNCHANGED <<rel, written, dirty, late, updateFile>>
        /\ pc'[d] \in {"exists", "createTemp", "readInfo", "hash", "clean", "done"}
        /\ pc'[d] # "hash" => dest' = dest
    BY <1>0, <1>1 DEF Validate, CheckExists, ReadInfo, EndClean, CacheTypeOK, WritingInv, LateAlone,
                      Writes
  <2>2. Writes(d)'
    BY <2>1 DEF WritingInv, Writes
  <2> QED
    BY <1>0, <2>1, <2>2, WritingKept
<1>2. ASSUME NEW d \in Downloads, HashFile(d) PROVE WritingInv'
  <2>1. /\ pc[d] = "hash" /\ d \notin late /\ written[d] = "none"
        /\ UNCHANGED <<rel, written, dirty, late, updateFile>>
    BY <1>0, <1>2 DEF HashFile, WritingInv, LateAlone, Writes
  <2>2. \/ pc' = [pc EXCEPT ![d] = "done"]
        \/ pc' = [pc EXCEPT ![d] = "clean"] /\ dest' = [dest EXCEPT ![d] = FileName[rel[d]]]
    BY <1>2, Zenon DEF HashFile
  <2>3. \A e \in Downloads \ {d} : pc'[e] = pc[e]
    BY <1>0, <2>2 DEF CacheTypeOK
  <2>4. Writes(d)'
    BY <1>0, <2>1, <2>2 DEF CacheTypeOK, Writes
  <2> QED
    BY <1>0, <2>1, <2>3, <2>4, WritingKept
<1>3. ASSUME NEW d \in Downloads, FailHash(d) \/ FailTask(d) \/ FailSave(d) \/ ClearFields(d) \/ EndClear(d)
      PROVE  WritingInv'
  <2>1. /\ pc[d] \in Running
        /\ \A e \in Downloads \ {d} : pc'[e] = pc[e]
        /\ UNCHANGED <<rel, dest, written, dirty, late, updateFile>>
        /\ pc'[d] \in Failing /\ (pc'[d] # "failed" => pc[d] # "hash")
    BY <1>0, <1>3 DEF FailHash, FailTask, FailSave, ClearFields, EndClear, CacheTypeOK
  <2>2. Writes(d)'
    BY <2>1 DEF WritingInv, Writes
  <2> QED
    BY <1>0, <2>1, <2>2, WritingKept
<1>4. ASSUME NEW d \in Downloads, SetDownloadedFile(d) \/ OpenInfo(d) \/ SaveInfo(d)
      PROVE  WritingInv'
  <2>1. /\ pc[d] \in Running \ {"hash"} /\ d \notin late
        /\ \A e \in Downloads \ {d} : pc'[e] = pc[e]
        /\ UNCHANGED <<rel, dest, written, dirty, late, updateFile>>
        /\ pc'[d] \in {"saveInfo", "saving", "done"}
    BY <1>0, <1>4 DEF SetDownloadedFile, OpenInfo, SaveInfo, CacheTypeOK, WritingInv, LateAlone
  <2>2. Writes(d)'
    BY <2>1 DEF WritingInv, Writes
  <2> QED
    BY <1>0, <2>1, <2>2, WritingKept
<1>5. ASSUME NEW d \in Downloads, EmptyDir(d) PROVE WritingInv'
  <2>1. /\ pc[d] \in {"clean", "emptying"}
        /\ UNCHANGED <<pc, rel, dest, late, written, dirty>>
        /\ \A n \in Names : updateFile'[n] \in {updateFile[n], None}
    BY <1>0, <1>5 DEF EmptyDir, RemoveEntry, CacheTypeOK
  <2>2. Writes(d)' /\ (d \in late => pc[d] \in Failing)
    BY <2>1 DEF WritingInv, Writes, LateAlone
  <2> QED
    BY <1>0, <2>1, <2>2, WritingKept
<1>6. ASSUME NEW d \in Downloads, UnlinkUpdateFile(d) PROVE WritingInv'
  <2>1. /\ pc[d] = "unlinking" /\ pc'[d] = "failed"
        /\ \A e \in Downloads \ {d} : pc'[e] = pc[e]
        /\ UNCHANGED <<rel, dest, late, written, dirty>>
        /\ \A n \in Names : updateFile'[n] \in {updateFile[n], None}
    BY <1>0, <1>6 DEF UnlinkUpdateFile, CacheTypeOK
  <2>2. Writes(d)'
    BY <2>1 DEF Writes
  <2> QED
    BY <1>0, <2>1, <2>2, WritingKept
<1>7. ASSUME NEW d \in Downloads, CreateTemp(d) PROVE WritingInv'
  <2>1. /\ pc[d] = "createTemp" /\ pc'[d] = "request" /\ d \notin late
        /\ \A e \in Downloads \ {d} : pc'[e] = pc[e]
        /\ UNCHANGED <<rel, dest, late, written, dirty, updateFile>>
    BY <1>0, <1>7 DEF CreateTemp, CacheTypeOK, WritingInv, LateAlone
  <2>2. Writes(d)'
    BY <2>1 DEF WritingInv, Writes
  <2> QED
    BY <1>0, <2>1, <2>2, WritingKept
<1>8. ASSUME NEW d \in Downloads, Respond(d) PROVE WritingInv'
  <2>1. /\ pc[d] = "request" /\ written[d] = "none" /\ d \notin late /\ dest[d] = FileName[rel[d]]
        /\ dest[d] \in Names /\ UNCHANGED <<rel, dest, late, updateFile>>
    BY <1>0, <1>8 DEF Respond, WritingInv, Writes, LateAlone, Started
  <2>2. CASE d \in cancelled
    <3>1. pc' = [pc EXCEPT ![d] = "clearing"] /\ UNCHANGED <<written, dirty>>
      BY <1>8, <2>2 DEF Respond
    <3>2. pc'[d] = "clearing" /\ Writes(d)' /\ \A e \in Downloads \ {d} : pc'[e] = pc[e]
      BY <1>0, <2>1, <3>1 DEF CacheTypeOK, Writes
    <3> QED
      BY <1>0, <2>1, <3>1, <3>2, WritingKept
  <2>3. CASE d \notin cancelled
    <3>1. pc' = [pc EXCEPT ![d] = "writing"] /\ OpenTemp(d)
      BY <1>8, <2>3 DEF Respond
    <3>2. dirty' = {}
      <4>1. \A e \in Downloads : ~StillWriting(e)
        BY <1>0, <2>1 DEF WritingInv, OneActive, LateAlone, StillWriting
      <4> QED
        BY <1>0, <2>1, <3>1, <4>1 DEF OpenTemp, WritingInv, WholeFiles, CacheTypeOK
    <3>3. /\ pc'[d] = "writing" /\ tempFile'[dest[d]] = d
          /\ \A e \in Downloads \ {d} : pc'[e] = pc[e] /\ written'[e] = written[e]
      BY <1>0, <2>1, <3>1 DEF OpenTemp, CacheTypeOK
    <3>4. OneActive' /\ LateAlone' /\ (\A e \in Downloads : Writes(e))'
      <4>1. Writes(d)'
        BY <2>1, <3>3 DEF Writes
      <4> QED
        BY <1>0, <2>1, <3>3, <4>1, OthersWrite
    <3>5. WholeFiles'
      <4>1. \A n \in Names : updateFile[n] # d
        BY <2>1 DEF WritingInv, WholeFiles
      <4> QED
        BY <1>0, <2>1, <3>2, <3>3, <4>1 DEF WritingInv, WholeFiles, CacheTypeOK
    <3> QED
      BY <1>0, <3>4, <3>5 DEF WritingInv
  <2> QED
    BY <2>2, <2>3
<1>9. ASSUME NEW d \in Downloads, FinishWriting(d) PROVE WritingInv'
  <2>1. /\ pc[d] = "writing" /\ pc'[d] = "rename" /\ written'[d] = "full" /\ d \notin late
        /\ \A e \in Downloads \ {d} : pc'[e] = pc[e] /\ written'[e] = written[e]
        /\ UNCHANGED <<rel, dest, late, dirty, tempFile, updateFile>>
    BY <1>0, <1>9 DEF FinishWriting, Accepts, WritingInv, LateAlone, CacheTypeOK
  <2>2. Writes(d)'
    BY <2>1 DEF WritingInv, Writes
  <2>3. WholeFiles'
    BY <1>0, <2>1 DEF WritingInv, WholeFiles, CacheTypeOK
  <2> QED
    BY <1>0, <2>1, <2>2, <2>3, OthersWrite DEF WritingInv
<1>10. ASSUME NEW d \in Downloads, Rename(d) PROVE WritingInv'
  <2>1. /\ pc[d] = "rename" /\ tempFile[dest[d]] = d /\ written[d] = "full" /\ d \notin late
        /\ dest[d] \in Names /\ dest[d] = FileName[rel[d]] /\ d # None
    BY <1>0, <1>10 DEF Rename, WritingInv, Writes, LateAlone, Started
  <2>2. /\ pc' = [pc EXCEPT ![d] = "renamed"]
        /\ updateFile' = [updateFile EXCEPT ![dest[d]] = d]
        /\ UNCHANGED <<rel, dest, late, written, dirty>>
    BY <1>10, <2>1 DEF Rename
  <2>3. /\ pc'[d] = "renamed" /\ updateFile'[dest[d]] = d
        /\ \A e \in Downloads \ {d} : pc'[e] = pc[e]
        /\ \A n \in Names \ {dest[d]} : updateFile'[n] = updateFile[n]
    BY <1>0, <2>1, <2>2 DEF CacheTypeOK
  <2>4. Writes(d)'
    BY <2>1, <2>2, <2>3 DEF Writes
  <2>5. WholeFiles'
    BY <1>0, <2>1, <2>2, <2>3 DEF WritingInv, WholeFiles
  <2> QED
    BY <1>0, <2>1, <2>2, <2>3, <2>4, <2>5, OthersWrite DEF WritingInv
<1>11. ASSUME NEW d \in Downloads, Cancel(d) PROVE WritingInv'
  <2>1. pc[d] \in Running /\ UNCHANGED <<rel, dest, written, dirty, tempFile, updateFile>>
    BY <1>11 DEF Cancel, Active
  <2>2. CASE pc[d] \in {"request", "writing"}
    <3>1. pc' = [pc EXCEPT ![d] = "clearing"] /\ late' = late \cup {d}
      BY <1>11, <2>2 DEF Cancel
    <3>2. pc'[d] = "clearing" /\ Writes(d)' /\ \A e \in Downloads \ {d} : pc'[e] = pc[e]
      BY <1>0, <2>1, <2>2, <3>1 DEF CacheTypeOK, WritingInv, Writes
    <3>3. WholeFiles'
      BY <2>1 DEF WritingInv, WholeFiles
    <3> QED
      BY <1>0, <2>1, <3>1, <3>2, <3>3, OthersWrite DEF WritingInv
  <2>3. CASE pc[d] \notin {"request", "writing"}
    BY <1>0, <1>11, <2>1, <2>3 DEF Cancel, WritingInv, OneActive, LateAlone, Writes, WholeFiles
  <2> QED
    BY <2>2, <2>3
<1>12. ASSUME NEW d \in Downloads, LateRespond(d) PROVE WritingInv'
  <2>1. /\ d \in late /\ written[d] = "none" /\ OpenTemp(d)
        /\ UNCHANGED <<pc, rel, dest, late, updateFile>>
        /\ \A e \in Downloads \ {d} : pc[e] \notin Running /\ e \notin late
        /\ pc[d] \in Failing
    BY <1>0, <1>12 DEF LateRespond, WritingInv, LateAlone, CacheTypeOK
  <2>2. dirty' = {}
    <3>1. \A e \in Downloads : ~StillWriting(e)
      BY <1>0, <2>1 DEF StillWriting
    <3> QED
      BY <1>0, <2>1, <3>1 DEF OpenTemp, WritingInv, WholeFiles, CacheTypeOK
  <2>3. \A e \in Downloads \ {d} : written'[e] = written[e]
    BY <1>0, <2>1 DEF OpenTemp, CacheTypeOK
  <2>4. \A n \in Names : updateFile[n] # d
    BY <2>1 DEF WritingInv, WholeFiles
  <2>5. OneActive' /\ LateAlone' /\ (\A e \in Downloads : Writes(e))'
    BY <1>0, <2>1, <2>3 DEF WritingInv, OneActive, LateAlone, Writes
  <2>6. WholeFiles'
    BY <1>0, <2>1, <2>2, <2>3, <2>4 DEF WritingInv, WholeFiles, CacheTypeOK
  <2> QED
    BY <1>0, <2>5, <2>6 DEF WritingInv
<1>13. ASSUME NEW d \in Downloads, LateEnd(d) PROVE WritingInv'
  <2>1. /\ d \in late /\ late' = late \ {d} /\ pc[d] \in Failing
        /\ UNCHANGED <<pc, rel, dest, dirty, tempFile, updateFile>>
        /\ \A e \in Downloads : written'[e] = written[e] \/ written'[e] = "full"
        /\ \A e \in Downloads \ {d} : written'[e] = written[e]
    BY <1>0, <1>13 DEF LateEnd, WritingInv, LateAlone, CacheTypeOK
  <2>2. OneActive' /\ LateAlone' /\ (\A e \in Downloads : Writes(e))'
    BY <1>0, <2>1 DEF WritingInv, OneActive, LateAlone, Writes
  <2>3. WholeFiles'
    BY <1>0, <2>1 DEF WritingInv, WholeFiles, CacheTypeOK
  <2> QED
    BY <1>0, <2>2, <2>3 DEF WritingInv
<1>14. ASSUME NEW d \in Downloads, NEW r \in Releases, StartDownload(d, r) PROVE WritingInv'
  <2>1. late = {} /\ \A e \in Downloads : pc[e] \notin Running
    BY <1>14, Zenon DEF StartDownload, Active, OneAtATime
  <2>2. /\ pc[d] = "idle" /\ pc'[d] = "validate" /\ dest'[d] = FileName[r] /\ rel'[d] = r
        /\ \A e \in Downloads \ {d} : pc'[e] = pc[e] /\ rel'[e] = rel[e] /\ dest'[e] = dest[e]
        /\ UNCHANGED <<late, written, dirty, tempFile, updateFile>>
    BY <1>0, <1>14 DEF StartDownload, CacheTypeOK
  <2>3. OneActive' /\ LateAlone'
    BY <2>1, <2>2 DEF OneActive, LateAlone
  <2>4. (\A e \in Downloads : Writes(e))' /\ WholeFiles'
    BY <2>1, <2>2 DEF WritingInv, Writes, WholeFiles
  <2> QED
    BY <1>0, <2>3, <2>4 DEF WritingInv
<1>15. CASE Crash
  <2>1. /\ \A e \in Downloads : pc'[e] \notin Running /\ (pc'[e] = "idle" => pc[e] = "idle")
        /\ late' = {}
        /\ UNCHANGED <<rel, dest, written, dirty, dirVars>>
    BY <1>0, <1>15 DEF Crash, ProcessEnds, CacheTypeOK, Settled
  <2> QED
    BY <1>0, <2>1 DEF WritingInv, OneActive, LateAlone, Writes, WholeFiles
<1>16. CASE UNCHANGED cacheVars
  BY <1>0, <1>16 DEF cacheVars, WritingInv, OneActive, LateAlone, Writes, WholeFiles
<1> QED
  BY <1>1, <1>2, <1>3, <1>4, <1>5, <1>6, <1>7, <1>8, <1>9, <1>10, <1>11, <1>12, <1>13,
     <1>14, <1>15, <1>16 DEF CacheNext, DownloadStep

\* When nothing is in memory, the files are all the cache's invariant is about.
LEMMA NothingRuns ==
  ASSUME WritingInv, file = None, versionInfo = None,
         \A d \in Downloads : pc[d] \notin Running
  PROVE  IInv
<1>1. \A d \in Downloads : Relies(d)
  BY DEF WritingInv, Writes, Relies, Running, BeforeWriting
<1>2. HelperAgrees /\ InstanceCheckSound
  BY DEF HelperAgrees, InstanceCheckSound
<1> QED
  BY <1>1, <1>2 DEF WritingInv, IInv

\* An update file that is moved away takes nothing from what is being written.
LEMMA MovedAway ==
  ASSUME WritingInv,
         UNCHANGED <<downloadVars, writerVars, tempFile, infoFile, helperVars, crashes>>,
         \/ UNCHANGED updateFile
         \/ \E n \in Names : updateFile' = [updateFile EXCEPT ![n] = None]
  PROVE  WritingInv'
<1> USE DEF downloadVars, writerVars, helperVars
<1>1. updateFile' \in [Names -> Downloads \cup {None}] /\ \A n \in Names : updateFile'[n] \in {updateFile[n], None}
  BY DEF WritingInv, Typed, CacheTypeOK
<1>2. Typed'
  BY <1>1 DEF WritingInv, Typed, CacheTypeOK, Started
<1> QED
  BY <1>1, <1>2 DEF WritingInv, OneActive, LateAlone, Writes, WholeFiles

\* The end of a process, with or without an installation before it.
LEMMA EndWriting ==
  ASSUME WritingInv, ProcessEnds, UNCHANGED <<tempFile, infoFile>>, crashes' \in 0..MaxCrashes,
         \/ UNCHANGED updateFile
         \/ \E n \in Names : updateFile' = [updateFile EXCEPT ![n] = None]
  PROVE  IInv' /\ WritingInv' /\ (\A d \in Downloads : pc'[d] \notin Running)
<1>1. updateFile' \in [Names -> Downloads \cup {None}] /\ \A n \in Names : updateFile'[n] \in {updateFile[n], None}
  BY DEF WritingInv, Typed, CacheTypeOK
<1>2. /\ \A e \in Downloads : pc'[e] \notin Running /\ (pc'[e] = "idle" => pc[e] = "idle")
      /\ \A e \in Downloads : pc'[e] \in BeforeWriting => pc'[e] = "idle"
      /\ late' = {} /\ file' = None /\ versionInfo' = None
      /\ UNCHANGED <<rel, dest, written, dirty>>
  BY DEF ProcessEnds, WritingInv, Typed, CacheTypeOK, Settled, Running, BeforeWriting
<1>3. Typed'
  BY <1>1 DEF ProcessEnds, WritingInv, Typed, CacheTypeOK, Started, Settled, Running
<1>4. WritingInv'
  BY <1>1, <1>2, <1>3 DEF WritingInv, OneActive, LateAlone, Writes, WholeFiles, BeforeWriting, Running
<1>5. IInv'
  <2>1. (\A d \in Downloads : Relies(d))'
    BY <1>2, <1>4 DEF WritingInv, Writes, Relies, Running
  <2>2. HelperAgrees' /\ InstanceCheckSound'
    BY <1>2 DEF HelperAgrees, InstanceCheckSound
  <2> QED
    BY <1>4, <2>1, <2>2 DEF WritingInv, IInv
<1> QED
  BY <1>2, <1>4, <1>5

\* Every file that could be run is a release.
LEMMA WholeAreReleases ==
  ASSUME WritingInv, NEW n \in Names, updateFile[n] # None
  PROVE  \E r \in Releases : Complete(n, r)
<1>1. updateFile[n] \in Downloads /\ written[updateFile[n]] = "full" /\ dirty = {}
  BY DEF WritingInv, WholeFiles, Typed, CacheTypeOK
<1>2. pc[updateFile[n]] # "idle"
  BY <1>1 DEF WritingInv, Writes, BeforeWriting
<1>3. rel[updateFile[n]] \in Releases
  BY <1>1, <1>2 DEF WritingInv, Typed, Started
<1> QED
  BY <1>1, <1>3 DEF Complete, Holds

LEMMA HoldsKept ==
  OneAtATime /\ WritingInv /\ HoldsWhenSaving /\ [CacheNext]_cacheVars => HoldsWhenSaving'
<1> SUFFICES ASSUME OneAtATime, WritingInv, HoldsWhenSaving, [CacheNext]_cacheVars
             PROVE  HoldsWhenSaving'
  OBVIOUS
<1> USE CacheAssumption DEF CacheAssumption, Goto, downloadVars, writerVars, dirVars, helperVars
<1>0. Typed /\ Typed' /\ CacheTypeOK /\ CacheTypeOK' /\ Started
  BY NextTyped DEF WritingInv, Typed
<1> USE DEF Running
<1>1. ASSUME UNCHANGED <<dest, helperVars>>,
             \A e \in Downloads : pc'[e] \in {"saveInfo", "saving"} => pc[e] \in {"saveInfo", "saving"}
      PROVE  HoldsWhenSaving'
  BY <1>1 DEF HoldsWhenSaving
<1>2. ASSUME NEW d \in Downloads, pc[d] \in Running,
             \A e \in Downloads \ {d} : pc'[e] = pc[e],
             pc'[d] \in {"saveInfo", "saving"} => file' = dest'[d] /\ downloadedFileInfo' # None
      PROVE  HoldsWhenSaving'
  BY <1>2 DEF HoldsWhenSaving, WritingInv, OneActive
<1>3. ASSUME NEW d \in Downloads, NEW r \in Releases, StartDownload(d, r) PROVE HoldsWhenSaving'
  <2>1. /\ pc'[d] = "validate" /\ UNCHANGED helperVars
        /\ \A e \in Downloads \ {d} : pc'[e] = pc[e] /\ dest'[e] = dest[e]
    BY <1>0, <1>3 DEF StartDownload, CacheTypeOK
  <2> QED
    BY <2>1 DEF HoldsWhenSaving
<1>4. ASSUME NEW d \in Downloads,
             \/ Validate(d) \/ FailHash(d) \/ EmptyDir(d) \/ EndClean(d) \/ CreateTemp(d)
             \/ Respond(d) \/ FinishWriting(d) \/ FailTask(d) \/ Rename(d)
      PROVE  HoldsWhenSaving'
  BY <1>0, <1>1, <1>4 DEF Validate, FailHash, EmptyDir, EndClean, CreateTemp, Respond, FinishWriting,
                          FailTask, Rename, CacheTypeOK
<1>5. ASSUME NEW d \in Downloads,
             \/ OpenInfo(d) \/ SaveInfo(d) \/ FailSave(d) \/ EndClear(d) \/ UnlinkUpdateFile(d)
             \/ Cancel(d) \/ LateRespond(d) \/ LateEnd(d)
      PROVE  HoldsWhenSaving'
  BY <1>0, <1>1, <1>5 DEF OpenInfo, SaveInfo, FailSave, EndClear, UnlinkUpdateFile, Cancel,
                          LateRespond, LateEnd, CacheTypeOK
<1>6. ASSUME NEW d \in Downloads, ReadInfo(d) PROVE HoldsWhenSaving'
  BY <1>0, <1>2, <1>6 DEF ReadInfo, CacheTypeOK
<1>7. ASSUME NEW d \in Downloads, CheckExists(d) \/ SetDownloadedFile(d) \/ ClearFields(d)
      PROVE  HoldsWhenSaving'
  <2>1. pc[d] \in Running /\ rel[d] \in Releases /\ \A e \in Downloads \ {d} : pc'[e] = pc[e]
    BY <1>0, <1>7 DEF CheckExists, SetDownloadedFile, ClearFields, CacheTypeOK, Started
  <2>2. pc'[d] \in {"saveInfo", "saving"} => file' = dest'[d] /\ downloadedFileInfo' # None
    BY <1>0, <1>7, <2>1 DEF CheckExists, SetDownloadedFile, ClearFields, SetFields, CacheTypeOK
  <2> QED
    BY <1>2, <2>1, <2>2
<1>8. ASSUME NEW d \in Downloads, HashFile(d) PROVE HoldsWhenSaving'
  <2>1. pc[d] = "hash" /\ (pc' = [pc EXCEPT ![d] = "done"] \/ pc' = [pc EXCEPT ![d] = "clean"])
    BY <1>8, Zenon DEF HashFile
  <2> QED
    BY <1>0, <1>2, <2>1 DEF CacheTypeOK
<1>9. CASE Crash
  BY <1>0, <1>9 DEF Crash, ProcessEnds, HoldsWhenSaving, CacheTypeOK
<1>10. CASE UNCHANGED cacheVars
  BY <1>1, <1>10 DEF cacheVars
<1> QED
  BY <1>3, <1>4, <1>5, <1>6, <1>7, <1>8, <1>9, <1>10 DEF CacheNext, DownloadStep

-----------------------------------------------------------------------------
\* The updater, with one download at a time

\* The constants and the variable as Installer has them.
LEMMA HeldIsBoolean == Held \in BOOLEAN /\ Held' \in BOOLEAN
  BY Zenon DEF Held

LEMMA InstallerConstants == AutoInstallOnAppQuit \in BOOLEAN /\ MaxCalls \in Nat
  BY UpdaterAssumption DEF UpdaterAssumption

LEMMA InitUpdaterInv == Init => UpdaterInv
<1> SUFFICES ASSUME Init PROVE UpdaterInv
  OBVIOUS
<1> USE UpdaterAssumption DEF UpdaterAssumption
<1>1. UpdaterTyped
  <2>1. calls \in 0..MaxCalls /\ launched \in Nat
    BY InstallerConstants DEF Init, Inst!InstallerInit
  <2>2. /\ alive \in BOOLEAN /\ quitAndInstallCalled \in BOOLEAN
        /\ quitHandlerAdded \in BOOLEAN /\ quitScheduled \in BOOLEAN
    BY Zenon DEF Init, Inst!InstallerInit
  <2> QED
    BY <2>1, <2>2, HeldIsBoolean DEF Init, UpdaterTyped, Inst!InstallerTypeOK
<1>2. WritingInv /\ IInv
  BY InitWriting, InitIInv DEF Init
<1>3. HoldsWhenSaving /\ NothingInMemory
  BY DEF Init, CacheInit, Inst!InstallerInit, HoldsWhenSaving, NothingInMemory
<1>4. UntouchedWithoutCall /\ NeverDamaged
  BY <1>2 DEF Init, Inst!InstallerInit, UntouchedWithoutCall, NeverDamaged
<1> QED
  BY <1>1, <1>2, <1>3, <1>4 DEF UpdaterInv

\* A step of the process in which the cache only does what a cache may do.
LEMMA CacheKeeps ==
  ASSUME OneAtATime, UpdaterInv, alive, [CacheNext]_cacheVars,
         UNCHANGED <<platform, autoDownload, app, alive, calls, launched, quitAndInstallCalled>>,
         checking' \in BOOLEAN, updateInfoAndProvider' \in Releases \cup {None},
         quitHandlerAdded' \in BOOLEAN, quitScheduled' \in BOOLEAN
  PROVE  UpdaterInv'
<1>1. UpdaterTyped'
  BY DEF UpdaterInv, UpdaterTyped, Inst!InstallerTypeOK, Held
<1>2. WritingInv' /\ HoldsWhenSaving'
  BY NextWriting, HoldsKept DEF UpdaterInv
<1>3. NothingInMemory' /\ NeverDamaged'
  BY DEF UpdaterInv, NothingInMemory, NeverDamaged
<1>4. UntouchedWithoutCall'
  BY NextIInv DEF UpdaterInv, UntouchedWithoutCall
<1> QED
  BY <1>1, <1>2, <1>3, <1>4 DEF UpdaterInv

\* doInstall starts whole releases only, and touches nothing but the update file.
LEMMA InstallsReleases ==
  ASSUME UpdaterInv, NEW outcome, Inst!Install(outcome), DoInstall(outcome)
  PROVE  /\ app' \in {"current", "updated", "gone"}
         /\ \/ UNCHANGED updateFile
            \/ \E n \in Names : updateFile' = [updateFile EXCEPT ![n] = None]
<1>1. app \in {"current", "updated", "gone"}
  BY DEF UpdaterInv, UpdaterTyped, NeverDamaged
<1>2. ASSUME outcome \in {"started", "threw"}
      PROVE  file \in Names
  BY <1>2 DEF Inst!Install, Inst!Outcomes, Held, UpdaterInv, WritingInv, Typed, CacheTypeOK
<1>3. ASSUME outcome \in {"started", "threw"}, updateFile[file] # None
      PROVE  Result = "updated"
  BY <1>2, <1>3, WholeAreReleases DEF UpdaterInv, Result
<1>4. CASE outcome \in {"started", "threw"} /\ platform = "appImage"
  BY <1>1, <1>2, <1>3, <1>4 DEF DoInstall, AppImageInstall
<1>5. CASE outcome \in {"started", "threw"} /\ platform # "appImage"
  BY <1>1, <1>3, <1>5 DEF DoInstall, NsisInstall
<1>6. CASE outcome \notin {"started", "threw"}
  BY <1>1, <1>6 DEF DoInstall
<1> QED
  BY <1>4, <1>5, <1>6

LEMMA NextUpdaterInv == OneAtATime /\ UpdaterInv /\ [Next]_vars => UpdaterInv'
<1> SUFFICES ASSUME OneAtATime, UpdaterInv, [Next]_vars PROVE UpdaterInv'
  OBVIOUS
<1> USE InstallerConstants DEF installVars, checkVars
<1>0. /\ UpdaterTyped /\ WritingInv /\ HoldsWhenSaving /\ NothingInMemory /\ UntouchedWithoutCall
      /\ calls \in Nat /\ calls \in 0..MaxCalls /\ crashes \in 0..MaxCrashes
      /\ updateInfoAndProvider \in Releases \cup {None}
  BY DEF UpdaterInv, UpdaterTyped, Inst!InstallerTypeOK, WritingInv, Typed, CacheTypeOK
<1>1. ASSUME CheckForUpdates \/ CheckFails, UNCHANGED <<platform, autoDownload>>
      PROVE  UpdaterInv'
  BY <1>0, <1>1, CacheKeeps
     DEF CheckForUpdates, CheckFails, NothingInMemory, UpdaterTyped, Inst!InstallerTypeOK
<1>2. ASSUME NEW r \in Releases, CheckAnswers(r), UNCHANGED <<platform, autoDownload>>
      PROVE  UpdaterInv'
  <2>1. alive /\ [CacheNext]_cacheVars
    BY <1>0, <1>2 DEF CheckAnswers, NothingInMemory, CacheNext
  <2> QED
    BY <1>0, <1>2, <2>1, CacheKeeps DEF CheckAnswers, UpdaterTyped, Inst!InstallerTypeOK
<1>3. ASSUME DownloadUpdate, UNCHANGED <<platform, autoDownload>>
      PROVE  UpdaterInv'
  <2>1. alive /\ CacheNext
    BY <1>0, <1>3 DEF DownloadUpdate, CacheNext
  <2> QED
    BY <1>0, <1>3, <2>1, CacheKeeps DEF DownloadUpdate, UpdaterTyped, Inst!InstallerTypeOK
<1>4. ASSUME NEW d \in Downloads, Download(d), UNCHANGED <<platform, autoDownload>>
      PROVE  UpdaterInv'
  <2>1. alive /\ CacheNext
    BY <1>4 DEF Download, CacheNext
  <2>2. /\ UNCHANGED <<alive, calls, launched, quitAndInstallCalled, quitScheduled>>
        /\ quitHandlerAdded' \in BOOLEAN
    BY <1>0, <1>4 DEF Download, Inst!AddQuitHandler, Inst!countVars, UpdaterTyped, Inst!InstallerTypeOK
  <2> QED
    BY <1>0, <1>4, <2>1, <2>2, CacheKeeps DEF Download, UpdaterTyped, Inst!InstallerTypeOK
<1>5. ASSUME NEW outcome \in Inst!AllOutcomes, QuitAndInstall(outcome),
             UNCHANGED <<platform, autoDownload>>
      PROVE  UpdaterInv'
  <2>1. /\ Inst!Install(outcome) /\ DoInstall(outcome)
        /\ alive /\ alive' /\ calls < MaxCalls /\ calls' = calls + 1
        /\ UNCHANGED <<downloadVars, writerVars, tempFile, infoFile, helperVars, crashes, checkVars>>
    BY <1>5 DEF QuitAndInstall, Inst!QuitAndInstall
  <2>2. UpdaterTyped' /\ NeverDamaged'
    <3>1. launched' \in Nat
      BY <1>0, <2>1 DEF Inst!Install, UpdaterTyped, Inst!InstallerTypeOK
    <3> QED
      BY <1>0, <1>5, <2>1, <3>1, InstallsReleases
         DEF QuitAndInstall, Inst!QuitAndInstall, UpdaterTyped, Inst!InstallerTypeOK, Held,
             helperVars, NeverDamaged
  <2>3. WritingInv'
    BY <1>0, <2>1, InstallsReleases, MovedAway
  <2>4. HoldsWhenSaving' /\ NothingInMemory' /\ UntouchedWithoutCall'
    BY <1>0, <2>1 DEF HoldsWhenSaving, NothingInMemory, UntouchedWithoutCall, downloadVars, helperVars
  <2> QED
    BY <2>2, <2>3, <2>4 DEF UpdaterInv
<1>6. ASSUME NEW outcome \in Inst!AllOutcomes, NEW exitCode \in {0, 1}, Quit(exitCode, outcome),
             UNCHANGED <<platform, autoDownload>>
      PROVE  UpdaterInv'
  <2>1. /\ DoInstall(outcome) /\ ProcessEnds /\ ~checking' /\ updateInfoAndProvider' = None
        /\ ~alive' /\ calls' = calls /\ UNCHANGED <<tempFile, infoFile, crashes, quitHandlerAdded>>
        /\ ~quitScheduled' /\ checking' = FALSE
    BY <1>6 DEF Quit, Inst!Quit, Forget
  <2>2. /\ app' \in {"current", "updated", "gone"}
        /\ \/ UNCHANGED updateFile
           \/ \E n \in Names : updateFile' = [updateFile EXCEPT ![n] = None]
    <3>1. CASE Inst!HandlerInstalls(exitCode)
      BY <1>6, <2>1, <3>1, InstallsReleases DEF Quit, Inst!Quit
    <3>2. CASE ~Inst!HandlerInstalls(exitCode)
      BY <1>0, <1>6, <2>1, <3>2 DEF Quit, Inst!Quit, DoInstall, UpdaterInv, UpdaterTyped, NeverDamaged
    <3> QED
      BY <3>1, <3>2
  <2>3. IInv' /\ WritingInv' /\ (\A d \in Downloads : pc'[d] \notin Running)
    BY <1>0, <2>1, <2>2, EndWriting
  <2>4. UpdaterTyped'
    <3>1. launched' \in Nat
      BY <1>0, <1>6 DEF Quit, Inst!Quit, Inst!Install, UpdaterTyped, Inst!InstallerTypeOK
    <3>2. quitAndInstallCalled' \in BOOLEAN
      <4>1. CASE Inst!HandlerInstalls(exitCode)
        BY <1>6, <4>1 DEF Quit, Inst!Quit
      <4>2. CASE ~Inst!HandlerInstalls(exitCode)
        BY <1>0, <1>6, <4>2 DEF Quit, Inst!Quit, UpdaterTyped, Inst!InstallerTypeOK
      <4> QED
        BY <4>1, <4>2
    <3>3. Held' \in BOOLEAN /\ alive' = FALSE /\ quitScheduled' = FALSE
      BY <1>6, HeldIsBoolean DEF Quit, Inst!Quit
    <3> QED
      BY <1>0, <1>6, <2>1, <2>2, <3>1, <3>2, <3>3 DEF UpdaterTyped, Inst!InstallerTypeOK
  <2>5. HoldsWhenSaving' /\ NothingInMemory' /\ UntouchedWithoutCall' /\ NeverDamaged'
    BY <2>1, <2>2, <2>3
       DEF HoldsWhenSaving, NothingInMemory, UntouchedWithoutCall, NeverDamaged, ProcessEnds, Running
  <2> QED
    BY <2>3, <2>4, <2>5 DEF UpdaterInv
<1>7. ASSUME Killed, UNCHANGED <<platform, autoDownload>>
      PROVE  UpdaterInv'
  <2>1. /\ ProcessEnds /\ checking' = FALSE /\ updateInfoAndProvider' = None
        /\ alive' = FALSE /\ quitScheduled' = FALSE
        /\ UNCHANGED <<quitAndInstallCalled, quitHandlerAdded, calls, launched, dirVars, app>>
        /\ crashes' \in 0..MaxCrashes
    BY <1>0, <1>7, CacheAssumption DEF Killed, Inst!Kill, Inst!countVars, Forget, CacheAssumption
  <2>2. IInv' /\ WritingInv' /\ (\A d \in Downloads : pc'[d] \notin Running)
    BY <1>0, <2>1, EndWriting DEF dirVars
  <2>3. UpdaterTyped'
    BY <1>0, <1>7, <2>1 DEF UpdaterTyped, Inst!InstallerTypeOK, Held
  <2>4. HoldsWhenSaving' /\ NothingInMemory' /\ UntouchedWithoutCall' /\ NeverDamaged'
    BY <2>1, <2>2
       DEF HoldsWhenSaving, NothingInMemory, UntouchedWithoutCall, NeverDamaged, ProcessEnds, Running,
           UpdaterInv
  <2> QED
    BY <2>2, <2>3, <2>4 DEF UpdaterInv
<1>8. ASSUME Relaunch, UNCHANGED <<platform, autoDownload>>
      PROVE  UpdaterInv'
  <2>1. UNCHANGED cacheVars /\ ~alive /\ alive' /\ UNCHANGED checkVars
    BY <1>8 DEF Relaunch
  <2>2. WritingInv' /\ HoldsWhenSaving'
    BY <1>0, <2>1, NextWriting, HoldsKept
  <2>3. IInv
    BY <1>0, <2>1, NothingRuns DEF NothingInMemory
  <2>4. IInv'
    BY <2>1, <2>3, NextIInv
  <2>5. UpdaterTyped'
    <3>1. calls' \in 0..MaxCalls /\ launched' \in Nat
      BY <1>8 DEF Relaunch
    <3>2. /\ alive' \in BOOLEAN /\ quitAndInstallCalled' \in BOOLEAN
          /\ quitHandlerAdded' \in BOOLEAN /\ quitScheduled' \in BOOLEAN
      BY <1>8, Zenon DEF Relaunch
    <3> QED
      BY <1>0, <1>8, <3>1, <3>2, HeldIsBoolean DEF Relaunch, UpdaterTyped, Inst!InstallerTypeOK
  <2>6. NothingInMemory' /\ UntouchedWithoutCall' /\ NeverDamaged'
    BY <1>8, <2>1, <2>4 DEF Relaunch, NothingInMemory, UntouchedWithoutCall, NeverDamaged, UpdaterInv
  <2> QED
    BY <2>2, <2>5, <2>6 DEF UpdaterInv
<1>9. CASE UNCHANGED vars
  <2>1. UNCHANGED <<platform, autoDownload, cacheVars, checkVars, installVars, app>>
    BY <1>9 DEF vars
  <2>2. WritingInv' /\ HoldsWhenSaving' /\ (IInv => IInv')
    BY <1>0, <2>1, NextWriting, HoldsKept, NextIInv
  <2>3. UpdaterTyped' /\ NothingInMemory' /\ UntouchedWithoutCall' /\ NeverDamaged'
    BY <1>0, <2>1, <2>2
       DEF UpdaterTyped, Inst!InstallerTypeOK, Held, NothingInMemory, UntouchedWithoutCall,
           NeverDamaged, UpdaterInv, cacheVars, downloadVars, helperVars
  <2> QED
    BY <2>2, <2>3 DEF UpdaterInv
<1> QED
  BY <1>1, <1>2, <1>3, <1>4, <1>5, <1>6, <1>7, <1>8, <1>9 DEF Next, Step

LEMMA UpdaterInvariant == ASSUME OneAtATime PROVE Spec => []UpdaterInv
<1>1. UpdaterInv /\ [Next]_vars => UpdaterInv'
  BY NextUpdaterInv
<1> QED
  BY <1>1, InitUpdaterInv, PTL DEF Spec

(***************************************************************************)
(* One download at a time: no crash, failure, leftover of the cache or     *)
(* moved AppImage makes the updater replace the application by a file that *)
(* is not the whole file of a release.                                     *)
(***************************************************************************)
THEOREM NothingDamages ==
  ASSUME OneAtATime PROVE Spec => []NeverDamaged
<1>1. UpdaterInv => NeverDamaged
  BY DEF UpdaterInv
<1> QED
  BY <1>1, UpdaterInvariant, PTL

(***************************************************************************)
(* One download at a time: an update that is held when no download is in   *)
(* progress is installed when the application quits by itself, whatever    *)
(* happened in this run or in earlier ones (or an AppImage is not told its *)
(* place).                                                                 *)
(***************************************************************************)
THEOREM QuietQuitInstalls ==
  ASSUME OneAtATime PROVE Spec => InstalledOnQuietQuit
<1> DEFINE Quiet == CleanQuit /\ quitHandlerAdded /\ Active = {} /\ Held
<1>1. ASSUME UpdaterInv, Quiet PROVE InstalledBy
  <2>1. PICK outcome \in Inst!AllOutcomes : Quit(0, outcome)
    BY <1>1 DEF CleanQuit
  <2>2. IInv /\ ~quitAndInstallCalled /\ platform \in {"nsis", "appImage"}
    BY <1>1, <2>1 DEF UpdaterInv, UpdaterTyped, UntouchedWithoutCall, CleanQuit, Quit, Inst!Quit
  <2>3. outcome \in {"started", "threw"} /\ DoInstall(outcome)
    BY <1>1, <2>1, <2>2
       DEF Quit, Inst!Quit, Inst!HandlerInstalls, Inst!Install, Inst!Outcomes
  <2>4. file \in Names /\ updateFile[file] # None
    BY <1>1, <2>2 DEF IInv, HelperAgrees, Typed, CacheTypeOK, Active, Held
  <2>5. Result = "updated"
    BY <1>1, <2>4, WholeAreReleases DEF UpdaterInv, Result
  <2>6. CASE platform = "appImage"
    BY <2>3, <2>4, <2>5, <2>6 DEF DoInstall, AppImageInstall, InstalledBy
  <2>7. CASE platform = "nsis"
    BY <2>3, <2>4, <2>5, <2>7 DEF DoInstall, NsisInstall, InstalledBy
  <2> QED
    BY <2>2, <2>6, <2>7
<1>2. UpdaterInv /\ [Next]_vars => [Quiet => InstalledBy]_vars
  BY <1>1
<1> QED
  BY <1>2, UpdaterInvariant, PTL DEF Spec, InstalledOnQuietQuit

-----------------------------------------------------------------------------
\* The refinement of Installer

\* What a step of the cache does to what install() looks at: only the steps that
\* announce a download set the quit handler, and they leave the update held.
LEMMA AnnouncedIsHeld ==
  ASSUME UpdaterInv, NEW d \in Downloads, [CacheNext]_cacheVars, Announces(d)
  PROVE  Held'
<1>1. CacheTypeOK /\ Started
  BY DEF UpdaterInv, WritingInv, Typed
<1>2. CheckExists(d) \/ HashFile(d) \/ SaveInfo(d)
  BY <1>1, WhoAnnounces DEF Announces
<1>3. CASE SetFields(d) /\ pc[d] # "idle"
  BY <1>1, <1>3, CacheAssumption DEF SetFields, Held, Started, CacheAssumption
<1>4. CASE CheckExists(d)
  BY <1>1, <1>3, <1>4 DEF CheckExists, Announces, Goto, CacheTypeOK
<1>5. CASE HashFile(d)
  <2>1. CASE CachedFileValid(d)
    BY <1>3, <1>5, <2>1 DEF HashFile
  <2>2. CASE ~CachedFileValid(d)
    <3>1. pc' = [pc EXCEPT ![d] = "clean"]
      BY <1>5, <2>2, Zenon DEF HashFile, Goto
    <3> QED
      BY <1>1, <3>1 DEF Announces, CacheTypeOK
  <2> QED
    BY <2>1, <2>2
<1>6. CASE SaveInfo(d)
  BY <1>1, <1>6, CacheAssumption
     DEF SaveInfo, helperVars, UpdaterInv, HoldsWhenSaving, Held, Started, CacheAssumption
<1> QED
  BY <1>2, <1>4, <1>5, <1>6

LEMMA InitInstaller == Init => Inst!InstallerInit
  BY DEF Init

LEMMA NextInstaller == UpdaterInv /\ [Next]_vars => [Inst!InstallerNext]_(Inst!installerVars)
<1> SUFFICES ASSUME UpdaterInv, [Next]_vars
             PROVE  Inst!InstallerNext \/ UNCHANGED Inst!installerVars
  OBVIOUS
<1> USE DEF installVars, Inst!flagVars, Inst!countVars
<1>1. ASSUME UNCHANGED <<helperVars, installVars>>
      PROVE  UNCHANGED Inst!installerVars
  BY <1>1 DEF helperVars, Held, Inst!installerVars
<1>2. CASE CheckForUpdates \/ CheckFails \/ DownloadUpdate \/ \E r \in Releases : CheckAnswers(r)
  <2>1. UNCHANGED <<helperVars, installVars>>
    BY <1>2 DEF CheckForUpdates, CheckFails, DownloadUpdate, CheckAnswers, StartDownload, cacheVars
  <2> QED
    BY <1>1, <2>1
<1>3. ASSUME NEW d \in Downloads, Download(d)
      PROVE  Inst!InstallerNext
  <2>1. CASE Announces(d)
    <3>1. CacheNext
      BY <1>3 DEF Download, CacheNext
    <3>2. Held' = TRUE
      BY <2>1, <3>1, AnnouncedIsHeld, HeldIsBoolean
    <3> QED
      BY <1>3, <2>1, <3>2 DEF Download, Inst!InstallerNext
  <2>2. CASE ~Announces(d)
    BY <1>3, <2>2, HeldIsBoolean DEF Download, Inst!HoldOrDrop, Inst!InstallerNext
  <2> QED
    BY <2>1, <2>2
<1>4. ASSUME NEW outcome \in Inst!AllOutcomes, QuitAndInstall(outcome)
      PROVE  Inst!InstallerNext
  <2>1. UNCHANGED Held
    BY <1>4 DEF QuitAndInstall, helperVars, Held
  <2> QED
    BY <1>4, <2>1 DEF QuitAndInstall, Inst!InstallerNext
<1>5. ASSUME NEW outcome \in Inst!AllOutcomes, NEW exitCode \in {0, 1}, Quit(exitCode, outcome)
      PROVE  Inst!InstallerNext
  <2>1. Held' = FALSE
    BY <1>5 DEF Quit, Forget, ProcessEnds, Held
  <2> QED
    BY <1>5, <2>1 DEF Quit, Inst!InstallerNext
<1>6. CASE Killed
  <2>1. Held' = FALSE
    BY <1>6 DEF Killed, Forget, ProcessEnds, Held
  <2> QED
    BY <1>6, <2>1 DEF Killed, Inst!InstallerNext
<1>7. CASE Relaunch
  <2>1. Held' = FALSE
    BY <1>7 DEF Relaunch, UpdaterInv, NothingInMemory, Held, cacheVars, helperVars
  <2> QED
    BY <1>7, <2>1 DEF Relaunch, Inst!Relaunch, Inst!InstallerNext
<1>8. CASE UNCHANGED vars
  BY <1>1, <1>8 DEF vars, cacheVars
<1> QED
  BY <1>2, <1>3, <1>4, <1>5, <1>6, <1>7, <1>8 DEF Next, Step

(***************************************************************************)
(* One download at a time: in the whole updater, BaseUpdater behaves as    *)
(* Installer says.  Every step is one of Installer or leaves it alone.     *)
(***************************************************************************)
THEOREM UpdaterImplementsInstaller ==
  ASSUME OneAtATime PROVE Spec => InstallerConforms
<1>1. Init => Inst!InstallerInit
  BY InitInstaller
<1>2. UpdaterInv /\ [Next]_vars => [Inst!InstallerNext]_(Inst!installerVars)
  BY NextInstaller
<1> QED
  BY <1>1, <1>2, UpdaterInvariant, PTL DEF Spec, InstallerConforms, Inst!InstallerSpec

InstProofs == INSTANCE InstallerProofs WITH held <- Held

(***************************************************************************)
(* One download at a time: what is proved of Installer holds of the whole  *)
(* updater, so an application that calls quitAndInstall at most once in a  *)
(* run starts at most one installer in it.                                 *)
(***************************************************************************)
THEOREM OneCallStartsOneInstaller ==
  ASSUME OneAtATime PROVE Spec => [](calls <= 1 => Inst!OneInstaller)
<1>1. InstProofs!InstallerSpec => [](calls <= 1 => InstProofs!OneInstaller)
  BY InstallerConstants, InstProofs!OneCallOneInstaller DEF InstProofs!InstallerAssumption
<1>2. /\ Inst!InstallerInit => InstProofs!InstallerInit
      /\ [Inst!InstallerNext]_(Inst!installerVars) =>
             [InstProofs!InstallerNext]_(InstProofs!installerVars)
  BY DEF Inst!InstallerInit, InstProofs!InstallerInit, Inst!InstallerNext,
         InstProofs!InstallerNext, Inst!installerVars, InstProofs!installerVars, Inst!flagVars,
         InstProofs!flagVars, Inst!countVars, InstProofs!countVars, Inst!AllOutcomes,
         InstProofs!AllOutcomes, Inst!QuitAndInstall, InstProofs!QuitAndInstall, Inst!Install,
         InstProofs!Install, Inst!Outcomes, InstProofs!Outcomes, Inst!AddQuitHandler,
         InstProofs!AddQuitHandler, Inst!Quit, InstProofs!Quit, Inst!HandlerInstalls,
         InstProofs!HandlerInstalls, Inst!Kill, InstProofs!Kill, Inst!Relaunch,
         InstProofs!Relaunch, Inst!HoldOrDrop, InstProofs!HoldOrDrop
<1>3. InstProofs!OneInstaller => Inst!OneInstaller
  BY DEF Inst!OneInstaller, InstProofs!OneInstaller
<1> QED
  BY <1>1, <1>2, <1>3, UpdaterImplementsInstaller, PTL
     DEF InstallerConforms, Inst!InstallerSpec, InstProofs!InstallerSpec
=============================================================================
