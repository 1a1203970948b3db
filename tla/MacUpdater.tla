----------------------------- MODULE MacUpdater -----------------------------
(***************************************************************************)
(* MacUpdater: the ZIP is downloaded as on any platform, then a server on  *)
(* 127.0.0.1 hands it to Squirrel.Mac (Electron's autoUpdater), and an     *)
(* update is announced when Squirrel.Mac says "update-downloaded".  The    *)
(* event announced then is whichever updateInfoForPendingUpdateDownloaded- *)
(* Event holds: one field for all downloads.  The file is handed over, and *)
(* the promise of the download resolved, before Squirrel.Mac has verified  *)
(* it, so the application may well start the next download first.          *)
(*                                                                         *)
(* Squirrel.Mac is external: asked for updates it requests the ZIP, and    *)
(* ends with "update-downloaded" or, at any point, with "error".           *)
(***************************************************************************)
EXTENDS Naturals, Sequences

CONSTANTS MacDownloads, None

ASSUME MacAssumption == None \notin MacDownloads

VARIABLES
    pendingEvent,    \* updateInfoForPendingUpdateDownloadedEvent: whose event, or None
    phase,           \* of each download: "none", "download", "done", "served", "end"
    downloadPromise, \* "none", "pending", "resolved", "rejected"
    server,          \* "none", "open", "closing" (in a setImmediate), "closed"
    response,        \* to the request for the ZIP: "none", "piping", "ending" (after a
                     \*   read error), "finished", "aborted"
    native,          \* Squirrel.Mac: "none", "asked", "fetching", "fetched", "settled"
    errorListeners,  \* the downloads whose reject listens to "error" of nativeUpdater
    announced,       \* the dispatched events: [of |-> a download, event |-> whose or None]
    overlap          \* a download was started before Squirrel.Mac settled the last one

macDownloadVars == <<phase, downloadPromise>>
serverVars == <<server, response>>
macVars == <<pendingEvent, macDownloadVars, serverVars, native, errorListeners,
             announced, overlap>>

MacInit ==
    /\ pendingEvent = None
    /\ phase = [d \in MacDownloads |-> "none"]
    /\ downloadPromise = [d \in MacDownloads |-> "none"]
    /\ server = [d \in MacDownloads |-> "none"]
    /\ response = [d \in MacDownloads |-> "none"]
    /\ native = [d \in MacDownloads |-> "none"]
    /\ errorListeners = {}
    /\ announced = <<>>
    /\ overlap = FALSE

RejectAll(ds) ==
    downloadPromise' = [d \in MacDownloads |->
        IF d \in ds /\ downloadPromise[d] = "pending" THEN "rejected" ELSE downloadPromise[d]]

-----------------------------------------------------------------------------
\* doDownloadUpdate: with no ZIP among the files it throws at once.
DoDownloadUpdate(d) ==
    /\ phase[d] = "none"
    /\ pendingEvent' = None
    /\ overlap' = (overlap \/ \E e \in MacDownloads :
                       phase[e] \in {"download", "done"} \/ native[e] \notin {"none", "settled"})
    /\ \/ /\ phase' = [phase EXCEPT ![d] = "download"]
          /\ downloadPromise' = [downloadPromise EXCEPT ![d] = "pending"]
       \/ /\ phase' = [phase EXCEPT ![d] = "end"]
          /\ downloadPromise' = [downloadPromise EXCEPT ![d] = "rejected"]
    /\ UNCHANGED <<serverVars, native, errorListeners, announced>>

\* executeDownload up to the call of done, which sets the event; it may fail.
Downloaded(d) ==
    /\ phase[d] = "download"
    /\ \/ phase' = [phase EXCEPT ![d] = "done"] /\ pendingEvent' = d /\ UNCHANGED downloadPromise
       \/ phase' = [phase EXCEPT ![d] = "end"] /\ RejectAll({d}) /\ UNCHANGED pendingEvent
    /\ UNCHANGED <<serverVars, native, errorListeners, announced, overlap>>

\* The rest of done: stat of the file, which may fail; then the callback of
\* listen, which asks Squirrel.Mac.
ListenWithoutListener(d) ==                                                \* mutant
    /\ phase[d] = "done"
    /\ phase' = [phase EXCEPT ![d] = "served"]
    /\ server' = [server EXCEPT ![d] = "open"]
    /\ native' = [native EXCEPT ![d] = "asked"]
    /\ UNCHANGED <<pendingEvent, downloadPromise, response, errorListeners, announced, overlap>>

Listen(d) ==
    /\ phase[d] = "done"
    /\ \/ /\ phase' = [phase EXCEPT ![d] = "served"]
          /\ server' = [server EXCEPT ![d] = "open"]
          /\ errorListeners' = errorListeners \union {d}
          /\ native' = [native EXCEPT ![d] = "asked"]
          /\ UNCHANGED downloadPromise
       \/ /\ phase' = [phase EXCEPT ![d] = "end"] /\ RejectAll({d})
          /\ UNCHANGED <<server, errorListeners, native>>
    /\ UNCHANGED <<pendingEvent, response, announced, overlap>>

-----------------------------------------------------------------------------
\* The server

RequestZip(d) ==
    /\ native[d] = "asked" /\ server[d] = "open"
    /\ native' = [native EXCEPT ![d] = "fetching"]
    /\ response' = [response EXCEPT ![d] = "piping"]
    /\ UNCHANGED <<pendingEvent, macDownloadVars, server, errorListeners, announced, overlap>>

\* "error" of readStream: the response is ended.
ReadError(d) ==
    /\ response[d] = "piping"
    /\ response' = [response EXCEPT ![d] = "ending"]
    /\ errorListeners' = errorListeners \ {d}
    /\ RejectAll({d})
    /\ UNCHANGED <<pendingEvent, phase, server, native, announced, overlap>>

\* "finish" of the response.
FinishKeepsListener(d) ==                                                  \* mutant
    /\ response[d] \in {"piping", "ending"}
    /\ response' = [response EXCEPT ![d] = "finished"]
    /\ server' = [server EXCEPT ![d] = "closing"]
    /\ IF response[d] = "piping"
       THEN /\ downloadPromise' = [downloadPromise EXCEPT ![d] =
                                      IF @ = "pending" THEN "resolved" ELSE @]
            /\ native' = [native EXCEPT ![d] = "fetched"]
       ELSE UNCHANGED <<downloadPromise, native>>
    /\ UNCHANGED <<pendingEvent, phase, errorListeners, announced, overlap>>

ResponseFinish(d) ==
    /\ response[d] \in {"piping", "ending"}
    /\ response' = [response EXCEPT ![d] = "finished"]
    /\ server' = [server EXCEPT ![d] = "closing"]
    /\ IF response[d] = "piping"
       THEN /\ errorListeners' = errorListeners \ {d}
            /\ downloadPromise' = [downloadPromise EXCEPT ![d] =
                                      IF @ = "pending" THEN "resolved" ELSE @]
            /\ native' = [native EXCEPT ![d] = "fetched"]
       ELSE UNCHANGED <<errorListeners, downloadPromise, native>>
    /\ UNCHANGED <<pendingEvent, phase, announced, overlap>>

CloseServer(d) ==
    /\ server[d] = "closing"
    /\ server' = [server EXCEPT ![d] = "closed"]
    /\ UNCHANGED <<pendingEvent, macDownloadVars, response, native, errorListeners,
                   announced, overlap>>

-----------------------------------------------------------------------------
\* The events of nativeUpdater

\* "error": every listener added by once is called, whichever download it is of.
\* A request that was not answered in full is aborted.
NativeError(d) ==
    /\ native[d] \in {"asked", "fetching", "fetched"}
    /\ native' = [native EXCEPT ![d] = "settled"]
    /\ RejectAll(errorListeners)
    /\ errorListeners' = {}
    /\ response' = [response EXCEPT ![d] = IF @ \in {"piping", "ending"} THEN "aborted" ELSE @]
    /\ UNCHANGED <<pendingEvent, phase, server, announced, overlap>>

KeepsEvent(d) ==                                                           \* mutant
    /\ native[d] = "fetched"
    /\ native' = [native EXCEPT ![d] = "settled"]
    /\ announced' = Append(announced, [of |-> d, event |-> pendingEvent])
    /\ UNCHANGED <<pendingEvent, macDownloadVars, serverVars, errorListeners, overlap>>

\* "update-downloaded"
NativeUpdateDownloaded(d) ==
    /\ native[d] = "fetched"
    /\ native' = [native EXCEPT ![d] = "settled"]
    /\ announced' = Append(announced, [of |-> d, event |-> pendingEvent])
    /\ pendingEvent' = None
    /\ UNCHANGED <<macDownloadVars, serverVars, errorListeners, overlap>>

\* A download that was started goes on, and Squirrel.Mac ends what it was asked.
MacStep(d) ==
    \/ Downloaded(d) \/ Listen(d) \/ RequestZip(d) \/ ReadError(d) \/ ResponseFinish(d)
    \/ CloseServer(d) \/ NativeError(d) \/ NativeUpdateDownloaded(d)

MacNext == \E d \in MacDownloads : DoDownloadUpdate(d) \/ MacStep(d)

MacSpec ==
    /\ MacInit /\ [][MacNext]_macVars
    /\ \A d \in MacDownloads : WF_macVars(MacStep(d))

-----------------------------------------------------------------------------
(***************************************************************************)
(* update-downloaded is announced at most once for a downloaded file; and  *)
(* it is announced with the event of the file Squirrel.Mac has, whatever   *)
(* failed before, as long as no download is started before Squirrel.Mac    *)
(* has settled the last.                                                   *)
(***************************************************************************)
MacAnnouncesServed ==
    /\ \A i, j \in DOMAIN announced :
           i # j /\ announced[i].event = announced[j].event => announced[i].event = None
    /\ ~overlap => \A i \in DOMAIN announced : announced[i].event = announced[i].of

(***************************************************************************)
(* The listeners a download leaves on nativeUpdater are those of downloads *)
(* still waited for: none outlives its promise, to be called by an error   *)
(* of a later check, and none is missing while only it can tell of an      *)
(* error.                                                                  *)
(***************************************************************************)
ListenersOfPending ==
    errorListeners = {d \in MacDownloads : phase[d] = "served" /\ downloadPromise[d] = "pending"}

(***************************************************************************)
(* Every download of an update ends, with the file handed over or with an  *)
(* error, whether Squirrel.Mac asks for the file, breaks off or fails, and *)
(* whether the file can be read.                                           *)
(***************************************************************************)
MacDownloadsEnd ==
    \A d \in MacDownloads : downloadPromise[d] = "pending" ~> downloadPromise[d] # "pending"
=============================================================================
