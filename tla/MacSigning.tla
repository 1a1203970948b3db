----------------------------- MODULE MacSigning -----------------------------
(***************************************************************************)
(* Signing on macOS with a certificate: createKeychain makes a keychain of *)
(* the project, puts it on the user's search list and imports the          *)
(* certificates; MacPackager.sign looks for an identity in it; and         *)
(* Packager.build removes it at the end.  The search list and the keychain *)
(* files belong to the machine: other builds, of this project or another,  *)
(* may run or have been killed.  The list cannot be added to, only be read *)
(* and be set.                                                             *)
(*                                                                         *)
(* security and codesign are external.  codesign needs the keychain to be  *)
(* on the search list.                                                     *)
(***************************************************************************)
EXTENDS Integers, SequencesExt

CONSTANTS
    MacBuilds,   \* processes, each of which builds once
    KeySettings, \* records: [project |-> that of each build there may be, apps |-> {"main"},
                 \*   {"mas"} or both, certificates |-> sequence of sets of identities (of
                 \*   cscLink and cscInstallerLink), type |-> for each application "unset",
                 \*   "distribution" or "development", identity |-> "auto" or "null", force]
    Login,       \* a keychain of the user's
    Roots,       \* electron-builder-root-certs.keychain
    Absent

Projects == UNION {Range(s.project) : s \in KeySettings}
Kinds == {"Developer ID", "3rd Party", "3rd Party Installer", "Mac Developer", "custom"}

ASSUME MacSigningAssumption ==
    /\ Login # Roots /\ {Login, Roots} \intersect Projects = {} /\ Absent \notin Projects
    /\ Absent \notin Kinds /\ \A identities \in SUBSET Kinds : identities # Absent
    /\ \A s \in KeySettings :
           /\ DOMAIN s.project \subseteq MacBuilds /\ s.apps \subseteq {"main", "mas"}
           /\ s.certificates \in Seq(SUBSET Kinds) /\ Len(s.certificates) \in {1, 2}
           /\ s.type \in [{"main", "mas"} -> {"unset", "distribution", "development"}]
           /\ s.force \in BOOLEAN

VARIABLES
    keySetting,
    searchList,  \* the keychains on the list of the user
    keychain,    \* of each project, the identities in it, or Absent
    process,     \* of each build: "none", "running", "disposing", "over", "killed"
    keyStep,     \* where createKeychain of the build is: "none", "roots", "setRoots",
                 \*   "remove", "list", "commands", "import", "ready", "failed"
    listed,      \* the search list as the build read it last
    securityCommands, \* those that are not done yet, in order
    certificate, \* the certificates: "none", "downloading", "there", then how many are imported
    disposer,    \* of the keychain: "none", "registered", "taken", "done"
    signing,     \* of each signer: "none", "waiting", "signing", "signed", "unsigned", "failed"
    identity,    \* that a signer has found
    overlapped   \* builds beside which another one ran

keychainVars == <<searchList, keychain>>
creationVars == <<keyStep, listed, securityCommands, certificate>>
signerVars == <<signing, identity>>
macSigningVars == <<keySetting, keychainVars, process, creationVars, disposer, signerVars,
                    overlapped>>

\* Calls of sign: for the application of the targets that are not MAS targets; for the
\* MAS application in its doPack, as if it were not one; and for it once more.
Signers == {"main", "masPack", "mas"}
SignersOf == keySetting.apps \union (IF "mas" \in keySetting.apps THEN {"masPack"} ELSE {})
ProjectOf(b) == keySetting.project[b]
SignsAs(b, s, as) == signing' = [signing EXCEPT ![b][s] = as]

MacSigningInit ==
    /\ keySetting \in KeySettings
    /\ searchList = {Login} /\ keychain = [p \in Projects |-> Absent]
    /\ process = [b \in MacBuilds |-> "none"] /\ keyStep = [b \in MacBuilds |-> "none"]
    /\ listed = [b \in MacBuilds |-> {}] /\ securityCommands = [b \in MacBuilds |-> <<>>]
    /\ certificate = [b \in MacBuilds |-> "none"] /\ disposer = [b \in MacBuilds |-> "none"]
    /\ signing = [b \in MacBuilds |-> [s \in Signers |-> "none"]]
    /\ identity = [b \in MacBuilds |-> [s \in Signers |-> Absent]]
    /\ overlapped = {}

\* A MAS application that fails in its doPack is not signed once more.
SignerSettled(b, s) ==
    \/ signing[b][s] \notin {"none", "waiting", "signing"}
    \/ s = "mas" /\ signing[b]["masPack"] = "failed"

\* A build whose promise is rejected goes on with what it has begun.
Busy(b) ==
    \/ process[b] \in {"running", "disposing"}
    \/ /\ process[b] = "over"
       /\ \/ keyStep[b] \notin {"none", "ready", "failed"} \/ securityCommands[b] # <<>>
          \/ \E s \in SignersOf : ~SignerSettled(b, s)
Alive(b) == process[b] \notin {"none", "killed"}

StartMacBuild(b) ==
    /\ b \in DOMAIN keySetting.project
    /\ process[b] = "none" /\ process' = [process EXCEPT ![b] = "running"]
    /\ LET others == {c \in MacBuilds : Busy(c)}
       IN  overlapped' = overlapped \union others \union (IF others = {} THEN {} ELSE {b})
    /\ UNCHANGED <<keySetting, keychainVars, creationVars, disposer, signerVars>>

-----------------------------------------------------------------------------
\* sign, up to codeSigningInfo, which is lazy; or the pack fails before.
AskForKeychain(b, s) ==
    /\ Alive(b) /\ s \in SignersOf /\ ~SignerSettled(b, s) /\ signing[b][s] = "none"
    /\ s = "mas" => SignerSettled(b, "masPack")
    /\ \/ /\ s = "mas" \/ keySetting.identity # "null"
          /\ SignsAs(b, s, "waiting")
          /\ keyStep' = [keyStep EXCEPT ![b] = IF @ = "none" THEN "roots" ELSE @]
       \/ /\ s # "mas" /\ keySetting.identity = "null"
          /\ SignsAs(b, s, IF keySetting.force THEN "failed" ELSE "unsigned")
          /\ UNCHANGED keyStep
       \/ SignsAs(b, s, "failed") /\ UNCHANGED keyStep
    /\ UNCHANGED <<keySetting, keychainVars, process, listed, securityCommands, certificate,
                   disposer, identity, overlapped>>

\* A command of createKeychain fails, and createKeychain with it.
CreationFails(b) ==
    /\ keyStep' = [keyStep EXCEPT ![b] = "failed"]
    /\ UNCHANGED <<keychainVars, listed, certificate, disposer>>

AddByReplacing(k, list) == {k}                                             \* mutant
\* "security list-keychains" does not add: set the whole list.
Added(k, list) == list \union {k}

\* bundledCertKeychainAdded
ListForRoots(b) ==
    /\ keyStep[b] = "roots"
    /\ \/ CreationFails(b)
       \/ /\ listed' = [listed EXCEPT ![b] = searchList]
          /\ keyStep' = [keyStep EXCEPT ![b] =
                             IF Roots \in searchList THEN "remove" ELSE "setRoots"]
          /\ UNCHANGED <<keychainVars, certificate, disposer>>
    /\ UNCHANGED securityCommands

SetRoots(b) ==
    /\ keyStep[b] = "setRoots"
    /\ \/ CreationFails(b)
       \/ /\ searchList' = Added(Roots, listed[b])
          /\ keyStep' = [keyStep EXCEPT ![b] = "remove"]
          /\ UNCHANGED <<keychain, listed, certificate, disposer>>
    /\ UNCHANGED securityCommands

\* delete-keychain takes an existing keychain off the list as well; if it fails, the
\* file is unlinked, which works.
RemoveKeychain(p) ==
    /\ keychain' = [keychain EXCEPT ![p] = Absent]
    /\ \/ keychain[p] # Absent /\ searchList' = searchList \ {p}
       \/ UNCHANGED searchList

RemoveOld(b) ==
    /\ keyStep[b] = "remove"
    /\ RemoveKeychain(ProjectOf(b))
    /\ keyStep' = [keyStep EXCEPT ![b] = "list"]
    /\ UNCHANGED <<listed, securityCommands, certificate, disposer>>

ListKeychains(b) ==
    /\ keyStep[b] = "list"
    /\ \/ CreationFails(b) /\ UNCHANGED securityCommands
       \/ /\ listed' = [listed EXCEPT ![b] = searchList]
          /\ securityCommands' = [securityCommands EXCEPT ![b] =
                 IF ProjectOf(b) \in searchList THEN <<"create">> ELSE <<"create", "set">>]
          /\ certificate' = [certificate EXCEPT ![b] = "downloading"]
          /\ keyStep' = [keyStep EXCEPT ![b] = "commands"]
          /\ UNCHANGED <<keychainVars, disposer>>

\* downloadCertificate runs beside the commands, which go on if it fails.
DownloadCertificate(b) ==
    /\ certificate[b] = "downloading"
    /\ \/ /\ certificate' = [certificate EXCEPT ![b] = "there"]
          /\ UNCHANGED <<keyStep, keychainVars, listed, disposer>>
       \/ certificate' = [certificate EXCEPT ![b] = "none"]
          /\ keyStep' = [keyStep EXCEPT ![b] = "failed"]
          /\ UNCHANGED <<keychainVars, listed, disposer>>
    /\ UNCHANGED securityCommands

\* create-keychain fails if there is one.
RunCommand(b) ==
    /\ securityCommands[b] # <<>>
    /\ \/ /\ securityCommands' = [securityCommands EXCEPT ![b] = <<>>] /\ CreationFails(b)
       \/ /\ securityCommands' = [securityCommands EXCEPT ![b] = Tail(@)]
          /\ \/ /\ Head(securityCommands[b]) = "create" /\ keychain[ProjectOf(b)] = Absent
                /\ keychain' = [keychain EXCEPT ![ProjectOf(b)] = {}]
                /\ UNCHANGED searchList
             \/ /\ Head(securityCommands[b]) = "set"
                /\ searchList' = Added(ProjectOf(b), listed[b]) /\ UNCHANGED keychain
          /\ UNCHANGED <<keyStep, listed, certificate, disposer>>

\* importCerts, and the disposer that codeSigningInfo registers at the end
ImportCerts(b) ==
    /\ \/ keyStep[b] = "import"
       \/ keyStep[b] = "commands" /\ securityCommands[b] = <<>> /\ certificate[b] = "there"
    /\ \/ CreationFails(b)
       \/ /\ keychain[ProjectOf(b)] # Absent
          /\ LET n == IF certificate[b] = "there" THEN 1 ELSE 2
                 last == n = Len(keySetting.certificates)
             IN /\ keychain' = [keychain EXCEPT ![ProjectOf(b)] =
                                    @ \union keySetting.certificates[n]]
                /\ certificate' = [certificate EXCEPT ![b] = "imported"]
                /\ keyStep' = [keyStep EXCEPT ![b] = IF last THEN "ready" ELSE "import"]
                /\ disposer' = [disposer EXCEPT ![b] = IF last THEN "registered" ELSE @]
          /\ UNCHANGED <<searchList, listed>>
    /\ UNCHANGED securityCommands

CreateKeychainStep(b) ==
    /\ Alive(b)
    /\ \/ ListForRoots(b) \/ SetRoots(b) \/ RemoveOld(b) \/ ListKeychains(b)
       \/ DownloadCertificate(b) \/ RunCommand(b) \/ ImportCerts(b)
    /\ UNCHANGED <<keySetting, process, signerVars, overlapped>>

-----------------------------------------------------------------------------
\* sign

Type(s) == keySetting.type[IF s = "mas" THEN "mas" ELSE "main"]
CertificateType(s) ==
    IF Type(s) = "development" THEN "Mac Developer"
    ELSE IF s = "mas" THEN "3rd Party" ELSE "Developer ID"

\* A certificate that is not Apple's will do for "Developer ID Application".
FindIdentity(type, identities) ==
    IF type \in identities THEN type
    ELSE IF type = "Developer ID" /\ "custom" \in identities THEN "custom"
    ELSE Absent

AnyMacDeveloper(s, identities) ==                                          \* mutant
    LET found == FindIdentity(CertificateType(s), identities)
    IN  IF found = Absent THEN FindIdentity("Mac Developer", identities) ELSE found

IdentityOf(s, identities) ==
    LET found == FindIdentity(CertificateType(s), identities)
    IN  IF found = Absent /\ s # "mas" /\ Type(s) = "unset"
        THEN FindIdentity("Mac Developer", identities) ELSE found

Identities(b) == IF keychain[ProjectOf(b)] = Absent THEN {} ELSE keychain[ProjectOf(b)]

LookForIdentity(b, s) ==
    /\ Alive(b) /\ signing[b][s] = "waiting" /\ keyStep[b] \in {"ready", "failed"}
    /\ LET found == IdentityOf(s, Identities(b)) IN
       \/ keyStep[b] = "failed" /\ SignsAs(b, s, "failed") /\ UNCHANGED identity
       \/ /\ keyStep[b] = "ready" /\ found # Absent
          /\ SignsAs(b, s, "signing") /\ identity' = [identity EXCEPT ![b][s] = found]
       \/ /\ keyStep[b] = "ready" /\ found = Absent                \* reportError
          /\ SignsAs(b, s, IF s = "mas" \/ keySetting.force THEN "failed" ELSE "unsigned")
          /\ UNCHANGED identity
    /\ UNCHANGED <<keySetting, keychainVars, process, creationVars, disposer, overlapped>>

CanSign(b, s) == identity[b][s] \in Identities(b) /\ ProjectOf(b) \in searchList
HasInstaller(b, s) ==
    s = "mas" /\ Type(s) # "development" => "3rd Party Installer" \in Identities(b)

\* doSign, then doFlat with another identity for the App Store.
Sign(b, s) ==
    /\ Alive(b) /\ signing[b][s] = "signing"
    /\ SignsAs(b, s, IF CanSign(b, s) /\ HasInstaller(b, s) THEN "signed" ELSE "failed")
    /\ UNCHANGED <<keySetting, keychainVars, process, creationVars, disposer, identity,
                   overlapped>>

-----------------------------------------------------------------------------
\* The end of Packager.build: the disposers registered by then are called.  A MAS
\* application that fails ends it beside the other, the other one does not.
Succeeds(b) == \A s \in SignersOf : signing[b][s] \in {"signed", "unsigned"}

EndMacBuild(b) ==
    /\ process[b] = "running"
    /\ \/ \E s \in {"masPack", "mas"} : signing[b][s] = "failed"
       \/ \A s \in SignersOf : SignerSettled(b, s)
    /\ process' = [process EXCEPT ![b] = "disposing"]
    /\ disposer' = [disposer EXCEPT ![b] = IF @ = "registered" THEN "taken" ELSE @]
    /\ UNCHANGED <<keySetting, keychainVars, creationVars, signerVars, overlapped>>

DisposeKeychain(b) ==
    /\ process[b] = "disposing"
    /\ process' = [process EXCEPT ![b] = "over"]
    /\ IF disposer[b] = "taken"
       THEN RemoveKeychain(ProjectOf(b)) /\ disposer' = [disposer EXCEPT ![b] = "done"]
       ELSE UNCHANGED <<keychainVars, disposer>>
    /\ UNCHANGED <<keySetting, creationVars, signerVars, overlapped>>

KillMacBuild(b) ==
    /\ Busy(b) /\ process' = [process EXCEPT ![b] = "killed"]
    /\ UNCHANGED <<keySetting, keychainVars, creationVars, disposer, signerVars, overlapped>>

MacSigningNext ==
    \E b \in MacBuilds :
        \/ StartMacBuild(b) \/ CreateKeychainStep(b) \/ EndMacBuild(b) \/ DisposeKeychain(b)
        \/ KillMacBuild(b)
        \/ \E s \in Signers : AskForKeychain(b, s) \/ LookForIdentity(b, s) \/ Sign(b, s)

MacSigningSpec == MacSigningInit /\ [][MacSigningNext]_macSigningVars

-----------------------------------------------------------------------------
Certified == UNION ToSet(keySetting.certificates)
\* Identities that will do for what a signer signs.
Fits(s, i) ==
    CASE Type(s) = "development" -> i = "Mac Developer"
      [] Type(s) # "development" /\ s = "mas" -> i = "3rd Party"
      [] Type(s) = "distribution" /\ s # "mas" -> i \in {"Developer ID", "custom"}
      [] Type(s) = "unset" /\ s # "mas" -> i \in {"Developer ID", "custom", "Mac Developer"}

(***************************************************************************)
(* While a build runs that no other build overlaps, its signers find in    *)
(* its keychain all of its certificates, and find the keychain on the      *)
(* search list, whatever was left of builds that failed or were killed.    *)
(* An identity is one for the purpose, and nothing is left unsigned that   *)
(* has one or must have one.                                               *)
(***************************************************************************)
SignsWithOwnKeychain ==
    \A b \in MacBuilds, s \in Signers :
        /\ process[b] = "running" /\ keyStep[b] = "ready" /\ b \notin overlapped =>
               keychain[ProjectOf(b)] = Certified /\ ProjectOf(b) \in searchList
        /\ signing[b][s] = "signed" => Fits(s, identity[b][s])
        /\ signing[b][s] = "unsigned" /\ b \notin overlapped
             /\ (process[b] = "running" \/ Succeeds(b)) =>
               /\ s # "mas" /\ ~keySetting.force
               /\ keySetting.identity = "null" \/ \A i \in Certified : ~Fits(s, i)

(***************************************************************************)
(* Setting the search list never takes a keychain of the user's off it, in *)
(* whatever order builds read and set it; and a build that succeeds leaves *)
(* no keychain with its certificates behind.                               *)
(***************************************************************************)
KeychainsRestored ==
    /\ Login \in searchList
    /\ \A b \in MacBuilds :
           process[b] = "over" /\ Succeeds(b) /\ b \notin overlapped =>
               \/ keychain[ProjectOf(b)] = Absent
               \/ \E c \in MacBuilds \ {b} : process[c] # "none" /\ ProjectOf(c) = ProjectOf(b)

(***************************************************************************)
(* No build leaves its certificates behind.  This does not hold: a keychain*)
(* is removed if it was complete before the build ended, so one stays that *)
(* was being made when another application failed, or whose certificates   *)
(* could not be downloaded or imported.                                    *)
(***************************************************************************)
CertificatesGone ==
    (\A b \in MacBuilds : process[b] \in {"none", "over"} /\ ~Busy(b)) =>
        \A p \in Projects : keychain[p] = Absent

(***************************************************************************)
(* macCodeSign.ts: to read the list and to set it "introduces a race       *)
(* condition".  It does: of two builds, one takes the other's keychain off.*)
(***************************************************************************)
EverySignerSigns ==
    \A b \in MacBuilds, s \in Signers :
        signing[b][s] = "signing" /\ process[b] = "running" => CanSign(b, s)
=============================================================================
