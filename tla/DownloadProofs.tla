--------------------------- MODULE DownloadProofs ---------------------------
(***************************************************************************)
(* What is proved of the parts of a download that MCUpdaterParts checks:   *)
(* MacUpdater for any number of downloads, the ranges DownloadPlan asks    *)
(* for, for files of any blocks, the file DifferentialDownload leaves, for *)
(* any plan, and the releases ReleaseFeed finds, whatever is published.    *)
(***************************************************************************)
EXTENDS MacUpdater, DownloadPlan, DifferentialDownload, ReleaseFeed, SequenceLemmas

-----------------------------------------------------------------------------
\* MacUpdater

Phases == {"none", "download", "done", "served", "end"}
Promises == {"none", "pending", "resolved", "rejected"}
Responses == {"none", "piping", "ending", "finished", "aborted"}
Natives == {"none", "asked", "fetching", "fetched", "settled"}

MacTypeOK ==
    /\ pendingEvent \in MacDownloads \cup {None}
    /\ phase \in [MacDownloads -> Phases]
    /\ downloadPromise \in [MacDownloads -> Promises]
    /\ response \in [MacDownloads -> Responses]
    /\ native \in [MacDownloads -> Natives]
    /\ announced \in Seq([of : MacDownloads, event : MacDownloads \cup {None}])
    /\ overlap \in BOOLEAN

\* Where a download is, its promise and Squirrel.Mac go together.
MacPhases ==
    \A d \in MacDownloads :
        /\ phase[d] \in {"download", "done"} => downloadPromise[d] = "pending"
        /\ native[d] # "none" => phase[d] = "served"
        /\ response[d] # "none" => phase[d] = "served"
        /\ response[d] = "piping" => native[d] = "fetching"

\* An event is in the field, or announced, once, and only of a file that was downloaded.
Past(d) == phase[d] \notin {"none", "download"}

EventsOnce ==
    /\ \A d \in MacDownloads : pendingEvent = d =>
          Past(d) /\ \A i \in DOMAIN announced : announced[i].event # d
    /\ \A d \in MacDownloads : \A i \in DOMAIN announced : announced[i].event = d => Past(d)
    /\ \A i, j \in DOMAIN announced :
          i # j /\ announced[i].event = announced[j].event => announced[i].event = None

Unsettled(d) == phase[d] \in {"download", "done"} \/ native[d] \notin {"none", "settled"}

\* When downloads do not overlap, the field has the event of the one under way.
OneAtOnce ==
    ~overlap =>
        /\ \A d, e \in MacDownloads : Unsettled(d) /\ Unsettled(e) => d = e
        /\ \A d \in MacDownloads : Unsettled(d) /\ phase[d] # "download" => pendingEvent = d
        /\ \A i \in DOMAIN announced : announced[i].event = announced[i].of

MacInv == MacTypeOK /\ MacPhases /\ EventsOnce /\ OneAtOnce /\ ListenersOfPending

LEMMA MacInitInv == MacInit => MacInv
<1> SUFFICES ASSUME MacInit PROVE MacInv
  OBVIOUS
<1>1. overlap \in BOOLEAN
  BY Zenon DEF MacInit
<1>2. MacTypeOK
  BY <1>1 DEF MacInit, MacTypeOK, Phases, Promises, Responses, Natives
<1>3. DOMAIN announced = {}
  BY DEF MacInit
<1> QED
  BY <1>2, <1>3, MacAssumption DEF MacInit, MacInv, MacPhases, EventsOnce, OneAtOnce, Unsettled, ListenersOfPending,
              MacAssumption

LEMMA MacNextTypeOK == MacTypeOK /\ [MacNext]_macVars => MacTypeOK'
<1> SUFFICES ASSUME MacTypeOK, [MacNext]_macVars PROVE MacTypeOK'
  OBVIOUS
<1> USE DEF MacTypeOK, Phases, Promises, Responses, Natives, macDownloadVars, serverVars
<1>1. ASSUME NEW ds, RejectAll(ds) PROVE downloadPromise' \in [MacDownloads -> Promises]
  BY <1>1 DEF RejectAll
<1>2. ASSUME NEW d \in MacDownloads, DoDownloadUpdate(d) PROVE MacTypeOK'
  <2>1. overlap' \in BOOLEAN
    BY <1>2 DEF DoDownloadUpdate
  <2> QED
    BY <1>2, <2>1 DEF DoDownloadUpdate
<1>3. ASSUME NEW d \in MacDownloads, Downloaded(d) \/ Listen(d) PROVE MacTypeOK'
  BY <1>1, <1>3 DEF Downloaded, Listen
<1>4. ASSUME NEW d \in MacDownloads, RequestZip(d) \/ ReadError(d) \/ CloseServer(d) PROVE MacTypeOK'
  BY <1>1, <1>4 DEF RequestZip, ReadError, CloseServer
<1>5. ASSUME NEW d \in MacDownloads, ResponseFinish(d) PROVE MacTypeOK'
  BY <1>5 DEF ResponseFinish
<1>6. ASSUME NEW d \in MacDownloads, NativeError(d) PROVE MacTypeOK'
  BY <1>1, <1>6 DEF NativeError
<1>7. ASSUME NEW d \in MacDownloads, NativeUpdateDownloaded(d) PROVE MacTypeOK'
  BY <1>7 DEF NativeUpdateDownloaded
<1>8. CASE UNCHANGED macVars
  BY <1>8 DEF macVars
<1> QED
  BY <1>2, <1>3, <1>4, <1>5, <1>6, <1>7, <1>8 DEF MacNext, MacStep

LEMMA MacNextPhases ==
  MacTypeOK /\ MacPhases /\ ListenersOfPending /\ [MacNext]_macVars => MacPhases' /\ ListenersOfPending'
<1> SUFFICES ASSUME MacTypeOK, MacPhases, ListenersOfPending, [MacNext]_macVars
             PROVE  MacPhases' /\ ListenersOfPending'
  OBVIOUS
<1> USE DEF MacTypeOK, MacPhases, ListenersOfPending, macDownloadVars, serverVars
<1>1. ASSUME NEW d \in MacDownloads, DoDownloadUpdate(d) PROVE MacPhases' /\ ListenersOfPending'
  BY <1>1 DEF DoDownloadUpdate
<1>2. ASSUME NEW d \in MacDownloads, Downloaded(d) PROVE MacPhases' /\ ListenersOfPending'
  BY <1>2 DEF Downloaded, RejectAll
<1>3. ASSUME NEW d \in MacDownloads, Listen(d) PROVE MacPhases' /\ ListenersOfPending'
  BY <1>3 DEF Listen, RejectAll
<1>4. ASSUME NEW d \in MacDownloads, RequestZip(d) \/ CloseServer(d) PROVE MacPhases' /\ ListenersOfPending'
  BY <1>4 DEF RequestZip, CloseServer
<1>5. ASSUME NEW d \in MacDownloads, ReadError(d) PROVE MacPhases' /\ ListenersOfPending'
  BY <1>5 DEF ReadError, RejectAll
<1>6. ASSUME NEW d \in MacDownloads, ResponseFinish(d) PROVE MacPhases' /\ ListenersOfPending'
  BY <1>6 DEF ResponseFinish
<1>7. ASSUME NEW d \in MacDownloads, NativeError(d) PROVE MacPhases' /\ ListenersOfPending'
  BY <1>7 DEF NativeError, RejectAll
<1>8. ASSUME NEW d \in MacDownloads, NativeUpdateDownloaded(d) PROVE MacPhases' /\ ListenersOfPending'
  BY <1>8 DEF NativeUpdateDownloaded
<1>9. CASE UNCHANGED macVars
  BY <1>9 DEF macVars
<1> QED
  BY <1>1, <1>2, <1>3, <1>4, <1>5, <1>6, <1>7, <1>8, <1>9 DEF MacNext, MacStep

\* An event that is announced is the last one.
LEMMA Announced ==
  ASSUME MacTypeOK, NEW d \in MacDownloads, NativeUpdateDownloaded(d)
  PROVE  \E last :
            /\ last \notin DOMAIN announced /\ DOMAIN announced' = DOMAIN announced \cup {last}
            /\ announced'[last].of = d /\ announced'[last].event = pendingEvent
            /\ \A i \in DOMAIN announced : announced'[i] = announced[i]
<1>1. /\ DOMAIN announced = 1..Len(announced) /\ Len(announced) \in Nat
      /\ announced' = Append(announced, [of |-> d, event |-> pendingEvent])
  BY DEF MacTypeOK, NativeUpdateDownloaded
<1>2. /\ DOMAIN announced' = 1..(Len(announced) + 1)
      /\ announced'[Len(announced) + 1] = [of |-> d, event |-> pendingEvent]
      /\ \A i \in DOMAIN announced : announced'[i] = announced[i]
  BY <1>1 DEF MacTypeOK
<1>3. /\ Len(announced) + 1 \notin DOMAIN announced
      /\ DOMAIN announced' = DOMAIN announced \cup {Len(announced) + 1}
  BY <1>1, <1>2
<1> QED
  BY <1>2, <1>3

LEMMA MacNextEvents ==
  MacTypeOK /\ MacPhases /\ EventsOnce /\ [MacNext]_macVars => EventsOnce'
<1> SUFFICES ASSUME MacTypeOK, MacPhases, EventsOnce, [MacNext]_macVars
             PROVE  EventsOnce'
  OBVIOUS
<1>0. None \notin MacDownloads
  BY MacAssumption DEF MacAssumption
<1>1. \A d \in MacDownloads : Past(d) => Past(d)'
  BY DEF MacNext, MacStep, DoDownloadUpdate, Downloaded, Listen, RequestZip, ReadError, ResponseFinish,
         CloseServer, NativeError, NativeUpdateDownloaded, macVars, macDownloadVars, Past, MacTypeOK
<1>2. ASSUME UNCHANGED announced, pendingEvent' \in {pendingEvent, None} PROVE EventsOnce'
  BY <1>0, <1>1, <1>2 DEF EventsOnce
<1>3. ASSUME NEW d \in MacDownloads, Downloaded(d) PROVE EventsOnce'
  <2>1. CASE pendingEvent' = d /\ phase[d] = "download" /\ Past(d)'
    BY <1>1, <1>3, <2>1 DEF EventsOnce, Downloaded, Past
  <2>2. CASE UNCHANGED pendingEvent
    BY <1>2, <1>3, <2>2 DEF Downloaded
  <2> QED
    BY <1>3, <2>1, <2>2 DEF Downloaded, Past, MacTypeOK
<1>4. ASSUME NEW d \in MacDownloads, NativeUpdateDownloaded(d) PROVE EventsOnce'
  <2>1. pendingEvent' = None
    BY <1>4 DEF NativeUpdateDownloaded
  <2>2. PICK last : /\ last \notin DOMAIN announced /\ DOMAIN announced' = DOMAIN announced \cup {last}
                    /\ announced'[last].of = d /\ announced'[last].event = pendingEvent
                    /\ \A i \in DOMAIN announced : announced'[i] = announced[i]
    BY <1>4, Announced
  <2>3. \A e \in MacDownloads : \A i \in DOMAIN announced' : announced'[i].event = e => Past(e)'
    BY <1>1, <2>2 DEF EventsOnce
  <2>4. ASSUME NEW i \in DOMAIN announced, announced[i].event = pendingEvent
        PROVE  pendingEvent = None
    BY <2>4 DEF EventsOnce, MacTypeOK
  <2>5. \A i, j \in DOMAIN announced' :
            i # j /\ announced'[i].event = announced'[j].event => announced'[i].event = None
    BY <2>2, <2>4 DEF EventsOnce
  <2> QED
    BY <1>0, <2>1, <2>3, <2>5 DEF EventsOnce
<1>5. CASE \E d \in MacDownloads : DoDownloadUpdate(d) \/ Listen(d) \/ RequestZip(d) \/ ReadError(d)
                                   \/ ResponseFinish(d) \/ CloseServer(d) \/ NativeError(d)
  BY <1>2, <1>5 DEF DoDownloadUpdate, Listen, RequestZip, ReadError, ResponseFinish, CloseServer,
                    NativeError
<1>6. CASE UNCHANGED macVars
  BY <1>2, <1>6 DEF macVars
<1> QED
  BY <1>3, <1>4, <1>5, <1>6 DEF MacNext, MacStep

\* What a step leaves of OneAtOnce when no download is started.
LEMMA StillAtOnce ==
  ASSUME OneAtOnce, overlap' = overlap,
         \A d \in MacDownloads : Unsettled(d)' => Unsettled(d),
         \A d \in MacDownloads :
            Unsettled(d)' /\ phase'[d] # "download" =>
                \/ pendingEvent' = d
                \/ Unsettled(d) /\ phase[d] # "download" /\ pendingEvent' = pendingEvent,
         ~overlap => \A i \in DOMAIN announced' : announced'[i].event = announced'[i].of
  PROVE  OneAtOnce'
  BY DEF OneAtOnce

LEMMA MacNextOneAtOnce ==
  MacTypeOK /\ MacPhases /\ OneAtOnce /\ [MacNext]_macVars => OneAtOnce'
<1> SUFFICES ASSUME MacTypeOK, MacPhases, OneAtOnce, [MacNext]_macVars PROVE OneAtOnce'
  OBVIOUS
<1> USE DEF macDownloadVars, serverVars
<1>1. ASSUME NEW d \in MacDownloads, DoDownloadUpdate(d) PROVE OneAtOnce'
  <2> SUFFICES ASSUME ~overlap' PROVE OneAtOnce'
    BY DEF OneAtOnce
  <2>1. ~overlap /\ \A e \in MacDownloads : ~Unsettled(e)
    BY <1>1 DEF DoDownloadUpdate, Unsettled
  <2>2. UNCHANGED <<native, announced>> /\ \A e \in MacDownloads : e # d => phase'[e] = phase[e]
    BY <1>1 DEF DoDownloadUpdate, MacTypeOK
  <2>3. native[d] = "none" /\ phase'[d] \in {"download", "end"}
    BY <1>1 DEF DoDownloadUpdate, MacTypeOK, MacPhases
  <2>4. \A e \in MacDownloads : Unsettled(e)' => e = d /\ phase'[d] = "download"
    BY <2>1, <2>2, <2>3 DEF Unsettled
  <2> QED
    BY <2>1, <2>2, <2>4 DEF OneAtOnce
<1>2. ASSUME NEW d \in MacDownloads, Downloaded(d) PROVE OneAtOnce'
  <2>1. /\ phase[d] = "download" /\ UNCHANGED <<native, announced, overlap>>
        /\ \A e \in MacDownloads : e # d => phase'[e] = phase[e]
        /\ (phase'[d] = "done" /\ pendingEvent' = d) \/ (phase'[d] = "end" /\ pendingEvent' = pendingEvent)
    BY <1>2 DEF Downloaded, MacTypeOK
  <2>2. native[d] = "none" /\ native'[d] = "none"
    BY <2>1 DEF MacPhases
  <2>3. ~overlap => \A e \in MacDownloads : Unsettled(e) => e = d
    BY <2>1 DEF OneAtOnce, Unsettled
  <2>4. ~overlap => \A e \in MacDownloads : Unsettled(e)' => e = d /\ (phase'[d] # "download" => pendingEvent' = d)
    BY <2>1, <2>2, <2>3 DEF Unsettled
  <2> QED
    BY <2>1, <2>4 DEF OneAtOnce
<1>3. ASSUME NEW d \in MacDownloads, Listen(d) PROVE OneAtOnce'
  <2>1. /\ phase[d] = "done" /\ phase'[d] \in {"served", "end"}
        /\ UNCHANGED <<announced, pendingEvent, overlap>>
        /\ \A e \in MacDownloads : e # d => phase'[e] = phase[e] /\ native'[e] = native[e]
    BY <1>3 DEF Listen, MacTypeOK
  <2> QED
    BY <2>1, StillAtOnce DEF Unsettled, OneAtOnce
<1>4. ASSUME NEW d \in MacDownloads, RequestZip(d) \/ ReadError(d) \/ CloseServer(d) PROVE OneAtOnce'
  <2>1. /\ UNCHANGED <<phase, announced, pendingEvent, overlap>>
        /\ \A e \in MacDownloads : native'[e] = native[e] \/ native[e] = "asked"
    BY <1>4 DEF RequestZip, ReadError, CloseServer, MacTypeOK
  <2> QED
    BY <2>1, StillAtOnce DEF Unsettled, OneAtOnce
<1>5. ASSUME NEW d \in MacDownloads, ResponseFinish(d) PROVE OneAtOnce'
  <2>1. /\ UNCHANGED <<phase, announced, pendingEvent, overlap>>
        /\ \A e \in MacDownloads : native'[e] = native[e] \/ native[e] = "fetching"
    BY <1>5 DEF ResponseFinish, MacTypeOK, MacPhases
  <2> QED
    BY <2>1, StillAtOnce DEF Unsettled, OneAtOnce
<1>6. ASSUME NEW d \in MacDownloads, NativeError(d) PROVE OneAtOnce'
  <2>1. /\ UNCHANGED <<phase, announced, pendingEvent, overlap>>
        /\ \A e \in MacDownloads : native'[e] = native[e] \/ native'[e] = "settled"
    BY <1>6 DEF NativeError, MacTypeOK
  <2> QED
    BY <2>1, StillAtOnce DEF Unsettled, OneAtOnce
<1>7. ASSUME NEW d \in MacDownloads, NativeUpdateDownloaded(d) PROVE OneAtOnce'
  <2>1. /\ native[d] = "fetched" /\ phase[d] = "served" /\ UNCHANGED <<phase, overlap>>
        /\ native'[d] = "settled" /\ \A e \in MacDownloads : e # d => native'[e] = native[e]
    BY <1>7 DEF NativeUpdateDownloaded, MacPhases, MacTypeOK
  <2>2. ~overlap => pendingEvent = d /\ \A e \in MacDownloads : Unsettled(e) => e = d
    BY <2>1 DEF OneAtOnce, Unsettled
  <2>3. ~overlap => \A e \in MacDownloads : ~Unsettled(e)'
    BY <2>1, <2>2 DEF Unsettled
  <2>4. ~overlap => \A i \in DOMAIN announced' : announced'[i].event = announced'[i].of
    BY <1>7, <2>2, Announced DEF OneAtOnce
  <2> QED
    BY <2>1, <2>3, <2>4 DEF OneAtOnce
<1>8. CASE UNCHANGED macVars
  <2>1. UNCHANGED <<phase, native, announced, pendingEvent, overlap>>
    BY <1>8 DEF macVars
  <2> QED
    BY <2>1, StillAtOnce DEF Unsettled, OneAtOnce
<1> QED
  BY <1>1, <1>2, <1>3, <1>4, <1>5, <1>6, <1>7, <1>8 DEF MacNext, MacStep

(***************************************************************************)
(* The invariant of MacUpdater for any number of downloads: the phases of a *)
(* download, its promise and Squirrel.Mac go together, an event is in the  *)
(* field or announced once, and the listeners are those that wait.         *)
(***************************************************************************)
THEOREM MacInvariant == MacSpec => []MacInv
<1>1. MacInv /\ [MacNext]_macVars => MacInv'
  BY MacNextTypeOK, MacNextPhases, MacNextEvents, MacNextOneAtOnce DEF MacInv
<1> QED
  BY <1>1, MacInitInv, PTL DEF MacSpec

(***************************************************************************)
(* For any number of downloads: a file is announced once, and with its own *)
(* event unless a download was started before Squirrel.Mac settled the     *)
(* last one, although all of them share the field for the event.           *)
(***************************************************************************)
THEOREM EachFileAnnouncedOnce == MacSpec => []MacAnnouncesServed
<1>1. MacInv => MacAnnouncesServed
  BY DEF MacInv, EventsOnce, OneAtOnce, MacAnnouncesServed
<1> QED
  BY <1>1, MacInvariant, PTL

(***************************************************************************)
(* For any number of downloads, that overlap or not: nativeUpdater has a   *)
(* listener of every download that waits for it, and of no other.          *)
(***************************************************************************)
THEOREM ListenersAreThoseNeeded == MacSpec => []ListenersOfPending
<1>1. MacInv => ListenersOfPending
  BY DEF MacInv
<1> QED
  BY <1>1, MacInvariant, PTL

-----------------------------------------------------------------------------
\* DownloadPlan

\* A block map: an offset, and a sequence of blocks.
LEMMA BlockMapsAre ==
  ASSUME NEW m \in Nat, NEW f \in BlockMaps(m)
  PROVE  f.offset \in Nat /\ f.blocks \in Seq(Blocks)
<1>1. f.offset \in Offsets /\ f.blocks \in UNION {[1..k -> Blocks] : k \in 0..m}
  BY DEF BlockMaps
<1>2. PICK k \in 0..m : f.blocks \in [1..k -> Blocks]
  BY <1>1
<1>3. k \in Nat
  OBVIOUS
<1>4. f.offset \in Nat
  BY <1>1, PlanAssumption
<1>5. f.blocks \in Seq(Blocks)
  BY <1>2, <1>3, SeqDef
<1> QED
  BY <1>4, <1>5

\* A block begins where the one before it ends.
LEMMA OffsetsFollow ==
  ASSUME NEW f, f.offset \in Nat, f.blocks \in Seq(Blocks), NEW n, n = Len(f.blocks)
  PROVE  /\ BlockOffset(f, 1) = f.offset
         /\ \A i \in 1..(n + 1) : BlockOffset(f, i) \in Nat
         /\ \A i \in 1..n : BlockOffset(f, i + 1) = BlockOffset(f, i) + f.blocks[i].size
<1> DEFINE step == [i \in 1..n |-> [x \in Nat |-> x + f.blocks[i].size]]
<1>1. n \in Nat /\ \A i \in 1..n : f.blocks[i].size \in Nat
  <2>1. n \in Nat /\ \A i \in 1..n : f.blocks[i] \in Blocks
    OBVIOUS
  <2>2. \A b \in Blocks : b.size \in Nat
    BY PlanAssumption DEF Blocks
  <2> QED
    BY <2>1, <2>2
<1>2. PICK begin : FollowsSteps(begin, Nat, n, f.offset, step)
  <2>1. step \in StepsOn(Nat, n)
    BY <1>1 DEF StepsOn
  <2> HIDE DEF step
  <2> QED
    BY <1>1, <2>1, StepByStep
<1>3. /\ begin \in [0..n -> Nat] /\ begin[0] = f.offset
      /\ \A k \in 1..n : begin[k] = begin[k - 1] + f.blocks[k].size
  <2>1. begin \in [0..n -> Nat] /\ begin[0] = f.offset /\ \A k \in 1..n : begin[k] = step[k][begin[k - 1]]
    BY <1>2 DEF FollowsSteps
  <2>2. ASSUME NEW k \in 1..n PROVE begin[k] = begin[k - 1] + f.blocks[k].size
    <3>1. k - 1 \in 0..n
      BY <1>1
    <3>2. begin[k - 1] \in Nat
      BY <2>1, <3>1
    <3> QED
      BY <2>1, <3>2
  <2> QED
    BY <2>1, <2>2
<1> HIDE DEF step
<1>4. ASSUME NEW i \in 1..(n + 1) PROVE BlockOffset(f, i) = begin[i - 1]
  <2> DEFINE m == i - 1
             Sums(g) == g = [k \in 0..m |-> IF k = 0 THEN f.offset ELSE g[k - 1] + f.blocks[k].size]
             g == [k \in 0..m |-> begin[k]]
             h == CHOOSE x : Sums(x)
  <2>1. m \in 0..n /\ m \in Nat
    BY <1>1
  <2> HIDE DEF m
  <2>2. Sums(g)
    <3> SUFFICES ASSUME NEW k \in 0..m
                 PROVE  g[k] = IF k = 0 THEN f.offset ELSE g[k - 1] + f.blocks[k].size
      OBVIOUS
    <3>1. CASE k = 0
      BY <1>3, <3>1
    <3>2. CASE k # 0
      <4>1. k \in 1..n /\ k - 1 \in 0..m
        BY <1>1, <2>1, <3>2
      <4> QED
        BY <1>3, <3>2, <4>1
    <3> QED
      BY <3>1, <3>2
  <2>3. Sums(h)
    <3> HIDE DEF Sums, g
    <3> QED
      BY <2>2, Zenon
  <2> HIDE DEF h
  <2>4. \A k \in 0..m : h[k] = IF k = 0 THEN f.offset ELSE h[k - 1] + f.blocks[k].size
    BY <2>3
  <2> DEFINE S == {k \in 0..m : h[k] = begin[k]}
  <2>5. ASSUME NEW k \in 0..(m - 1), k \in S PROVE k + 1 \in S
    <3> DEFINE j == k + 1
    <3>1. j \in 0..m /\ j \in 1..n /\ j - 1 = k /\ j # 0
      BY <1>1, <2>1
    <3> HIDE DEF j
    <3>2. h[j] = begin[j]
      BY <1>3, <2>4, <2>5, <3>1
    <3> QED
      BY <3>1, <3>2 DEF j
  <2>6. 0 \in S
    BY <1>3, <2>1, <2>4
  <2>7. \A k \in 0..m : k \in S
    <3> HIDE DEF S
    <3>1. \A k \in 0..(m - 1) : k \in S => k + 1 \in S
      BY <2>5
    <3> QED
      BY <2>1, <2>6, <3>1, UpTo
  <2>8. h[m] = begin[m]
    BY <2>1, <2>7
  <2>9. BlockOffset(f, i) = h[m]
    BY DEF BlockOffset, h, m
  <2> QED
    BY <2>8, <2>9 DEF m
<1>5. \A i \in 1..(n + 1) : begin[i - 1] \in Nat
  BY <1>1, <1>3
<1>6. ASSUME NEW i \in 1..n PROVE BlockOffset(f, i + 1) = BlockOffset(f, i) + f.blocks[i].size
  <2> DEFINE j == i + 1
  <2>1. j \in 1..(n + 1) /\ j - 1 = i /\ i \in 1..(n + 1)
    BY <1>1
  <2> HIDE DEF j
  <2>2. BlockOffset(f, j) = begin[i] /\ BlockOffset(f, i) = begin[i - 1]
    BY <1>4, <2>1
  <2> QED
    BY <1>3, <2>2 DEF j
<1>7. BlockOffset(f, 1) = f.offset
  <2>1. 1 \in 1..(n + 1) /\ 1 - 1 = 0
    BY <1>1
  <2> QED
    BY <1>3, <1>4, <2>1
<1> QED
  BY <1>4, <1>5, <1>6, <1>7

\* The bytes of files, and one where there is none.
Bytes == (Checksums \X Sizes \X Nat) \union {<<"none", 0, 0>>}

LEMMA BytesOfBlock ==
  ASSUME NEW b \in Blocks
  PROVE  /\ b.size \in Nat /\ BlockBytes(b) \in Seq(Bytes) /\ Len(BlockBytes(b)) = b.size
         /\ \A k \in 1..b.size : BlockBytes(b)[k] = <<b.checksum, b.size, k>>
<1>1. b.size \in Nat /\ b.size \in Sizes /\ b.checksum \in Checksums
  BY PlanAssumption DEF Blocks
<1>2. \A k \in 1..b.size : <<b.checksum, b.size, k>> \in Bytes
  BY <1>1 DEF Bytes
<1>3. BlockBytes(b) \in [1..b.size -> Bytes]
  BY <1>2 DEF BlockBytes
<1> QED
  BY <1>1, <1>3, SeqDef DEF BlockBytes

\* Each block of a file is at its offset.
LEMMA FileLaidOut ==
  ASSUME NEW f, f.offset \in Nat, f.blocks \in Seq(Blocks), NEW n, n = Len(f.blocks)
  PROVE  /\ FileBytes(f) \in Seq(Bytes) /\ Len(FileBytes(f)) = BlockOffset(f, n + 1) - f.offset
         /\ \A i \in 1..n :
                LET from == BlockOffset(f, i) - f.offset IN
                /\ from \in Nat /\ from + f.blocks[i].size <= Len(FileBytes(f))
                /\ \A k \in 1..f.blocks[i].size :
                       FileBytes(f)[from + k] = <<f.blocks[i].checksum, f.blocks[i].size, k>>
<1> DEFINE size(i) == f.blocks[i].size
           At(i) == BlockOffset(f, i) - f.offset
           seqs == [i \in DOMAIN f.blocks |-> BlockBytes(f.blocks[i])]
<1>1. n \in Nat /\ DOMAIN f.blocks = 1..n /\ \A i \in 1..n : f.blocks[i] \in Blocks
  OBVIOUS
<1>2. /\ seqs \in Seq(Seq(Bytes)) /\ Len(seqs) = n
      /\ \A i \in 1..n : size(i) \in Nat /\ seqs[i] \in Seq(Bytes) /\ Len(seqs[i]) = size(i)
             /\ \A k \in 1..size(i) : seqs[i][k] = <<f.blocks[i].checksum, size(i), k>>
  <2>1. \A i \in 1..n : size(i) \in Nat /\ seqs[i] = BlockBytes(f.blocks[i])
            /\ seqs[i] \in Seq(Bytes) /\ Len(seqs[i]) = size(i)
            /\ \A k \in 1..size(i) : seqs[i][k] = <<f.blocks[i].checksum, size(i), k>>
    BY <1>1, BytesOfBlock
  <2>2. seqs \in [1..n -> Seq(Bytes)]
    BY <1>1, <2>1
  <2>3. seqs \in Seq(Seq(Bytes)) /\ Len(seqs) = n
    <3> HIDE DEF seqs
    <3> QED
      BY <1>1, <2>2, SeqDef
  <2> QED
    BY <2>1, <2>3
<1>3. /\ At(1) = 0 /\ \A i \in 1..(n + 1) : At(i) \in Int
      /\ \A i \in 1..n : At(i + 1) = At(i) + size(i)
  <2>1. /\ BlockOffset(f, 1) = f.offset
        /\ \A i \in 1..(n + 1) : BlockOffset(f, i) \in Nat
        /\ \A i \in 1..n : BlockOffset(f, i + 1) = BlockOffset(f, i) + size(i)
    BY OffsetsFollow
  <2>2. \A i \in 1..n : i \in 1..(n + 1)
    BY <1>1
  <2>3. \A i \in 1..n : size(i) \in Nat
    BY <1>2
  <2> HIDE DEF size, seqs
  <2>4. At(1) = 0 /\ \A i \in 1..(n + 1) : At(i) \in Int
    BY <2>1
  <2>5. ASSUME NEW i \in 1..n PROVE At(i + 1) = At(i) + size(i)
    BY <2>1, <2>2, <2>3
  <2> QED
    BY <2>4, <2>5
<1> HIDE DEF seqs, At
<1>4. PICK F \in [0..n -> Seq(Bytes)] :
          /\ F[0] = <<>> /\ \A i \in 1..n : F[i] = F[i - 1] \o seqs[i]
          /\ FlattenSeq(seqs) = F[n]
  <2>1. PICK F : Joins(F, Bytes, seqs)
    BY <1>2, Flattened
  <2> QED
    BY <1>2, <2>1 DEF Joins
<1> DEFINE Laid(j) ==
               /\ At(j + 1) \in Nat /\ Len(F[j]) = At(j + 1)
               /\ \A i \in 1..j : /\ At(i) \in Nat /\ At(i) + size(i) <= Len(F[j])
                                  /\ \A k \in 1..size(i) :
                                         F[j][At(i) + k] = <<f.blocks[i].checksum, size(i), k>>
           S == {j \in 0..n : Laid(j)}
<1> HIDE DEF size
<1>5. ASSUME NEW j \in 0..(n - 1), j \in S PROVE j + 1 \in S
  <2> DEFINE m == j + 1
  <2>1. m \in 1..n /\ m \in 0..n /\ m - 1 = j /\ j \in 0..n /\ m \in Nat
    BY <1>1
  <2> HIDE DEF m
  <2>2. F[m] = F[j] \o seqs[m] /\ F[j] \in Seq(Bytes) /\ seqs[m] \in Seq(Bytes)
        /\ F[m] \in Seq(Bytes)
    BY <1>2, <1>4, <2>1
  <2>3. Len(F[j]) = At(m) /\ At(m) \in Nat /\ size(m) \in Nat /\ At(m + 1) = At(m) + size(m)
        /\ Len(seqs[m]) = size(m)
    BY <1>2, <1>3, <1>5, <2>1 DEF m
  <2>4. /\ Len(F[m]) = Len(F[j]) + Len(seqs[m])
        /\ \A k \in 1..(Len(F[j]) + Len(seqs[m])) :
               F[m][k] = IF k <= Len(F[j]) THEN F[j][k] ELSE seqs[m][k - Len(F[j])]
    <3> DEFINE s == F[j]  t == seqs[m]
    <3> HIDE DEF s, t
    <3>1. s \in Seq(Bytes) /\ t \in Seq(Bytes)
      BY <2>2 DEF s, t
    <3>2. /\ Len(s \o t) = Len(s) + Len(t)
          /\ \A k \in 1..(Len(s) + Len(t)) :
                 (s \o t)[k] = IF k <= Len(s) THEN s[k] ELSE t[k - Len(s)]
      BY <3>1, ConcatProperties
    <3> QED
      BY <2>2, <3>2 DEF s, t
  <2>5. At(m + 1) \in Nat /\ Len(F[m]) = At(m + 1)
    BY <2>3, <2>4
  <2>6. ASSUME NEW i \in 1..m
        PROVE  /\ At(i) \in Nat /\ At(i) + size(i) <= Len(F[m])
               /\ \A k \in 1..size(i) : F[m][At(i) + k] = <<f.blocks[i].checksum, size(i), k>>
    <3>1. CASE i = m
      <4>1. \A k \in 1..size(m) : /\ At(m) + k \in 1..(At(m) + size(m)) /\ ~(At(m) + k <= At(m))
                                  /\ At(m) + k - At(m) = k
        BY <2>3
      <4>2. \A k \in 1..size(m) : F[m][At(m) + k] = seqs[m][k]
        <5> TAKE k \in 1..size(m)
        <5> DEFINE p == At(m) + k
        <5>1. p \in 1..(At(m) + size(m)) /\ ~(p <= At(m)) /\ p - At(m) = k
          BY <2>3
        <5> HIDE DEF p
        <5>2. F[m][p] = seqs[m][k]
          BY <2>3, <2>4, <5>1
        <5> QED
          BY <5>2 DEF p
      <4>3. At(m) + size(m) <= Len(F[m])
        BY <2>3, <2>5
      <4>4. \A k \in 1..size(m) : F[m][At(m) + k] = <<f.blocks[m].checksum, size(m), k>>
        BY <1>2, <2>1, <4>2 DEF size
      <4> QED
        BY <2>3, <3>1, <4>3, <4>4
    <3>2. CASE i # m
      <4>1. i \in 1..j
        BY <2>1, <3>2
      <4>2. i \in 1..n
        BY <2>1
      <4>3. /\ At(i) \in Nat /\ At(i) + size(i) <= At(m) /\ size(i) \in Nat
            /\ \A k \in 1..size(i) : F[j][At(i) + k] = <<f.blocks[i].checksum, size(i), k>>
        BY <1>2, <1>5, <2>3, <4>1, <4>2
      <4>4. \A k \in 1..size(i) : At(i) + k <= At(m) /\ At(i) + k \in 1..(At(m) + size(m))
        BY <2>3, <4>3
      <4>5. \A k \in 1..size(i) : F[m][At(i) + k] = F[j][At(i) + k]
        <5> TAKE k \in 1..size(i)
        <5> DEFINE p == At(i) + k
        <5>1. p <= At(m) /\ p \in 1..(At(m) + size(m))
          BY <4>4
        <5> HIDE DEF p
        <5>2. F[m][p] = F[j][p]
          BY <2>3, <2>4, <5>1
        <5> QED
          BY <5>2 DEF p
      <4>6. At(i) + size(i) <= Len(F[m])
        BY <2>3, <2>5, <4>3
      <4> QED
        BY <4>3, <4>5, <4>6
    <3> QED
      BY <3>1, <3>2
  <2>7. Laid(m)
    BY <2>5, <2>6
  <2> QED
    BY <2>1, <2>7 DEF m
<1>6. 0 \in S
  BY <1>1, <1>3, <1>4
<1>7. n \in S
  <2> HIDE DEF S
  <2>1. \A j \in 0..(n - 1) : j \in S => j + 1 \in S
    BY <1>5
  <2>2. \A j \in 0..n : j \in S
    BY <1>1, <1>6, <2>1, UpTo
  <2> QED
    BY <1>1, <2>2
<1>8. FileBytes(f) = F[n] /\ F[n] \in Seq(Bytes)
  BY <1>1, <1>4 DEF FileBytes, seqs
<1> QED
  BY <1>7, <1>8 DEF size, At

\* A range of a file, in bytes.
LEMMA RangeInBytes ==
  ASSUME NEW f, f.offset \in Nat, f.blocks \in Seq(Blocks), NEW op, op.start \in Nat, op.end \in Nat,
         op.start <= op.end, NEW size, size = op.end - op.start
  PROVE  /\ size \in Nat /\ RangeBytes(f, op) \in Seq(Bytes) /\ Len(RangeBytes(f, op)) = size
         /\ \A k \in 1..size : RangeBytes(f, op)[k] = ByteAt(f, op.start - f.offset + k)
<1>1. size \in Nat
  OBVIOUS
<1>2. FileBytes(f) \in Seq(Bytes)
  <2> DEFINE n == Len(f.blocks)
  <2> HIDE DEF n
  <2>1. n = Len(f.blocks)
    BY DEF n
  <2> QED
    BY <2>1, FileLaidOut
<1>3. \A p : ByteAt(f, p) \in Bytes
  BY <1>2 DEF ByteAt, Bytes
<1>4. RangeBytes(f, op) = [k \in 1..size |-> ByteAt(f, op.start - f.offset + k)]
  BY DEF RangeBytes
<1>5. RangeBytes(f, op) \in [1..size -> Bytes]
  BY <1>3, <1>4
<1> QED
  BY <1>1, <1>4, <1>5, SeqDef

\* The range of a block has its bytes.
LEMMA RangeOfBlock ==
  ASSUME NEW f, f.offset \in Nat, f.blocks \in Seq(Blocks), NEW i \in 1..Len(f.blocks),
         NEW op, op.start = BlockOffset(f, i), op.end = BlockOffset(f, i) + f.blocks[i].size
  PROVE  RangeBytes(f, op) = BlockBytes(f.blocks[i])
<1> DEFINE n == Len(f.blocks)
           b == f.blocks[i]
           from == BlockOffset(f, i) - f.offset
<1>1. n = Len(f.blocks) /\ n \in Nat /\ b \in Blocks /\ i \in 1..n /\ i \in 1..(n + 1)
  OBVIOUS
<1> HIDE DEF n
<1>2. /\ b.size \in Nat /\ BlockBytes(b) \in Seq(Bytes) /\ Len(BlockBytes(b)) = b.size
      /\ \A k \in 1..b.size : BlockBytes(b)[k] = <<b.checksum, b.size, k>>
  BY <1>1, BytesOfBlock
<1>3. BlockOffset(f, i) \in Nat
  BY <1>1, OffsetsFollow
<1>4. /\ FileBytes(f) \in Seq(Bytes) /\ from \in Nat /\ from + b.size <= Len(FileBytes(f))
      /\ \A k \in 1..b.size : FileBytes(f)[from + k] = <<b.checksum, b.size, k>>
  BY <1>1, FileLaidOut
<1>5. op.start \in Nat /\ op.end \in Nat /\ op.start <= op.end /\ b.size = op.end - op.start
  BY <1>2, <1>3
<1>6. /\ RangeBytes(f, op) \in Seq(Bytes) /\ Len(RangeBytes(f, op)) = b.size
      /\ \A k \in 1..b.size : RangeBytes(f, op)[k] = ByteAt(f, from + k)
  <2> DEFINE size == b.size
  <2>1. size = op.end - op.start
    BY <1>5
  <2> HIDE DEF size
  <2>2. /\ RangeBytes(f, op) \in Seq(Bytes) /\ Len(RangeBytes(f, op)) = size
        /\ \A k \in 1..size : RangeBytes(f, op)[k] = ByteAt(f, op.start - f.offset + k)
    BY <1>5, <2>1, RangeInBytes
  <2> QED
    BY <2>2 DEF size
<1> HIDE DEF from, b
<1>7. \A k \in 1..b.size : ByteAt(f, from + k) = <<b.checksum, b.size, k>>
  <2> TAKE k \in 1..b.size
  <2> DEFINE p == from + k
  <2>1. p \in 1..Len(FileBytes(f))
    BY <1>2, <1>4
  <2>2. FileBytes(f)[p] = <<b.checksum, b.size, k>>
    BY <1>4
  <2> HIDE DEF p
  <2>3. p \in DOMAIN FileBytes(f)
    BY <1>4, <2>1
  <2>4. ByteAt(f, p) = <<b.checksum, b.size, k>>
    BY <2>2, <2>3 DEF ByteAt
  <2> QED
    BY <2>4 DEF p
<1>8. \A k \in 1..b.size : RangeBytes(f, op)[k] = BlockBytes(b)[k]
  BY <1>2, <1>6, <1>7
<1>9. RangeBytes(f, op) = BlockBytes(b)
  <2> DEFINE r == RangeBytes(f, op)
             t == BlockBytes(b)
  <2>1. r \in Seq(Bytes) /\ t \in Seq(Bytes) /\ Len(r) = Len(t) /\ \A k \in 1..Len(r) : r[k] = t[k]
    BY <1>2, <1>6, <1>8
  <2> HIDE DEF r, t
  <2>2. r = t
    BY <2>1, SeqEqual
  <2> QED
    BY <2>2 DEF r, t
<1> QED
  BY <1>9 DEF b

\* A range that goes on has the bytes of both.
LEMMA RangesJoin ==
  ASSUME NEW f, f.offset \in Nat, f.blocks \in Seq(Blocks), NEW op, NEW more, NEW both,
         op.start \in Nat, op.end \in Nat, more.end \in Nat,
         op.start <= op.end, more.start = op.end, more.start <= more.end,
         both.start = op.start, both.end = more.end
  PROVE  RangeBytes(f, both) = RangeBytes(f, op) \o RangeBytes(f, more)
<1> DEFINE a == op.end - op.start
           c == more.end - more.start
           d == both.end - both.start
           r == RangeBytes(f, op)
           s == RangeBytes(f, more)
           t == RangeBytes(f, both)
<1>1. a \in Nat /\ c \in Nat /\ d = a + c
  OBVIOUS
<1> HIDE DEF a, c, d
<1>2. r \in Seq(Bytes) /\ Len(r) = a /\ \A k \in 1..a : r[k] = ByteAt(f, op.start - f.offset + k)
  <2>1. a = op.end - op.start
    BY DEF a
  <2> QED
    BY <2>1, RangeInBytes
<1>3. s \in Seq(Bytes) /\ Len(s) = c /\ \A k \in 1..c : s[k] = ByteAt(f, op.end - f.offset + k)
  <2>1. c = more.end - more.start
    BY DEF c
  <2> QED
    BY <2>1, RangeInBytes
<1>4. t \in Seq(Bytes) /\ Len(t) = d /\ \A k \in 1..d : t[k] = ByteAt(f, op.start - f.offset + k)
  <2>1. d = both.end - both.start /\ both.start <= both.end
    BY <1>1 DEF d
  <2> QED
    BY <2>1, RangeInBytes
<1> HIDE DEF r, s, t
<1>5. /\ r \o s \in Seq(Bytes) /\ Len(r \o s) = d
      /\ \A k \in 1..d : (r \o s)[k] = IF k <= a THEN r[k] ELSE s[k - a]
  BY <1>1, <1>2, <1>3, ConcatProperties
<1>6. ASSUME NEW k \in 1..d PROVE t[k] = (r \o s)[k]
  <2>1. CASE k <= a
    <3>1. k \in 1..a
      BY <1>1, <2>1
    <3> QED
      BY <1>2, <1>4, <1>5, <2>1, <3>1
  <2>2. CASE ~(k <= a)
    <3> DEFINE i == k - a
    <3>1. i \in 1..c
      BY <1>1, <2>2
    <3>4. op.end - f.offset + i = op.start - f.offset + k
      <4>1. k \in Int /\ i = k - a /\ a = op.end - op.start
        BY <1>1 DEF a
      <4> HIDE DEF i
      <4> QED
        BY <4>1
    <3>2. (r \o s)[k] = s[i]
      BY <1>5, <2>2
    <3> HIDE DEF i
    <3>3. s[i] = ByteAt(f, op.start - f.offset + k)
      BY <1>3, <3>1, <3>4
    <3> QED
      BY <1>4, <3>2, <3>3
  <2> QED
    BY <2>1, <2>2
<1>7. t = r \o s
  BY <1>4, <1>5, <1>6, SeqEqual
<1> QED
  BY <1>7 DEF r, s, t

\* A file up to the end of a block: what comes before the block, and the block.
LEMMA FileUpToBlock ==
  ASSUME NEW f, f.offset \in Nat, f.blocks \in Seq(Blocks), NEW i \in 1..Len(f.blocks)
  PROVE  LET begin == BlockOffset(f, i) - f.offset IN
         SubSeq(FileBytes(f), 1, begin + f.blocks[i].size)
             = SubSeq(FileBytes(f), 1, begin) \o BlockBytes(f.blocks[i])
<1> DEFINE n == Len(f.blocks)
           b == f.blocks[i]
           begin == BlockOffset(f, i) - f.offset
           size == b.size
           all == FileBytes(f)
           t == BlockBytes(b)
<1>1. n = Len(f.blocks) /\ n \in Nat /\ b \in Blocks /\ i \in 1..n
  OBVIOUS
<1> HIDE DEF n
<1>2. /\ size \in Nat /\ t \in Seq(Bytes) /\ Len(t) = size
      /\ \A k \in 1..size : t[k] = <<b.checksum, size, k>>
  BY <1>1, BytesOfBlock
<1>3. /\ all \in Seq(Bytes) /\ begin \in Nat /\ begin + size <= Len(all)
      /\ \A k \in 1..size : all[begin + k] = <<b.checksum, size, k>>
  BY <1>1, FileLaidOut
<1> HIDE DEF begin, size, all, t, b
<1> DEFINE r == SubSeq(all, 1, begin)
           u == SubSeq(all, 1, begin + size)
<1>4. r \in Seq(Bytes) /\ Len(r) = begin /\ \A k \in 1..begin : r[k] = all[k]
  BY <1>2, <1>3, SubSeqProperties
<1>5. u \in Seq(Bytes) /\ Len(u) = begin + size /\ \A k \in 1..(begin + size) : u[k] = all[k]
  BY <1>2, <1>3, SubSeqProperties
<1> HIDE DEF r, u
<1>6. /\ r \o t \in Seq(Bytes) /\ Len(r \o t) = begin + size
      /\ \A k \in 1..(begin + size) : (r \o t)[k] = IF k <= begin THEN r[k] ELSE t[k - begin]
  BY <1>2, <1>4, ConcatProperties
<1>7. ASSUME NEW k \in 1..(begin + size) PROVE u[k] = (r \o t)[k]
  <2>1. CASE k <= begin
    <3>1. k \in 1..begin
      BY <1>2, <1>3, <2>1
    <3> QED
      BY <1>4, <1>5, <1>6, <2>1, <3>1
  <2>2. CASE ~(k <= begin)
    <3> DEFINE j == k - begin
    <3>1. j \in 1..size /\ k = begin + j
      BY <1>2, <1>3, <2>2
    <3>2. (r \o t)[k] = t[j]
      BY <1>6, <2>2
    <3> HIDE DEF j
    <3>3. all[k] = t[j]
      BY <1>2, <1>3, <3>1
    <3> QED
      BY <1>5, <3>2, <3>3
  <2> QED
    BY <2>1, <2>2
<1>8. u = r \o t
  BY <1>5, <1>6, <1>7, SeqEqual
<1> QED
  BY <1>8 DEF u, r, begin, size, all, t, b

-----------------------------------------------------------------------------
\* The plan

Operations == Seq([kind : Kinds, start : Nat, end : Nat])
Forward(ops) == \A n \in DOMAIN ops : ops[n].start <= ops[n].end

LEMMA OperationsAre ==
  ASSUME NEW ops \in Operations, Forward(ops), NEW last, last = Len(ops)
  PROVE  /\ last \in Nat /\ DOMAIN ops = 1..last
         /\ \A n \in 1..last : /\ ops[n] \in [kind : Kinds, start : Nat, end : Nat]
                              /\ ops[n].start \in Nat /\ ops[n].end \in Nat
                              /\ ops[n].start <= ops[n].end
<1>1. last \in Nat /\ DOMAIN ops = 1..last
  BY DEF Operations
<1>2. ASSUME NEW n \in 1..last PROVE ops[n] \in [kind : Kinds, start : Nat, end : Nat]
  <2> DEFINE E == [kind : Kinds, start : Nat, end : Nat]
  <2>1. ops \in Seq(E)
    BY DEF Operations
  <2> HIDE DEF E
  <2>2. ops[n] \in E
    BY <2>1
  <2> QED
    BY <2>2 DEF E
<1>3. ASSUME NEW n \in 1..last PROVE ops[n].start \in Nat /\ ops[n].end \in Nat
  BY <1>2
<1>4. ASSUME NEW n \in 1..last PROVE ops[n].start <= ops[n].end
  BY <1>1 DEF Forward
<1> QED
  BY <1>1, <1>2, <1>3, <1>4

\* What Add makes of the operations.
GoesOn(ops, kind, start) ==
    Len(ops) > 0 /\ ops[Len(ops)].kind = kind /\ ops[Len(ops)].end = start
Longer(ops, kind, start, size) ==
    IF GoesOn(ops, kind, start) THEN [ops EXCEPT ![Len(ops)].end = @ + size]
    ELSE Append(ops, [kind |-> kind, start |-> start, end |-> start + size])

LEMMA AddIsLonger ==
  ASSUME NEW kind, NEW start, NEW size, Add(kind, start, size)
  PROVE  operations' = Longer(operations, kind, start, size)
  BY DEF Add, Longer, GoesOn

\* The last operation grows, or there is one more.
Adds(ops, ops2, kind, start, size) ==
    LET last == Len(ops) IN
    \/ /\ GoesOn(ops, kind, start) /\ Len(ops2) = last
       /\ \A n \in 1..(last - 1) : ops2[n] = ops[n]
       /\ ops2[last].kind = kind /\ ops2[last].start = ops[last].start
       /\ ops2[last].end = start + size
    \/ /\ ~GoesOn(ops, kind, start) /\ Len(ops2) = last + 1
       /\ \A n \in 1..last : ops2[n] = ops[n]
       /\ ops2[last + 1] = [kind |-> kind, start |-> start, end |-> start + size]

LEMMA LongerAdds ==
  ASSUME NEW ops \in Operations, Forward(ops), NEW kind \in Kinds, NEW start \in Nat, NEW size \in Nat
  PROVE  /\ Longer(ops, kind, start, size) \in Operations /\ Forward(Longer(ops, kind, start, size))
         /\ Adds(ops, Longer(ops, kind, start, size), kind, start, size)
<1> DEFINE last == Len(ops)
           ops2 == Longer(ops, kind, start, size)
           E == [kind : Kinds, start : Nat, end : Nat]
<1>1. /\ Operations = Seq(E) /\ ops \in Seq(E) /\ last \in Nat /\ DOMAIN ops = 1..last
      /\ \A n \in 1..last : /\ ops[n] \in E /\ ops[n].start \in Nat /\ ops[n].end \in Nat
                           /\ ops[n].start <= ops[n].end
  <2>1. Operations = Seq(E)
    BY DEF Operations
  <2>2. /\ last \in Nat /\ DOMAIN ops = 1..last
        /\ \A n \in 1..last : /\ ops[n] \in E /\ ops[n].start \in Nat /\ ops[n].end \in Nat
                             /\ ops[n].start <= ops[n].end
    BY OperationsAre
  <2> QED
    BY <2>1, <2>2
<1>5. last = Len(ops)
  OBVIOUS
<1> HIDE DEF last, ops2
<1>2. CASE GoesOn(ops, kind, start)
  <2> DEFINE grown == [ops[last] EXCEPT !.end = start + size]
  <2>1. /\ last \in 1..last /\ ops[last].kind = kind /\ ops[last].end = start
        /\ ops2 = [ops EXCEPT ![last].end = @ + size]
    BY <1>1, <1>2 DEF GoesOn, Longer, last, ops2
  <2>2. /\ grown \in E /\ grown.kind = kind /\ grown.start = ops[last].start
        /\ grown.end = start + size /\ grown.start <= grown.end
    <3> DEFINE op == ops[last]
    <3>1. op \in E /\ op.start \in Nat /\ op.start <= start /\ op.kind = kind
      BY <1>1, <2>1
    <3>2. op.start <= start + size /\ start + size \in Nat
      BY <3>1
    <3> HIDE DEF op
    <3> QED
      BY <3>1, <3>2 DEF op
  <2>3. ops2 = [ops EXCEPT ![last] = grown]
    BY <2>1
  <2> HIDE DEF grown, E
  <2>4. /\ ops2 \in Seq(E) /\ Len(ops2) = last
        /\ \A n \in 1..last : ops2[n] = IF n = last THEN grown ELSE ops[n]
    <3> DEFINE t == [ops EXCEPT ![last] = grown]
    <3>1. t \in Seq(E) /\ Len(t) = last /\ \A n \in 1..last : t[n] = IF n = last THEN grown ELSE ops[n]
      BY <1>1, <1>5, <2>1, <2>2, ExceptSeq
    <3> QED
      BY <2>3, <3>1
  <2>5. \A n \in 1..last : ops2[n].start <= ops2[n].end
    BY <1>1, <2>2, <2>4
  <2>6. \A n \in 1..(last - 1) : n \in 1..last /\ n # last
    BY <1>1
  <2> QED
    <3>1. ops2 \in Operations /\ Forward(ops2)
      BY <1>1, <2>4, <2>5 DEF Forward
    <3>2. Adds(ops, ops2, kind, start, size)
      BY <1>2, <1>5, <2>1, <2>2, <2>4, <2>6 DEF Adds
    <3> QED
      BY <3>1, <3>2 DEF ops2
<1>3. CASE ~GoesOn(ops, kind, start)
  <2> DEFINE new == [kind |-> kind, start |-> start, end |-> start + size]
  <2>1. new \in E /\ new.start <= new.end /\ ops2 = Append(ops, new)
    BY <1>3 DEF Longer, ops2
  <2> HIDE DEF new, E
  <2>2. /\ ops2 \in Seq(E) /\ Len(ops2) = last + 1 /\ ops2[last + 1] = new
        /\ \A n \in 1..last : ops2[n] = ops[n]
    BY <1>1, <1>5, <2>1, AppendProperties
  <2>3. \A n \in 1..(last + 1) : n \in 1..last \/ n = last + 1
    BY <1>1
  <2>4. \A n \in 1..(last + 1) : ops2[n].start <= ops2[n].end
    BY <1>1, <2>1, <2>2, <2>3
  <2> QED
    <3>1. ops2 \in Operations /\ Forward(ops2)
      BY <1>1, <2>2, <2>4 DEF Forward
    <3>2. Adds(ops, ops2, kind, start, size)
      BY <1>3, <1>5, <2>2 DEF Adds, new
    <3> QED
      BY <3>1, <3>2 DEF ops2
<1> QED
  BY <1>2, <1>3

\* What the operations are ranges of.
FileOf(kind) == IF kind = "copy" THEN oldFile ELSE newFile
Pieces(ops) == [n \in DOMAIN ops |-> RangeBytes(FileOf(ops[n].kind), ops[n])]
AreBlockMaps ==
    /\ oldFile.offset \in Nat /\ oldFile.blocks \in Seq(Blocks)
    /\ newFile.offset \in Nat /\ newFile.blocks \in Seq(Blocks)

\* A range that is added adds its bytes.
LEMMA LongerApplied ==
  ASSUME AreBlockMaps, NEW ops \in Operations, Forward(ops), NEW kind \in Kinds, NEW start \in Nat,
         NEW size \in Nat
  PROVE  LET new == [kind |-> kind, start |-> start, end |-> start + size] IN
         Apply(Longer(ops, kind, start, size)) = Apply(ops) \o RangeBytes(FileOf(kind), new)
<1> DEFINE new == [kind |-> kind, start |-> start, end |-> start + size]
           last == Len(ops)
           ops2 == Longer(ops, kind, start, size)
           range == RangeBytes(FileOf(kind), new)
<1> HIDE DEF ops2
<1>1. /\ ops2 \in Operations /\ Forward(ops2)
      /\ \/ /\ GoesOn(ops, kind, start) /\ Len(ops2) = last
            /\ \A n \in 1..(last - 1) : ops2[n] = ops[n]
            /\ ops2[last].kind = kind /\ ops2[last].start = ops[last].start
            /\ ops2[last].end = start + size
         \/ /\ ~GoesOn(ops, kind, start) /\ Len(ops2) = last + 1
            /\ \A n \in 1..last : ops2[n] = ops[n]
            /\ ops2[last + 1] = new
  <2>1. ops2 \in Operations /\ Forward(ops2) /\ Adds(ops, ops2, kind, start, size)
    BY LongerAdds DEF ops2
  <2> QED
    BY <2>1, Zenon DEF Adds
<1>2. \A k : FileOf(k).offset \in Nat /\ FileOf(k).blocks \in Seq(Blocks)
  BY DEF AreBlockMaps, FileOf
<1>3. ASSUME NEW some \in Operations, Forward(some)
      PROVE  Pieces(some) \in Seq(Seq(Bytes)) /\ Len(Pieces(some)) = Len(some)
  <2>1. Len(some) \in Nat /\ DOMAIN some = 1..Len(some)
    BY DEF Operations
  <2>2. ASSUME NEW n \in 1..Len(some) PROVE RangeBytes(FileOf(some[n].kind), some[n]) \in Seq(Bytes)
    <3> DEFINE op == some[n]
               f == FileOf(some[n].kind)
    <3>1. op.start \in Nat /\ op.end \in Nat /\ op.start <= op.end
      BY <1>3, OperationsAre
    <3>2. f.offset \in Nat /\ f.blocks \in Seq(Blocks)
      BY <1>2
    <3> HIDE DEF op, f
    <3>3. RangeBytes(f, op) \in Seq(Bytes)
      BY <3>1, <3>2, RangeInBytes
    <3> QED
      BY <3>3 DEF f, op
  <2>3. Pieces(some) \in [1..Len(some) -> Seq(Bytes)]
    BY <2>1, <2>2 DEF Pieces
  <2> QED
    BY <2>1, <2>3, SeqDef
<1>4. /\ Pieces(ops) \in Seq(Seq(Bytes)) /\ Len(Pieces(ops)) = last
      /\ Pieces(ops2) \in Seq(Seq(Bytes)) /\ Len(Pieces(ops2)) = Len(ops2)
  BY <1>1, <1>3
<1>5. range \in Seq(Bytes)
  <2> DEFINE f == FileOf(kind)
  <2>1. f.offset \in Nat /\ f.blocks \in Seq(Blocks)
    BY <1>2
  <2>2. new.start \in Nat /\ new.end \in Nat /\ new.start <= new.end
    OBVIOUS
  <2> HIDE DEF f
  <2>3. RangeBytes(f, new) \in Seq(Bytes)
    BY <2>1, <2>2, RangeInBytes
  <2> QED
    BY <2>3 DEF f
<1>6. last \in Nat /\ DOMAIN ops = 1..last /\ DOMAIN ops2 = 1..Len(ops2)
      /\ \A n \in 1..last : ops[n].start \in Nat /\ ops[n].end \in Nat /\ ops[n].start <= ops[n].end
  <2>1. last = Len(ops) /\ Len(ops2) = Len(ops2)
    OBVIOUS
  <2> QED
    BY <1>1, <2>1, OperationsAre
<1>7. \A some : Apply(some) = FlattenSeq(Pieces(some))
  BY DEF Apply, Pieces, FileOf
<1> HIDE DEF range, last
<1>8. CASE GoesOn(ops, kind, start)
  <2>1. /\ last \in 1..last /\ last > 0 /\ ops[last].kind = kind /\ ops[last].end = start
    BY <1>6, <1>8 DEF GoesOn, last
  <2>2. /\ Len(ops2) = last /\ \A n \in 1..(last - 1) : ops2[n] = ops[n]
        /\ ops2[last].kind = kind /\ ops2[last].start = ops[last].start
        /\ ops2[last].end = start + size
    BY <1>1, <1>8
  <2>3. RangeBytes(FileOf(kind), ops2[last]) = RangeBytes(FileOf(kind), ops[last]) \o range
    <3> DEFINE f == FileOf(kind)
               op == ops[last]
               both == ops2[last]
    <3>1. f.offset \in Nat /\ f.blocks \in Seq(Blocks)
      BY <1>2
    <3>2. /\ op.start \in Nat /\ op.end \in Nat /\ op.start <= op.end
          /\ new.end \in Nat /\ new.start = op.end /\ new.start <= new.end
          /\ both.start = op.start /\ both.end = new.end
      BY <1>6, <2>1, <2>2
    <3> HIDE DEF f, op, both
    <3>3. RangeBytes(f, both) = RangeBytes(f, op) \o RangeBytes(f, new)
      BY <3>1, <3>2, RangesJoin
    <3> QED
      BY <3>3 DEF f, op, both, range
  <2>4. Pieces(ops2) = [Pieces(ops) EXCEPT ![last] = Pieces(ops)[last] \o range]
    <3>1. /\ Pieces(ops2) = [n \in 1..last |-> RangeBytes(FileOf(ops2[n].kind), ops2[n])]
          /\ Pieces(ops) = [n \in 1..last |-> RangeBytes(FileOf(ops[n].kind), ops[n])]
      BY <1>6, <2>2 DEF Pieces
    <3>2. \A n \in 1..last : n # last => n \in 1..(last - 1)
      BY <1>6
    <3>3. Pieces(ops2)[last] = Pieces(ops)[last] \o range
      BY <2>1, <2>2, <2>3, <3>1
    <3>4. \A n \in 1..last : n # last => Pieces(ops2)[n] = Pieces(ops)[n]
      BY <2>2, <3>1, <3>2
    <3> QED
      BY <3>1, <3>3, <3>4
  <2>5. FlattenSeq([Pieces(ops) EXCEPT ![last] = Pieces(ops)[last] \o range]) = FlattenSeq(Pieces(ops)) \o range
    <3> DEFINE seqs == Pieces(ops)
    <3>1. seqs \in Seq(Seq(Bytes)) /\ last = Len(seqs)
      BY <1>4
    <3> HIDE DEF seqs
    <3>2. FlattenSeq([seqs EXCEPT ![last] = seqs[last] \o range]) = FlattenSeq(seqs) \o range
      BY <1>5, <2>1, <3>1, JoinsLonger
    <3> QED
      BY <3>2 DEF seqs
  <2> QED
    BY <1>7, <2>4, <2>5 DEF ops2, range
<1>9. CASE ~GoesOn(ops, kind, start)
  <2>1. Len(ops2) = last + 1 /\ (\A n \in 1..last : ops2[n] = ops[n]) /\ ops2[last + 1] = new
    BY <1>1, <1>9
  <2>2. Pieces(ops2) = Append(Pieces(ops), range)
    <3> DEFINE seqs == Pieces(ops)
               seqs2 == Pieces(ops2)
    <3>1. /\ \A n \in 1..(last + 1) : seqs2[n] = RangeBytes(FileOf(ops2[n].kind), ops2[n])
          /\ \A n \in 1..last : seqs[n] = RangeBytes(FileOf(ops[n].kind), ops[n])
      BY <1>6, <2>1 DEF Pieces
    <3>2. \A n \in 1..(last + 1) : n \in 1..last \/ n = last + 1
      BY <1>6
    <3>3. last + 1 \in 1..(last + 1) /\ \A n \in 1..last : n \in 1..(last + 1)
      BY <1>6
    <3>4. seqs2[last + 1] = range /\ \A n \in 1..last : seqs2[n] = seqs[n]
      BY <2>1, <3>1, <3>3 DEF range
    <3>5. /\ seqs \in Seq(Seq(Bytes)) /\ Len(seqs) = last
          /\ seqs2 \in Seq(Seq(Bytes)) /\ Len(seqs2) = last + 1
      BY <1>4, <2>1
    <3> HIDE DEF seqs, seqs2
    <3>6. /\ Append(seqs, range) \in Seq(Seq(Bytes)) /\ Len(Append(seqs, range)) = last + 1
          /\ \A n \in 1..last : Append(seqs, range)[n] = seqs[n]
          /\ Append(seqs, range)[last + 1] = range
      BY <1>5, <3>5, AppendProperties
    <3>7. \A n \in 1..(last + 1) : seqs2[n] = Append(seqs, range)[n]
      BY <3>2, <3>4, <3>6
    <3>8. seqs2 = Append(seqs, range)
      BY <3>5, <3>6, <3>7, SeqEqual
    <3> QED
      BY <3>8 DEF seqs, seqs2
  <2>3. FlattenSeq(Append(Pieces(ops), range)) = FlattenSeq(Pieces(ops)) \o range
    BY <1>4, <1>5, JoinsLast
  <2> QED
    BY <1>7, <2>2, <2>3 DEF ops2, range
<1> QED
  BY <1>8, <1>9

-----------------------------------------------------------------------------
\* The invariant

PlanTypeOK ==
    /\ oldFile \in BlockMaps(MaxOldBlocks) /\ newFile \in BlockMaps(MaxNewBlocks)
    /\ planned \in 0..Len(newFile.blocks)
    /\ newOffset = BlockOffset(newFile, planned + 1)
    /\ operations \in Operations /\ Forward(operations)

IsDownload(n) == operations[n].kind = "download"

\* A range to download ends before what is planned next, unless it is the last one.
DownloadsBehind ==
    \A n \in DOMAIN operations : IsDownload(n) =>
        /\ operations[n].end <= newOffset
        /\ operations[n].end = newOffset => n = Len(operations)

PlanInv == PlanTypeOK /\ DownloadsBehind /\ PlanRebuilds

LEMMA MapsAre ==
  ASSUME oldFile \in BlockMaps(MaxOldBlocks), newFile \in BlockMaps(MaxNewBlocks)
  PROVE  AreBlockMaps
  BY BlockMapsAre, PlanAssumption DEF AreBlockMaps

\* The next block to plan.
LEMMA NextBlockIs ==
  ASSUME PlanTypeOK, planned < Len(newFile.blocks), NEW i, i = planned + 1, NEW b, b = newFile.blocks[i]
  PROVE  /\ i \in 1..Len(newFile.blocks) /\ b \in Blocks /\ b.size \in Nat \ {0}
         /\ newOffset = BlockOffset(newFile, i) /\ newOffset \in Nat
         /\ newOffset + b.size = BlockOffset(newFile, i + 1)
<1> DEFINE n == Len(newFile.blocks)
<1>1. AreBlockMaps /\ planned \in 0..n /\ newOffset = BlockOffset(newFile, i)
  BY MapsAre DEF PlanTypeOK
<1>2. newFile.offset \in Nat /\ newFile.blocks \in Seq(Blocks) /\ n \in Nat /\ n = Len(newFile.blocks)
  BY <1>1 DEF AreBlockMaps
<1>3. i \in 1..n /\ i \in 1..(n + 1) /\ b \in Blocks
  BY <1>1, <1>2
<1>4. b.size \in Nat \ {0}
  BY <1>3, PlanAssumption DEF Blocks
<1> HIDE DEF n
<1>5. /\ \A k \in 1..(n + 1) : BlockOffset(newFile, k) \in Nat
      /\ \A k \in 1..n : BlockOffset(newFile, k + 1) = BlockOffset(newFile, k) + newFile.blocks[k].size
  BY <1>2, OffsetsFollow
<1> QED
  BY <1>1, <1>3, <1>4, <1>5 DEF n

\* A step adds a range that has the bytes of the block.
AddsBlock(b) ==
    \E kind \in Kinds : \E start \in Nat :
        /\ Add(kind, start, b.size)
        /\ RangeBytes(FileOf(kind), [kind |-> kind, start |-> start, end |-> start + b.size]) = BlockBytes(b)
        /\ kind = "download" => start = newOffset

LEMMA BlockIsAdded ==
  ASSUME PlanTypeOK, PlanBlock, NEW b, b = newFile.blocks[planned + 1]
  PROVE  AddsBlock(b)
<1> DEFINE i == planned + 1
<1>1. /\ i \in 1..Len(newFile.blocks) /\ b \in Blocks /\ b.size \in Nat
      /\ newOffset = BlockOffset(newFile, i) /\ newOffset \in Nat
  <2>1. i = planned + 1 /\ b = newFile.blocks[i] /\ planned < Len(newFile.blocks)
    BY DEF PlanBlock
  <2> HIDE DEF i
  <2> QED
    BY <2>1, NextBlockIs
<1>2. AreBlockMaps
  BY MapsAre DEF PlanTypeOK
<1>3. CASE Reusable(b)
  <2> DEFINE m == FirstOf(oldFile, b.checksum)
             n == Len(oldFile.blocks)
             start == BlockOffset(oldFile, m)
             range == [kind |-> "copy", start |-> start, end |-> start + b.size]
  <2>1. m \in 1..n /\ oldFile.blocks[m].checksum = b.checksum /\ oldFile.blocks[m].size = b.size
    <3> DEFINE S == BlocksOf(oldFile, b.checksum)
    <3>1. n \in Nat /\ DOMAIN oldFile.blocks = 1..n
      BY <1>2 DEF AreBlockMaps
    <3>2. S \in SUBSET (1..n) /\ S # {}
      BY <1>3, <3>1 DEF Reusable, BlocksOf
    <3> HIDE DEF S, n
    <3>3. Min(S) \in S
      BY <3>1, <3>2, LeastIsThere
    <3> QED
      BY <1>3, <3>2, <3>3 DEF Reusable, FirstOf, S, BlocksOf
  <2>2. Add("copy", start, b.size)
    BY <1>3 DEF PlanBlock
  <2> HIDE DEF m
  <2>3. start \in Nat
    <3>1. n = Len(oldFile.blocks) /\ m \in 1..(n + 1)
      BY <1>2, <2>1 DEF AreBlockMaps
    <3> HIDE DEF n
    <3> QED
      BY <1>2, <3>1, OffsetsFollow DEF AreBlockMaps
  <2>4. RangeBytes(oldFile, range) = BlockBytes(oldFile.blocks[m])
    <3>1. range.start = start /\ range.end = start + oldFile.blocks[m].size
      BY <2>1
    <3> HIDE DEF range
    <3> QED
      BY <1>2, <2>1, <3>1, RangeOfBlock DEF AreBlockMaps
  <2>5. BlockBytes(oldFile.blocks[m]) = BlockBytes(b)
    BY <2>1 DEF BlockBytes
  <2>6. FileOf("copy") = oldFile
    BY DEF FileOf
  <2>7. RangeBytes(FileOf("copy"), [kind |-> "copy", start |-> start, end |-> start + b.size]) = BlockBytes(b)
    BY <2>4, <2>5, <2>6
  <2> HIDE DEF start
  <2> QED
    BY <2>2, <2>3, <2>7 DEF AddsBlock, Kinds
<1>4. CASE ~Reusable(b)
  <2> DEFINE range == [kind |-> "download", start |-> newOffset, end |-> newOffset + b.size]
  <2>1. Add("download", newOffset, b.size)
    BY <1>4 DEF PlanBlock
  <2>2. RangeBytes(newFile, range) = BlockBytes(b)
    <3>1. range.start = BlockOffset(newFile, i) /\ range.end = BlockOffset(newFile, i) + newFile.blocks[i].size
      BY <1>1
    <3>2. b = newFile.blocks[i]
      OBVIOUS
    <3> HIDE DEF range, i
    <3> QED
      BY <1>1, <1>2, <3>1, <3>2, RangeOfBlock DEF AreBlockMaps
  <2>3. FileOf("download") = newFile
    BY DEF FileOf
  <2>4. RangeBytes(FileOf("download"), [kind |-> "download", start |-> newOffset, end |-> newOffset + b.size])
            = BlockBytes(b)
    BY <2>2, <2>3
  <2> QED
    BY <1>1, <2>1, <2>4 DEF AddsBlock, Kinds
<1> QED
  BY <1>3, <1>4

\* What is planned to be copied and to be downloaded goes on by the block.
LEMMA BlockIsApplied ==
  ASSUME PlanTypeOK, PlanBlock,
         Apply(operations) = SubSeq(FileBytes(newFile), 1, newOffset - newFile.offset)
  PROVE  (Apply(operations) = SubSeq(FileBytes(newFile), 1, newOffset - newFile.offset))'
<1> DEFINE i == planned + 1
           b == newFile.blocks[i]
           begin == BlockOffset(newFile, i) - newFile.offset
<1>1. AreBlockMaps
  BY MapsAre DEF PlanTypeOK
<1>2. /\ i \in 1..Len(newFile.blocks) /\ b \in Blocks /\ b.size \in Nat
      /\ newOffset = BlockOffset(newFile, i) /\ newOffset \in Nat
  <2>1. i = planned + 1 /\ b = newFile.blocks[i] /\ planned < Len(newFile.blocks)
    BY DEF PlanBlock
  <2> HIDE DEF i, b
  <2> QED
    BY <2>1, NextBlockIs
<1>3. AddsBlock(b)
  BY BlockIsAdded
<1>4. oldFile' = oldFile /\ newFile' = newFile /\ newOffset' = newOffset + b.size
  BY DEF PlanBlock
<1> HIDE DEF i, b
<1>5. PICK kind \in Kinds, start \in Nat :
          /\ Add(kind, start, b.size)
          /\ RangeBytes(FileOf(kind), [kind |-> kind, start |-> start, end |-> start + b.size]) = BlockBytes(b)
  BY <1>3 DEF AddsBlock
<1>6. operations' = Longer(operations, kind, start, b.size)
  BY <1>5, AddIsLonger
<1>7. Apply(Longer(operations, kind, start, b.size)) = Apply(operations) \o BlockBytes(b)
  <2> DEFINE size == b.size
             new == [kind |-> kind, start |-> start, end |-> start + size]
  <2>1. size \in Nat
        /\ operations \in Operations /\ Forward(operations)
    BY <1>2 DEF PlanTypeOK
  <2>2. RangeBytes(FileOf(kind), new) = BlockBytes(b)
    BY <1>5
  <2> HIDE DEF size
  <2>3. Apply(Longer(operations, kind, start, size)) = Apply(operations) \o RangeBytes(FileOf(kind), new)
    BY <1>1, <1>5, <2>1, LongerApplied
  <2> QED
    BY <2>2, <2>3 DEF size
<1>8. Apply(operations)' = Apply(Longer(operations, kind, start, b.size))
  BY <1>4, <1>6 DEF Apply
<1>9. SubSeq(FileBytes(newFile), 1, begin + b.size) = SubSeq(FileBytes(newFile), 1, begin) \o BlockBytes(b)
  BY <1>1, <1>2, FileUpToBlock DEF AreBlockMaps, b
<1>10. newOffset - newFile.offset = begin /\ newOffset' - newFile.offset = begin + b.size
  BY <1>1, <1>2, <1>4 DEF AreBlockMaps
<1>11. (FileBytes(newFile))' = FileBytes(newFile)
  BY <1>4 DEF FileBytes
<1> HIDE DEF begin
<1> QED
  BY <1>4, <1>7, <1>8, <1>9, <1>10, <1>11

LEMMA BlockAscends ==
  ASSUME PlanTypeOK, DownloadsBehind, RangesAscend, PlanBlock
  PROVE  PlanTypeOK' /\ DownloadsBehind' /\ RangesAscend'
<1> DEFINE i == planned + 1
           b == newFile.blocks[i]
           size == b.size
           last == Len(operations)
<1>1. /\ i \in 1..Len(newFile.blocks) /\ size \in Nat \ {0}
      /\ newOffset \in Nat /\ newOffset + size = BlockOffset(newFile, i + 1)
  <2>1. i = planned + 1 /\ b = newFile.blocks[i] /\ planned < Len(newFile.blocks)
    BY DEF PlanBlock
  <2> HIDE DEF i, b
  <2> QED
    BY <2>1, NextBlockIs
<1>2. AddsBlock(b)
  BY BlockIsAdded
<1>3. oldFile' = oldFile /\ newFile' = newFile /\ newOffset' = newOffset + size /\ planned' = i
  BY DEF PlanBlock
<1> HIDE DEF i, b
<1>4. PICK kind \in Kinds, start \in Nat : Add(kind, start, size) /\ (kind = "download" => start = newOffset)
  BY <1>2 DEF AddsBlock
<1> HIDE DEF size
<1>5. /\ operations \in Operations /\ Forward(operations)
      /\ operations' \in Operations /\ Forward(operations') /\ Adds(operations, operations', kind, start, size)
  <2>1. operations \in Operations /\ Forward(operations)
    BY DEF PlanTypeOK
  <2>2. operations' = Longer(operations, kind, start, size) /\ size \in Nat
    BY <1>1, <1>4, AddIsLonger
  <2> QED
    BY <2>1, <2>2, LongerAdds
<1>6. PlanTypeOK'
  <2>1. Forward(operations)'
    BY <1>5 DEF Forward
  <2>2. newOffset' = BlockOffset(newFile, i + 1)
    BY <1>1, <1>3
  <2>3. (newOffset = BlockOffset(newFile, planned + 1))'
    BY <1>3, <2>2 DEF BlockOffset
  <2>4. (planned \in 0..Len(newFile.blocks))'
    BY <1>1, <1>3
  <2>5. (oldFile \in BlockMaps(MaxOldBlocks) /\ newFile \in BlockMaps(MaxNewBlocks))'
    BY <1>3 DEF PlanTypeOK, BlockMaps, Blocks
  <2> QED
    BY <1>5, <2>1, <2>3, <2>4, <2>5 DEF PlanTypeOK, Operations, Kinds
<1>7. /\ last \in Nat /\ DOMAIN operations = 1..last
      /\ DOMAIN operations' = 1..Len(operations') /\ Len(operations') \in Nat
      /\ \A n \in 1..last : operations[n].start \in Nat /\ operations[n].end \in Nat
  <2>1. last = Len(operations) /\ Len(operations') = Len(operations')
    OBVIOUS
  <2> HIDE DEF last
  <2> QED
    BY <1>5, <2>1, OperationsAre
<1>8. /\ \A n \in 1..last : operations[n].kind = "download" =>
              operations[n].end <= newOffset /\ (operations[n].end = newOffset => n = last)
      /\ \A m, n \in 1..last :
            m < n /\ operations[m].kind = "download" /\ operations[n].kind = "download"
                => operations[m].end < operations[n].start
  BY <1>7 DEF DownloadsBehind, IsDownload, RangesAscend
<1>9. DownloadsBehind' /\ RangesAscend'
  <2> USE <1>1, <1>3, <1>4, <1>7 DEF DownloadsBehind, IsDownload, RangesAscend
  <2>1. CASE GoesOn(operations, kind, start)
    <3>1. /\ last > 0 /\ operations[last].kind = kind /\ operations[last].end = start
          /\ Len(operations') = last /\ \A n \in 1..(last - 1) : operations'[n] = operations[n]
          /\ operations'[last].kind = kind /\ operations'[last].start = operations[last].start
          /\ operations'[last].end = start + size
      BY <1>5, <2>1, Zenon DEF Adds, GoesOn
    <3> HIDE DEF last
    <3>2. \A n \in 1..(last - 1) : operations[n].kind = "download" => operations[n].end < newOffset
      BY <1>8
    <3>3. \A n \in 1..last : n \in 1..(last - 1) \/ n = last
      OBVIOUS
    <3>4. DownloadsBehind'
      BY <1>8, <3>1, <3>2, <3>3
    <3>5. RangesAscend'
      BY <1>8, <3>1, <3>3
    <3> QED
      BY <3>4, <3>5
  <2>2. CASE ~GoesOn(operations, kind, start)
    <3>1. /\ Len(operations') = last + 1 /\ \A n \in 1..last : operations'[n] = operations[n]
          /\ operations'[last + 1].kind = kind /\ operations'[last + 1].start = start
          /\ operations'[last + 1].end = start + size
      <4>1. /\ Len(operations') = last + 1 /\ \A n \in 1..last : operations'[n] = operations[n]
            /\ operations'[last + 1] = [kind |-> kind, start |-> start, end |-> start + size]
        BY <1>5, <2>2, Zenon DEF Adds
      <4> QED
        BY <4>1
    <3>2. last > 0 => ~(operations[last].kind = kind /\ operations[last].end = start)
      BY <2>2 DEF GoesOn
    <3> HIDE DEF last
    <3>3. kind = "download" =>
              \A n \in 1..last : operations[n].kind = "download" => operations[n].end < newOffset
      BY <1>8, <3>2
    <3>4. DownloadsBehind'
      BY <1>8, <3>1
    <3>5. ASSUME NEW m \in 1..(last + 1), NEW n \in 1..(last + 1), m < n,
                 operations'[m].kind = "download", operations'[n].kind = "download"
          PROVE  operations'[m].end < operations'[n].start
      <4>1. m \in 1..last /\ operations'[m] = operations[m]
        BY <3>1, <3>5
      <4>2. CASE n = last + 1
        BY <3>1, <3>3, <3>5, <4>1, <4>2
      <4>3. CASE n # last + 1
        <5>1. n \in 1..last /\ operations'[n] = operations[n]
          BY <3>1, <4>3
        <5> QED
          BY <1>8, <3>5, <4>1, <5>1
      <4> QED
        BY <4>2, <4>3
    <3>6. RangesAscend'
      BY <3>1, <3>5
    <3> QED
      BY <3>4, <3>6
  <2> QED
    BY <2>1, <2>2
<1> QED
  BY <1>6, <1>9

LEMMA PlanInitInv == PlanInit => PlanInv
<1> SUFFICES ASSUME PlanInit PROVE PlanInv
  OBVIOUS
<1>1. AreBlockMaps
  BY MapsAre DEF PlanInit
<1>2. operations = <<>> /\ DOMAIN operations = {} /\ planned = 0 /\ newOffset = newFile.offset
  BY DEF PlanInit
<1>3. newOffset = BlockOffset(newFile, planned + 1)
  <2> DEFINE n == Len(newFile.blocks)
  <2>1. n = Len(newFile.blocks)
    OBVIOUS
  <2> HIDE DEF n
  <2>2. BlockOffset(newFile, 1) = newFile.offset
    BY <1>1, <2>1, OffsetsFollow DEF AreBlockMaps
  <2> QED
    BY <1>2, <2>2
<1>4. PlanTypeOK
  <2>1. planned \in 0..Len(newFile.blocks)
    BY <1>1, <1>2 DEF AreBlockMaps
  <2>2. operations \in Operations /\ Forward(operations)
    BY <1>2 DEF Operations, Forward
  <2> QED
    BY <1>3, <2>1, <2>2 DEF PlanInit, PlanTypeOK
<1>5. Apply(operations) = SubSeq(FileBytes(newFile), 1, newOffset - newFile.offset)
  <2>1. newOffset - newFile.offset = 0
    BY <1>1, <1>2 DEF AreBlockMaps
  <2>2. Apply(operations) = <<>>
    BY <1>2 DEF Apply, FlattenSeq
  <2>3. SubSeq(FileBytes(newFile), 1, 0) = <<>>
    OBVIOUS
  <2> QED
    BY <2>1, <2>2, <2>3
<1>6. DownloadsBehind /\ RangesAscend
  BY <1>2 DEF DownloadsBehind, RangesAscend
<1> QED
  BY <1>4, <1>5, <1>6 DEF PlanInv, PlanRebuilds

LEMMA PlanNextInv == PlanInv /\ [PlanBlock]_planVars => PlanInv'
<1> SUFFICES ASSUME PlanInv, [PlanBlock]_planVars PROVE PlanInv'
  OBVIOUS
<1>1. CASE UNCHANGED planVars
  <2> USE <1>1 DEF planVars
  <2>1. PlanTypeOK' /\ DownloadsBehind' /\ RangesAscend'
    BY DEF PlanInv, PlanTypeOK, DownloadsBehind, IsDownload, RangesAscend, PlanRebuilds, BlockOffset, Forward
  <2>2. (Apply(operations) = SubSeq(FileBytes(newFile), 1, newOffset - newFile.offset))'
    BY DEF PlanInv, PlanRebuilds, Apply, FileBytes
  <2> QED
    BY <2>1, <2>2 DEF PlanInv, PlanRebuilds
<1>2. CASE PlanBlock
  BY <1>2, BlockAscends, BlockIsApplied DEF PlanInv, PlanRebuilds
<1> QED
  BY <1>1, <1>2

(***************************************************************************)
(* For block maps of any number of blocks, of any sizes and checksums:     *)
(* copying and downloading what is planned makes the bytes of the new file *)
(* up to the block that is planned next, and the ranges to download ascend *)
(* and leave a gap, so that the parts of a multipart response are those    *)
(* DataSplitter waits for.                                                 *)
(***************************************************************************)
THEOREM PlansRebuildFiles == PlanSpec => []PlanRebuilds
<1>1. PlanInv => PlanRebuilds
  BY DEF PlanInv
<1> QED
  BY <1>1, PlanInitInv, PlanNextInv, PTL DEF PlanSpec

\* An operation has bytes, and all of them are in its file.
InItsFile(op) ==
    LET f == FileOf(op.kind)
    IN  f.offset <= op.start /\ op.start < op.end /\ op.end <= f.offset + Len(FileBytes(f))
RangesInFiles == \A n \in DOMAIN operations : InItsFile(operations[n])

\* What has the bytes of a block is in the file: where there is none, there is no such byte.
LEMMA BytesAreThere ==
  ASSUME NEW f, f.offset \in Nat, f.blocks \in Seq(Blocks), NEW b \in Blocks, NEW op,
         op.start \in Nat, op.end = op.start + b.size, RangeBytes(f, op) = BlockBytes(b)
  PROVE  f.offset <= op.start /\ op.end <= f.offset + Len(FileBytes(f))
<1> DEFINE size == b.size
           first == op.start - f.offset
           all == FileBytes(f)
<1>1. size \in Nat \ {0} /\ size \in Sizes
  BY PlanAssumption DEF Blocks
<1>2. \A k \in 1..size : BlockBytes(b)[k] = <<b.checksum, size, k>>
  BY DEF BlockBytes
<1>3. all \in Seq(Bytes)
  <2> DEFINE n == Len(f.blocks)
  <2> HIDE DEF n
  <2>1. n = Len(f.blocks)
    BY DEF n
  <2> QED
    BY <2>1, FileLaidOut
<1>4. \A k \in 1..size : RangeBytes(f, op)[k] = ByteAt(f, first + k)
  <2> HIDE DEF size
  <2>1. op.start <= op.end /\ size = op.end - op.start /\ op.end \in Nat
    BY <1>1 DEF size
  <2> QED
    BY <2>1, RangeInBytes
<1>5. ASSUME NEW k \in 1..size PROVE first + k \in DOMAIN all
  <2>1. ByteAt(f, first + k) = <<b.checksum, size, k>>
    BY <1>2, <1>4
  <2>2. <<b.checksum, size, k>> # <<"none", 0, 0>>
    BY <1>1
  <2> QED
    BY <2>1, <2>2 DEF ByteAt
<1>6. DOMAIN all = 1..Len(all) /\ Len(all) \in Nat
  BY <1>3
<1>7. 1 \in 1..size /\ size \in 1..size
  BY <1>1
<1> HIDE DEF all, size
<1>8. first + 1 \in 1..Len(all) /\ first + size \in 1..Len(all)
  BY <1>5, <1>6, <1>7
<1>9. op.end = op.start + size /\ op.end \in Nat
  BY <1>1 DEF size
<1>10. f.offset <= op.start
  BY <1>8
<1>11. op.end <= f.offset + Len(all)
  <2> DEFINE length == Len(all)
  <2>1. first + size <= length /\ length \in Nat
    BY <1>6, <1>8
  <2> HIDE DEF length
  <2>2. first + size = op.end - f.offset
    BY <1>1, <1>9 DEF size
  <2>3. op.end <= f.offset + length
    BY <1>9, <2>1, <2>2
  <2> QED
    BY <2>3 DEF length
<1> QED
  BY <1>10, <1>11 DEF all

\* The range a step adds, or adds to the last one, is in its file.
LEMMA PlanBlockInFiles ==
  ASSUME PlanTypeOK, RangesInFiles, PlanBlock
  PROVE  RangesInFiles'
<1> DEFINE b == newFile.blocks[planned + 1]
           size == b.size
           last == Len(operations)
<1>1. b \in Blocks /\ size \in Nat \ {0}
  <2>1. planned < Len(newFile.blocks)
    BY DEF PlanBlock
  <2> DEFINE i == planned + 1
  <2>2. i = planned + 1 /\ b = newFile.blocks[i]
    OBVIOUS
  <2> HIDE DEF b, i
  <2> QED
    BY <2>1, <2>2, NextBlockIs
<1>2. AddsBlock(b)
  BY BlockIsAdded
<1>3. oldFile' = oldFile /\ newFile' = newFile
  BY DEF PlanBlock
<1>4. AreBlockMaps
  BY MapsAre DEF PlanTypeOK
<1> HIDE DEF b
<1>5. PICK kind \in Kinds, start \in Nat :
          /\ Add(kind, start, size)
          /\ RangeBytes(FileOf(kind), [kind |-> kind, start |-> start, end |-> start + size]) = BlockBytes(b)
  BY <1>2 DEF AddsBlock
<1> DEFINE new == [kind |-> kind, start |-> start, end |-> start + size]
<1>6. FileOf(kind).offset <= start /\ start + size <= FileOf(kind).offset + Len(FileBytes(FileOf(kind)))
  <2>1. FileOf(kind).offset \in Nat /\ FileOf(kind).blocks \in Seq(Blocks)
    BY <1>4 DEF AreBlockMaps, FileOf
  <2>2. new.start = start /\ new.end = start + b.size /\ RangeBytes(FileOf(kind), new) = BlockBytes(b)
    BY <1>5
  <2> HIDE DEF new
  <2>3. FileOf(kind).offset <= new.start /\ new.end <= FileOf(kind).offset + Len(FileBytes(FileOf(kind)))
    BY <1>1, <2>1, <2>2, BytesAreThere
  <2> QED
    BY <2>2, <2>3
<1> HIDE DEF size, new
<1>7. /\ operations \in Operations /\ Forward(operations)
      /\ operations' \in Operations /\ Forward(operations') /\ Adds(operations, operations', kind, start, size)
  <2>1. operations \in Operations /\ Forward(operations)
    BY DEF PlanTypeOK
  <2>2. operations' = Longer(operations, kind, start, size) /\ size \in Nat
    BY <1>1, <1>5, AddIsLonger
  <2> QED
    BY <2>1, <2>2, LongerAdds
<1>8. /\ last \in Nat /\ DOMAIN operations = 1..last /\ DOMAIN operations' = 1..Len(operations')
      /\ \A n \in 1..last : operations[n].start \in Nat /\ operations[n].end \in Nat
  <2>1. last = Len(operations) /\ Len(operations') = Len(operations')
    OBVIOUS
  <2> HIDE DEF last
  <2> QED
    BY <1>7, <2>1, OperationsAre
<1>9. \A op : InItsFile(op)' <=> InItsFile(op)
  BY <1>3 DEF InItsFile, FileOf, FileBytes
<1>10. ASSUME NEW n \in 1..Len(operations') PROVE InItsFile(operations'[n])
  <2>1. CASE n \in 1..last /\ operations'[n] = operations[n]
    BY <1>8, <2>1 DEF RangesInFiles
  <2>2. CASE /\ n = last /\ GoesOn(operations, kind, start) /\ operations'[n].kind = kind
             /\ operations'[n].start = operations[n].start /\ operations'[n].end = start + size
    <3>1. last \in 1..last /\ operations[n].kind = kind /\ operations[n].end = start
      BY <1>8, <2>2 DEF GoesOn, last
    <3>2. FileOf(kind).offset <= operations[n].start /\ operations[n].start < start
      BY <1>8, <2>2, <3>1 DEF RangesInFiles, InItsFile
    <3>3. operations[n].start < start + size
      BY <1>1, <1>8, <2>2, <3>1, <3>2
    <3> QED
      BY <1>6, <2>2, <3>2, <3>3 DEF InItsFile
  <2>3. CASE operations'[n] = new
    <3>1. new.kind = kind /\ new.start = start /\ new.end = start + size
      BY DEF new
    <3>2. start < start + size
      BY <1>1
    <3> QED
      BY <1>6, <2>3, <3>1, <3>2 DEF InItsFile
  <2>4. \/ n \in 1..last /\ operations'[n] = operations[n]
        \/ operations'[n] = new
        \/ /\ n = last /\ GoesOn(operations, kind, start) /\ operations'[n].kind = kind
           /\ operations'[n].start = operations[n].start /\ operations'[n].end = start + size
    <3>1. CASE GoesOn(operations, kind, start)
      <4>1. /\ Len(operations') = last /\ \A m \in 1..(last - 1) : operations'[m] = operations[m]
            /\ operations'[last].kind = kind /\ operations'[last].start = operations[last].start
            /\ operations'[last].end = start + size
        BY <1>7, <3>1, Zenon DEF Adds, last
      <4>2. n \in 1..last /\ (n = last \/ n \in 1..(last - 1))
        <5>1. n \in 1..last /\ last \in Nat
          BY <1>8, <4>1, Zenon
        <5> HIDE DEF last
        <5> QED
          BY <5>1
      <4>3. CASE n = last
        BY <3>1, <4>1, <4>3, Zenon
      <4>4. CASE n \in 1..(last - 1)
        BY <4>1, <4>2, <4>4, Zenon
      <4> QED
        BY <4>2, <4>3, <4>4
    <3>2. CASE ~GoesOn(operations, kind, start)
      <4>1. Len(operations') = last + 1 /\ (\A m \in 1..last : operations'[m] = operations[m])
            /\ operations'[last + 1] = new
        BY <1>7, <3>2, Zenon DEF Adds, last, new
      <4>2. n = last + 1 \/ n \in 1..last
        BY <1>8, <4>1
      <4> QED
        BY <4>1, <4>2
    <3> QED
      BY <3>1, <3>2
  <2> QED
    BY <2>1, <2>2, <2>3, <2>4
<1> QED
  BY <1>8, <1>9, <1>10 DEF RangesInFiles

\* A plan as DataSplitter takes it.
TasksOf(ops) == [n \in DOMAIN ops |-> [kind |-> ops[n].kind, size |-> ops[n].end - ops[n].start]]
SuitsTheSplitter == TasksOf(operations) \in Seq([kind : {"copy", "download"}, size : Nat \ {0}])

(***************************************************************************)
(* Every plan suits those it is handed to.  The operations are tasks as    *)
(* DataSplitter and DifferentialDownload assume them: copies and           *)
(* downloads, of at least a byte each.  And each range is within its file, *)
(* the old one or the new one: no request asks for what the server does    *)
(* not have, and no copy reads beyond the end of the old file.             *)
(***************************************************************************)
THEOREM PlansSuitTheSplitter == PlanSpec => [](RangesInFiles /\ SuitsTheSplitter)
<1> DEFINE Inv == PlanInv /\ RangesInFiles
<1>1. PlanInit => Inv
  BY PlanInitInv DEF PlanInit, RangesInFiles
<1>2. Inv /\ [PlanBlock]_planVars => Inv'
  <2>1. CASE UNCHANGED planVars
    BY <2>1, PlanNextInv DEF planVars, RangesInFiles, InItsFile, FileOf, FileBytes
  <2>2. CASE PlanBlock
    BY <2>2, PlanNextInv, PlanBlockInFiles DEF PlanInv
  <2> QED
    BY <2>1, <2>2
<1>3. Inv => RangesInFiles /\ SuitsTheSplitter
  <2> SUFFICES ASSUME Inv PROVE SuitsTheSplitter
    OBVIOUS
  <2> DEFINE last == Len(operations)
             T == [kind : {"copy", "download"}, size : Nat \ {0}]
  <2>1. last = Len(operations) /\ operations \in Operations /\ Forward(operations)
    BY DEF PlanInv, PlanTypeOK
  <2> HIDE DEF last
  <2>2. /\ last \in Nat /\ DOMAIN operations = 1..last
        /\ \A n \in 1..last : /\ operations[n] \in [kind : Kinds, start : Nat, end : Nat]
                              /\ operations[n].start \in Nat /\ operations[n].end \in Nat
    BY <2>1, OperationsAre
  <2>3. \A n \in 1..last : operations[n].kind \in {"copy", "download"}
    BY <2>2 DEF Kinds
  <2>4. \A n \in 1..last : operations[n].end - operations[n].start \in Nat \ {0}
    <3>1. \A n \in 1..last : operations[n].start < operations[n].end
      BY <2>2 DEF RangesInFiles, InItsFile
    <3> QED
      BY <2>2, <3>1
  <2>5. \A n \in 1..last : TasksOf(operations)[n] \in T
    BY <2>2, <2>3, <2>4 DEF TasksOf
  <2>6. TasksOf(operations) \in [1..last -> T]
    BY <2>2, <2>5 DEF TasksOf
  <2> HIDE DEF T
  <2>7. TasksOf(operations) \in Seq(T)
    BY <2>2, <2>6, SeqDef
  <2> QED
    BY <2>7 DEF SuitsTheSplitter, T
<1> QED
  BY <1>1, <1>2, <1>3, PTL DEF PlanSpec

-----------------------------------------------------------------------------
\* DifferentialDownload

DifferentialTypes ==
    /\ setting \in Settings /\ tasks \in Plans /\ oldMatches \in BOOLEAN
    /\ promise \in {"none", "pending", "resolved", "rejected"}
    /\ index \in Nat \ {0} /\ piped \in Seq(Nat)
    /\ written \in 0..Len(piped) /\ fullWritten \in 0..Len(NewFile)
    /\ fileOut \in {"none", "open", "finishing", "destroyed", "closed"}
    /\ caller \in {"blockMaps", "openOld", "openNew", "wait", "close", "full", "fullBody",
                   "verify", "done", "failed"}
    /\ open \in [Descriptors -> {"free", "old", "dest", "app"}]
    /\ dest \in Seq(Nat)
    /\ appOpens \in 0..setting.appOpens

\* Where the caller is, the promise and the write stream go together.
DifferentialPhases ==
    /\ caller \in {"blockMaps", "openOld", "openNew"} => fileOut = "none" /\ promise = "none"
    /\ caller \in {"wait", "close"} => promise # "none"
    /\ promise = "pending" => caller = "wait"
    /\ caller = "wait" => fileOut # "none"
    /\ promise = "resolved" =>
           fileOut = "closed" /\ caller \in {"wait", "close", "verify", "done", "failed"}
    /\ fileOut = "none" => at = "none" /\ written = 0
    /\ fileOut = "finishing" => at = "ended" /\ written = Len(piped)
    /\ caller \in {"blockMaps", "openOld", "openNew", "wait", "close", "full"} => fullWritten = 0

\* The destination is open for the stream until closeFiles, or for the full download.
OpenFor ==
    \A n \in Descriptors :
        /\ open[n] = "old" => n = oldFd /\ n \in fdList /\ caller \in {"openNew", "wait", "close"}
        /\ open[n] = "dest" =>
               \/ n = newFd /\ n \in fdList /\ caller \in {"wait", "close"}
               \/ n = fullFd /\ caller \in {"fullBody", "failed"}

OpenByApp == {n \in Descriptors : open[n] = "app"}
OpenByAppCounted == IsFiniteSet(OpenByApp) /\ Cardinality(OpenByApp) <= appOpens

StreamHasDescriptor == fileOut # "none" => newFd \in Descriptors

DifferentialTypeInv ==
    /\ DifferentialTypes /\ DifferentialPhases /\ OpenFor /\ OpenByAppCounted
    /\ StreamHasDescriptor

\* The numbers, as long as the application has opened no file of its own: closeFiles has
\* closed both files before the full download gets the number of the old one, so that the
\* stream finds the number of the new one closed for good.
Numbers ==
    /\ caller = "openNew" => oldFd = 1 /\ open[1] = "old"
    /\ newFd \in {0, 2} /\ fullFd \in {0, 1}

\* What the destination file holds: while the differential download can still succeed, what
\* was written of what was piped, and in a full download with a number of its own, what was
\* written of the new file.
DestinationGrows ==
    /\ promise = "pending" =>
           /\ fileOut = "open" => open[newFd] = "dest"
           /\ Len(dest) = written /\ \A n \in 1..written : dest[n] = piped[n]
    /\ caller = "fullBody" => fullFd \in Descriptors
    /\ caller = "fullBody" /\ fullFd # newFd =>
           /\ open[fullFd] = "dest"
           /\ Len(dest) = fullWritten /\ \A n \in 1..fullWritten : dest[n] = n
    /\ promise = "resolved" => dest = NewFile
    /\ caller = "verify" => dest = NewFile \/ (fullFd = newFd /\ fullFd # 0)

DifferentialInv ==
    /\ DifferentialTypeInv
    /\ appOpens = 0 => Numbers
    /\ DestinationGrows
    /\ DestinationIsNewFile

\* What the plan and the setting say, for every download.
LEMMA DifferentialInputs ==
  ASSUME setting \in Settings, tasks \in Plans
  PROVE  /\ setting.appOpens \in Nat /\ tasks \in Seq({"copy", "download"})
         /\ Len(tasks) \in Nat /\ DOMAIN tasks = 1..Len(tasks)
         /\ NewFile \in Seq(Nat) /\ Len(NewFile) \in Nat
         /\ Len(NewFile) = IF setting.metadata THEN Len(tasks) + 1 ELSE Len(tasks)
         /\ \A b \in 1..Len(NewFile) : NewFile[b] = b
<1>1. /\ setting.appOpens \in Nat /\ tasks \in Seq({"copy", "download"})
      /\ Len(tasks) \in Nat /\ DOMAIN tasks = 1..Len(tasks)
  BY DifferentialAssumption DEF DifferentialAssumption
<1> DEFINE size == Len(tasks) + IF setting.metadata THEN 1 ELSE 0
<1>2. size \in Nat /\ size = IF setting.metadata THEN Len(tasks) + 1 ELSE Len(tasks)
  BY <1>1
<1>3. NewFile = [b \in 1..size |-> b]
  BY DEF NewFile
<1> HIDE DEF size
<1>4. NewFile \in [1..size -> Nat]
  BY <1>2, <1>3
<1>5. NewFile \in Seq(Nat) /\ Len(NewFile) = size
  BY <1>2, <1>4
<1> QED
  BY <1>1, <1>2, <1>3, <1>5

\* A step that leaves the inputs alone leaves what is derived from them alone.
LEMMA InputsStay ==
  ASSUME UNCHANGED inputVars
  PROVE  /\ setting' = setting /\ tasks' = tasks /\ oldMatches' = oldMatches
         /\ Descriptors' = Descriptors /\ NewFile' = NewFile
BY DEF inputVars, Descriptors, NewFile

\* Two sequences of the same blocks are the same.
LEMMA SameBlocks ==
  ASSUME NEW s \in Seq(Nat), NEW t \in Seq(Nat), Len(s) = Len(t),
         \A n \in 1..Len(s) : s[n] = t[n]
  PROVE  s = t
OBVIOUS

\* What the executor pipes comes after what it piped before.
PipedGrows ==
    /\ piped' \in Seq(Nat) /\ Len(piped') \in Nat /\ Len(piped) <= Len(piped')
    /\ \A n \in 1..Len(piped) : piped'[n] = piped[n]

LEMMA PipeGrows ==
  ASSUME piped \in Seq(Nat), NEW blocks \in Seq(Nat), Pipe(blocks)
  PROVE  PipedGrows
<1>1. Len(piped) \in Nat /\ Len(blocks) \in Nat
  OBVIOUS
<1>2. /\ piped' \in Seq(Nat) /\ Len(piped') = Len(piped) + Len(blocks)
      /\ \A n \in 1..(Len(piped) + Len(blocks)) :
             piped'[n] = IF n <= Len(piped) THEN piped[n] ELSE blocks[n - Len(piped)]
  BY ConcatProperties DEF Pipe
<1> QED
  BY <1>1, <1>2 DEF PipedGrows

LEMMA PipeTasksGrows ==
  ASSUME DifferentialTypes, NEW ts, IsFiniteSet(ts), PipeTasks(ts)
  PROVE  PipedGrows /\ index' \in Nat \ {0}
<1> DEFINE size == Cardinality(ts)
           blocks == [n \in 1..size |-> Block(index + n - 1)]
<1>1. size \in Nat
  BY FS_CardinalityType
<1>2. index \in Nat \ {0} /\ piped \in Seq(Nat)
  BY DEF DifferentialTypes
<1>3. Pipe(blocks) /\ index' = index + size
  BY DEF PipeTasks
<1> HIDE DEF size
<1>4. \A n \in 1..size : Block(index + n - 1) \in Nat
  BY <1>1, <1>2 DEF Block, Bad
<1>5. blocks \in Seq(Nat)
  BY <1>1, <1>4
<1> HIDE DEF blocks
<1> QED
  BY <1>1, <1>2, <1>3, <1>5, PipeGrows

LEMMA AskedIsFinite ==
  ASSUME DifferentialTypes
  PROVE  IsFiniteSet(Asked)
<1>1. Len(tasks) \in Nat /\ DOMAIN tasks = 1..Len(tasks)
  BY DifferentialInputs DEF DifferentialTypes
<1>2. IsFiniteSet(1..Len(tasks))
  BY <1>1, FS_Interval
<1>3. IsFiniteSet(Batch)
  BY <1>1, <1>2, FS_Subset DEF Batch
<1> QED
  BY <1>3, FS_Singleton DEF Asked

\* The executor pipes more or nothing, and at most rejects a promise that is pending.
LEMMA ExecutorEffect ==
  ASSUME DifferentialTypeInv, ExecutorStep
  PROVE  /\ PipedGrows /\ index' \in Nat \ {0}
         /\ at # "none" /\ at # "ended"
         /\ promise' = promise \/ (promise = "pending" /\ promise' = "rejected")
<1>1. piped \in Seq(Nat) /\ index \in Nat \ {0} /\ DifferentialTypes
  BY DEF DifferentialTypeInv, DifferentialTypes
<1>2. piped' = piped => PipedGrows
  BY <1>1 DEF PipedGrows
<1>3. Pipe(<<Bad>>) => PipedGrows
  <2>1. <<Bad>> \in Seq(Nat)
    BY DEF Bad
  <2> QED BY <1>1, <2>1, PipeGrows
<1>4. IsFiniteSet({index}) /\ IsFiniteSet(Asked)
  BY <1>1, AskedIsFinite, FS_Singleton
<1>5. Reject => promise' = promise \/ (promise = "pending" /\ promise' = "rejected")
  BY DEF Reject
<1>6. CASE StartTask
  <2>1. index' = index /\ promise' = promise /\ at = "next"
    BY <1>6 DEF StartTask
  <2>2. CASE piped' = piped
    BY <2>1, <2>2, <1>1, <1>2
  <2>3. CASE Pipe(<<>>)
    <3>1. <<>> \in Seq(Nat)
      OBVIOUS
    <3> QED BY <2>1, <2>3, <3>1, <1>1, PipeGrows
  <2>4. CASE Pipe(<<Len(tasks) + 1>>)
    <3>1. <<Len(tasks) + 1>> \in Seq(Nat)
      BY <1>1, DifferentialInputs DEF DifferentialTypes
    <3> QED BY <2>1, <2>4, <3>1, <1>1, PipeGrows
  <2> QED BY <1>6, <2>2, <2>3, <2>4 DEF StartTask
<1>7. CASE CopyData
  <2>1. CASE PipeTasks({index}) /\ UNCHANGED promise
    BY <1>7, <2>1, <1>1, <1>4, PipeTasksGrows DEF CopyData
  <2>2. CASE Reject /\ UNCHANGED <<index, piped>>
    BY <1>7, <2>2, <1>1, <1>2, <1>5 DEF CopyData
  <2> QED BY <1>7, <2>1, <2>2 DEF CopyData
<1>8. CASE Respond
  BY <1>8, <1>1, <1>2, <1>5 DEF Respond
<1>9. CASE EndResponse
  <2>1. CASE PipeTasks(Asked) /\ UNCHANGED promise
    BY <1>9, <2>1, <1>1, <1>4, PipeTasksGrows DEF EndResponse
  <2>2. CASE Pipe(<<Bad>>) /\ index' = index + Cardinality(Asked) /\ UNCHANGED promise
    <3>1. Cardinality(Asked) \in Nat
      BY <1>4, FS_CardinalityType
    <3> QED BY <1>9, <2>2, <3>1, <1>1, <1>3 DEF EndResponse
  <2>3. CASE (Reject \/ UNCHANGED promise) /\ (UNCHANGED piped \/ Pipe(<<Bad>>)) /\ UNCHANGED index
    BY <1>9, <2>3, <1>1, <1>2, <1>3, <1>5 DEF EndResponse
  <2> QED BY <1>9, <2>1, <2>2, <2>3 DEF EndResponse
<1>10. CASE RequestFails
  BY <1>10, <1>1, <1>2, <1>3, <1>5 DEF RequestFails, FailsTheDownload
<1> QED
  BY <1>6, <1>7, <1>8, <1>9, <1>10 DEF ExecutorStep

\* A number of an open file is no number the application has, unless it is its own.
LEMMA OpenByAppStays ==
  ASSUME DifferentialTypeInv, UNCHANGED <<inputVars, appOpens>>,
         \/ UNCHANGED open
         \/ \E n, what : OpenAt(n, what) /\ what # "app"
  PROVE  OpenByAppCounted'
<1>1. Descriptors' = Descriptors /\ appOpens' = appOpens
  BY InputsStay
<1>2. open \in [Descriptors -> {"free", "old", "dest", "app"}]
  BY DEF DifferentialTypeInv, DifferentialTypes
<1>3. OpenByApp' \in SUBSET OpenByApp
  BY <1>1, <1>2 DEF OpenByApp, OpenAt
<1>4. IsFiniteSet(OpenByApp) /\ Cardinality(OpenByApp) <= appOpens
  BY DEF DifferentialTypeInv, OpenByAppCounted
<1>5. appOpens \in Nat
  BY DifferentialInputs DEF DifferentialTypeInv, DifferentialTypes
<1>6. IsFiniteSet(OpenByApp') /\ Cardinality(OpenByApp') <= Cardinality(OpenByApp)
  BY <1>3, <1>4, FS_Subset
<1>7. Cardinality(OpenByApp) \in Nat /\ Cardinality(OpenByApp') \in Nat
  BY <1>4, <1>6, FS_CardinalityType
<1> QED
  BY <1>1, <1>4, <1>5, <1>6, <1>7 DEF OpenByAppCounted

\* There is always a free number: besides the old file and the destination, open twice at
\* most, only the application has files open, and no more than counted.
LEMMA NumberIsFree ==
  ASSUME DifferentialTypeInv
  PROVE  Lowest \in Descriptors /\ open[Lowest] = "free"
<1> DEFINE size == 4 + setting.appOpens
           Free == {n \in Descriptors : open[n] = "free"}
           S1 == OpenByApp \union {oldFd}
           S2 == S1 \union {newFd}
           S3 == S2 \union {fullFd}
<1>1. size \in Nat /\ setting.appOpens \in Nat /\ Descriptors = 1..size
  BY DifferentialInputs DEF DifferentialTypeInv, DifferentialTypes, Descriptors
<1>2. /\ open \in [Descriptors -> {"free", "old", "dest", "app"}] /\ appOpens \in 0..setting.appOpens
      /\ IsFiniteSet(OpenByApp) /\ Cardinality(OpenByApp) \in Nat
      /\ Cardinality(OpenByApp) <= appOpens
  BY FS_CardinalityType DEF DifferentialTypeInv, DifferentialTypes, OpenByAppCounted
<1> HIDE DEF size
<1>3. Free # {}
  <2> SUFFICES ASSUME Free = {} PROVE FALSE
    OBVIOUS
  <2>1. \A n \in Descriptors : open[n] = "app" \/ n \in {oldFd, newFd, fullFd}
    BY <1>2 DEF DifferentialTypeInv, OpenFor
  <2>2. Descriptors \in SUBSET S3
    BY <2>1 DEF OpenByApp
  <2>3. \A S, e : IsFiniteSet(S) =>
            /\ IsFiniteSet(S \union {e}) /\ Cardinality(S) \in Nat
            /\ Cardinality(S \union {e}) \in Nat
            /\ Cardinality(S \union {e}) <= Cardinality(S) + 1
    <3> SUFFICES ASSUME NEW S, NEW e, IsFiniteSet(S)
                 PROVE  /\ IsFiniteSet(S \union {e}) /\ Cardinality(S) \in Nat
                        /\ Cardinality(S \union {e}) \in Nat
                        /\ Cardinality(S \union {e}) <= Cardinality(S) + 1
      OBVIOUS
    <3>1. /\ IsFiniteSet(S \union {e}) /\ Cardinality(S) \in Nat
          /\ Cardinality(S \union {e}) = IF e \in S THEN Cardinality(S) ELSE Cardinality(S) + 1
      BY FS_AddElement, FS_CardinalityType
    <3> QED BY <3>1
  <2>4. IsFiniteSet(S1) /\ Cardinality(S1) \in Nat /\ Cardinality(S1) <= Cardinality(OpenByApp) + 1
    BY <1>2, <2>3
  <2>5. IsFiniteSet(S2) /\ Cardinality(S2) \in Nat /\ Cardinality(S2) <= Cardinality(S1) + 1
    BY <2>3, <2>4
  <2>6. IsFiniteSet(S3) /\ Cardinality(S3) \in Nat /\ Cardinality(S3) <= Cardinality(S2) + 1
    BY <2>3, <2>5
  <2>7. Cardinality(Descriptors) <= Cardinality(S3)
    BY <2>2, <2>6, FS_Subset
  <2>8. Cardinality(Descriptors) = size
    BY <1>1, FS_Interval
  <2> QED
    BY <1>1, <1>2, <2>4, <2>5, <2>6, <2>7, <2>8 DEF size
<1>4. Min(Free) \in Free
  BY <1>1, <1>3, LeastIsThere
<1> QED
  BY <1>4 DEF Lowest

LEMMA DifferentialInitInv ==
  ASSUME DifferentialInit
  PROVE  DifferentialInv
<1>1. DifferentialTypes
  <2>1. /\ setting \in Settings /\ tasks \in Plans /\ oldMatches \in BOOLEAN
        /\ piped = <<>> /\ written = 0 /\ fullWritten = 0 /\ dest = <<>> /\ appOpens = 0
        /\ index = 1 /\ promise = "none" /\ fileOut = "none" /\ caller = "blockMaps"
        /\ open \in [Descriptors -> {"free", "old", "dest", "app"}]
    BY DEF DifferentialInit
  <2>2. Len(NewFile) \in Nat /\ setting.appOpens \in Nat
    BY <2>1, DifferentialInputs
  <2> QED BY <2>1, <2>2 DEF DifferentialTypes
<1>2. OpenByApp = {}
  BY DEF DifferentialInit, OpenByApp
<1>3. OpenByAppCounted
  BY <1>2, FS_EmptySet DEF OpenByAppCounted, DifferentialInit
<1> QED
  BY <1>1, <1>3 DEF DifferentialInit, DifferentialInv, DifferentialTypeInv, DifferentialPhases,
     OpenFor, StreamHasDescriptor, Numbers, DestinationGrows, DestinationIsNewFile

\* The types, the phases and the open files, step by step.
LEMMA ExecutorTypes ==
  ASSUME DifferentialTypeInv, ExecutorStep
  PROVE  DifferentialTypeInv'
<1>1. /\ UNCHANGED <<inputVars, outVars, fdVars, caller, fullVars, open, dest, appOpens>>
      /\ PipedGrows /\ index' \in Nat \ {0} /\ at # "none" /\ at # "ended"
      /\ promise' = promise \/ (promise = "pending" /\ promise' = "rejected")
  BY ExecutorEffect DEF ExecutorStep
<1>2. Descriptors' = Descriptors /\ NewFile' = NewFile
  BY <1>1, InputsStay
<1>3. OpenByAppCounted'
  BY <1>1, OpenByAppStays
<1>4. DifferentialTypes'
  BY <1>1, <1>2 DEF DifferentialTypeInv, DifferentialTypes, PipedGrows, inputVars, outVars, fullVars
<1>5. DifferentialPhases'
  BY <1>1 DEF DifferentialTypeInv, DifferentialPhases, outVars, fullVars
<1>6. OpenFor' /\ StreamHasDescriptor'
  BY <1>1, <1>2 DEF DifferentialTypeInv, OpenFor, StreamHasDescriptor, outVars, fullVars, fdVars
<1> QED
  BY <1>3, <1>4, <1>5, <1>6 DEF DifferentialTypeInv

LEMMA StartTypes ==
  ASSUME DifferentialTypeInv, Start
  PROVE  DifferentialTypeInv'
<1>1. /\ UNCHANGED <<inputVars, index, piped, written, fullVars, appOpens>>
      /\ caller \in {"blockMaps", "openOld", "openNew"}
  BY DEF Start, GetBlockMaps, OpenOld, OpenNew, executorVars, outVars
<1>2. Descriptors' = Descriptors /\ NewFile' = NewFile
  BY <1>1, InputsStay
<1>3. UNCHANGED open \/ OpenAt(Lowest, "old") \/ OpenAt(Lowest, "dest")
  BY DEF Start, GetBlockMaps, OpenOld, OpenNew
<1>4. OpenByAppCounted'
  BY <1>1, <1>3, OpenByAppStays
<1>5. DifferentialTypes'
  <2>1. /\ promise' \in {"none", "pending", "rejected"} /\ fileOut' \in {"none", "open"}
        /\ caller' \in {"openOld", "openNew", "full", "wait", "close"}
        /\ dest' = dest \/ dest' = <<>>
    BY DEF Start, GetBlockMaps, OpenOld, OpenNew, executorVars, outVars, DifferentialTypeInv,
       DifferentialPhases
  <2>2. open' \in [Descriptors -> {"free", "old", "dest", "app"}]
    BY <1>3 DEF DifferentialTypeInv, DifferentialTypes, OpenAt
  <2>3. dest' \in Seq(Nat)
    <3>1. <<>> \in Seq(Nat)
      OBVIOUS
    <3> QED BY <2>1, <3>1 DEF DifferentialTypeInv, DifferentialTypes
  <2> QED
    BY <1>1, <1>2, <2>1, <2>2, <2>3 DEF DifferentialTypeInv, DifferentialTypes, inputVars, fullVars
<1>6. DifferentialPhases'
  BY <1>1 DEF Start, GetBlockMaps, OpenOld, OpenNew, DifferentialTypeInv, DifferentialPhases,
     executorVars, outVars, fullVars
<1>7. OpenFor'
  <2>1. CASE GetBlockMaps
    BY <1>2, <2>1 DEF GetBlockMaps, DifferentialTypeInv, OpenFor, fdVars, fullVars
  <2>2. CASE OpenOld
    BY <1>2, <2>2 DEF OpenOld, DifferentialTypeInv, DifferentialTypes, OpenFor, OpenAt, fullVars
  <2>3. CASE OpenNew
    BY <1>2, <2>3 DEF OpenNew, DifferentialTypeInv, DifferentialTypes, OpenFor, OpenAt, fullVars
  <2> QED BY <2>1, <2>2, <2>3 DEF Start
<1>8. StreamHasDescriptor'
  BY <1>1, <1>2, NumberIsFree DEF Start, GetBlockMaps, OpenOld, OpenNew, outVars,
     DifferentialTypeInv, DifferentialPhases, StreamHasDescriptor
<1> QED
  BY <1>4, <1>5, <1>6, <1>7, <1>8 DEF DifferentialTypeInv

LEMMA FileOutTypes ==
  ASSUME DifferentialTypeInv, FileOutStep
  PROVE  DifferentialTypeInv'
<1>1. UNCHANGED <<inputVars, at, index, piped, oldFd, newFd, caller, fullVars, appOpens>>
  BY DEF FileOutStep, WriteOut, FinishOut, CloseOut
<1>2. Descriptors' = Descriptors /\ NewFile' = NewFile
  BY <1>1, InputsStay
<1>3. UNCHANGED open \/ OpenAt(newFd, "free")
  BY DEF FileOutStep, WriteOut, FinishOut, CloseOut
<1>4. OpenByAppCounted'
  BY <1>1, <1>3, OpenByAppStays
<1>5. /\ piped \in Seq(Nat) /\ Len(piped) \in Nat /\ written \in 0..Len(piped) /\ dest \in Seq(Nat)
  BY DEF DifferentialTypeInv, DifferentialTypes
<1>6. DifferentialTypes'
  <2>1. open' \in [Descriptors -> {"free", "old", "dest", "app"}]
    BY <1>3 DEF DifferentialTypeInv, DifferentialTypes, OpenAt
  <2>2. promise' \in {"none", "pending", "resolved", "rejected"}
    BY DEF FileOutStep, WriteOut, FinishOut, CloseOut, Reject, DifferentialTypeInv, DifferentialTypes
  <2>3. fileOut' \in {"none", "open", "finishing", "destroyed", "closed"}
    BY DEF FileOutStep, WriteOut, FinishOut, CloseOut, DifferentialTypeInv, DifferentialTypes
  <2>4. written' \in 0..Len(piped) /\ dest' \in Seq(Nat)
    <3>1. UNCHANGED <<written, dest>> \/ (written < Len(piped) /\ written' = written + 1)
      BY DEF FileOutStep, WriteOut, FinishOut, CloseOut
    <3>2. UNCHANGED dest \/ (written < Len(piped) /\ dest' = Append(dest, piped[written + 1]))
      BY DEF FileOutStep, WriteOut, FinishOut, CloseOut
    <3>3. written < Len(piped) => piped[written + 1] \in Nat
      BY <1>5
    <3>4. written' \in 0..Len(piped)
      BY <1>5, <3>1
    <3>5. written < Len(piped) => Append(dest, piped[written + 1]) \in Seq(Nat)
      BY <1>5, <3>3, AppendProperties
    <3> QED BY <1>5, <3>2, <3>4, <3>5
  <2> QED
    BY <1>1, <1>2, <2>1, <2>2, <2>3, <2>4 DEF DifferentialTypeInv, DifferentialTypes, inputVars,
       fullVars
<1>7. DifferentialPhases'
  BY <1>1 DEF FileOutStep, WriteOut, FinishOut, CloseOut, Reject, DifferentialTypeInv,
     DifferentialPhases, DifferentialTypes, fullVars
<1>8. OpenFor'
  <2>1. CASE UNCHANGED <<open, fdList>>
    BY <1>1, <1>2, <2>1 DEF DifferentialTypeInv, OpenFor, fullVars
  <2>2. CASE OpenAt(newFd, "free") /\ fdList \ {newFd} \subseteq fdList'
    BY <1>1, <1>2, <2>2 DEF DifferentialTypeInv, DifferentialTypes, OpenFor, OpenAt, fullVars
  <2> QED BY <2>1, <2>2 DEF FileOutStep, WriteOut, FinishOut, CloseOut
<1>9. StreamHasDescriptor'
  BY <1>1, <1>2 DEF FileOutStep, WriteOut, FinishOut, CloseOut, DifferentialTypeInv,
     StreamHasDescriptor
<1> QED
  BY <1>4, <1>6, <1>7, <1>8, <1>9 DEF DifferentialTypeInv

LEMMA CallerTypes ==
  ASSUME DifferentialTypeInv, CallerStep
  PROVE  DifferentialTypeInv'
<1>1. UNCHANGED <<inputVars, executorVars, outVars, oldFd, newFd, appOpens>>
  BY DEF CallerStep, Settled, CloseFile, FilesClosed, FullResponds, FullWrites, FullEnds, Verify,
     fdVars
<1>2. Descriptors' = Descriptors /\ NewFile' = NewFile
  BY <1>1, InputsStay
<1>3. \/ UNCHANGED open
      \/ \E n : OpenAt(n, "free") \/ OpenAt(n, "dest")
  BY DEF CallerStep, Settled, CloseFile, FilesClosed, FullResponds, FullWrites, FullEnds, Verify
<1>4. OpenByAppCounted'
  <2>1. UNCHANGED open \/ \E n, what : OpenAt(n, what) /\ what # "app"
    BY <1>3
  <2> QED BY <1>1, <2>1, OpenByAppStays
<1>5. /\ Len(NewFile) \in Nat /\ fullWritten \in 0..Len(NewFile) /\ dest \in Seq(Nat)
      /\ \A b \in 1..Len(NewFile) : NewFile[b] = b
  BY DifferentialInputs DEF DifferentialTypeInv, DifferentialTypes
<1>6. DifferentialTypes'
  <2>1. open' \in [Descriptors -> {"free", "old", "dest", "app"}]
    BY <1>3 DEF DifferentialTypeInv, DifferentialTypes, OpenAt
  <2>2. caller' \in {"wait", "close", "full", "fullBody", "verify", "done", "failed"}
    BY DEF CallerStep, Settled, CloseFile, FilesClosed, FullResponds, FullWrites, FullEnds, Verify
  <2>3. fullWritten' \in 0..Len(NewFile) /\ dest' \in Seq(Nat)
    <3>1. CASE UNCHANGED <<fullWritten, dest>>
      BY <1>5, <3>1
    <3>2. CASE FullResponds
      <4>1. <<>> \in Seq(Nat)
        OBVIOUS
      <4> QED BY <1>5, <3>2, <4>1 DEF FullResponds
    <3>3. CASE FullWrites
      <4>1. fullWritten < Len(NewFile) => NewFile[fullWritten + 1] \in Nat
        BY <1>5
      <4>2. fullWritten < Len(NewFile) => Append(dest, NewFile[fullWritten + 1]) \in Seq(Nat)
        BY <1>5, <4>1, AppendProperties
      <4>3. /\ fullWritten < Len(NewFile)
            /\ fullWritten' = fullWritten \/ fullWritten' = fullWritten + 1
            /\ dest' = dest \/ dest' = Append(dest, NewFile[fullWritten + 1])
        BY <3>3 DEF FullWrites
      <4>4. fullWritten' \in 0..Len(NewFile)
        BY <1>5, <4>3
      <4> QED BY <1>5, <4>2, <4>3, <4>4
    <3> QED
      BY <3>1, <3>2, <3>3 DEF CallerStep, Settled, CloseFile, FilesClosed, FullEnds, Verify, fullVars
  <2> QED
    BY <1>1, <1>2, <2>1, <2>2, <2>3 DEF DifferentialTypeInv, DifferentialTypes, inputVars,
       executorVars, outVars
<1>7. DifferentialPhases'
  BY <1>1 DEF CallerStep, Settled, CloseFile, FilesClosed, FullResponds, FullWrites, FullEnds,
     Verify, DifferentialTypeInv, DifferentialPhases, DifferentialTypes, executorVars, outVars,
     fullVars
<1>8. OpenFor'
  <2>1. CASE Settled \/ FilesClosed \/ FullWrites \/ Verify
    BY <1>1, <1>2, <2>1 DEF Settled, FilesClosed, FullWrites, Verify, DifferentialTypeInv, OpenFor,
       fdVars, fullVars
  <2>2. ASSUME NEW n \in Descriptors, CloseFile(n) PROVE OpenFor'
    BY <1>1, <1>2, <2>2 DEF CloseFile, DifferentialTypeInv, DifferentialTypes, OpenFor, OpenAt,
       fullVars
  <2>3. CASE FullResponds
    BY <1>1, <1>2, <2>3 DEF FullResponds, DifferentialTypeInv, DifferentialTypes, OpenFor, OpenAt,
       fdVars
  <2>4. CASE FullEnds
    BY <1>1, <1>2, <2>4 DEF FullEnds, DifferentialTypeInv, DifferentialTypes, OpenFor, OpenAt,
       fdVars, fullVars
  <2> QED BY <2>1, <2>2, <2>3, <2>4 DEF CallerStep
<1>9. StreamHasDescriptor'
  BY <1>1, <1>2 DEF DifferentialTypeInv, StreamHasDescriptor, outVars
<1> QED
  BY <1>4, <1>6, <1>7, <1>8, <1>9 DEF DifferentialTypeInv

LEMMA AppFileTypes ==
  ASSUME DifferentialTypeInv, AppFile
  PROVE  DifferentialTypeInv'
<1>1. UNCHANGED <<inputVars, executorVars, outVars, fdVars, caller, fullVars, dest>>
  BY DEF AppFile
<1>2. Descriptors' = Descriptors /\ NewFile' = NewFile /\ setting' = setting
  BY <1>1, InputsStay
<1>3. \/ appOpens < setting.appOpens /\ OpenAt(Lowest, "app") /\ appOpens' = appOpens + 1
      \/ (\E n \in Descriptors : OpenAt(n, "free")) /\ appOpens' = appOpens
  BY DEF AppFile
<1>4. /\ open \in [Descriptors -> {"free", "old", "dest", "app"}]
      /\ setting.appOpens \in Nat /\ appOpens \in 0..setting.appOpens
      /\ IsFiniteSet(OpenByApp) /\ Cardinality(OpenByApp) <= appOpens
  BY DifferentialInputs DEF DifferentialTypeInv, DifferentialTypes, OpenByAppCounted
<1>5. OpenByAppCounted'
  <2>1. CASE appOpens' = appOpens /\ \E n \in Descriptors : OpenAt(n, "free")
    BY <1>1, <2>1, OpenByAppStays
  <2>2. CASE OpenAt(Lowest, "app") /\ appOpens' = appOpens + 1
    <3>1. OpenByApp' \in SUBSET (OpenByApp \union {Lowest})
      BY <1>2, <1>4, <2>2 DEF OpenByApp, OpenAt
    <3>2. /\ IsFiniteSet(OpenByApp \union {Lowest})
          /\ Cardinality(OpenByApp \union {Lowest}) <= Cardinality(OpenByApp) + 1
      BY <1>4, FS_AddElement, FS_CardinalityType
    <3>3. /\ IsFiniteSet(OpenByApp')
          /\ Cardinality(OpenByApp') <= Cardinality(OpenByApp \union {Lowest})
      BY <3>1, <3>2, FS_Subset
    <3>4. /\ Cardinality(OpenByApp) \in Nat /\ Cardinality(OpenByApp') \in Nat
          /\ Cardinality(OpenByApp \union {Lowest}) \in Nat
      BY <1>4, <3>2, <3>3, FS_CardinalityType
    <3> QED BY <1>4, <2>2, <3>2, <3>3, <3>4 DEF OpenByAppCounted
  <2> QED BY <1>3, <2>1, <2>2
<1>6. DifferentialTypes'
  <2>1. open' \in [Descriptors -> {"free", "old", "dest", "app"}] /\ appOpens' \in 0..setting.appOpens
    BY <1>3, <1>4 DEF OpenAt
  <2> QED
    BY <1>1, <1>2, <2>1 DEF DifferentialTypeInv, DifferentialTypes, inputVars, executorVars, outVars,
       fullVars
<1>7. DifferentialPhases'
  BY <1>1 DEF DifferentialTypeInv, DifferentialPhases, executorVars, outVars, fullVars
<1>8. OpenFor'
  <2>1. \A n \in Descriptors : open'[n] \in {"old", "dest"} => open'[n] = open[n]
    BY <1>3, <1>4 DEF OpenAt
  <2> QED BY <1>1, <1>2, <2>1 DEF DifferentialTypeInv, OpenFor, fdVars, fullVars
<1>9. StreamHasDescriptor'
  BY <1>1, <1>2 DEF DifferentialTypeInv, StreamHasDescriptor, outVars, fdVars
<1> QED
  BY <1>5, <1>6, <1>7, <1>8, <1>9 DEF DifferentialTypeInv

LEMMA DifferentialTypesStay ==
  ASSUME DifferentialTypeInv, [DifferentialNext]_differentialVars
  PROVE  DifferentialTypeInv'
<1>1. CASE UNCHANGED differentialVars
  BY <1>1 DEF differentialVars, inputVars, executorVars, outVars, fdVars, fullVars,
     DifferentialTypeInv, DifferentialTypes, DifferentialPhases, OpenFor, OpenByAppCounted,
     OpenByApp, StreamHasDescriptor, Descriptors, NewFile
<1> QED
  BY <1>1, ExecutorTypes, StartTypes, FileOutTypes, CallerTypes, AppFileTypes DEF DifferentialNext

\* Nothing writes to the destination any more when the caller has ended.
LEMMA DoneStays ==
  ASSUME DifferentialTypeInv, caller = "done", [DifferentialNext]_differentialVars
  PROVE  caller' = "done" /\ UNCHANGED <<dest, setting, NewFile, fullFd, newFd>>
<1>1. CASE FileOutStep
  <2>1. ~(fileOut = "open" /\ open[newFd] = "dest")
    BY DEF DifferentialTypeInv, StreamHasDescriptor, OpenFor
  <2>2. dest' = dest /\ caller' = caller /\ UNCHANGED <<inputVars, fullFd, newFd>>
    BY <1>1, <2>1 DEF FileOutStep, WriteOut, FinishOut, CloseOut, fullVars
  <2> QED BY <2>2, InputsStay
<1>2. CASE Start
  BY <1>2 DEF Start, GetBlockMaps, OpenOld, OpenNew
<1>3. CASE CallerStep
  BY <1>3 DEF CallerStep, Settled, CloseFile, FilesClosed, FullResponds, FullWrites, FullEnds,
     Verify, fullVars, fdVars
<1>4. CASE ExecutorStep \/ AppFile
  <2>1. dest' = dest /\ caller' = caller /\ UNCHANGED <<inputVars, fullFd, newFd>>
    BY <1>4 DEF ExecutorStep, AppFile, fullVars, fdVars
  <2> QED BY <2>1, InputsStay
<1>5. CASE UNCHANGED differentialVars
  <2>1. dest' = dest /\ caller' = caller /\ UNCHANGED <<inputVars, fullFd, newFd>>
    BY <1>5 DEF differentialVars, fullVars, fdVars
  <2> QED BY <2>1, InputsStay
<1> QED
  BY <1>1, <1>2, <1>3, <1>4, <1>5 DEF DifferentialNext

\* As long as the application has opened no file, the lowest number is free in turn.
LEMMA NumbersAlone ==
  ASSUME DifferentialTypeInv, appOpens = 0
  PROVE  /\ 1 \in Descriptors /\ 2 \in Descriptors
         /\ \A n \in Descriptors : open[n] # "app"
         /\ caller \in {"openOld", "full"} => Lowest = 1
         /\ caller = "openNew" /\ oldFd = 1 /\ open[1] = "old" => Lowest = 2
<1> DEFINE size == 4 + setting.appOpens
           Free == {n \in Descriptors : open[n] = "free"}
<1>1. Descriptors = 1..size /\ size \in Nat /\ 4 <= size
  BY DifferentialInputs DEF Descriptors, DifferentialTypeInv, DifferentialTypes
<1>2. open \in [Descriptors -> {"free", "old", "dest", "app"}]
  BY DEF DifferentialTypeInv, DifferentialTypes
<1> HIDE DEF size
<1>3. \A n \in Descriptors : open[n] # "app"
  <2>1. IsFiniteSet(OpenByApp) /\ Cardinality(OpenByApp) <= 0
    BY DEF DifferentialTypeInv, OpenByAppCounted
  <2>2. Cardinality(OpenByApp) \in Nat
    BY <2>1, FS_CardinalityType
  <2>3. OpenByApp = {}
    <3>1. Cardinality(OpenByApp) = 0
      BY <2>1, <2>2
    <3> QED BY <2>1, <3>1, FS_EmptySet
  <2> QED BY <2>3 DEF OpenByApp
<1>4. ASSUME Free # {} PROVE Min(Free) \in Free /\ \A n \in Free : Min(Free) <= n
  BY <1>1, <1>4, LeastIsThere
<1>5. ASSUME caller \in {"openOld", "full"} PROVE Lowest = 1
  <2>1. \A n \in Descriptors : open[n] = "free"
    BY <1>2, <1>3, <1>5 DEF DifferentialTypeInv, OpenFor
  <2>2. Free = 1..size
    BY <1>1, <2>1
  <2>3. Min(Free) \in 1..size /\ Min(Free) <= 1
    BY <1>1, <1>4, <2>2
  <2> QED BY <1>1, <2>3 DEF Lowest
<1>6. ASSUME caller = "openNew", oldFd = 1, open[1] = "old" PROVE Lowest = 2
  <2>1. \A n \in Descriptors : n # 1 => open[n] = "free"
    BY <1>2, <1>3, <1>6 DEF DifferentialTypeInv, OpenFor
  <2>2. Free = 2..size
    BY <1>1, <1>6, <2>1
  <2>3. Min(Free) \in 2..size /\ Min(Free) <= 2
    BY <1>1, <1>4, <2>2
  <2> QED BY <1>1, <2>3 DEF Lowest
<1> QED
  BY <1>1, <1>3, <1>5, <1>6

\* The numbers, step by step.
LEMMA NumbersStay ==
  ASSUME DifferentialTypeInv, appOpens = 0 => Numbers, [DifferentialNext]_differentialVars,
         appOpens' = 0
  PROVE  Numbers'
<1>1. CASE AppFile
  <2>1. appOpens \in Nat
    BY DifferentialInputs DEF DifferentialTypeInv, DifferentialTypes
  <2>2. CASE appOpens = 0
    BY <1>1, <2>2, NumbersAlone DEF AppFile
  <2>3. CASE appOpens # 0
    BY <1>1, <2>1, <2>3 DEF AppFile
  <2> QED BY <2>2, <2>3
<1> SUFFICES ASSUME ~AppFile PROVE Numbers'
  BY <1>1
<1>2. appOpens = 0 /\ Numbers
  BY DEF DifferentialNext, Start, GetBlockMaps, OpenOld, OpenNew, ExecutorStep, FileOutStep,
     CallerStep, differentialVars
<1>3. /\ 1 \in Descriptors /\ 2 \in Descriptors
      /\ open \in [Descriptors -> {"free", "old", "dest", "app"}]
  BY <1>2, NumbersAlone DEF DifferentialTypeInv, DifferentialTypes
<1>4. CASE UNCHANGED differentialVars
  BY <1>2, <1>4 DEF differentialVars, fdVars, fullVars, Numbers
<1>5. CASE ExecutorStep
  BY <1>2, <1>5 DEF ExecutorStep, fdVars, fullVars, Numbers
<1>6. CASE Start
  <2>1. CASE GetBlockMaps
    BY <1>2, <2>1 DEF GetBlockMaps, Numbers, fdVars, fullVars
  <2>2. CASE OpenOld
    <3>1. Lowest = 1
      BY <1>2, <2>2, NumbersAlone DEF OpenOld
    <3> QED BY <1>2, <1>3, <2>2, <3>1 DEF OpenOld, OpenAt, Numbers, fullVars
  <2>3. CASE OpenNew
    <3>1. Lowest = 2
      BY <1>2, <2>3, NumbersAlone DEF OpenNew, Numbers
    <3> QED BY <1>2, <2>3, <3>1 DEF OpenNew, Numbers, fullVars
  <2> QED BY <1>6, <2>1, <2>2, <2>3 DEF Start
<1>7. CASE FileOutStep
  <2>1. UNCHANGED <<oldFd, newFd, caller, fullVars>> /\ fileOut # "none"
    BY <1>7 DEF FileOutStep, WriteOut, FinishOut, CloseOut
  <2>2. caller # "openNew"
    BY <2>1 DEF DifferentialTypeInv, DifferentialPhases
  <2> QED BY <1>2, <2>1, <2>2 DEF Numbers, fullVars
<1>8. CASE CallerStep
  <2>1. /\ newFd' = newFd /\ caller' # "openNew"
        /\ fullFd' = fullFd \/ (caller = "full" /\ fullFd' = Lowest)
    BY <1>8 DEF CallerStep, Settled, CloseFile, FilesClosed, FullResponds, FullWrites, FullEnds,
       Verify, fdVars, fullVars
  <2>2. caller = "full" => Lowest = 1
    BY <1>2, NumbersAlone
  <2> QED BY <1>2, <2>1, <2>2 DEF Numbers
<1> QED
  BY <1>4, <1>5, <1>6, <1>7, <1>8 DEF DifferentialNext

\* What the destination holds, step by step.
LEMMA ExecutorGrows ==
  ASSUME DifferentialTypeInv, DestinationGrows, ExecutorStep
  PROVE  DestinationGrows'
<1>1. /\ UNCHANGED <<inputVars, outVars, fdVars, caller, fullVars, open, dest, appOpens>>
      /\ PipedGrows
      /\ promise' = promise \/ (promise = "pending" /\ promise' = "rejected")
  BY ExecutorEffect DEF ExecutorStep
<1>2. NewFile' = NewFile /\ Descriptors' = Descriptors
  BY <1>1, InputsStay
<1>3. written \in Nat /\ written <= Len(piped) /\ Len(piped) \in Nat
  BY DEF DifferentialTypeInv, DifferentialTypes
<1>4. \A n \in 1..written : piped'[n] = piped[n]
  BY <1>1, <1>3 DEF PipedGrows
<1> QED
  BY <1>1, <1>2, <1>4 DEF DestinationGrows, outVars, fdVars, fullVars

LEMMA StartGrows ==
  ASSUME DifferentialTypeInv, DestinationGrows, Start
  PROVE  DestinationGrows'
<1>1. /\ UNCHANGED <<inputVars, piped, written, fullVars>>
      /\ caller' \notin {"fullBody", "verify"} /\ promise = "none" /\ written = 0
      /\ promise' # "resolved"
  BY DEF Start, GetBlockMaps, OpenOld, OpenNew, executorVars, outVars, DifferentialTypeInv,
     DifferentialPhases
<1>2. ASSUME promise' = "pending"
      PROVE  open'[newFd'] = "dest" /\ dest' = <<>>
  <2>1. OpenNew
    BY <1>1, <1>2 DEF Start, GetBlockMaps, OpenOld, executorVars
  <2>2. Lowest \in Descriptors
    BY <2>1, NumberIsFree DEF OpenNew
  <2>3. newFd' = Lowest /\ OpenAt(Lowest, "dest") /\ dest' = <<>>
    BY <1>2, <2>1 DEF OpenNew
  <2> QED BY <2>2, <2>3 DEF OpenAt, DifferentialTypeInv, DifferentialTypes
<1> QED
  BY <1>1, <1>2 DEF DestinationGrows

LEMMA FileOutGrows ==
  ASSUME DifferentialTypeInv, DestinationGrows, FileOutStep
  PROVE  DestinationGrows'
<1>1. /\ UNCHANGED <<inputVars, piped, oldFd, newFd, caller, fullVars>>
      /\ fileOut # "none" /\ newFd \in Descriptors
  BY DEF FileOutStep, WriteOut, FinishOut, CloseOut, DifferentialTypeInv, StreamHasDescriptor
<1>2. NewFile' = NewFile /\ Descriptors' = Descriptors
  BY <1>1, InputsStay
<1>3. open \in [Descriptors -> {"free", "old", "dest", "app"}]
  BY DEF DifferentialTypeInv, DifferentialTypes
<1>4. /\ piped \in Seq(Nat) /\ Len(piped) \in Nat /\ written \in 0..Len(piped) /\ dest \in Seq(Nat)
      /\ Len(dest) \in Nat /\ NewFile \in Seq(Nat)
  BY DifferentialInputs DEF DifferentialTypeInv, DifferentialTypes
<1>5. ASSUME open[newFd] = "dest"
      PROVE  caller \in {"wait", "close"} \/ (newFd = fullFd /\ caller \in {"fullBody", "failed"})
  BY <1>1, <1>5 DEF DifferentialTypeInv, OpenFor
<1>6. CASE WriteOut /\ UNCHANGED written
  <2>1. UNCHANGED <<open, dest>> /\ promise' # "pending" /\ (promise' = "resolved" => promise = "resolved")
    BY <1>1, <1>4, <1>6 DEF WriteOut, Reject
  <2> QED BY <1>1, <1>2, <1>6, <2>1 DEF DestinationGrows, fullVars
<1>7. CASE WriteOut /\ open[newFd] = "app" /\ dest' = dest /\ written' = written + 1
  <2>1. UNCHANGED <<open, dest, promise, fileOut>> /\ promise # "pending"
    BY <1>4, <1>7 DEF WriteOut, DestinationGrows
  <2> QED BY <1>1, <1>2, <2>1 DEF DestinationGrows, fullVars
<1>8. CASE /\ WriteOut /\ open[newFd] = "dest"
           /\ dest' = Append(dest, piped[written + 1]) /\ written' = written + 1
  <2>1. UNCHANGED <<open, promise, fileOut>> /\ fileOut = "open" /\ written < Len(piped)
    BY <1>4, <1>8 DEF WriteOut
  <2>2. promise # "resolved" /\ caller # "verify" /\ (caller = "fullBody" => fullFd = newFd)
    BY <1>5, <1>8, <2>1 DEF DifferentialTypeInv, DifferentialPhases
  <2>3. ASSUME promise = "pending"
        PROVE  Len(dest') = written + 1 /\ \A n \in 1..(written + 1) : dest'[n] = piped[n]
    <3>1. Len(dest) = written /\ \A n \in 1..written : dest[n] = piped[n]
      BY <2>3 DEF DestinationGrows
    <3>2. piped[written + 1] \in Nat
      BY <1>4, <2>1
    <3>3. /\ Len(dest') = written + 1 /\ dest'[written + 1] = piped[written + 1]
          /\ \A n \in 1..written : dest'[n] = dest[n]
      BY <1>4, <1>8, <3>1, <3>2, AppendProperties
    <3> QED BY <1>4, <3>1, <3>3
  <2> QED BY <1>1, <1>2, <1>8, <2>1, <2>2, <2>3 DEF DestinationGrows, fullVars
<1>9. CASE FinishOut
  BY <1>1, <1>2, <1>9 DEF FinishOut, DestinationGrows, fullVars
<1>10. CASE CloseOut
  <2>1. /\ fileOut' = "closed" /\ OpenAt(newFd, "free") /\ UNCHANGED <<written, dest>>
        /\ promise' = "pending" => promise = "pending"
    BY <1>10 DEF CloseOut
  <2>2. ASSUME promise' = "resolved" PROVE dest = NewFile
    <3>1. fileOut = "finishing" /\ promise = "pending" /\ Validates
      BY <1>10, <2>2 DEF CloseOut, DifferentialTypeInv, DifferentialPhases
    <3>2. written = Len(piped) /\ piped = NewFile
      BY <3>1 DEF Validates, DifferentialTypeInv, DifferentialPhases
    <3>3. Len(dest) = Len(piped) /\ \A n \in 1..Len(piped) : dest[n] = piped[n]
      BY <3>1, <3>2 DEF DestinationGrows
    <3>4. dest = piped
      BY <1>4, <3>3, SameBlocks
    <3> QED BY <3>2, <3>4
  <2>3. \A n \in Descriptors : n # newFd => open'[n] = open[n]
    BY <1>3, <2>1 DEF OpenAt
  <2> QED BY <1>1, <1>2, <2>1, <2>2, <2>3 DEF DestinationGrows, fullVars
<1> QED
  BY <1>6, <1>7, <1>8, <1>9, <1>10 DEF FileOutStep, WriteOut

LEMMA CallerGrows ==
  ASSUME DifferentialTypeInv, DestinationGrows, CallerStep
  PROVE  DestinationGrows'
<1>1. UNCHANGED <<inputVars, executorVars, outVars, oldFd, newFd>>
  BY DEF CallerStep, Settled, CloseFile, FilesClosed, FullResponds, FullWrites, FullEnds, Verify,
     fdVars
<1>2. NewFile' = NewFile /\ Descriptors' = Descriptors
  BY <1>1, InputsStay
<1>3. /\ open \in [Descriptors -> {"free", "old", "dest", "app"}] /\ Descriptors \subseteq Nat \ {0}
      /\ Len(NewFile) \in Nat /\ fullWritten \in 0..Len(NewFile) /\ dest \in Seq(Nat)
      /\ NewFile \in Seq(Nat) /\ \A b \in 1..Len(NewFile) : NewFile[b] = b
  BY DifferentialInputs DEF DifferentialTypeInv, DifferentialTypes, Descriptors
<1>4. promise = "pending" => caller = "wait"
  BY DEF DifferentialTypeInv, DifferentialPhases
<1>5. CASE Settled \/ (\E n \in Descriptors : CloseFile(n)) \/ FilesClosed \/ Verify
  <2>1. /\ caller' \notin {"fullBody"} /\ UNCHANGED <<dest, fullVars, newFd>>
        /\ caller' = "verify" => promise = "resolved" /\ promise' # "pending"
        /\ promise # "pending"
    BY <1>1, <1>4, <1>5 DEF Settled, CloseFile, FilesClosed, Verify, fdVars, executorVars
  <2> QED BY <1>1, <1>2, <2>1 DEF DestinationGrows, executorVars, fullVars
<1>6. CASE FullResponds
  <2>1. promise \notin {"pending", "resolved"} /\ fullWritten = 0 /\ caller' # "verify"
    BY <1>6 DEF FullResponds, DifferentialTypeInv, DifferentialPhases
  <2>2. ASSUME caller' = "fullBody"
        PROVE  fullFd' \in Descriptors /\ open'[fullFd'] = "dest" /\ dest' = <<>> /\ fullWritten' = 0
    <3>1. Lowest \in Descriptors
      BY <1>6, NumberIsFree DEF FullResponds
    <3> QED BY <1>3, <1>6, <2>1, <2>2, <3>1 DEF FullResponds, OpenAt
  <2> QED BY <1>1, <1>2, <2>1, <2>2 DEF DestinationGrows, executorVars
<1>7. CASE FullWrites
  <2>1. /\ caller = "fullBody" /\ promise \notin {"pending", "resolved"} /\ fullWritten < Len(NewFile)
        /\ UNCHANGED <<fullFd, newFd, open>> /\ caller' \in {"fullBody", "failed"}
    BY <1>7 DEF FullWrites, DifferentialTypeInv, DifferentialPhases, fdVars
  <2>2. ASSUME caller' = "fullBody", fullFd # newFd
        PROVE  Len(dest') = fullWritten' /\ \A n \in 1..fullWritten' : dest'[n] = n
    <3>1. open[fullFd] = "dest" /\ Len(dest) = fullWritten /\ \A n \in 1..fullWritten : dest[n] = n
      BY <2>1, <2>2 DEF DestinationGrows
    <3>2. fullWritten' = fullWritten + 1 /\ dest' = Append(dest, NewFile[fullWritten + 1])
      BY <1>7, <2>2, <3>1 DEF FullWrites
    <3>3. NewFile[fullWritten + 1] = fullWritten + 1 /\ fullWritten + 1 \in Nat
      BY <1>3, <2>1
    <3>4. /\ Len(dest') = fullWritten + 1 /\ dest'[fullWritten + 1] = fullWritten + 1
          /\ \A n \in 1..fullWritten : dest'[n] = dest[n]
      BY <1>3, <3>1, <3>2, <3>3, AppendProperties
    <3> QED BY <1>3, <3>1, <3>2, <3>4
  <2> QED BY <1>1, <1>2, <2>1, <2>2 DEF DestinationGrows, executorVars
<1>8. CASE FullEnds
  <2>1. /\ caller = "fullBody" /\ fullWritten = Len(NewFile) /\ caller' = "verify"
        /\ UNCHANGED <<dest, fullVars, newFd>> /\ promise \notin {"pending", "resolved"}
        /\ fullFd # 0
    BY <1>3, <1>8 DEF FullEnds, DestinationGrows, DifferentialTypeInv, DifferentialPhases, fdVars
  <2>2. ASSUME fullFd # newFd PROVE dest = NewFile
    <3>1. Len(dest) = fullWritten /\ \A n \in 1..fullWritten : dest[n] = n
      BY <2>1, <2>2 DEF DestinationGrows
    <3> QED BY <1>3, <2>1, <3>1, SameBlocks
  <2> QED BY <1>1, <1>2, <2>1, <2>2 DEF DestinationGrows, executorVars, fullVars
<1> QED
  BY <1>5, <1>6, <1>7, <1>8 DEF CallerStep

LEMMA AppFileGrows ==
  ASSUME DifferentialTypeInv, DestinationGrows, AppFile
  PROVE  DestinationGrows'
<1>1. UNCHANGED <<inputVars, executorVars, outVars, fdVars, caller, fullVars, dest>>
  BY DEF AppFile
<1>2. NewFile' = NewFile /\ Descriptors' = Descriptors
  BY <1>1, InputsStay
<1>3. \/ open[Lowest] = "free" /\ OpenAt(Lowest, "app")
      \/ \E n \in Descriptors : open[n] = "app" /\ OpenAt(n, "free")
  BY NumberIsFree DEF AppFile
<1>4. open \in [Descriptors -> {"free", "old", "dest", "app"}]
  BY DEF DifferentialTypeInv, DifferentialTypes
<1>5. \A n \in Descriptors : open[n] = "dest" => open'[n] = "dest"
  BY <1>3, <1>4 DEF OpenAt
<1> QED
  BY <1>1, <1>2, <1>5 DEF DestinationGrows, DifferentialTypeInv, StreamHasDescriptor,
     executorVars, outVars, fdVars, fullVars

LEMMA DifferentialNextInv ==
  ASSUME DifferentialInv, [DifferentialNext]_differentialVars
  PROVE  DifferentialInv'
<1>1. DifferentialTypeInv /\ DifferentialTypeInv' /\ appOpens \in Nat /\ appOpens' \in Nat
  <2>1. DifferentialTypeInv /\ DifferentialTypeInv'
    BY DifferentialTypesStay DEF DifferentialInv
  <2>2. setting' = setting /\ setting.appOpens \in Nat
    <3>1. UNCHANGED inputVars
      BY DEF DifferentialNext, Start, GetBlockMaps, OpenOld, OpenNew, ExecutorStep, FileOutStep,
         CallerStep, AppFile, differentialVars
    <3> QED BY <2>1, <3>1, DifferentialInputs DEF inputVars, DifferentialTypeInv, DifferentialTypes
  <2> QED BY <2>1, <2>2 DEF DifferentialTypeInv, DifferentialTypes
<1>2. appOpens' = 0 => Numbers'
  BY <1>1, NumbersStay DEF DifferentialInv
<1>3. DestinationGrows'
  <2>1. CASE UNCHANGED differentialVars
    BY <2>1 DEF differentialVars, inputVars, executorVars, outVars, fdVars, fullVars,
       DifferentialInv, DestinationGrows, NewFile, Descriptors
  <2> QED
    BY <2>1, ExecutorGrows, StartGrows, FileOutGrows, CallerGrows, AppFileGrows
       DEF DifferentialNext, DifferentialInv
<1>4. DestinationIsNewFile'
  <2> SUFFICES ASSUME caller' = "done" PROVE dest' = NewFile' \/ StreamMeetsFullDownload'
    BY DEF DestinationIsNewFile
  <2>1. CASE caller = "done"
    <3>1. UNCHANGED <<dest, setting, NewFile, fullFd, newFd>>
      BY <1>1, <2>1, DoneStays
    <3>2. appOpens > 0 => appOpens' > 0
      BY <1>1 DEF DifferentialNext, Start, GetBlockMaps, OpenOld, OpenNew, ExecutorStep,
         FileOutStep, CallerStep, AppFile, differentialVars
    <3> QED BY <2>1, <3>1, <3>2 DEF DifferentialInv, DestinationIsNewFile, StreamMeetsFullDownload
  <2>2. CASE caller # "done"
    <3>1. Verify /\ CallerStep
      BY <2>2 DEF DifferentialNext, Start, GetBlockMaps, OpenOld, OpenNew, ExecutorStep,
         FileOutStep, CallerStep, Settled, CloseFile, FilesClosed, FullResponds, FullWrites,
         FullEnds, AppFile, differentialVars
    <3>2. /\ caller = "verify" /\ IsSigned /\ UNCHANGED <<dest, newFd, fullFd, setting, appOpens>>
          /\ NewFile' = NewFile
      BY <3>1, InputsStay DEF Verify, CallerStep, inputVars, fdVars, fullVars
    <3>3. dest = NewFile \/ (fullFd = newFd /\ fullFd # 0 /\ appOpens > 0)
      <4>1. dest = NewFile \/ (fullFd = newFd /\ fullFd # 0)
        BY <3>2 DEF DifferentialInv, DestinationGrows
      <4>2. appOpens = 0 => fullFd # newFd \/ fullFd = 0
        BY DEF DifferentialInv, Numbers
      <4> QED BY <1>1, <4>1, <4>2
    <3>4. CASE setting.publisherName
      BY <3>2, <3>4 DEF IsSigned
    <3>5. CASE ~setting.publisherName
      BY <3>2, <3>3, <3>5 DEF StreamMeetsFullDownload
    <3> QED
      BY <3>4, <3>5
  <2> QED BY <2>1, <2>2
<1> QED
  BY <1>1, <1>2, <1>3, <1>4 DEF DifferentialInv

(***************************************************************************)
(* A task of executeDownload that ends well leaves the new file behind,    *)
(* whatever the plan, the responses, the errors and the order of the       *)
(* callbacks, for every number of blocks and of files the application      *)
(* opens, and although nothing stops the streams of the differential       *)
(* download when the full download begins.  The one exception is in the    *)
(* property: without a publisher to verify, and only after the application *)
(* opened a file, when both downloads write with one descriptor number.    *)
(***************************************************************************)
THEOREM DownloadLeavesTheNewFile == DifferentialSpec => []DestinationIsNewFile
<1>1. DifferentialInit => DifferentialInv
  BY DifferentialInitInv
<1>2. DifferentialInv => DestinationIsNewFile
  BY DEF DifferentialInv
<1>3. DifferentialInv /\ [DifferentialNext]_differentialVars => DifferentialInv'
  BY DifferentialNextInv
<1> QED
  BY <1>1, <1>2, <1>3, PTL DEF DifferentialSpec

-----------------------------------------------------------------------------
\* ReleaseFeed

Ats == {"idle", "offered", "notAvailable", "error", "file", "feed", "latest", "releases", "version",
        "files", "asset"}

FeedTypeOK ==
    /\ publication \in Publications /\ feedSetting \in FeedSettings
    /\ begun \in 1..Len(publication) /\ visible \subseteq 1..begun
    /\ assets \in [Releases -> SUBSET UNION {Files(r) : r \in Releases}]
    /\ installed \in 1..begun
    /\ check \in [at : Ats, attempt : Nat, release : 0..begun]
    /\ refusals \in Nat /\ quiet \in BOOLEAN

\* Files of a release are its own; all before the last are there, and the artifacts first.
FilesInOrder ==
    \A r \in Releases :
        /\ assets[r] \subseteq Files(r) /\ (r > begun => assets[r] = {})
        /\ r < begun => Complete(r)
        /\ Provider # "generic" =>
               assets[r] \intersect UpdateFiles(r) = {} \/ \A a \in feedSetting.archs : Artifact(a) \in assets[r]

\* A check makes the requests of its provider, and is refused as often as it tried again.
StagesOfProvider ==
    /\ check.at = "file" => Provider \in Flat
    /\ check.at = "feed" => Provider = "github"
    /\ check.at = "latest" => Provider = "github" /\ ~AllowPrerelease
    /\ check.at = "releases" => Provider = "private"
    /\ check.at \in {"version", "files"} => Provider = "bintray"
    /\ check.at = "asset" => Provider \notin Flat
    /\ check.at \in {"files", "asset", "offered"} => check.release \in 1..begun
    /\ Going => /\ refusals = (IF Provider \in Flat THEN check.attempt ELSE 0)
                /\ check.attempt <= 3
    /\ userChannel # Unset => Provider \in Flat

\* What an undisturbed check has found so far.
FoundSoFar ==
    quiet /\ Complete(begun) /\ check.at \in {"files", "asset"} /\ ~PrivatePrerelease =>
        Eligible # {} /\ check.release = Max(Eligible)

FeedInv == FeedTypeOK /\ FilesInOrder /\ StagesOfProvider /\ FoundSoFar /\ ReleaseIsFound

\* The builder and the updater agree on the name of the update file of a channel.
LEMMA NamesAgree ==
  ASSUME FeedTypeOK, NEW c
  PROVE  CustomChannelName(c) = UpdateInfoFileName(c, feedSetting.arch)
<1>1. feedSetting.os \in {"win", "mac", "linux"}
  BY ReleaseFeedAssumption DEF FeedTypeOK
<1>2. ChannelFilePrefix = <<OsSuffix, ArchPrefix(feedSetting.arch)>>
  BY <1>1 DEF ChannelFilePrefix, OsSuffix, ArchPrefix, ProcessArch
<1>3. ASSUME NEW x, NEW y
      PROVE  <<c>> \o <<x, y>> = <<c, x, y>>
  <2>1. <<c>> \in Seq({c, x, y}) /\ <<x, y>> \in Seq({c, x, y}) /\ <<c, x, y>> \in Seq({c, x, y})
    OBVIOUS
  <2> DEFINE s == <<c>> \o <<x, y>>
  <2>2. s \in Seq({c, x, y}) /\ Len(s) = 3 /\ s[1] = c /\ s[2] = x /\ s[3] = y
    BY <2>1
  <2> HIDE DEF s
  <2>3. s = <<c, x, y>>
    BY <2>1, <2>2
  <2> QED
    BY <2>3 DEF s
<1> QED
  BY <1>2, <1>3 DEF CustomChannelName, UpdateInfoFileName

LEMMA FilesOfChannels ==
  ASSUME FeedTypeOK, NEW r \in Releases, NEW c
  PROVE  UpdateInfoFileName(c, feedSetting.arch) \in Files(r) <=> c \in ChannelNames(r)
<1>1. feedSetting.arch \in feedSetting.archs
  BY ReleaseFeedAssumption DEF FeedTypeOK
<1>2. \A a, b, d, x : <<a, b, d>> # <<"artifact", x>>
  OBVIOUS
<1>3. \A a : UpdateInfoFileName(c, feedSetting.arch) # Artifact(a)
  BY <1>2 DEF UpdateInfoFileName, Artifact
<1>4. ASSUME UpdateInfoFileName(c, feedSetting.arch) \in Files(r)
      PROVE  c \in ChannelNames(r)
  <2>1. PICK d \in ChannelNames(r), a \in feedSetting.archs :
            UpdateInfoFileName(c, feedSetting.arch) = UpdateInfoFileName(d, a)
    BY <1>3, <1>4 DEF Files, UpdateFiles
  <2> QED
    BY <2>1 DEF UpdateInfoFileName
<1>5. ASSUME c \in ChannelNames(r)
      PROVE  UpdateInfoFileName(c, feedSetting.arch) \in Files(r)
  BY <1>1, <1>5 DEF Files, UpdateFiles
<1> QED
  BY <1>4, <1>5

\* The channels a release has update files for are those it is for.
LEMMA ChannelsOfRelease ==
  ASSUME FeedTypeOK, NEW r \in Releases, NEW c
  PROVE  /\ Provider \in Flat => (c \in ChannelNames(r) <=> IsFor(r, c))
         /\ Provider \notin Flat => "latest" \in ChannelNames(r)
<1>1. /\ Provider \notin Flat => feedSetting.channel = Unset
      /\ Provider \in Flat => Provider \notin Github
      /\ publication[r].channel # Unset
  BY ReleaseFeedAssumption DEF FeedTypeOK, Provider, Flat, Github, Releases
<1>2. CASE Provider \notin Flat
  BY <1>1, <1>2 DEF ChannelNames, ResolvedChannel
<1>3. CASE Provider \in Flat
  <2> DEFINE current == IF ResolvedChannel(r) = Unset THEN "latest" ELSE ResolvedChannel(r)
  <2>1. current = ChannelOf(r)
    BY <1>1, <1>3 DEF ResolvedChannel, ChannelOf
  <2>2. c \in ChannelNames(r) <=>
            \/ c = current
            \/ feedSetting.all /\ current = "beta" /\ c = "alpha"
            \/ feedSetting.all /\ current = "latest" /\ c \in {"alpha", "beta"}
    BY <1>1, <1>3 DEF ChannelNames
  <2>3. /\ Stability("latest") = 0 /\ Stability("beta") = 1 /\ Stability("alpha") = 2
        /\ \A d : d \notin {"latest", "beta", "alpha"} => Stability(d) = 3
    BY DEF Stability
  <2>4. IsFor(r, c) <=>
            \/ c = current
            \/ feedSetting.all /\ Stability(current) < Stability(c) /\ Stability(c) < 3
    BY <2>1 DEF IsFor
  <2> HIDE DEF current
  <2>5. Stability(c) \in 0..3 /\ Stability(current) \in 0..3
    BY <2>3
  <2>6. Stability(current) < Stability(c) /\ Stability(c) < 3 <=>
            \/ current = "beta" /\ c = "alpha"
            \/ current = "latest" /\ c \in {"alpha", "beta"}
    BY <2>3
  <2> QED
    BY <1>3, <2>2, <2>4, <2>6
<1> QED
  BY <1>2, <1>3

\* The file a check asks for is one of a release that it may be offered.
LEMMA ChannelFileOf ==
  ASSUME FeedTypeOK, StagesOfProvider, NEW r \in Releases
  PROVE  ChannelFile \in Files(r) <=> (Provider \in Flat => IsFor(r, AppChannel))
<1> DEFINE c == IF Provider \notin Flat THEN "latest"
                ELSE IF userChannel # Unset THEN userChannel
                ELSE IF ResolvedChannel(installed) # Unset THEN ResolvedChannel(installed)
                ELSE "latest"
<1>1. ChannelFile = UpdateInfoFileName(c, feedSetting.arch)
  BY NamesAgree DEF ChannelFile
<1>2. ChannelFile \in Files(r) <=> c \in ChannelNames(r)
  BY <1>1, FilesOfChannels
<1>3. Provider \in Flat => c = AppChannel
  <2>1. publication[installed].channel # Unset
    BY ReleaseFeedAssumption DEF FeedTypeOK
  <2> QED
    BY <2>1 DEF AppChannel, ResolvedChannel, ChannelOf
<1> QED
  BY <1>2, <1>3, ChannelsOfRelease

LEMMA FilesStay ==
  ASSUME UNCHANGED <<publication, feedSetting>>
  PROVE  /\ Provider' = Provider /\ Releases' = Releases
         /\ (\A r : Files(r)' = Files(r) /\ UpdateFiles(r)' = UpdateFiles(r))
<1>1. Provider' = Provider /\ Releases' = Releases
  BY DEF Provider, Releases
<1> QED
  BY <1>1 DEF Files, UpdateFiles, ChannelNames, ResolvedChannel, UpdateInfoFileName, OsSuffix,
              ArchPrefix, Artifact

\* Nothing but the check goes on.
LEMMA ServerStays ==
  ASSUME UNCHANGED <<publication, feedSetting, feedServerVars, appVars>>
  PROVE  /\ Eligible' = Eligible /\ Provider' = Provider /\ Releases' = Releases
         /\ PrivatePrerelease' = PrivatePrerelease /\ AllowPrerelease' = AllowPrerelease
         /\ (\A r : Complete(r)' = Complete(r) /\ Files(r)' = Files(r)
                      /\ UpdateFiles(r)' = UpdateFiles(r))
         /\ (\A r : IsOffered(r)' = IsOffered(r))
<1> USE DEF feedServerVars, appVars
<1>1. Provider' = Provider /\ Releases' = Releases /\ AllowPrerelease' = AllowPrerelease
  BY DEF Provider, Releases, AllowPrerelease
<1>2. \A r : Files(r)' = Files(r) /\ UpdateFiles(r)' = UpdateFiles(r)
  BY FilesStay
<1>3. \A r : Complete(r)' = Complete(r)
  BY <1>2 DEF Complete
<1>4. AppChannel' = AppChannel /\ \A r, c : IsFor(r, c)' = IsFor(r, c)
  BY DEF AppChannel, IsFor, ChannelOf, Stability
<1>5. Eligible' = Eligible
  BY <1>1, <1>4 DEF Eligible
<1> QED
  BY <1>1, <1>2, <1>3, <1>5 DEF PrivatePrerelease, IsOffered, AllowDowngrade

LEMMA OnServerStays ==
  ASSUME OnServer
  PROVE  /\ Eligible' = Eligible /\ Provider' = Provider /\ Releases' = Releases
         /\ PrivatePrerelease' = PrivatePrerelease /\ AllowPrerelease' = AllowPrerelease
         /\ (\A r : Complete(r)' = Complete(r) /\ Files(r)' = Files(r)
                      /\ UpdateFiles(r)' = UpdateFiles(r))
         /\ (\A r : IsOffered(r)' = IsOffered(r))
<1>1. UNCHANGED <<publication, feedSetting, feedServerVars, appVars>>
  BY DEF OnServer
<1> QED
  BY <1>1, ServerStays

\* What a check that is not disturbed should end with.
Undisturbed == quiet /\ Complete(begun) /\ ~PrivatePrerelease

LEMMA TypesOnServer ==
  ASSUME FeedTypeOK, FilesInOrder, OnServer, check' \in [at : Ats, attempt : Nat, release : 0..begun]
  PROVE  FeedTypeOK' /\ FilesInOrder'
<1>1. FeedTypeOK'
  BY OnServerStays DEF FeedTypeOK, OnServer, feedServerVars, appVars
<1>2. FilesInOrder'
  BY OnServerStays DEF FilesInOrder, OnServer, feedServerVars, Artifact
<1> QED
  BY <1>1, <1>2

LEMMA AnswerIsRight ==
  ASSUME FeedInv, OnServer, Going, NEW r \in 1..begun, Answer(r),
         Provider # "generic" => Artifact(feedSetting.arch) \in assets[r],
         Undisturbed => Eligible # {} /\ r = Max(Eligible)
  PROVE  FeedInv'
<1>1. check' = [at |-> IF IsOffered(r) THEN "offered" ELSE "notAvailable",
                attempt |-> check.attempt, release |-> r]
  <2> DEFINE new == publication[r].version
             current == publication[installed].version
  <2>1. new \in Int /\ current \in Int
    BY ReleaseFeedAssumption DEF FeedInv, FeedTypeOK
  <2>2. new < current \/ new > current <=> new # current
    BY <2>1
  <2>3. new > current \/ (AllowDowngrade /\ new < current) <=> IsOffered(r)
    BY <2>1, <2>2 DEF IsOffered
  <2>4. check' = [check EXCEPT !.release = r,
                      !.at = IF new > current \/ (AllowDowngrade /\ new < current)
                             THEN "offered" ELSE "notAvailable"]
    BY DEF Answer
  <2>5. check \in [at : Ats, attempt : Nat, release : 0..begun]
    BY DEF FeedInv, FeedTypeOK
  <2> HIDE DEF new, current
  <2> QED
    BY <2>3, <2>4, <2>5
<1>2. check' \in [at : Ats, attempt : Nat, release : 0..begun]
  BY <1>1 DEF FeedInv, FeedTypeOK, Ats
<1>3. FeedTypeOK' /\ FilesInOrder'
  BY <1>2, TypesOnServer DEF FeedInv
<1>4. StagesOfProvider'
  BY <1>1, OnServerStays DEF StagesOfProvider, Going, FeedInv, OnServer, feedServerVars, appVars
<1>5. FoundSoFar'
  BY <1>1 DEF FoundSoFar
<1>6. ReleaseIsFound'
  <2>1. refusals <= (IF Provider \in Flat THEN 3 ELSE 0)
    BY DEF FeedInv, FeedTypeOK, StagesOfProvider
  <2>2. (check.at = "offered" /\ Provider # "generic" =>
           Artifact(feedSetting.arch) \in assets[check.release])'
    BY <1>1, OnServerStays DEF Artifact, OnServer, feedServerVars
  <2>3. (quiet /\ Complete(begun) /\ ~Going /\ check.at # "idle" /\ ~PrivatePrerelease)' =>
          /\ Eligible' # {} /\ ~(refusals' > (IF Provider' \in Flat THEN 3 ELSE 0))
          /\ check'.release = Max(Eligible')
          /\ check'.at = IF IsOffered(Max(Eligible))' THEN "offered" ELSE "notAvailable"
    <3>1. SUFFICES ASSUME (quiet /\ Complete(begun) /\ ~PrivatePrerelease)'
                   PROVE  /\ Eligible' # {} /\ ~(refusals' > (IF Provider' \in Flat THEN 3 ELSE 0))
                          /\ check'.release = Max(Eligible')
                          /\ check'.at = IF IsOffered(Max(Eligible))' THEN "offered" ELSE "notAvailable"
      OBVIOUS
    <3>2. Undisturbed
      BY <3>1, OnServerStays DEF Undisturbed, OnServer, feedServerVars
    <3>3. Eligible # {} /\ r = Max(Eligible)
      BY <3>2
    <3>4. IsOffered(Max(Eligible))' = IsOffered(r)
      BY <3>3, OnServerStays
    <3>5. ~(refusals' > (IF Provider' \in Flat THEN 3 ELSE 0))
      BY <2>1, OnServerStays DEF OnServer, FeedInv, FeedTypeOK
    <3> QED
      BY <1>1, <3>3, <3>4, <3>5, OnServerStays
  <2> QED
    BY <2>2, <2>3 DEF ReleaseIsFound
<1> QED
  BY <1>3, <1>4, <1>5, <1>6 DEF FeedInv
LEMMA FailureIsRight ==
  ASSUME FeedInv, OnServer, Ends("error"), Undisturbed => Eligible = {}
  PROVE  FeedInv'
<1>1. check' = [at |-> "error", attempt |-> check.attempt, release |-> check.release]
  BY DEF Ends, FeedInv, FeedTypeOK
<1>2. check' \in [at : Ats, attempt : Nat, release : 0..begun]
  BY <1>1 DEF FeedInv, FeedTypeOK, Ats
<1>3. FeedTypeOK' /\ FilesInOrder'
  BY <1>2, TypesOnServer DEF FeedInv
<1>4. StagesOfProvider'
  BY <1>1, OnServerStays DEF StagesOfProvider, Going, FeedInv, OnServer, feedServerVars, appVars
<1>5. FoundSoFar'
  BY <1>1 DEF FoundSoFar
<1>6. (quiet /\ Complete(begun) /\ ~PrivatePrerelease)' => Eligible' = {}
  BY OnServerStays DEF Undisturbed, OnServer, feedServerVars
<1>7. ReleaseIsFound'
  BY <1>1, <1>6 DEF ReleaseIsFound
<1> QED
  BY <1>3, <1>4, <1>5, <1>7 DEF FeedInv

LEMMA SearchGoesOn ==
  ASSUME FeedInv, OnServer, Going, NEW stage \in {"files", "asset", "latest"}, NEW r \in 0..begun,
         Goes(stage, r), Provider \notin Flat, stage = "files" => Provider = "bintray",
         stage = "latest" => Provider = "github" /\ ~AllowPrerelease,
         stage # "latest" => /\ r \in 1..begun
                             /\ Undisturbed => Eligible # {} /\ r = Max(Eligible)
  PROVE  FeedInv'
<1>1. check' = [at |-> stage, attempt |-> check.attempt, release |-> r]
  BY DEF Goes, FeedInv, FeedTypeOK
<1>2. check' \in [at : Ats, attempt : Nat, release : 0..begun]
  BY <1>1 DEF FeedInv, FeedTypeOK, Ats
<1>3. FeedTypeOK' /\ FilesInOrder'
  BY <1>2, TypesOnServer DEF FeedInv
<1>4. StagesOfProvider'
  BY <1>1, OnServerStays DEF StagesOfProvider, Going, FeedInv, OnServer, feedServerVars, appVars
<1>5. FoundSoFar'
  <2>1. (quiet /\ Complete(begun) /\ ~PrivatePrerelease)' => Undisturbed
    BY OnServerStays DEF Undisturbed, OnServer, feedServerVars
  <2>2. check'.at \in {"files", "asset"} => stage # "latest" /\ check'.release = r
    BY <1>1
  <2> QED
    BY <2>1, <2>2, OnServerStays DEF FoundSoFar
<1>6. ReleaseIsFound'
  BY <1>1 DEF ReleaseIsFound, Going
<1> QED
  BY <1>3, <1>4, <1>5, <1>6 DEF FeedInv

\* When all is uploaded, a release has the file of a channel it is for.
LEMMA ChannelFileThere ==
  ASSUME FeedInv, Complete(begun), NEW r \in 1..begun
  PROVE  ChannelFile \in assets[r] <=> (Provider \in Flat => IsFor(r, AppChannel))
<1>1. r \in Releases /\ begun \in Nat
  BY ReleaseFeedAssumption DEF FeedInv, FeedTypeOK, Releases
<1>2. Complete(r)
  BY <1>1 DEF FeedInv, FilesInOrder
<1> QED
  BY <1>1, <1>2, ChannelFileOf DEF Complete, FeedInv

\* An update file is no artifact, and comes after the artifacts.
LEMMA ArtifactThere ==
  ASSUME FeedInv, NEW r \in 1..begun, Provider # "generic", ChannelFile \in assets[r]
  PROVE  Artifact(feedSetting.arch) \in assets[r]
<1>1. r \in Releases /\ feedSetting.arch \in feedSetting.archs
  BY ReleaseFeedAssumption DEF FeedInv, FeedTypeOK, Releases
<1>2. PICK c : ChannelFile = UpdateInfoFileName(c, feedSetting.arch)
  BY NamesAgree DEF ChannelFile, FeedInv
<1>3. \A a, b, d, x : <<a, b, d>> # <<"artifact", x>>
  OBVIOUS
<1>4. \A a : ChannelFile # Artifact(a)
  BY <1>2, <1>3 DEF UpdateInfoFileName, Artifact
<1>5. ChannelFile \in UpdateFiles(r)
  BY <1>1, <1>4 DEF FeedInv, FilesInOrder, Files
<1> QED
  BY <1>1, <1>5 DEF FeedInv, FilesInOrder

LEMMA RequestFileStep == FeedInv /\ RequestFile => FeedInv'
<1> SUFFICES ASSUME FeedInv, RequestFile PROVE FeedInv'
  OBVIOUS
<1> DEFINE rs == {r \in 1..begun : ChannelFile \in assets[r]}
<1>1. check.at = "file" /\ OnServer /\ Going /\ Provider \in Flat /\ begun \in Nat
  BY ReleaseFeedAssumption DEF RequestFile, Going, FeedInv, FeedTypeOK, StagesOfProvider
<1>2. Undisturbed => rs = Eligible
  <2>1. Undisturbed => rs = {r \in 1..begun : IsFor(r, AppChannel)}
    BY <1>1, ChannelFileThere DEF Undisturbed
  <2>2. Provider \notin Github
    BY <1>1 DEF Flat, Github
  <2> QED
    BY <1>1, <2>1, <2>2 DEF Eligible
<1>3. CASE rs = {}
  <2>1. Ends("error")
    BY <1>3 DEF RequestFile, ServedFile
  <2> QED
    BY <1>1, <1>2, <1>3, <2>1, FailureIsRight
<1>4. CASE rs # {}
  <2>1. Max(rs) \in rs
    BY <1>1, <1>4, GreatestIsThere
  <2>2. Max(rs) \in 1..begun /\ ChannelFile \in assets[Max(rs)]
    BY <2>1
  <2>3. ServedFile(ChannelFile) = Max(rs)
    BY <1>4 DEF ServedFile
  <2>4. Answer(Max(rs))
    BY <1>1, <2>2, <2>3 DEF RequestFile
  <2>5. Undisturbed => Eligible # {} /\ Max(rs) = Max(Eligible)
    BY <1>2, <1>4
  <2>6. Provider # "generic" => Artifact(feedSetting.arch) \in assets[Max(rs)]
    BY <2>2, ArtifactThere
  <2> HIDE DEF rs
  <2> QED
    BY <1>1, <2>2, <2>4, <2>5, <2>6, AnswerIsRight
<1> QED
  BY <1>3, <1>4

LEMMA ReadFeedStep == FeedInv /\ ReadFeed => FeedInv'
<1> SUFFICES ASSUME FeedInv, ReadFeed PROVE FeedInv'
  OBVIOUS
<1>1. /\ check.at = "feed" /\ OnServer /\ Going /\ Provider = "github" /\ Provider \notin Flat
      /\ Provider \in Github /\ begun \in Nat /\ visible \subseteq 1..begun
  BY ReleaseFeedAssumption
     DEF ReadFeed, Going, FeedInv, FeedTypeOK, StagesOfProvider, Flat, Github
<1>2. CASE visible = {}
  <2>1. Ends("error") /\ Eligible = {}
    BY <1>1, <1>2 DEF ReadFeed, Eligible
  <2> QED
    BY <1>1, <2>1, FailureIsRight
<1>3. CASE visible # {} /\ AllowPrerelease
  <2>1. Max(visible) \in 1..begun
    BY <1>1, <1>3, GreatestIsThere
  <2>2. Goes("asset", Max(visible)) /\ Eligible = visible
    BY <1>1, <1>3 DEF ReadFeed, Eligible
  <2>3. Max(visible) \in 0..begun /\ (Undisturbed => Eligible # {} /\ Max(visible) = Max(Eligible))
    BY <1>1, <1>3, <2>1, <2>2
  <2> QED
    BY <1>1, <2>1, <2>2, <2>3, SearchGoesOn
<1>4. CASE visible # {} /\ ~AllowPrerelease
  <2>1. Goes("latest", 0)
    BY <1>1, <1>4, Zenon DEF ReadFeed
  <2>2. 0 \in 0..begun
    BY <1>1
  <2> QED
    BY <1>1, <1>4, <2>1, <2>2, SearchGoesOn
<1> QED
  BY <1>2, <1>3, <1>4

LEMMA ReadLatestStep == FeedInv /\ ReadLatest => FeedInv'
<1> SUFFICES ASSUME FeedInv, ReadLatest PROVE FeedInv'
  OBVIOUS
<1> DEFINE rs == {r \in visible : ~IsPrerelease(r)}
<1>1. /\ check.at = "latest" /\ OnServer /\ Going /\ Provider = "github" /\ Provider \notin Flat
      /\ Provider \in Github /\ ~AllowPrerelease /\ begun \in Nat /\ visible \subseteq 1..begun
  BY ReleaseFeedAssumption
     DEF ReadLatest, Going, FeedInv, FeedTypeOK, StagesOfProvider, Flat, Github
<1>2. Eligible = rs
  BY <1>1 DEF Eligible, IsPrerelease
<1>3. CASE rs = {}
  <2>1. Ends("error")
    BY <1>3 DEF ReadLatest
  <2> QED
    BY <1>1, <1>2, <1>3, <2>1, FailureIsRight
<1>4. CASE rs # {}
  <2>1. Goes("asset", Max(rs))
    BY <1>4 DEF ReadLatest
  <2>2. rs \subseteq 1..begun
    BY <1>1
  <2> HIDE DEF rs
  <2>3. Max(rs) \in 1..begun
    BY <1>1, <1>4, <2>2, GreatestIsThere
  <2>4. Max(rs) \in 0..begun /\ (Undisturbed => Eligible # {} /\ Max(rs) = Max(Eligible))
    BY <1>1, <1>2, <1>4, <2>3
  <2> QED
    BY <1>1, <2>1, <2>3, <2>4, SearchGoesOn
<1> QED
  BY <1>3, <1>4

LEMMA ReadReleasesStep == FeedInv /\ ReadReleases => FeedInv'
<1> SUFFICES ASSUME FeedInv, ReadReleases PROVE FeedInv'
  OBVIOUS
<1> DEFINE rs == IF ~AllowPrerelease THEN {r \in visible : ~IsPrerelease(r)}
                 ELSE IF \E r \in 1..begun : IsPrerelease(r) THEN {r \in 1..begun : IsPrerelease(r)}
                 ELSE 1..begun
<1>1. /\ check.at = "releases" /\ OnServer /\ Going /\ Provider = "private" /\ Provider \notin Flat
      /\ Provider \in Github /\ begun \in Nat /\ visible \subseteq 1..begun
  BY ReleaseFeedAssumption
     DEF ReadReleases, Going, FeedInv, FeedTypeOK, StagesOfProvider, Flat, Github
<1>2. Undisturbed => Eligible = rs
  BY <1>1 DEF Undisturbed, PrivatePrerelease, Eligible, IsPrerelease
<1>3. rs \subseteq 1..begun
  BY <1>1
<1>4. IF rs = {} \/ ChannelFile \notin assets[Max(rs)] THEN Ends("error") ELSE Goes("asset", Max(rs))
  BY DEF ReadReleases
<1> HIDE DEF rs
<1>5. rs # {} => Max(rs) \in 1..begun /\ Max(rs) \in 0..begun
  <2>1. rs # {} => Max(rs) \in 1..begun
    BY <1>1, <1>3, GreatestIsThere
  <2> QED
    BY <1>1, <2>1
<1>6. rs # {} /\ Undisturbed => ChannelFile \in assets[Max(rs)]
  BY <1>1, <1>5, ChannelFileThere DEF Undisturbed
<1>7. CASE rs = {} \/ ChannelFile \notin assets[Max(rs)]
  BY <1>1, <1>2, <1>4, <1>6, <1>7, FailureIsRight
<1>8. CASE rs # {} /\ ChannelFile \in assets[Max(rs)]
  <2>1. Undisturbed => Eligible # {} /\ Max(rs) = Max(Eligible)
    BY <1>2, <1>8
  <2> QED
    BY <1>1, <1>4, <1>5, <1>8, <2>1, SearchGoesOn
<1> QED
  BY <1>7, <1>8

LEMMA ReadVersionStep == FeedInv /\ ReadVersion => FeedInv'
<1> SUFFICES ASSUME FeedInv, ReadVersion PROVE FeedInv'
  OBVIOUS
<1>1. /\ check.at = "version" /\ OnServer /\ Going /\ Provider = "bintray" /\ Provider \notin Flat
      /\ Provider \notin Github /\ begun \in Nat /\ visible \subseteq 1..begun
  BY ReleaseFeedAssumption
     DEF ReadVersion, Going, FeedInv, FeedTypeOK, StagesOfProvider, Flat, Github
<1>2. Eligible = visible
  BY <1>1 DEF Eligible
<1>3. CASE visible = {}
  <2>1. Ends("error")
    BY <1>3 DEF ReadVersion
  <2> QED
    BY <1>1, <1>2, <1>3, <2>1, FailureIsRight
<1>4. CASE visible # {}
  <2>1. Goes("files", Max(visible))
    BY <1>4 DEF ReadVersion
  <2>2. Max(visible) \in 1..begun
    BY <1>1, <1>4, GreatestIsThere
  <2>3. Max(visible) \in 0..begun /\ (Undisturbed => Eligible # {} /\ Max(visible) = Max(Eligible))
    BY <1>1, <1>2, <1>4, <2>2
  <2> QED
    BY <1>1, <2>1, <2>2, <2>3, SearchGoesOn
<1> QED
  BY <1>3, <1>4

LEMMA ReadVersionFilesStep == FeedInv /\ ReadVersionFiles => FeedInv'
<1> SUFFICES ASSUME FeedInv, ReadVersionFiles PROVE FeedInv'
  OBVIOUS
<1>1. /\ check.at = "files" /\ OnServer /\ Going /\ Provider = "bintray" /\ Provider \notin Flat
      /\ check.release \in 1..begun /\ check.release \in 0..begun
  BY ReleaseFeedAssumption
     DEF ReadVersionFiles, Going, FeedInv, FeedTypeOK, StagesOfProvider, Flat
<1>2. Undisturbed => Eligible # {} /\ check.release = Max(Eligible)
  BY <1>1 DEF FeedInv, FoundSoFar, Undisturbed
<1>3. Undisturbed => ChannelFile \in assets[check.release]
  BY <1>1, ChannelFileThere DEF Undisturbed
<1>4. IF ChannelFile \notin assets[check.release] THEN Ends("error")
      ELSE Goes("asset", check.release)
  BY DEF ReadVersionFiles
<1>5. CASE ChannelFile \notin assets[check.release]
  BY <1>1, <1>3, <1>4, <1>5, FailureIsRight
<1>6. CASE ChannelFile \in assets[check.release]
  BY <1>1, <1>2, <1>4, <1>6, SearchGoesOn
<1> QED
  BY <1>5, <1>6

LEMMA ReadAssetStep == FeedInv /\ ReadAsset => FeedInv'
<1> SUFFICES ASSUME FeedInv, ReadAsset PROVE FeedInv'
  OBVIOUS
<1>1. /\ check.at = "asset" /\ OnServer /\ Going /\ Provider \notin Flat /\ Provider # "generic"
      /\ check.release \in 1..begun
  BY DEF ReadAsset, Going, FeedInv, StagesOfProvider, Flat
<1>2. Undisturbed => Eligible # {} /\ check.release = Max(Eligible)
  BY <1>1 DEF FeedInv, FoundSoFar, Undisturbed
<1>3. Undisturbed => ChannelFile \in assets[check.release]
  BY <1>1, ChannelFileThere DEF Undisturbed
<1>4. IF ChannelFile \in assets[check.release] THEN Answer(check.release) ELSE Ends("error")
  BY DEF ReadAsset
<1>5. CASE ChannelFile \notin assets[check.release]
  BY <1>1, <1>3, <1>4, <1>5, FailureIsRight
<1>6. CASE ChannelFile \in assets[check.release]
  <2>1. Artifact(feedSetting.arch) \in assets[check.release]
    BY <1>1, <1>6, ArtifactThere
  <2> QED
    BY <1>1, <1>2, <1>4, <1>6, <2>1, AnswerIsRight
<1> QED
  BY <1>5, <1>6

\* A connection is refused: the same request again, or the end of the check.
LEMMA RefusedStep == FeedInv /\ Refused => FeedInv'
<1> SUFFICES ASSUME FeedInv, Refused PROVE FeedInv'
  OBVIOUS
<1> DEFINE again == Provider \in Flat /\ check.attempt < 3
<1>1. /\ UNCHANGED <<publication, feedSetting, feedServerVars, appVars, quiet>>
      /\ Going /\ refusals' = refusals + 1
      /\ check \in [at : Ats, attempt : Nat, release : 0..begun] /\ refusals \in Nat
      /\ check.attempt <= 3
      /\ refusals = (IF Provider \in Flat THEN check.attempt ELSE 0)
  BY DEF Refused, FeedInv, FeedTypeOK, StagesOfProvider
<1>2. check' = [at |-> IF again THEN check.at ELSE "error",
                attempt |-> IF again THEN check.attempt + 1 ELSE check.attempt,
                release |-> check.release]
  BY <1>1 DEF Refused, Ends
<1>3. check' \in [at : Ats, attempt : Nat, release : 0..begun] /\ refusals' \in Nat
  BY <1>1, <1>2 DEF Ats
<1>4. FeedTypeOK' /\ FilesInOrder'
  <2>1. FeedTypeOK'
    BY <1>1, <1>3, ServerStays DEF FeedInv, FeedTypeOK, feedServerVars, appVars
  <2>2. FilesInOrder'
    BY <1>1, ServerStays DEF FeedInv, FilesInOrder, feedServerVars, Artifact
  <2> QED
    BY <2>1, <2>2
<1>5. StagesOfProvider'
  BY <1>1, <1>2, ServerStays DEF StagesOfProvider, Going, FeedInv, feedServerVars, appVars
<1>6. FoundSoFar'
  BY <1>1, <1>2, ServerStays DEF FeedInv, FoundSoFar, feedServerVars
<1>7. ReleaseIsFound'
  <2>1. CASE again
    BY <1>1, <1>2, <2>1 DEF ReleaseIsFound, Going
  <2>2. CASE ~again
    <3>1. check'.at = "error" /\ refusals' > (IF Provider' \in Flat THEN 3 ELSE 0)
      BY <1>1, <1>2, <2>2, ServerStays
    <3> QED
      BY <3>1 DEF ReleaseIsFound
  <2> QED
    BY <2>1, <2>2
<1> QED
  BY <1>4, <1>5, <1>6, <1>7 DEF FeedInv

LEMMA StartCheckStep == FeedInv /\ StartCheck => FeedInv'
<1> SUFFICES ASSUME FeedInv, StartCheck PROVE FeedInv'
  OBVIOUS
<1> DEFINE stage == CASE Provider \in Flat -> "file" [] Provider = "github" -> "feed"
                      [] Provider = "private" -> "releases" [] Provider = "bintray" -> "version"
<1>1. UNCHANGED <<publication, feedSetting, feedServerVars, appVars>> /\ refusals' = 0 /\ quiet' = TRUE
  BY DEF StartCheck
<1>2. check' = [at |-> stage, attempt |-> 0, release |-> 0]
  BY DEF StartCheck, NoCheck
<1>3. \/ stage = "file" /\ Provider \in Flat
      \/ stage = "feed" /\ Provider = "github"
      \/ stage = "releases" /\ Provider = "private"
      \/ stage = "version" /\ Provider = "bintray"
  <2>1. \/ Provider \in Flat /\ Provider \notin {"github", "private", "bintray"}
        \/ Provider \notin Flat /\ Provider \in {"github", "private", "bintray"}
    BY ReleaseFeedAssumption DEF FeedInv, FeedTypeOK, Provider, Flat, Github
  <2>2. CASE Provider \in Flat
    BY <2>1, <2>2
  <2>3. CASE Provider = "github"
    BY <2>1, <2>3
  <2>4. CASE Provider = "private"
    BY <2>1, <2>4
  <2>5. CASE Provider = "bintray"
    BY <2>1, <2>5
  <2> QED
    BY <2>1, <2>2, <2>3, <2>4, <2>5
<1> HIDE DEF stage
<1>4. stage \in Ats /\ stage \notin {"idle", "offered", "notAvailable", "error", "files", "asset", "latest"}
  BY <1>3 DEF Ats
<1>5. begun \in Nat
  BY ReleaseFeedAssumption DEF FeedInv, FeedTypeOK
<1>6. check' \in [at : Ats, attempt : Nat, release : 0..begun]
  BY <1>2, <1>4, <1>5
<1>7. FeedTypeOK' /\ FilesInOrder'
  <2>1. FeedTypeOK'
    BY <1>1, <1>6, ServerStays DEF FeedInv, FeedTypeOK, feedServerVars, appVars
  <2>2. FilesInOrder'
    BY <1>1, ServerStays DEF FeedInv, FilesInOrder, feedServerVars, Artifact
  <2> QED
    BY <2>1, <2>2
<1>8. StagesOfProvider'
  BY <1>1, <1>2, <1>3, <1>4, ServerStays DEF StagesOfProvider, FeedInv, feedServerVars, appVars
<1>9. FoundSoFar' /\ ReleaseIsFound'
  BY <1>2, <1>4 DEF FoundSoFar, ReleaseIsFound, Going
<1> QED
  BY <1>7, <1>8, <1>9 DEF FeedInv

\* The application is told another channel, or is replaced; its check is over.
LEMMA NewApplicationStep ==
  ASSUME FeedInv, check' = NoCheck, installed' \in 1..begun,
         UNCHANGED <<publication, feedSetting, feedServerVars, refusals, quiet>>,
         userChannel' # Unset => Provider \in Flat
  PROVE  FeedInv'
<1> USE DEF feedServerVars
<1>1. begun \in Nat
  BY ReleaseFeedAssumption DEF FeedInv, FeedTypeOK
<1>2. /\ check'.at = "idle" /\ check' \in [at : Ats, attempt : Nat, release : 0..begun]
  BY <1>1 DEF NoCheck, Ats
<1>3. FeedTypeOK'
  BY <1>2, FilesStay DEF FeedInv, FeedTypeOK
<1>4. FilesInOrder'
  BY FilesStay DEF FeedInv, FilesInOrder, Complete, Artifact
<1>5. StagesOfProvider'
  BY <1>2, FilesStay DEF StagesOfProvider, Going
<1>6. FoundSoFar' /\ ReleaseIsFound'
  BY <1>2 DEF FoundSoFar, ReleaseIsFound
<1> QED
  BY <1>3, <1>4, <1>5, <1>6 DEF FeedInv

\* Something is published: no check is undisturbed any more.
LEMMA PublishedStep ==
  ASSUME FeedInv, UNCHANGED <<publication, feedSetting, appVars, check, refusals>>, quiet' = FALSE,
         begun' \in begun..Len(publication), visible' \subseteq 1..begun',
         assets' \in [Releases -> SUBSET UNION {Files(r) : r \in Releases}],
         \A r \in Releases : assets[r] \subseteq assets'[r], FilesInOrder'
  PROVE  FeedInv'
<1> USE DEF appVars
<1>1. /\ begun \in Nat /\ begun' \in Nat /\ begun <= begun' /\ begun' \in 1..Len(publication)
      /\ 1..begun \subseteq Releases
  BY ReleaseFeedAssumption DEF FeedInv, FeedTypeOK, Releases
<1>2. FeedTypeOK'
  <2>1. 1..begun \subseteq 1..begun' /\ 0..begun \subseteq 0..begun'
    BY <1>1
  <2>2. installed' \in 1..begun' /\ check' \in [at : Ats, attempt : Nat, release : 0..begun']
    BY <2>1 DEF FeedInv, FeedTypeOK
  <2> QED
    <3>1. (UNION {Files(r) : r \in Releases})' = UNION {Files(r) : r \in Releases}
      BY FilesStay
    <3>2. assets' \in [Releases' -> SUBSET (UNION {Files(r) : r \in Releases})']
      BY <3>1, FilesStay
    <3>3. visible' \subseteq 1..begun' /\ begun' \in 1..Len(publication')
      BY <1>1
    <3> QED
      BY <2>2, <3>2, <3>3 DEF FeedInv, FeedTypeOK
<1>3. AllowPrerelease' = AllowPrerelease /\ Provider' = Provider /\ Going' = Going
  BY DEF AllowPrerelease, Provider, Going
<1>4. StagesOfProvider'
  BY <1>1, <1>3 DEF FeedInv, StagesOfProvider
<1>5. FoundSoFar'
  BY DEF FoundSoFar
<1>6. ReleaseIsFound'
  <2>1. check.at = "offered" /\ Provider # "generic" =>
            Artifact(feedSetting.arch) \in assets'[check.release]
    BY <1>1 DEF FeedInv, StagesOfProvider, ReleaseIsFound
  <2> QED
    BY <1>3, <2>1 DEF ReleaseIsFound, Artifact
<1> QED
  BY <1>2, <1>4, <1>5, <1>6 DEF FeedInv

LEMMA BeginReleaseStep == FeedInv /\ BeginRelease => FeedInv'
<1> SUFFICES ASSUME FeedInv, BeginRelease PROVE FeedInv'
  OBVIOUS
<1>1. /\ UNCHANGED <<publication, feedSetting, assets, appVars, check, refusals>> /\ quiet' = FALSE
      /\ begun' = begun + 1 /\ begun < Len(publication) /\ Complete(begun)
      /\ begun \in Nat /\ Len(publication) \in Nat /\ \A r \in Releases : r \in Nat
      /\ visible' \subseteq visible \union {begun + 1} /\ visible \subseteq 1..begun
  BY ReleaseFeedAssumption DEF BeginRelease, FeedInv, FeedTypeOK, Releases
<1>2. begun' \in begun..Len(publication) /\ visible' \subseteq 1..begun'
  BY <1>1
<1>3. FilesInOrder'
  <2>1. \A r \in Releases : (r > begun' => r > begun) /\ (r < begun' => r < begun \/ r = begun)
    BY <1>1
  <2> QED
    BY <1>1, <2>1, FilesStay DEF FeedInv, FilesInOrder, Complete, Artifact
<1> QED
  BY <1>1, <1>2, <1>3, PublishedStep DEF FeedInv, FeedTypeOK

LEMMA UploadStep ==
  ASSUME FeedInv, NEW f \in UNION {Files(r) : r \in Releases}, Upload(f)
  PROVE  FeedInv'
<1>1. /\ UNCHANGED <<publication, feedSetting, begun, visible, appVars, check, refusals>>
      /\ quiet' = FALSE /\ assets' = [assets EXCEPT ![begun] = assets[begun] \union {f}]
      /\ f \in Files(begun)
      /\ (f \in UpdateFiles(begun) /\ Provider # "generic" =>
              Files(begun) \ UpdateFiles(begun) \subseteq assets[begun])
      /\ assets \in [Releases -> SUBSET UNION {Files(r) : r \in Releases}]
  BY DEF Upload, FeedInv, FeedTypeOK
<1>2. begun \in Nat /\ begun \in begun..Len(publication) /\ begun \in Releases
  BY ReleaseFeedAssumption DEF FeedInv, FeedTypeOK, Releases
<1>3. assets' \in [Releases -> SUBSET UNION {Files(r) : r \in Releases}]
  BY <1>1
<1>4. \A r \in Releases : assets'[r] = IF r = begun THEN assets[r] \union {f} ELSE assets[r]
  BY <1>1, <1>2
<1>5. f \in UpdateFiles(begun) /\ Provider # "generic" =>
          \A a \in feedSetting.archs : Artifact(a) \in assets[begun]
  <2>1. \A a, b, d, x : <<a, b, d>> # <<"artifact", x>>
    OBVIOUS
  <2>2. \A a \in feedSetting.archs : Artifact(a) \in Files(begun) \ UpdateFiles(begun)
    BY <2>1 DEF Files, UpdateFiles, UpdateInfoFileName, Artifact
  <2> QED
    BY <1>1, <2>2
<1>6. FilesInOrder'
  <2>1. ASSUME NEW r \in Releases, r # begun
        PROVE  /\ assets'[r] \subseteq Files(r) /\ (r > begun' => assets'[r] = {})
               /\ r < begun' => assets'[r] = Files(r)
               /\ Provider # "generic" =>
                      \/ assets'[r] \intersect UpdateFiles(r) = {}
                      \/ \A a \in feedSetting.archs : Artifact(a) \in assets'[r]
    <3>1. assets'[r] = assets[r] /\ begun' = begun
      BY <1>1, <1>4, <2>1
    <3> QED
      BY <3>1 DEF FeedInv, FilesInOrder, Complete
  <2>2. /\ assets'[begun] \subseteq Files(begun) /\ ~(begun > begun') /\ ~(begun < begun')
        /\ Provider # "generic" =>
               \/ assets'[begun] \intersect UpdateFiles(begun) = {}
               \/ \A a \in feedSetting.archs : Artifact(a) \in assets'[begun]
    <3>1. assets'[begun] = assets[begun] \union {f} /\ ~(begun > begun') /\ ~(begun < begun')
      BY <1>1, <1>2, <1>4
    <3>2. assets[begun] \subseteq Files(begun)
      BY <1>2 DEF FeedInv, FilesInOrder
    <3>3. Provider # "generic" =>
              \/ assets[begun] \intersect UpdateFiles(begun) = {} /\ f \notin UpdateFiles(begun)
              \/ \A a \in feedSetting.archs : Artifact(a) \in assets[begun]
      BY <1>2, <1>5 DEF FeedInv, FilesInOrder
    <3> QED
      BY <1>1, <3>1, <3>2, <3>3
  <2> QED
    <3>1. ASSUME NEW r \in Releases
          PROVE  /\ assets'[r] \subseteq Files(r) /\ (r > begun' => assets'[r] = {})
                 /\ r < begun' => assets'[r] = Files(r)
                 /\ Provider # "generic" =>
                        \/ assets'[r] \intersect UpdateFiles(r) = {}
                        \/ \A a \in feedSetting.archs : Artifact(a) \in assets'[r]
      BY <2>1, <2>2, Zenon
    <3>2. feedSetting' = feedSetting /\ UNCHANGED <<publication, feedSetting>>
      BY <1>1
    <3> QED
      BY <3>1, <3>2, FilesStay DEF FilesInOrder, Complete, Artifact
<1>7. begun' \in begun..Len(publication) /\ visible' \subseteq 1..begun'
  BY <1>1, <1>2 DEF FeedInv, FeedTypeOK
<1> QED
  BY <1>1, <1>3, <1>4, <1>6, <1>7, PublishedStep

LEMMA PublishDraftStep ==
  ASSUME FeedInv, NEW r \in Releases, PublishDraft(r)
  PROVE  FeedInv'
<1>1. /\ UNCHANGED <<publication, feedSetting, begun, assets, appVars, check, refusals>>
      /\ quiet' = FALSE /\ visible' = visible \union {r} /\ r \in 1..begun
  BY DEF PublishDraft
<1>2. begun' \in begun..Len(publication) /\ visible' \subseteq 1..begun'
  <2>1. /\ begun \in Nat /\ begun \in begun..Len(publication) /\ begun' = begun
        /\ visible \subseteq 1..begun
    BY <1>1, ReleaseFeedAssumption DEF FeedInv, FeedTypeOK
  <2> QED
    BY <1>1, <2>1
<1>3. FilesInOrder'
  BY <1>1, FilesStay DEF FeedInv, FilesInOrder, Complete, Artifact
<1> QED
  BY <1>1, <1>2, <1>3, PublishedStep DEF FeedInv, FeedTypeOK

LEMMA FeedInitInv == FeedInit => FeedInv
<1> SUFFICES ASSUME FeedInit PROVE FeedInv
  OBVIOUS
<1> USE DEF FeedInit
<1>1. 1 \in 1..Len(publication) /\ 1 \in Releases /\ \A r \in Releases : r \in Nat /\ ~(r < 1)
  BY ReleaseFeedAssumption DEF Releases
<1>2. FeedTypeOK
  BY <1>1 DEF FeedTypeOK, NoCheck, Ats
<1>3. FilesInOrder
  <2>1. \A r \in Releases : r > 1 => r # 1
    BY <1>1
  <2> QED
    BY <1>1, <2>1 DEF FilesInOrder, Files, Complete
<1>4. StagesOfProvider /\ FoundSoFar /\ ReleaseIsFound
  BY DEF StagesOfProvider, FoundSoFar, ReleaseIsFound, Going, NoCheck
<1> QED
  BY <1>2, <1>3, <1>4 DEF FeedInv

LEMMA FeedNextInv == FeedInv /\ [FeedNext]_feedVars => FeedInv'
<1> SUFFICES ASSUME FeedInv, [FeedNext]_feedVars PROVE FeedInv'
  OBVIOUS
<1>1. ASSUME NEW c \in UserChannels, SetChannel(c) PROVE FeedInv'
  BY <1>1, NewApplicationStep DEF SetChannel, FeedInv, FeedTypeOK
<1>2. CASE InstallOffered
  BY <1>2, NewApplicationStep DEF InstallOffered, FeedInv, StagesOfProvider
<1>3. CASE UNCHANGED feedVars
  <2>1. UNCHANGED <<publication, feedSetting, feedServerVars, appVars>> /\ check' = check
        /\ refusals' = refusals /\ quiet' = quiet
    BY <1>3 DEF feedVars
  <2>2. FeedTypeOK' /\ FilesInOrder'
    BY <2>1, ServerStays DEF FeedInv, FeedTypeOK, FilesInOrder, Artifact, feedServerVars, appVars
  <2>3. StagesOfProvider' /\ FoundSoFar'
    BY <2>1, ServerStays DEF FeedInv, StagesOfProvider, FoundSoFar, Going, feedServerVars, appVars
  <2>4. ReleaseIsFound'
    BY <2>1, ServerStays DEF FeedInv, ReleaseIsFound, Artifact, Going, feedServerVars, appVars
  <2> QED
    BY <2>2, <2>3, <2>4 DEF FeedInv
<1> QED
  BY <1>1, <1>2, <1>3, BeginReleaseStep, UploadStep, PublishDraftStep, StartCheckStep, RefusedStep,
     RequestFileStep, ReadFeedStep, ReadLatestStep, ReadReleasesStep, ReadVersionStep,
     ReadVersionFilesStep, ReadAssetStep DEF FeedNext

THEOREM FeedInvariant == FeedSpec => []FeedInv
<1> QED
  BY FeedInitInv, FeedNextInv, PTL DEF FeedSpec

(***************************************************************************)
(* Whatever is released on whatever channels, with every publish           *)
(* configuration: an application's check finds what the builder published  *)
(* for it, or there is nothing.                                            *)
(***************************************************************************)
THEOREM ApplicationsFindReleases == FeedSpec => []ReleaseIsFound
<1>1. FeedInv => ReleaseIsFound
  BY DEF FeedInv
<1> QED
  BY <1>1, FeedInvariant, PTL

=============================================================================
