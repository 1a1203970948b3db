---------------------------- MODULE AsarPackager ----------------------------
(***************************************************************************)
(* AsarPackager: the collected files of an application go into app.asar    *)
(* or, when they must be files on the disk, into app.asar.unpacked.  For   *)
(* one file set after the other the directories to unpack are detected and *)
(* the header is made; then the archive is written.  A step is a file.     *)
(*                                                                         *)
(* A directory is the sequence of its names in the archive, "nm" the name  *)
(* node_modules.  File sets are in the order of the walks that made them.  *)
(***************************************************************************)
EXTENDS Integers, SequencesExt

CONSTANTS
    FileSets,   \* what may be packed: sequences of sequences of files.  A file has a
                \* dir and a name, its kind ("text", "binary" or "link"), its size, the
                \* size of the data a transformer replaces it with (or NoData), and
                \* tells if asarUnpack matches it
    ShortNames  \* the names of one letter

NoData == -1

\* A link and a file of the application are not in the same place.
ASSUME AsarAssumption ==
    \A sets \in FileSets :
        /\ Len(sets) \in Nat \ {0} /\ DOMAIN sets = 1..Len(sets)
        /\ \A s \in DOMAIN sets :
               /\ Len(sets[s]) \in Nat /\ DOMAIN sets[s] = 1..Len(sets[s])
               /\ \A i \in DOMAIN sets[s] :
                      /\ sets[s][i].size \in Nat /\ sets[s][i].data \in Nat \union {NoData}
                      /\ sets[s][i].dir \in Seq(STRING) /\ sets[s][i].name \in STRING
        /\ \A s, t \in DOMAIN sets : \A i \in DOMAIN sets[s], j \in DOMAIN sets[t] :
               sets[s][i].kind = "link" /\ sets[t][j].kind # "link" =>
                   Append(sets[s][i].dir, sets[s][i].name) # Append(sets[t][j].dir, sets[t][j].name)

VARIABLES
    fileSets,     \* one of FileSets, and it does not change
    phase,        \* "detect", "header", "write" or "packed"
    set, index,   \* the file in work
    unpackedDirs, \* of this set
    made,         \* directories under app.asar.unpacked
    nodes,        \* the header's file nodes, by path
    dirNodes,     \* directories whose node is flagged as unpacked
    nextOffset,   \* AsarFilesystem.offset
    keptOut,      \* unpackedFileIndexMap
    copied,       \* files copied to app.asar.unpacked
    archive       \* the bytes after the header

asarVars == <<fileSets, phase, set, index, unpackedDirs, made, nodes, dirNodes,
              nextOffset, keptOut, copied, archive>>

AsarInit ==
    /\ fileSets \in FileSets
    /\ phase = "detect" /\ set = 1 /\ index = 1
    /\ unpackedDirs = {} /\ made = {}
    /\ nodes = <<>> /\ dirNodes = {}
    /\ nextOffset = 0
    /\ keptOut = {} /\ copied = {}
    /\ archive = <<>>

FilesOf(s) == fileSets[s]
File == FilesOf(set)[index]
PathOf(f) == Append(f.dir, f.name)

InPhase(p) == phase = p /\ index <= Len(FilesOf(set))
NextFile == index' = index + 1 /\ UNCHANGED <<phase, set>>

-----------------------------------------------------------------------------
\* detectUnpackedDirs

\* The package a file belongs to: the directory below the last node_modules.
LastModules(dir) == SelectLastInSeq(dir, LAMBDA name : name = "nm")
InPackage(dir) == LastModules(dir) \in 1..(Len(dir) - 1)
PackageDir(dir) == SubSeq(dir, 1, LastModules(dir) + 1)

\* computeNodeModuleFileSets makes one file set of a node_modules directory, so that
\* the files of a package are in one.
ASSUME PackagesAssumption ==
    \A sets \in FileSets : \A s, t \in DOMAIN sets :
        \A i \in DOMAIN sets[s], j \in DOMAIN sets[t] :
            LET f == sets[s][i]  g == sets[t][j] IN
            InPackage(f.dir) /\ InPackage(g.dir) /\ PackageDir(f.dir) = PackageDir(g.dir) => s = t

\* addParents, which creates these directories too.
Parents(root, dir) == {SubSeq(dir, 1, k) : k \in Len(root)..Len(dir)}

DetectFile ==
    /\ InPhase("detect")
    /\ LET f == File
           found == /\ f.kind # "link" /\ InPackage(f.dir)
                    /\ f.kind = "binary" \/ PackageDir(f.dir) \in unpackedDirs
           new == IF found THEN Parents(PackageDir(f.dir), f.dir) ELSE {}
       IN unpackedDirs' = unpackedDirs \union new /\ made' = made \union new
    /\ NextFile
    /\ UNCHANGED <<fileSets, nodes, dirNodes, nextOffset, keptOut, copied, archive>>

Detected ==
    /\ phase = "detect" /\ ~InPhase("detect")
    /\ phase' = "header" /\ index' = 1
    /\ UNCHANGED <<fileSets, set, unpackedDirs, made, nodes, dirNodes, nextOffset, keptOut,
                   copied, archive>>

-----------------------------------------------------------------------------
\* createPackageFromFiles

\* correctDirNodeUnpackedFlag: the directory is below one that is unpacked; its
\* path has to be more than two characters longer.
Below(dir, d) == IsStrictPrefix(d, dir) /\ ~(Len(dir) = Len(d) + 1 /\ Last(dir) \in ShortNames)
NeverCorrected(dir) == FALSE                                          \* mutant
Corrected(dir) ==
    /\ dir # <<>> /\ dir \notin unpackedDirs \union dirNodes
    /\ \E d \in unpackedDirs : Below(dir, d)

IsDirUnpacked(dir) == dir \in unpackedDirs \union dirNodes \/ Corrected(dir)

DirsToMake(f) == IF Corrected(f.dir) \/ f.unpack THEN {f.dir} ELSE {}

SizeOnDisk(f) == f.size                                              \* mutant
SizeOf(f) == IF f.data = NoData THEN f.size ELSE f.data

NodesWith(path, node) ==
    [p \in DOMAIN nodes \union {path} |-> IF p = path THEN node ELSE nodes[p]]

AddLink(f) ==
    /\ nodes' = NodesWith(PathOf(f), [link |-> TRUE])
    /\ keptOut' = keptOut \union {<<set, index>>}
    /\ UNCHANGED <<unpackedDirs, made, dirNodes, nextOffset, copied>>

AddFile(f) ==
    LET inDir == IsDirUnpacked(f.dir)
        unpacked == inDir \/ f.unpack
    IN  /\ nodes' = NodesWith(PathOf(f), [of |-> <<set, index>>, size |-> SizeOf(f),
                                          unpacked |-> unpacked, offset |-> nextOffset])
        /\ nextOffset' = IF unpacked THEN nextOffset ELSE nextOffset + SizeOf(f)
        /\ dirNodes' = IF inDir THEN dirNodes \union {f.dir} ELSE dirNodes
        /\ unpackedDirs' = IF Corrected(f.dir) THEN unpackedDirs \union {f.dir} ELSE unpackedDirs
        /\ made' = made \union DirsToMake(f)
        /\ keptOut' = IF unpacked THEN keptOut \union {<<set, index>>} ELSE keptOut
        /\ copied' = IF unpacked THEN copied \union {<<set, index>>} ELSE copied

HeaderFile ==
    /\ InPhase("header")
    /\ IF File.kind = "link" THEN AddLink(File) ELSE AddFile(File)
    /\ NextFile
    /\ UNCHANGED <<fileSets, archive>>

\* The copies of the set are awaited; then the next set, or the archive.
HeaderOfSet ==
    /\ phase = "header" /\ ~InPhase("header")
    /\ index' = 1
    /\ IF set < Len(fileSets) THEN phase' = "detect" /\ set' = set + 1
       ELSE phase' = "write" /\ set' = 1
    /\ unpackedDirs' = {}
    /\ UNCHANGED <<fileSets, made, nodes, dirNodes, nextOffset, keptOut, copied, archive>>

-----------------------------------------------------------------------------
\* writeAsarFile

BytesOf(s, i) ==
    LET f == FilesOf(s)[i]
    IN  [k \in 1..(IF f.data = NoData THEN f.size ELSE f.data) |-> <<s, i, k>>]

WriteFile ==
    /\ InPhase("write")
    /\ archive' = IF <<set, index>> \in keptOut THEN archive ELSE archive \o BytesOf(set, index)
    /\ NextFile
    /\ UNCHANGED <<fileSets, unpackedDirs, made, nodes, dirNodes, nextOffset, keptOut, copied>>

WrittenSet ==
    /\ phase = "write" /\ ~InPhase("write")
    /\ IF set < Len(fileSets) THEN set' = set + 1 /\ index' = 1 /\ UNCHANGED phase
       ELSE phase' = "packed" /\ UNCHANGED <<set, index>>
    /\ UNCHANGED <<fileSets, unpackedDirs, made, nodes, dirNodes, nextOffset, keptOut, copied,
                   archive>>

AsarNext == DetectFile \/ Detected \/ HeaderFile \/ HeaderOfSet \/ WriteFile \/ WrittenSet

AsarSpec == AsarInit /\ [][AsarNext]_asarVars

-----------------------------------------------------------------------------
Packable == UNION {{<<s, i>> : i \in {n \in DOMAIN FilesOf(s) : FilesOf(s)[n].kind # "link"}} :
                      s \in DOMAIN fileSets}
NodeOf(s, i) == nodes[PathOf(FilesOf(s)[i])]

(***************************************************************************)
(* Every file can be read through the header: its bytes are where its node *)
(* says, which two loops over the files have to agree upon, or it was      *)
(* copied beside the archive, into a directory that was there.             *)
(***************************************************************************)
EveryFileIsFound ==
    phase = "packed" =>
        \A q \in Packable :
            LET n == NodeOf(q[1], q[2]) IN
            IF n.unpacked
            THEN n.of \in copied /\ FilesOf(n.of[1])[n.of[2]].dir \in made \union {<<>>}
            ELSE SubSeq(archive, n.offset + 1, n.offset + n.size) = BytesOf(n.of[1], n.of[2])

(***************************************************************************)
(* "if package dir is unpacked, any file also unpacked".  This does not    *)
(* hold for a directory with a name of one letter that comes before the    *)
(* file for which the package is unpacked.                                 *)
(***************************************************************************)
WholePackages ==
    phase = "packed" =>
        \A q, r \in Packable :
            LET f == FilesOf(q[1])[q[2]]  g == FilesOf(r[1])[r[2]] IN
            /\ InPackage(f.dir) /\ InPackage(g.dir) /\ PackageDir(f.dir) = PackageDir(g.dir)
            /\ f.kind = "binary"
            => NodeOf(r[1], r[2]).unpacked

(***************************************************************************)
(* That holds for all other directories.                                   *)
(***************************************************************************)
LongNames == \A s \in DOMAIN fileSets : \A i \in DOMAIN FilesOf(s) :
                 \A k \in DOMAIN FilesOf(s)[i].dir : FilesOf(s)[i].dir[k] \notin ShortNames
PackagesStayWhole == LongNames => WholePackages
=============================================================================
