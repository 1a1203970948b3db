------------------------------- MODULE AppFiles -------------------------------
(***************************************************************************)
(* Which files of a project get into the application, and which are copied *)
(* beside it: "files", "extraResources" and "extraFiles" as normalizeFiles *)
(* leaves them, the FileMatchers made of them with the default patterns,   *)
(* and the walks that collect and copy.  What the extra matchers take is   *)
(* excluded from the application by the same patterns, evaluated one after *)
(* the other as if they were one list.                                     *)
(*                                                                         *)
(* A path is a sequence of names, relative to the project.  A pattern is   *)
(* [negate, base, glob]; the glob says what follows the base: "path"       *)
(* nothing, "under" /**/*, "orUnder" {,/**/*}, "unpacked" /*-unpacked and  *)
(* what is in it; "excluded" is **/{excludedNames}, "nothing" matches no   *)
(* file.  Modules in node_modules are collected elsewhere.                 *)
(***************************************************************************)
EXTENDS Integers, SequencesExt

CONSTANTS
    FileSettings,  \* records: [appDir, tree |-> set of files, files, platformFiles,
                   \*   resources, extraFiles]; platformFiles is a sequence of patterns,
                   \*   the other three are sequences of patterns and FileSets
    FileNames,     \* of files and directories
    OutDir, BuildResources, \* paths
    Dotted, Hidden, \* the names that contain a dot, and those that begin with one
    Unpacked,      \* the names that end in "-unpacked"
    ExcludedNames,
    NoFrom

Glob(base, glob) == [negate |-> FALSE, base |-> base, glob |-> glob]
Not(base, glob) == [negate |-> TRUE, base |-> base, glob |-> glob]
All == Glob(<<>>, "under")
PackageJson == Glob(<<"package.json">>, "path")

\* A FileSet: from is NoFrom if it has neither from nor to, and filter <<>> if it has none.
FileSet(from, filter) == [from |-> from, filter |-> filter]
IsFileSet(item) == "from" \in DOMAIN item

Paths == Seq(FileNames)
Patterns == [negate : BOOLEAN, base : Paths, glob : {"path", "under", "orUnder"}]
FileSetItems == [from : Paths \union {NoFrom}, filter : Seq(Patterns)]

ASSUME AppFilesAssumption ==
    /\ "package.json" \in FileNames
    /\ Hidden \subseteq Dotted /\ BuildResources \in Paths
    /\ OutDir \in Paths \ {<<>>} /\ OutDir[1] # "package.json"
    /\ \A s \in FileSettings :
        /\ s.appDir \in Paths
        /\ s.tree \subseteq Paths \ {<<>>} /\ \A f, g \in s.tree : ~IsStrictPrefix(f, g)
        /\ s.platformFiles \in Seq(Patterns)
        /\ {s.files, s.resources, s.extraFiles} \subseteq Seq(Patterns \union FileSetItems)

VARIABLES
    fileSetting,
    walks,     \* the walks to do: [main |-> of a main matcher?, from, patterns]; "matchers"
               \*   before they are known is <<NoFrom>>
    dirs,      \* the directories the first of them has still to read
    appFiles,  \* what the application gets
    copiedFiles     \* what copyFiles copies

filesVars == <<fileSetting, walks, dirs, appFiles, copiedFiles>>

AppDir == fileSetting.appDir

FilesInit ==
    /\ fileSetting \in FileSettings
    /\ walks = <<NoFrom>> /\ dirs = {} /\ appFiles = {} /\ copiedFiles = {}

-----------------------------------------------------------------------------
\* normalizeFiles: a string goes to the FileSet before it, unless that has a from or to.
AddItem(sets, item) ==
    IF IsFileSet(item) THEN Append(sets, item)
    ELSE IF sets # <<>> /\ Last(sets).from = NoFrom
         THEN [sets EXCEPT ![Len(sets)].filter = Append(@, item)]
    ELSE Append(sets, FileSet(NoFrom, <<item>>))

NormalizeFiles(items) == FoldLeft(AddItem, <<>>, items)

RelativePath(from, path) == SubSeq(path, Len(from) + 1, Len(path))

\* The pattern that excludes a directory in "from": one whose relative path does not begin
\* with a dot, which that of any other does (..), but that of a hidden one too.
Excluding(from, dir, glob) ==
    IF IsStrictPrefix(from, dir) /\ dir[Len(from) + 1] \notin Hidden
    THEN <<Not(RelativePath(from, dir), glob)>> ELSE <<>>

Matcher(main, from, patterns) == [main |-> main, from |-> from, patterns |-> patterns]

\* getFileMatchers.  The output of earlier builds is excluded in the default matcher only,
\* which has the strings of the platform's options.
FileMatchers(main, items, strings, defaultSrc) ==
    LET sets == NormalizeFiles(items)
        matchers == [i \in DOMAIN sets |->
            Matcher(main, IF sets[i].from = NoFrom THEN defaultSrc ELSE defaultSrc \o sets[i].from,
                    sets[i].filter)]
        default == Matcher(main, defaultSrc, strings \o Excluding(defaultSrc, OutDir, "unpacked"))
    IN  IF strings = <<>> THEN matchers ELSE <<default>> \o matchers

OnlyIgnore(ps) == \A i \in DOMAIN ps : ps[i].negate
StartsWithAny(p) == ~p.negate /\ p.glob = "under" /\ p.base = <<>>

DefaultsFirst(ps) ==                                                       \* mutant
    LET own == IF OnlyIgnore(ps) \/ Contains(ps, PackageJson) THEN ps ELSE Append(ps, PackageJson)
        first == (IF OnlyIgnore(ps) THEN <<All>> ELSE <<>>)
                 \o Excluding(AppDir, BuildResources, "orUnder")
                 \o Excluding(<<>>, OutDir, "orUnder")
    IN  first \o own \o <<Not(<<>>, "excluded")>>

\* The default patterns: some after the last pattern that begins with **/, some at the end.
\* The output is excluded by its path in the project, wherever the application is.
WithDefaults(ps) ==
    LET own == IF OnlyIgnore(ps) \/ Contains(ps, PackageJson) THEN ps ELSE Append(ps, PackageJson)
        first == (IF OnlyIgnore(ps) THEN <<All>> ELSE <<>>)
                 \o Excluding(AppDir, BuildResources, "orUnder")
                 \o Excluding(<<>>, OutDir, "orUnder")
        n == SelectLastInSeq(own, StartsWithAny)
    IN  SubSeq(own, 1, n) \o first \o SubSeq(own, n + 1, Len(own)) \o <<Not(<<>>, "excluded")>>

\* getMainFileMatchers: only the first matcher gets them, if it is of the app directory.
MainMatchers ==
    LET given == FileMatchers(TRUE, fileSetting.files, fileSetting.platformFiles, AppDir)
        matchers == IF given = <<>> THEN <<Matcher(TRUE, AppDir, <<>>)>> ELSE given
    IN  IF matchers[1].from # AppDir THEN matchers
        ELSE [matchers EXCEPT ![1].patterns = WithDefaults(@)]

ExtraMatchers ==
    FileMatchers(FALSE, fileSetting.resources, <<>>, <<>>)
    \o FileMatchers(FALSE, fileSetting.extraFiles, <<>>, <<>>)

-----------------------------------------------------------------------------
\* computeParsedPatterns, without and with fromDir.  A negated pattern below another
\* directory loses its "!", which path.join leaves in the middle.
ParsedPattern(p) ==
    IF p.glob = "path" /\ ToSet(p.base) \intersect Dotted = {}
    THEN <<p, [p EXCEPT !.glob = "under"]>> ELSE <<p>>
Parsed(ps) == FlattenSeq([i \in DOMAIN ps |-> ParsedPattern(ps[i])])

Joined(from, p) ==
    IF from # <<>> /\ p.negate THEN Glob(from, "nothing") ELSE [p EXCEPT !.base = from \o @]
ParsedFromProject(m) ==
    IF m.patterns = <<>> THEN <<Glob(m.from, "path")>>
    ELSE Parsed([i \in DOMAIN m.patterns |-> Joined(m.from, m.patterns[i])])

ExcludePatterns ==
    FlattenSeq([i \in DOMAIN ExtraMatchers |-> ParsedFromProject(ExtraMatchers[i])])

\* Minimatch.match; a directory matches a pattern for what may be below it.
Matches(p, path, partial) ==
    \/ partial /\ IsPrefix(path, p.base)
    \/ p.glob = "path" /\ path = p.base
    \/ p.glob = "under" /\ IsStrictPrefix(p.base, path)
    \/ p.glob = "orUnder" /\ IsPrefix(p.base, path)
    \/ p.glob = "unpacked" /\ IsStrictPrefix(p.base, path) /\ path[Len(p.base) + 1] \in Unpacked
    \/ p.glob = "excluded" /\ Last(path) \in ExcludedNames

MinimatchAll(path, ps, isDir) ==
    LET step(match, p) == IF match # p.negate THEN match
                          ELSE Matches(p, path, isDir /\ ~p.negate) # p.negate
    IN  FoldLeft(step, FALSE, ps)

ExcludesDirectories(w, path, isDir) ==                                     \* mutant
    LET relative == RelativePath(w.from, path) IN
    /\ w.main => ~(isDir /\ Last(path) = "node_modules")
    /\ MinimatchAll(relative, Parsed(w.patterns), isDir)
    /\ w.main => ~MinimatchAll(relative, ExcludePatterns, isDir)

\* createAppFilter of a main matcher, createFilter of an extra one.
Accepts(w, path, isDir) ==
    LET relative == RelativePath(w.from, path) IN
    /\ w.main => ~(isDir /\ Last(path) = "node_modules")
    /\ MinimatchAll(relative, Parsed(w.patterns), isDir)
    /\ w.main /\ ~isDir => ~MinimatchAll(relative, ExcludePatterns, isDir)

-----------------------------------------------------------------------------
\* The walks

AddAllPattern(ps) == IF OnlyIgnore(ps) THEN <<All>> \o ps ELSE ps
Walk(m) == [m EXCEPT !.patterns = AddAllPattern(@)]

GetMatchers ==
    /\ walks = <<NoFrom>>
    /\ LET all == MainMatchers \o ExtraMatchers IN
       /\ walks' = [i \in DOMAIN all |-> Walk(all[i])]
       /\ dirs' = {all[1].from}
    /\ UNCHANGED <<fileSetting, appFiles, copiedFiles>>

Walking == walks # <<>> /\ walks # <<NoFrom>>
Take(main, files) ==
    /\ appFiles' = IF main THEN appFiles \union files ELSE appFiles
    /\ copiedFiles' = IF main THEN copiedFiles ELSE copiedFiles \union files

Children(dir) ==
    {SubSeq(f, 1, Len(dir) + 1) : f \in {f \in fileSetting.tree : IsStrictPrefix(dir, f)}}

\* One directory, in some order: its files are taken, its directories are put in the queue.
WalkDirectory ==
    /\ Walking /\ dirs # {}
    /\ LET w == Head(walks)
           dir == CHOOSE d \in dirs : TRUE
           files == Children(dir) \intersect fileSetting.tree
       IN /\ dirs' = (dirs \ {dir})
                     \union {d \in Children(dir) \ files : Accepts(w, d, TRUE)}
          /\ IF ~w.main /\ dir \in fileSetting.tree   \* from is a file
             THEN Take(FALSE, {dir})
             ELSE Take(w.main, {f \in files : Accepts(w, f, FALSE)})
    /\ UNCHANGED <<fileSetting, walks>>

NextMatcher ==
    /\ Walking /\ dirs = {}
    /\ walks' = Tail(walks)
    /\ dirs' = IF Len(walks) = 1 THEN {} ELSE {walks[2].from}
    /\ UNCHANGED <<fileSetting, appFiles, copiedFiles>>

FilesNext == GetMatchers \/ WalkDirectory \/ NextMatcher

FilesSpec == FilesInit /\ [][FilesNext]_filesVars

-----------------------------------------------------------------------------
\* What a walk of w takes, were nothing excluded for the extra matchers.
TakenAlone(w, f) ==
    LET accepts(path, isDir) == MinimatchAll(RelativePath(w.from, path), Parsed(w.patterns), isDir)
    IN  /\ IsStrictPrefix(w.from, f) /\ "node_modules" \notin ToSet(f)
        /\ \A n \in (Len(w.from) + 1)..(Len(f) - 1) : accepts(SubSeq(f, 1, n), TRUE)
        /\ accepts(f, FALSE)

MainWalks == LET ms == MainMatchers IN {Walk(ms[i]) : i \in DOMAIN ms}

\* Matchers whose patterns exclude from the application just what they copy.
ExcludesAsCopied(m) ==
    \A i \in DOMAIN m.patterns :
        m.patterns[i].negate => m.from = <<>> /\ ToSet(m.patterns[i].base) \intersect Dotted = {}

(***************************************************************************)
(* No file is lost between the application and what is copied beside it:   *)
(* what the patterns of "files" take is in the application, or was left    *)
(* out because it is copied.  Three things break this: an application, or  *)
(* a FileSet of "files", in a directory of its own, whose paths are        *)
(* compared with patterns relative to the project; a "!" in the filter of  *)
(* an extra FileSet with a from; and a "!" before an extra directory with  *)
(* a dot in its name.                                                      *)
(***************************************************************************)
NoFileLost ==
    walks = <<>> /\ (\A m \in ToSet(ExtraMatchers) : ExcludesAsCopied(m)) =>
        \A f \in fileSetting.tree :
            (\E w \in MainWalks : w.from = <<>> /\ TakenAlone(w, f))
                => f \in appFiles \union copiedFiles

\* A FileSet, or a pattern other than **/* for something in the output, or with output in it.
NamesOutput(items) ==
    \E i \in DOMAIN items :
        \/ IsFileSet(items[i])
        \/ /\ ~items[i].negate /\ ~StartsWithAny(items[i])
           /\ IsPrefix(OutDir, items[i].base) \/ IsPrefix(items[i].base, OutDir)

(***************************************************************************)
(* The output of earlier builds does not get into the application, as long *)
(* as "files" has no FileSet, has either the platform's strings or others, *)
(* and does not name the output directory.  That takes an application      *)
(* apart from the output, or in the project's directory: of one in a       *)
(* directory of its own with the output in it, as app/dist of app, the     *)
(* pattern is not relative to the application, and the output gets in.  So *)
(* it does from a directory whose name begins with a dot.                  *)
(***************************************************************************)
OutputStaysOut ==
    LET f == fileSetting.files
        p == fileSetting.platformFiles
        apart == ~IsPrefix(AppDir, OutDir) /\ ~IsPrefix(OutDir, AppDir)
        inProject == AppDir = <<>> /\ OutDir[1] \notin Hidden
    IN  /\ (f = <<>> \/ p = <<>>) /\ ~NamesOutput(f) /\ ~NamesOutput(p)
        /\ apart \/ inProject
        => \A a \in appFiles : ~IsPrefix(OutDir, a)
=============================================================================
