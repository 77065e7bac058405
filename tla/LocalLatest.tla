----------------------------- MODULE LocalLatest -----------------------------
(***************************************************************************)
(* OSTreeRepo::latestOfRef (src/src/linglong/repo/ostree_repo.cpp): the    *)
(* greatest version directory under <root>/layers/<appId> whose name       *)
(* starts with the requested version, unless a "latest" entry exists.      *)
(*                                                                         *)
(* A directory name is a sequence of characters, so that QString's         *)
(* startsWith and QDir's sort by name are what they are on strings.        *)
(* util::AppVersion is not under src/: a name is taken as valid when it is *)
(* dot-separated groups of digits, and isBigThan compares the groups as    *)
(* numbers, a missing group counting as 0.  What isBigThan answers against *)
(* an invalid version is not known and is left open.                       *)
(***************************************************************************)
EXTENDS Naturals, Sequences, SequencesExt

CONSTANTS
    DirNames,  \* names that may stand in the app's layer directory
    Args       \* appVersion arguments

Latest == <<"l", "a", "t", "e", "s", "t">>

\* Character codes, for the order of QDir::entryList (QDir::Name).
Code(c) == CASE c = "." -> 46 [] c = "0" -> 48 [] c = "1" -> 49 [] c = "2" -> 50
             [] c = "a" -> 97 [] c = "e" -> 101 [] c = "l" -> 108 [] c = "s" -> 115
             [] c = "t" -> 116 [] c = "x" -> 120

RECURSIVE NameLess(_, _)
NameLess(a, b) ==
    IF a = <<>> \/ b = <<>> THEN a = <<>> /\ b # <<>>
    ELSE IF Head(a) = Head(b) THEN NameLess(Tail(a), Tail(b))
    ELSE Code(Head(a)) < Code(Head(b))

\* util::AppVersion: the dot-separated groups of a name, its validity, the
\* value of a group, and isBigThan.
RECURSIVE Groups(_)
Groups(s) ==
    LET d == SelectInSeq(s, LAMBDA c : c = ".")
    IN IF d = 0 THEN <<s>> ELSE <<SubSeq(s, 1, d - 1)>> \o Groups(SubSeq(s, d + 1, Len(s)))

Digit(c) == CASE c = "0" -> 0 [] c = "1" -> 1 [] c = "2" -> 2

IsValid(s) ==
    \A n \in 1..Len(Groups(s)) :
        Groups(s)[n] # <<>> /\ \A j \in 1..Len(Groups(s)[n]) : Groups(s)[n][j] \in {"0", "1", "2"}

Component(s, n) ==
    IF n <= Len(Groups(s)) THEN FoldLeft(LAMBDA a, c : 10 * a + Digit(c), 0, Groups(s)[n]) ELSE 0

IsBigThan(a, b) ==
    \E n \in 1..(Len(Groups(a)) + Len(Groups(b))) :
        /\ Component(a, n) > Component(b, n)
        /\ \A m \in 1..(n - 1) : Component(a, m) = Component(b, m)

NoName == <<>>
NoResult == [kind |-> "none", version |-> NoName]

VARIABLES
    dirs,        \* the entries of appRoot
    appVersion,  \* the argument
    step,        \* "call", "scan" or "done"
    verDirs,     \* the matching directories in entryList order
    k,           \* the loop's position in verDirs, 1-based
    version,     \* the greatest version so far
    found        \* what latestOfRef returned

lvars == <<dirs, appVersion, step, verDirs, k, version, found>>

TypeOK ==
    /\ dirs \subseteq DirNames
    /\ appVersion \in Args
    /\ step \in {"call", "scan", "done"}
    /\ verDirs \in Seq(DirNames) /\ Len(verDirs) <= Cardinality(DirNames)
    /\ k \in 1..Len(verDirs) + 1
    /\ version \in DirNames \cup {NoName}
    /\ found \in [kind : {"none", "ok", "notFound"}, version : DirNames \cup {NoName}]

Init ==
    /\ dirs \in SUBSET DirNames
    /\ appVersion \in Args
    /\ step = "call"
    /\ verDirs = <<>>
    /\ k = 1
    /\ version = NoName
    /\ found = NoResult

\* The version prefix: none for an empty or "latest" argument.
Prefix(arg) == IF arg \in {<<>>, Latest} THEN <<>> ELSE arg

\* A "latest" entry is returned as is; otherwise the directories starting
\* with the prefix, in name order, and the first of them to start with.
latestOfRef ==
    /\ step = "call"
    /\ LET matching == {d \in dirs : IsPrefix(Prefix(appVersion), d)}
       IN CASE Latest \in dirs ->
                 /\ found' = [kind |-> "ok", version |-> Latest]
                 /\ step' = "done"
                 /\ UNCHANGED <<verDirs, version>>
            [] matching = {} ->
                 /\ found' = [kind |-> "notFound", version |-> NoName]
                 /\ step' = "done"
                 /\ UNCHANGED <<verDirs, version>>
            [] OTHER ->
                 /\ verDirs' = SetToSortSeq(matching, NameLess)
                 /\ version' = verDirs'[1]
                 /\ step' = "scan"
                 /\ UNCHANGED found
    /\ UNCHANGED <<dirs, appVersion, k>>

ScanDir ==
    /\ step = "scan"
    /\ k <= Len(verDirs)
    /\ LET item == verDirs[k]
       IN \E bigger \in IF IsValid(version) THEN {IsBigThan(item, version)} ELSE BOOLEAN :
            version' = IF IsValid(item) /\ bigger THEN item ELSE version
    /\ k' = k + 1
    /\ UNCHANGED <<dirs, appVersion, step, verDirs, found>>

FinishScan ==
    /\ step = "scan"
    /\ k > Len(verDirs)
    /\ found' = [kind |-> "ok", version |-> version]
    /\ step' = "done"
    /\ UNCHANGED <<dirs, appVersion, verDirs, k, version>>

Next == latestOfRef \/ ScanDir \/ FinishScan

Spec == Init /\ [][Next]_lvars

-----------------------------------------------------------------------------
(***************************************************************************)
(* The reference resolution (spec 4.2, local-latest-by-prefix): a "latest" *)
(* entry takes precedence; otherwise, among the directories starting with  *)
(* the prefix (all of them for an empty prefix), the greatest by the       *)
(* version comparison, not by string comparison; not found when none       *)
(* matches.  Which of two equal versions is returned is not specified.     *)
(***************************************************************************)
Matching == {d \in dirs : IsPrefix(Prefix(appVersion), d)}

Greatest(S) == {v \in S : \A w \in S : ~IsBigThan(w, v)}

\* When the first matching directory in name order is a valid version (the
\* one latestOfRef starts from unchecked), latestOfRef returns what the
\* reference resolution picks: "1.10" above "1.2" although it sorts first,
\* a "latest" entry before any version.
StartsValid ==
    Latest \in dirs \/ Matching = {} \/ IsValid(SetToSortSeq(Matching, NameLess)[1])

=============================================================================
