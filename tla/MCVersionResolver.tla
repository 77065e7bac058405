------------------------- MODULE MCVersionResolver -------------------------
(***************************************************************************)
(* The version resolver for TLC: one behaviour is one call, either of      *)
(* remoteLatestRef (RemoteLatest) or of latestOfRef (LocalLatest); the     *)
(* component not called stays at rest.                                     *)
(***************************************************************************)
EXTENDS Naturals, Sequences

CONSTANT NoVersion  \* a version string Version::parse rejects

VARIABLES catalog, channel, phase, ret, i, latestVersion, latestIndex, out,
          dirs, appVersion, step, verDirs, k, version, found

\* Two versions make a strict maximum and a tie; three candidates put a
\* candidate before, at and after the greatest one.
R == INSTANCE RemoteLatest WITH MaxVersion <- 2, MaxCands <- 3

\* Names that sort before their numeric order ("1.10" < "1.2"), a prefix
\* that is not a version boundary ("1.1" of "1.10"), equal versions ("2",
\* "2.0"), a name that is not a version and sorts first ("0x"), and the
\* "latest" entry.  entryList leaves hidden entries out, so no name starts
\* with ".".
L == INSTANCE LocalLatest WITH
        DirNames <- {<<"l", "a", "t", "e", "s", "t">>, <<"1", ".", "1">>,
                     <<"1", ".", "1", "0">>, <<"1", ".", "2">>, <<"2">>,
                     <<"2", ".", "0">>, <<"0", "x">>},
        Args <- {<<>>, <<"l", "a", "t", "e", "s", "t">>, <<"1", ".", "1">>, <<"1">>}

rvars == <<catalog, channel, phase, ret, i, latestVersion, latestIndex, out>>
lvars == <<dirs, appVersion, step, verDirs, k, version, found>>

\* A component at rest: no call in progress.
RemoteAtRest ==
    /\ catalog = [c \in R!Channels |-> <<>>]
    /\ channel = "main"
    /\ phase = "done"
    /\ ret = <<>>
    /\ i = 1
    /\ latestVersion = R!DefaultVersion
    /\ latestIndex = 0
    /\ out = [kind |-> "none", index |-> 0, version |-> R!DefaultVersion]

LocalAtRest ==
    /\ dirs = {}
    /\ appVersion = <<>>
    /\ step = "done"
    /\ verDirs = <<>>
    /\ k = 1
    /\ version = L!NoName
    /\ found = L!NoResult

Init == (R!Init /\ LocalAtRest) \/ (RemoteAtRest /\ L!Init)

Next == (R!Next /\ UNCHANGED lvars) \/ (L!Next /\ UNCHANGED rvars)

Spec == Init /\ [][Next]_<<rvars, lvars>>

TypeOK == R!TypeOK /\ L!TypeOK

\* remoteLatestRef resolves like the reference when the first candidate parses.
ResolvesLikeReferenceWhenFrontParses == R!ResolvesLikeReferenceWhenFrontParses

=============================================================================
