---------------------------- MODULE RemoteLatest ----------------------------
(***************************************************************************)
(* OSTreeRepo::remoteLatestRef (src/src/linglong/repo/ostree_repo.cpp):    *)
(* query the remote catalog with a fuzzy reference, retry once on channel  *)
(* "linglong" when channel "main" gave an empty list, then scan the list   *)
(* for the greatest version.                                               *)
(*                                                                         *)
(* The catalog is fixed for one call and chosen in Init among all short    *)
(* lists of candidates.  A candidate carries a version (a number of the    *)
(* version order, or NoVersion when Version::parse fails) and whether its  *)
(* architecture parses.  Version::parse and its order are not under src/;  *)
(* versions are taken as numbers ordered by <, the default "0.0.0.0" as 0. *)
(***************************************************************************)
EXTENDS Naturals, Sequences, SequencesExt

CONSTANTS
    MaxVersion,  \* versions 1..MaxVersion
    MaxCands,    \* longest candidate list the server answers
    NoVersion    \* a version string Version::parse rejects

Versions == 1..MaxVersion
DefaultVersion == 0
Candidates == [version : Versions \cup {NoVersion}, archOk : BOOLEAN]
Channels == {"main", "linglong"}

VARIABLES
    catalog,        \* what the server answers per channel
    channel,        \* channel of the fuzzy reference
    phase,          \* "query", "fallback", "check", "scan" or "done"
    ret,            \* the candidate list QueryApps returned
    i,              \* loop index, 1-based
    latestVersion,
    latestIndex,
    out             \* what remoteLatestRef returned

vars == <<catalog, channel, phase, ret, i, latestVersion, latestIndex, out>>

Outcomes == [kind : {"none", "ok", "remoteErr", "notFound", "undefined"},
             index : 0..MaxCands, version : Versions \cup {DefaultVersion}]

TypeOK ==
    /\ catalog \in [Channels -> BoundedSeq(Candidates, MaxCands)]
    /\ channel \in Channels
    /\ phase \in {"query", "fallback", "check", "scan", "done"}
    /\ ret \in BoundedSeq(Candidates, MaxCands)
    /\ i \in 1..MaxCands + 1
    /\ latestVersion \in Versions \cup {DefaultVersion}
    /\ latestIndex \in 0..Len(ret)
    /\ out \in Outcomes

\* Version::parse(...).value_or(defaultVersion)
ParseOr(v, default) == IF v = NoVersion THEN default ELSE v

Return(kind, index, version) ==
    /\ phase' = "done"
    /\ out' = [kind |-> kind, index |-> index, version |-> version]

Init ==
    /\ catalog \in [Channels -> BoundedSeq(Candidates, MaxCands)]
    /\ channel \in Channels
    /\ phase = "query"
    /\ ret = <<>>
    /\ i = 1
    /\ latestVersion = DefaultVersion
    /\ latestIndex = 0
    /\ out = [kind |-> "none", index |-> 0, version |-> DefaultVersion]

\* repoClient.QueryApps(fuzzRef); an empty answer on "main" is retried on
\* "linglong", any other answer goes to the checks.
QueryApps ==
    /\ phase = "query"
    /\ \/ /\ Return("remoteErr", 0, DefaultVersion)
          /\ UNCHANGED ret
       \/ /\ ret' = catalog[channel]
          /\ phase' = IF ret' = <<>> /\ channel = "main" THEN "fallback" ELSE "check"
          /\ UNCHANGED out
    /\ UNCHANGED <<catalog, channel, i, latestVersion, latestIndex>>

\* The one retry with the channel rewritten to "linglong".
QueryFallback ==
    /\ phase = "fallback"
    /\ \/ /\ Return("remoteErr", 0, DefaultVersion)
          /\ UNCHANGED ret
       \/ /\ ret' = catalog["linglong"]
          /\ phase' = "check"
          /\ UNCHANGED out
    /\ UNCHANGED <<catalog, channel, i, latestVersion, latestIndex>>

\* An empty list is "not found"; otherwise the front candidate's version,
\* or 0.0.0.0 when it does not parse, starts the scan at index 1.
CheckResult ==
    /\ phase = "check"
    /\ \/ /\ ret = <<>>
          /\ Return("notFound", 0, DefaultVersion)
          /\ UNCHANGED <<i, latestVersion, latestIndex>>
       \/ /\ ret # <<>>
          /\ latestVersion' = ParseOr(ret[1].version, DefaultVersion)
          /\ latestIndex' = 1
          /\ i' = 2
          /\ phase' = "scan"
          /\ UNCHANGED out
    /\ UNCHANGED <<catalog, channel, ret>>

\* Mutant: the index taken one past the candidate.
ScanCandidateNextIndex ==
    /\ phase = "scan"
    /\ i <= Len(ret)
    /\ LET c == ret[i]
       IN IF c.version # NoVersion /\ c.archOk /\ latestVersion < c.version
          THEN /\ latestVersion' = c.version
               /\ latestIndex' = i + 1
          ELSE UNCHANGED <<latestVersion, latestIndex>>
    /\ i' = i + 1
    /\ UNCHANGED <<catalog, channel, phase, ret, out>>

\* Mutant: a later candidate of the same version replaces the earlier one.
ScanCandidateLastOfTie ==
    /\ phase = "scan"
    /\ i <= Len(ret)
    /\ LET c == ret[i]
       IN IF c.version # NoVersion /\ c.archOk /\ latestVersion <= c.version
          THEN /\ latestVersion' = c.version
               /\ latestIndex' = i
          ELSE UNCHANGED <<latestVersion, latestIndex>>
    /\ i' = i + 1
    /\ UNCHANGED <<catalog, channel, phase, ret, out>>

\* One round of the loop over candidates 2..n: a candidate whose version
\* or architecture does not parse is skipped (Q_ASSERT is compiled out),
\* a strictly greater version becomes the latest.
ScanCandidate ==
    /\ phase = "scan"
    /\ i <= Len(ret)
    /\ LET c == ret[i]
       IN IF c.version # NoVersion /\ c.archOk /\ latestVersion < c.version
          THEN /\ latestVersion' = c.version
               /\ latestIndex' = i
          ELSE UNCHANGED <<latestVersion, latestIndex>>
    /\ i' = i + 1
    /\ UNCHANGED <<catalog, channel, phase, ret, out>>

\* After the loop: the chosen candidate's architecture is parsed again and
\* dereferenced; when it does not parse the behaviour is undefined.
FinishScan ==
    /\ phase = "scan"
    /\ i > Len(ret)
    /\ Return(IF ret[latestIndex].archOk THEN "ok" ELSE "undefined",
              latestIndex, latestVersion)
    /\ UNCHANGED <<catalog, channel, ret, i, latestVersion, latestIndex>>

Next ==
    \/ QueryApps
    \/ QueryFallback
    \/ CheckResult
    \/ ScanCandidate
    \/ FinishScan

Spec == Init /\ [][Next]_vars

-----------------------------------------------------------------------------
(***************************************************************************)
(* The reference resolution (spec 4.2): among the candidates of the answer *)
(* after the fallback, skip those whose version or architecture does not  *)
(* parse, take the greatest version, the first one in server order on a   *)
(* tie; "not found" when no candidate is usable.                          *)
(***************************************************************************)
Usable(c) == c.version # NoVersion /\ c.archOk

Answer == IF channel = "main" /\ catalog["main"] = <<>>
          THEN catalog["linglong"] ELSE catalog[channel]

UsableVersions(s) == {s[k].version : k \in {k \in 1..Len(s) : Usable(s[k])}}

MaxOf(S) == CHOOSE v \in S : \A w \in S : w <= v

ReferenceIndex(s) ==
    SelectInSeq(s, LAMBDA c : Usable(c) /\ c.version = MaxOf(UsableVersions(s)))

MatchesReference ==
    IF UsableVersions(Answer) = {}
    THEN out.kind = "notFound"
    ELSE /\ out.kind = "ok"
         /\ out.index = ReferenceIndex(Answer)
         /\ out.version = Answer[out.index].version

\* When the server's first candidate parses, remoteLatestRef returns what
\* the reference resolution picks: the fallback is taken exactly when
\* "main" is empty, unparseable candidates are skipped, and a tie keeps the
\* first candidate in server order.
ResolvesLikeReferenceWhenFrontParses ==
    phase = "done" /\ out.kind # "remoteErr" /\ Answer # <<>> /\ Usable(Answer[1])
        => MatchesReference
=============================================================================
