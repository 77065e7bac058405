----------------------------- MODULE TmpRepoPull -----------------------------
(***************************************************************************)
(* OSTreeRepo::repoPullbyCmd and createTmpRepo                             *)
(* (src/src/linglong/repo/ostree_repo.cpp): pull one ref from the remote   *)
(* into a temporary repo under <root>/.cache whose parent is the real     *)
(* repo, then pull it from that repo (file://) into the real repo, and    *)
(* remove the temporary directory.                                         *)
(*                                                                         *)
(* Each libostree call is one step, so the remote can move the ref and    *)
(* the process can die between them.  The temporary repo is represented  *)
(* by what is on disk: the directory and the ref it holds.                *)
(***************************************************************************)
EXTENDS Naturals

CONSTANTS
    Commits,   \* commits the remote can advertise for the ref (model values)
    NoCommit,  \* the ref is not set
    MaxCalls   \* bound on the calls of one behaviour

ASSUME NoCommit \notin Commits /\ MaxCalls \in Nat \ {0}

VARIABLES
    up,        \* the process runs
    pc,        \* the step repoPullbyCmd takes next, "idle" between calls
    tmpPath,   \* "none", "empty" (the QString() createTmpRepo returns) or "dir"
    tmpRef,    \* the ref in the temporary repo
    leaked,    \* temporary directories left under .cache
    destRef,   \* the ref in the real repo
    remoteRef, \* the commit the remote advertises
    calls,     \* calls started
    result     \* what the last call returned: "none", "ok" or "err"

vars == <<up, pc, tmpPath, tmpRef, leaked, destRef, remoteRef, calls, result>>

Steps == {"idle", "create", "openTmp", "addRemote", "pullTmp", "openDest", "pullDest"}

TypeOK ==
    /\ up \in BOOLEAN
    /\ pc \in Steps
    /\ tmpPath \in {"none", "empty", "dir"}
    /\ tmpRef \in Commits \cup {NoCommit}
    /\ leaked \in 0..MaxCalls
    /\ destRef \in Commits \cup {NoCommit}
    /\ remoteRef \in Commits \cup {NoCommit}
    /\ calls \in 0..MaxCalls
    /\ result \in {"none", "ok", "err"}

Init ==
    /\ up = TRUE
    /\ pc = "idle"
    /\ tmpPath = "none"
    /\ tmpRef = NoCommit
    /\ leaked = 0
    /\ destRef \in Commits \cup {NoCommit}
    /\ remoteRef \in Commits \cup {NoCommit}
    /\ calls = 0
    /\ result = "none"

\* An error return: the temporary directory, if one was made, stays.
Fail ==
    /\ pc' = "idle"
    /\ result' = "err"
    /\ leaked' = IF tmpPath = "dir" THEN leaked + 1 ELSE leaked
    /\ tmpPath' = "none"
    /\ tmpRef' = NoCommit

Proceed(next) ==
    /\ pc' = next
    /\ UNCHANGED <<result, leaked, tmpPath, tmpRef>>

Call ==
    /\ up /\ pc = "idle" /\ calls < MaxCalls
    /\ pc' = "create"
    /\ calls' = calls + 1
    /\ result' = "none"
    /\ UNCHANGED <<up, tmpPath, tmpRef, leaked, destRef, remoteRef>>

(***************************************************************************)
(* createTmpRepo: a QTemporaryDir that is not valid makes it return an     *)
(* empty QString as its success value; otherwise the directory is kept     *)
(* (setAutoRemove(false)) and ostree_repo_create and write_config run in   *)
(* it, either of which returns an error with the directory left.           *)
(***************************************************************************)
createTmpRepo ==
    /\ up /\ pc = "create"
    /\ \/ /\ tmpPath' = "empty"
          /\ pc' = "openTmp"
          /\ UNCHANGED <<result, leaked, tmpRef>>
       \/ /\ tmpPath' = "dir"
          /\ pc' = "openTmp"
          /\ UNCHANGED <<result, leaked, tmpRef>>
       \/ /\ result' = "err"
          /\ pc' = "idle"
          /\ leaked' = leaked + 1
          /\ UNCHANGED <<tmpPath, tmpRef>>
    /\ UNCHANGED <<up, destRef, remoteRef, calls>>

\* ostree_repo_open of the temporary repo; at the empty path it fails.
openTmp ==
    /\ up /\ pc = "openTmp"
    /\ \/ /\ tmpPath = "dir"
          /\ Proceed("addRemote")
       \/ Fail
    /\ UNCHANGED <<up, destRef, remoteRef, calls>>

\* ostree_repo_remote_add of endpoint/repos/<remoteName>.
addRemote ==
    /\ up /\ pc = "addRemote"
    /\ \/ Proceed("pullTmp")
       \/ Fail
    /\ UNCHANGED <<up, destRef, remoteRef, calls>>

\* ostree_repo_pull into the temporary repo in mirror mode; a ref the
\* remote does not have fails.
pullTmp ==
    /\ up /\ pc = "pullTmp"
    /\ \/ /\ remoteRef # NoCommit
          /\ tmpRef' = remoteRef
          /\ pc' = "openDest"
          /\ UNCHANGED <<result, leaked, tmpPath>>
       \/ Fail
    /\ UNCHANGED <<up, destRef, remoteRef, calls>>

\* ostree_repo_open of a second OstreeRepo on <destPath>/repo.
openDest ==
    /\ up /\ pc = "openDest"
    /\ \/ Proceed("pullDest")
       \/ Fail
    /\ UNCHANGED <<up, destRef, remoteRef, calls>>

\* ostree_repo_pull_with_options from file://<tmp> into the real repo, then
\* removeDir of the temporary directory.
PullSource == tmpRef

pullDest ==
    /\ up /\ pc = "pullDest"
    /\ \/ /\ destRef' = PullSource
          /\ pc' = "idle"
          /\ result' = "ok"
          /\ tmpPath' = "none"
          /\ tmpRef' = NoCommit
          /\ UNCHANGED leaked
       \/ /\ Fail
          /\ UNCHANGED destRef
    /\ UNCHANGED <<up, remoteRef, calls>>

\* The remote moves the ref (environment).
RemotePublish(c) ==
    /\ remoteRef' = c
    /\ UNCHANGED <<up, pc, tmpPath, tmpRef, leaked, destRef, calls, result>>

\* The process dies; a call in progress is gone with its temporary
\* directory left on disk.
Crash ==
    /\ up
    /\ up' = FALSE
    /\ pc' = "idle"
    /\ leaked' = IF tmpPath = "dir" THEN leaked + 1 ELSE leaked
    /\ tmpPath' = "none"
    /\ tmpRef' = NoCommit
    /\ UNCHANGED <<destRef, remoteRef, calls, result>>

Restart ==
    /\ ~up
    /\ up' = TRUE
    /\ UNCHANGED <<pc, tmpPath, tmpRef, leaked, destRef, remoteRef, calls, result>>

Next ==
    \/ Call
    \/ createTmpRepo
    \/ openTmp
    \/ addRemote
    \/ pullTmp
    \/ openDest
    \/ pullDest
    \/ \E c \in Commits \cup {NoCommit} : RemotePublish(c)
    \/ Crash
    \/ Restart

Spec == Init /\ [][Next]_vars

-----------------------------------------------------------------------------
(***************************************************************************)
(* Properties                                                              *)
(***************************************************************************)

\* Every call that returns, with success or with an error, has removed the
\* temporary repo it created (spec 4.4: deleted unconditionally afterward).
ReturnRemovesTmpRepo ==
    [][ up' /\ pc # "idle" /\ pc' = "idle" => leaked' = leaked ]_vars
=============================================================================
