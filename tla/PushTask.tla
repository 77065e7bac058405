------------------------------ MODULE PushTask ------------------------------
(***************************************************************************)
(* OSTreeRepo::push (src/src/linglong/repo/ostree_repo.cpp) and the helpers *)
(* it calls in ostree_repo.h, against the remote's upload-task service.   *)
(*                                                                         *)
(* Each helper sends one request and blocks in a QEventLoop until the      *)
(* success or the error signal arrives, so one client step is one request  *)
(* with its answer.  The server runs beside the client: it creates tasks,  *)
(* receives files, and finishes a task that has its file as "complete" or  *)
(* "failed".  An answer can be an error although the server did the work   *)
(* (the reply was lost).  Pushes are issued one after another, at most     *)
(* MaxPushes of them; each new task gets the next task id.                 *)
(*                                                                         *)
(* Each push is of the same ref, whose tree may change between pushes (the *)
(* app rebuilt): the staging checkout directory and the archive are the   *)
(* set of trees whose files they hold.                                     *)
(***************************************************************************)
EXTENDS Naturals

CONSTANTS
    MaxPushes,     \* bound on the pushes of one behaviour
    AuthRequired,  \* the server rejects upload requests without a valid token
    Tok,           \* the bearer token sign-in returns
    NoToken,       \* the empty QString
    Trees          \* contents the pushed ref's tree can have

ASSUME MaxPushes \in Nat \ {0} /\ AuthRequired \in BOOLEAN

Tasks == 1..MaxPushes
NoTask == 0

\* Server-side task states; only "complete" and "failed" mean anything to
\* the client, every other status string makes it poll again.
TaskStatus == {"none", "pending", "processing", "complete", "failed"}

VARIABLES
    pc,           \* where push() is: "idle" or the next helper it calls
    token,        \* the token getToken() returned to push()
    remoteToken,  \* OSTreeRepo::remoteToken, sent with every upload request
    task,         \* taskID push() holds
    server,       \* status of each task on the server
    checkoutDir,  \* ~/.linglong/builder/<ref> (compressOstreeData's savePath)
    archive,      \* ~/.linglong/builder/<appId>.tgz
    pushes,       \* pushes started so far
    result,       \* what the last push() returned
    ref,          \* the tree of the ref the current push pushes
    uploaded      \* the trees in the archive each task received

vars == <<pc, token, remoteToken, task, server, checkoutDir,
          archive, pushes, result, ref, uploaded>>

PC == {"idle", "signIn", "repoInfo", "newTask", "compress", "upload", "poll"}

TypeOK ==
    /\ pc \in PC
    /\ token \in {Tok, NoToken}
    /\ remoteToken \in {Tok, NoToken}
    /\ task \in Tasks \cup {NoTask}
    /\ server \in [Tasks -> TaskStatus]
    /\ checkoutDir \subseteq Trees
    /\ archive \subseteq Trees
    /\ pushes \in 0..MaxPushes
    /\ result \in {"none", "ok", "err"}
    /\ ref \in Trees
    /\ uploaded \in [Tasks -> SUBSET Trees]

Init ==
    /\ pc = "idle"
    /\ token = NoToken
    /\ remoteToken = NoToken
    /\ task = NoTask
    /\ server = [t \in Tasks |-> "none"]
    /\ checkoutDir = {}
    /\ archive = {}
    /\ pushes = 0
    /\ result = "none"
    /\ ref \in Trees
    /\ uploaded = [t \in Tasks |-> {}]

\* push() returns r; staging is whatever it left on disk.
Return(r) ==
    /\ pc' = "idle"
    /\ result' = r

\* cleanUploadTask: remove the checkout directory and the archive.
cleanUploadTask ==
    /\ checkoutDir' = {}
    /\ archive' = {}

StartPush ==
    /\ pc = "idle"
    /\ pushes < MaxPushes
    /\ pc' = "signIn"
    /\ pushes' = pushes + 1
    /\ result' = "none"
    /\ token' = NoToken
    /\ ref' \in Trees
    /\ UNCHANGED <<remoteToken, task, server, checkoutDir, archive, uploaded>>

\* getToken(): sign in with LINGLONG_USERNAME/PASSWORD.  push() keeps the
\* token in its local ret and never stores it in remoteToken.
getToken ==
    /\ pc = "signIn"
    /\ \/ /\ token' = Tok
          /\ pc' = "repoInfo"
          /\ UNCHANGED result
       \/ /\ Return("err")
          /\ UNCHANGED token
    /\ UNCHANGED <<remoteToken, task, server, checkoutDir, archive, pushes,
                   ref, uploaded>>

\* getRepoInfo(remoteRepoName): only its error matters to push().
getRepoInfo ==
    /\ pc = "repoInfo"
    /\ \/ /\ pc' = "newTask"
          /\ UNCHANGED result
       \/ Return("err")
    /\ UNCHANGED <<token, remoteToken, task, server, checkoutDir,
                   archive, pushes, ref, uploaded>>

\* newUploadTask(req) with remoteToken.  A server that checks tokens
\* answers an empty one with an error; a task the server created can still
\* reach the client as an error when the reply is lost.
Accepts(tok) == ~AuthRequired \/ tok = Tok

\* Mutant: the task id taken one past the task the server created.
newUploadTaskNextId ==
    /\ pc = "newTask"
    /\ \/ /\ Accepts(remoteToken)
          /\ server' = [server EXCEPT ![pushes] = "pending"]
          /\ \/ /\ task' = pushes + 1
                /\ pc' = "compress"
                /\ UNCHANGED result
             \/ /\ Return("err")
                /\ UNCHANGED task
       \/ /\ Return("err")
          /\ UNCHANGED <<server, task>>
    /\ UNCHANGED <<token, remoteToken, checkoutDir, archive, pushes,
                   ref, uploaded>>

newUploadTask ==
    /\ pc = "newTask"
    /\ \/ /\ Accepts(remoteToken)
          /\ server' = [server EXCEPT ![pushes] = "pending"]
          /\ \/ /\ task' = pushes
                /\ pc' = "compress"
                /\ UNCHANGED result
             \/ /\ Return("err")
                /\ UNCHANGED task
       \/ /\ Return("err")
          /\ UNCHANGED <<server, task>>
    /\ UNCHANGED <<token, remoteToken, checkoutDir, archive, pushes,
                   ref, uploaded>>

\* compressOstreeData(ref): ensure builder/<ref.id>, check the ref out into
\* it with OSTREE_REPO_CHECKOUT_OVERWRITE_UNION_FILES, so files already
\* there and not in the tree stay (a failed checkout returns with the
\* directory as it was; files it may have written are not tracked), then
\* tar the whole directory into builder/<appId>.tgz, whose error is not
\* checked, and return the archive path.
compressOstreeData ==
    /\ pc = "compress"
    /\ \/ /\ checkoutDir' = checkoutDir \cup {ref}
          /\ archive' = checkoutDir'
          /\ pc' = "upload"
          /\ UNCHANGED result
       \/ /\ Return("err")
          /\ UNCHANGED <<checkoutDir, archive>>
    /\ UNCHANGED <<token, remoteToken, task, server, pushes, ref, uploaded>>

\* doUploadTask(taskID, filePath): the server receives the archive; an
\* error returns without cleanup.
doUploadTask ==
    /\ pc = "upload"
    /\ \/ /\ Accepts(remoteToken)
          /\ server' = [server EXCEPT ![task] = "processing"]
          /\ uploaded' = [uploaded EXCEPT ![task] = archive]
          /\ \/ /\ pc' = "poll"
                /\ UNCHANGED result
             \/ Return("err")
       \/ /\ Return("err")
          /\ UNCHANGED <<server, uploaded>>
    /\ UNCHANGED <<token, remoteToken, task, checkoutDir, archive, pushes, ref>>

\* One round of getUploadStatus's loop (uploadTaskInfo with remoteToken)
\* and what push() does with its outcome: an error answer or "failed"
\* returns an error, "complete" success, both after cleanUploadTask; any
\* other status sleeps a second and polls again.
\* Mutant: the loop stops at any status that is not "failed".
PollOutcomeStopsEarly(status, netErr) ==
    CASE netErr               -> "err"
      [] status = "failed"    -> "err"
      [] OTHER                -> "ok"

\* Mutant: the loop waits for "complete" only.
PollOutcomeIgnoresFailed(status, netErr) ==
    CASE netErr               -> "err"
      [] status = "complete"  -> "ok"
      [] OTHER                -> "again"

PollOutcome(status, netErr) ==
    CASE netErr               -> "err"
      [] status = "complete"  -> "ok"
      [] status = "failed"    -> "err"
      [] OTHER                -> "again"

\* A round of the loop whose request failed in transport (netErr) or was
\* answered; a round that polls again changes nothing.
PollRound(netErr) ==
    /\ pc = "poll"
    /\ LET out == PollOutcome(server[task], netErr \/ ~Accepts(remoteToken))
       IN /\ out # "again"
          /\ Return(out)
          /\ cleanUploadTask
    /\ UNCHANGED <<token, remoteToken, task, server, pushes, ref, uploaded>>

getUploadStatus == \E netErr \in BOOLEAN : PollRound(netErr)

\* The server finishes a task whose file it received.
ServerFinish(t) ==
    /\ server[t] = "processing"
    /\ \E s \in {"complete", "failed"} : server' = [server EXCEPT ![t] = s]
    /\ UNCHANGED <<pc, token, remoteToken, task, checkoutDir,
                   archive, pushes, result, ref, uploaded>>

Client ==
    \/ StartPush
    \/ getToken
    \/ getRepoInfo
    \/ newUploadTask
    \/ compressOstreeData
    \/ doUploadTask
    \/ getUploadStatus

Next == Client \/ \E t \in Tasks : ServerFinish(t)

\* A push in progress is never abandoned by its blocking caller, every
\* request is eventually answered (a transport error is possible, never
\* forced), and the server eventually finishes a task it has the file of.
\* Starting a push is up to the user.
Fairness ==
    /\ WF_vars(getToken \/ getRepoInfo \/ newUploadTask \/ compressOstreeData
               \/ doUploadTask \/ PollRound(FALSE))
    /\ \A t \in Tasks : WF_vars(ServerFinish(t))

Spec == Init /\ [][Next]_vars /\ Fairness

-----------------------------------------------------------------------------
(***************************************************************************)
(* Properties                                                              *)
(***************************************************************************)

\* push() reports success only for a task the server finished as complete.
OkOnlyIfComplete ==
    result = "ok" => server[task] = "complete"

\* getUploadStatus has no timeout: a started push returns once the server
\* finishes the task, whether as complete or as failed.
PushReturns ==
    pc # "idle" ~> pc = "idle"

\* Spec 5 (push): staging is deleted on success and on failure, so each
\* push uploads the ref's tree as it is.  push() returns before
\* cleanUploadTask on every error up to the upload, and the union checkout
\* keeps what an earlier push left: a push reported ok uploaded exactly
\* the tree of the ref it pushed.
UploadHoldsPushedRef ==
    result = "ok" => uploaded[task] = {ref}
=============================================================================
