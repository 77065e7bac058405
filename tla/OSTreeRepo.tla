----------------------------- MODULE OSTreeRepo -----------------------------
(***************************************************************************)
(* The content store of linglong: class OSTreeRepo (src/src/linglong/repo/ *)
(* ostree_repo.cpp) over one libostree repository handle (repoPtr).        *)
(*                                                                         *)
(* A ref names one module ("runtime" or "devel") of one package release.   *)
(* Trees are content addressed, so a commit is identified with the tree    *)
(* it stores and two refs holding the same tree share one commit object.   *)
(* Every public method is one atomic step: the object is driven by one     *)
(* caller at a time and the steps inside a method (prepare, write, set     *)
(* ref, commit) have no other actor between them.  Storage and network    *)
(* failures are free choices at every libostree call the code checks.      *)
(*                                                                         *)
(* The libostree contract used here: ostree_repo_prepare_transaction       *)
(* starts with g_return_val_if_fail(!in_transaction, FALSE), i.e. it       *)
(* refuses an open transaction without setting a GError, and               *)
(* ostree_repo_pull opens its own transaction the same way.               *)
(***************************************************************************)
EXTENDS FiniteSets, Functions

CONSTANTS
    Apps,       \* package releases channel/appId/version/arch (model values)
    Commits,    \* tree contents, content addressed (model values)
    NoCommit,   \* an unset ref
    NoRef,      \* an empty ref string passed by a caller
    Ops         \* the public methods the owning process calls

ASSUME NoCommit \notin Commits

Modules == {"runtime", "devel"}
Refs == Apps \X Modules
Ref(app, module) == <<app, module>>

OpNames == {"importDir", "importRef", "pull", "pullAll",
            "checkout", "checkoutAll", "delete"}

ASSUME Ops \subseteq OpNames

VARIABLES
    refs,     \* ref table of the local repo: Refs -> Commits \cup {NoCommit}
    objects,  \* commit objects in the repo's object store
    inTxn,    \* libostree's in_transaction flag of repoPtr
    remote,   \* ref table the remote "repos/<name>" advertises
    target,   \* commits materialized into the caller's checkout directory
    result    \* outcome of the last public call

vars == <<refs, objects, inTxn, remote, target, result>>

Result == [op : OpNames \cup {"none", "remote"}, ref : Refs \cup {NoRef},
           ok : BOOLEAN]

TypeOK ==
    /\ refs \in [Refs -> Commits \cup {NoCommit}]
    /\ objects \subseteq Commits
    /\ inTxn \in BOOLEAN
    /\ remote \in [Refs -> Commits \cup {NoCommit}]
    /\ target \subseteq Commits
    /\ result \in Result

Init ==
    /\ refs = [r \in Refs |-> NoCommit]
    /\ objects = {}
    /\ inTxn = FALSE
    /\ remote \in [Refs -> Commits \cup {NoCommit}]
    /\ target = {}
    /\ result = [op |-> "none", ref |-> NoRef, ok |-> TRUE]

Done(op, ref, ok) ==
    result' = [op |-> op, ref |-> ref, ok |-> ok]

(***************************************************************************)
(* listLocalRefs: every key of ostree_repo_list_refs.                      *)
(***************************************************************************)
listLocalRefs == {r \in Refs : refs[r] # NoCommit}

(***************************************************************************)
(* commit(): prepare_transaction, read the source tree, write it to an     *)
(* mtree, write the mtree and the commit, set the ref, commit the          *)
(* transaction.  No error path aborts the transaction.                     *)
(*                                                                         *)
(* The two GError checks after the mtree writes, as the code states them:  *)
(* line 202 returns when gErr is NULL, line 208 when it is set (a GError   *)
(* left set by write_directory_to_mtree is still set there).               *)
(***************************************************************************)
DirCheckStops(gErrSet) == ~gErrSet

MtreeCheckStops(gErrSet) == gErrSet

\* The store after commit() of tree into ref, with the failure of each
\* libostree step chosen by the caller.
CommitOutcome(ref, tree, readOk, prepErr, dirErr, mtreeErr, commitErr, txnErr) ==
    LET opened == inTxn \/ ~prepErr
        stored == /\ opened /\ readOk
                  /\ ~DirCheckStops(dirErr)
                  /\ ~MtreeCheckStops(dirErr \/ mtreeErr)
                  /\ ~commitErr
        done   == stored /\ ~txnErr
    IN [refs    |-> IF done THEN [refs EXCEPT ![ref] = tree] ELSE refs,
        objects |-> IF done THEN objects \cup {tree} ELSE objects,
        inTxn   |-> IF done THEN FALSE ELSE opened,
        ok      |-> done]

\* importDirectory(ref, path): commit(DIR, ref, path), src the tree at path.
importDirectory(ref, src) ==
    \E prepErr, dirErr, mtreeErr, commitErr, txnErr \in BOOLEAN :
        LET out == CommitOutcome(ref, src, TRUE, prepErr, dirErr,
                                 mtreeErr, commitErr, txnErr)
        IN /\ refs' = out.refs
           /\ objects' = out.objects
           /\ inTxn' = out.inTxn
           /\ Done("importDir", ref, out.ok)
           /\ UNCHANGED <<remote, target>>

\* importRef(oldRef, newRef): commit(REF, newRef, "", oldRef); reading the
\* commit of an unset oldRef fails.
importRef(oldRef, newRef) ==
    \E prepErr, dirErr, mtreeErr, commitErr, txnErr \in BOOLEAN :
        LET out == CommitOutcome(newRef, refs[oldRef], refs[oldRef] # NoCommit,
                                 prepErr, dirErr, mtreeErr, commitErr, txnErr)
        IN /\ refs' = out.refs
           /\ objects' = out.objects
           /\ inTxn' = out.inTxn
           /\ Done("importRef", newRef, out.ok)
           /\ UNCHANGED <<remote, target>>

(***************************************************************************)
(* pull(ref): ostree_repo_pull of one ref in mirror mode.  The pull runs   *)
(* in its own transaction; when repoPtr is already in one, the pull is     *)
(* refused without a GError and the code, which only tests gErr, reports  *)
(* success.  A pull of a ref the remote does not have fails.               *)
(***************************************************************************)
\* Mutant: a pull that finds nothing to fetch reports success.
PullOutcomeOkWhenMissing(rs, objs, ref, netErr) ==
    LET fetched == ~inTxn /\ ~netErr /\ remote[ref] # NoCommit
    IN [refs    |-> IF fetched THEN [rs EXCEPT ![ref] = remote[ref]] ELSE rs,
        objects |-> IF fetched THEN objs \cup {remote[ref]} ELSE objs,
        ok      |-> inTxn \/ ~netErr]

PullOutcome(rs, objs, ref, netErr) ==
    LET fetched == ~inTxn /\ ~netErr /\ remote[ref] # NoCommit
    IN [refs    |-> IF fetched THEN [rs EXCEPT ![ref] = remote[ref]] ELSE rs,
        objects |-> IF fetched THEN objs \cup {remote[ref]} ELSE objs,
        ok      |-> inTxn \/ fetched]

pull(ref) ==
    \E netErr \in BOOLEAN :
        LET out == PullOutcome(refs, objects, ref, netErr)
        IN /\ refs' = out.refs
           /\ objects' = out.objects
           /\ Done("pull", ref, out.ok)
           /\ UNCHANGED <<inTxn, remote, target>>

\* pullAll(ref): the runtime module must be pulled, the devel module is
\* pulled best effort (an error is only logged).
pullAll(app) ==
    \E netErr1, netErr2 \in BOOLEAN :
        LET rt  == PullOutcome(refs, objects, Ref(app, "runtime"), netErr1)
            dev == PullOutcome(rt.refs, rt.objects, Ref(app, "devel"), netErr2)
            out == IF rt.ok THEN dev ELSE rt
        IN /\ refs' = out.refs
           /\ objects' = out.objects
           /\ Done("pullAll", Ref(app, "runtime"), rt.ok)
           /\ UNCHANGED <<inTxn, remote>>
           /\ UNCHANGED target

(***************************************************************************)
(* checkout(ref, subPath, target): resolve the ref, ensure the target      *)
(* directory, ostree_repo_checkout_at with force_copy and union-overwrite, *)
(* so a checkout into a non-empty target merges into it.                   *)
(***************************************************************************)
\* Mutant: the error of resolving the ref is not checked.
CheckoutOutcomeUnresolved(dir, ref, ioErr) ==
    [target |-> IF ~ioErr THEN dir \cup {refs[ref]} ELSE dir,
     ok     |-> ~ioErr]

CheckoutOutcome(dir, ref, ioErr) ==
    LET resolved == refs[ref] # NoCommit
        copied   == resolved /\ ~ioErr
    IN [target |-> IF copied THEN dir \cup {refs[ref]} ELSE dir,
        ok     |-> copied]

checkout(ref) ==
    \E ioErr \in BOOLEAN :
        LET out == CheckoutOutcome(target, ref, ioErr)
        IN /\ target' = out.target
           /\ Done("checkout", ref, out.ok)
           /\ UNCHANGED <<refs, objects, inTxn, remote>>

\* Mutant: both modules checked out best effort.
checkoutAllBestEffort(app) ==
    \E ioErr1, ioErr2 \in BOOLEAN :
        LET rt  == CheckoutOutcome(target, Ref(app, "runtime"), ioErr1)
            dev == CheckoutOutcome(rt.target, Ref(app, "devel"), ioErr2)
        IN /\ target' = dev.target
           /\ Done("checkoutAll", Ref(app, "runtime"), TRUE)
           /\ UNCHANGED <<refs, objects, inTxn, remote>>

\* checkoutAll: the runtime module must check out, devel is best effort.
checkoutAll(app) ==
    \E ioErr1, ioErr2 \in BOOLEAN :
        LET rt  == CheckoutOutcome(target, Ref(app, "runtime"), ioErr1)
            dev == CheckoutOutcome(rt.target, Ref(app, "devel"), ioErr2)
        IN /\ target' = IF rt.ok THEN dev.target ELSE rt.target
           /\ Done("checkoutAll", Ref(app, "runtime"), rt.ok)
           /\ UNCHANGED <<refs, objects, inTxn, remote>>

(***************************************************************************)
(* repoDeleteDatabyRef(repoPath, ref): clear the ref with                  *)
(* set_ref_immediate, then prune in REFS_ONLY mode: every commit no ref    *)
(* reaches is deleted.  The two steps are separate; a failing prune leaves *)
(* the ref cleared.                                                        *)
(***************************************************************************)
Prune(rs, objs) == objs \cap Range(rs)

repoDeleteDatabyRef(ref) ==
    \/ /\ ref = NoRef
       /\ Done("delete", ref, FALSE)
       /\ UNCHANGED <<refs, objects, inTxn, remote, target>>
    \/ /\ ref # NoRef
       /\ \E setErr, pruneErr \in BOOLEAN :
            LET cleared == [refs EXCEPT ![ref] = NoCommit]
            IN /\ refs' = IF setErr THEN refs ELSE cleared
               /\ objects' = IF setErr \/ pruneErr THEN objects
                             ELSE Prune(cleared, objects)
               /\ Done("delete", ref, ~setErr /\ ~pruneErr)
               /\ UNCHANGED <<inTxn, remote, target>>

(***************************************************************************)
(* The remote publishes or withdraws a commit of a ref (environment).      *)
(***************************************************************************)
RemotePublish(ref, c) ==
    /\ remote' = [remote EXCEPT ![ref] = c]
    /\ Done("remote", ref, TRUE)
    /\ UNCHANGED <<refs, objects, inTxn, target>>

Next ==
    \/ "importDir" \in Ops /\ \E r \in Refs, c \in Commits : importDirectory(r, c)
    \/ "importRef" \in Ops /\ \E o, n \in Refs : importRef(o, n)
    \/ "pull" \in Ops /\ \E r \in Refs : pull(r)
    \/ "pullAll" \in Ops /\ \E a \in Apps : pullAll(a)
    \/ "checkout" \in Ops /\ \E r \in Refs : checkout(r)
    \/ "checkoutAll" \in Ops /\ \E a \in Apps : checkoutAll(a)
    \/ "delete" \in Ops /\ \E r \in Refs \cup {NoRef} : repoDeleteDatabyRef(r)
    \/ \E r \in Refs, c \in Commits \cup {NoCommit} : RemotePublish(r, c)

Spec == Init /\ [][Next]_vars

-----------------------------------------------------------------------------
(***************************************************************************)
(* Properties                                                              *)
(***************************************************************************)

\* A pull (pull or the runtime part of pullAll) that reports success has
\* made the local ref mirror what the remote advertised for it.
PullMirrorsRemote ==
    [][ /\ result'.op \in {"pull", "pullAll"}
        /\ result'.ok
        => refs'[result'.ref] = remote[result'.ref] ]_vars

\* A pull that starts with no libostree transaction open and reports
\* success has made the local ref mirror what the remote advertised for it.
\* (The service never imports, so its pulls always start that way.)
PullOutsideTxnMirrorsRemote ==
    [][ /\ ~inTxn
        /\ result'.op \in {"pull", "pullAll"}
        /\ result'.ok
        => refs'[result'.ref] = remote[result'.ref] ]_vars

\* Only the devel module is best effort: a pullAll that starts outside a
\* transaction, and any checkoutAll, report success only when the runtime
\* module was pulled, respectively its commit is in the checkout directory.
RuntimeNotBestEffort ==
    [][ /\ result'.ok
        => /\ result'.op = "pullAll" /\ ~inTxn
                => refs'[result'.ref] # NoCommit
           /\ result'.op = "checkoutAll"
                => refs[result'.ref] \in target' ]_vars
=============================================================================
