------------------------------ MODULE GitRepo ------------------------------
(***************************************************************************)
(* The local clone of a repository, internal/git/util.go: CloneRepo and    *)
(* GetLatestManifests, run by several users of one clone directory.  The   *)
(* directory is <base>/<GitSync name>/<hash of the URL>, so GitSyncs with  *)
(* the same name in different namespaces, and two workers with the same    *)
(* key, share it, and nothing locks it.                                    *)
(*                                                                         *)
(* go-git and the remote are external: the history is a root commit with   *)
(* one line of commits per branch, which a forced push may replace by one  *)
(* other commit; Checkout and Pull are one step each.                      *)
(***************************************************************************)
EXTENDS Naturals, FiniteSets

CONSTANTS
    Users,        \* the runs of GetLatestManifests that share the directory
    Branches,     \* branches of the remote
    Default,      \* the branch the remote's HEAD names
    MainNames,    \* those called "main" or "master"
    Tags,         \* lightweight tags
    Annotated,    \* annotated tags
    FirstTargets, \* the target revisions users start with
    Sources,      \* the source sections a spec may have: sets of SourceTypes
    NoBranch,     \* HEAD names no existing branch
    MaxCommits,   \* bound: commits per branch after the root
    Budgets       \* bounds: how many forced pushes, changes of spec.targetRevision,
                  \* failing git requests and restarts there may be

ASSUME BranchAssumption ==
    /\ Default \in Branches /\ MainNames \subseteq Branches /\ NoBranch \notin Branches
    /\ Branches \cap (Tags \cup Annotated) = {} /\ Tags \cap Annotated = {}
BudgetFields == {"rewrites", "edits", "faults", "crashes"}
ASSUME BoundsAssumption == MaxCommits \in Nat /\ Budgets \subseteq [BudgetFields -> Nat]

SourceTypes == {"kustomize", "helm", "raw"}
ASSUME SourcesAssumption == Sources \subseteq SUBSET SourceTypes

\* A commit is <<branch, n>>; all branches fork from Root, which the tags name.
\* Rewritten(b) is the commit that a forced push puts in place of b's history.
Root == <<Default, 0>>
NoCommit == <<NoBranch, 0>>
Rewritten(b) == <<b, MaxCommits + 1>>
Commits == {Root} \cup (Branches \X (1 .. MaxCommits + 1))
Targets == Branches \cup Tags \cup Annotated \cup Commits

\* The name of a branch or a tag is not taken for a commit hash.
ASSUME NamesAssumption == /\ NoBranch \notin Targets
                          /\ Commits \cap (Branches \cup Tags \cup Annotated) = {}
ASSUME FirstTargetsAssumption == FirstTargets \subseteq Targets /\ FirstTargets # {}

\* Commit c is d or one of its ancestors.
Behind(c, d) == c = d \/ c = Root \/ (c[1] = d[1] /\ c[2] <= d[2] /\ d[2] <= MaxCommits)

VARIABLES
    remote,   \* remote[b]: the commit branch b of the remote is at
    dir,      \* the clone directory: "absent", "cloning" or "cloned"
    heads,    \* heads[b]: refs/heads/b of the clone, or NoCommit
    head,     \* the branch HEAD of the clone names, or NoBranch
    worktree, \* the commit the working tree was last reset to
    user,     \* user[u]: where user u is, see UserStates
    result,   \* result[u]: what GetLatestManifests last returned to u
    budget    \* what is left of one of the Budgets

gitVars == <<remote, dir, heads, head, worktree, user, result, budget>>

\* target, source: of the spec; branch: the local variable; hash: the resolved
\* commit; seen: history, the remote when the run started.
UserStates == [pc : {"out", "clone", "cloning", "branch", "fetch", "checkout", "again",
                     "pull", "resolve", "build"},
               target : Targets, source : Sources, branch : Branches \cup {NoBranch},
               hash : Commits \cup {NoCommit}, seen : [Branches -> Commits]]

NoResult == [target |-> NoCommit, hash |-> NoCommit, content |-> NoCommit,
             seen |-> [b \in Branches |-> Root]]
Results == [target : Targets, hash : Commits, content : Commits \cup {NoCommit},
            seen : [Branches -> Commits]]

Spend(field) == /\ budget[field] > 0
                /\ budget' = [budget EXCEPT ![field] = @ - 1]

At(u, pc) == user[u].pc = pc
Goto(u, pc) == user' = [user EXCEPT ![u].pc = pc]

GInit == /\ remote = [b \in Branches |-> Root]
         /\ dir = "absent"
         /\ heads = [b \in Branches |-> NoCommit]
         /\ head = NoBranch
         /\ worktree = NoCommit
         /\ user \in [Users -> [pc : {"out"}, target : FirstTargets, source : Sources,
                                branch : {NoBranch}, hash : {NoCommit}, seen : {remote}]]
         /\ result = [u \in Users |-> NoResult]
         /\ budget \in Budgets

\* Return to the caller: runOnce goes on or gives up, and runs again later.
Leave(u) == user' = [user EXCEPT ![u].pc = "out", ![u].branch = NoBranch,
                                 ![u].hash = NoCommit]

-----------------------------------------------------------------------------
\* Somebody pushes a commit to the remote.
Push(b) == LET n == IF remote[b] = Root THEN 0 ELSE remote[b][2] IN
           /\ n < MaxCommits
           /\ remote' = [remote EXCEPT ![b] = <<b, n + 1>>]
           /\ UNCHANGED <<dir, heads, head, worktree, user, result, budget>>

\* Somebody replaces the history of a branch by a forced push.
ForcePush(b) ==
    /\ Spend("rewrites")
    /\ remote[b] \notin {Root, Rewritten(b)}
    /\ remote' = [remote EXCEPT ![b] = Rewritten(b)]
    /\ UNCHANGED <<dir, heads, head, worktree, user, result>>

\* Somebody changes spec.targetRevision; a run has its own copy of the spec.
EditTarget(u) ==
    /\ Spend("edits")
    /\ At(u, "out")
    /\ \E t \in FirstTargets \ {user[u].target} : user' = [user EXCEPT ![u].target = t]
    /\ UNCHANGED <<remote, dir, heads, head, worktree, result>>

Begin(u) == /\ At(u, "out")
            /\ user' = [user EXCEPT ![u].pc = "clone", ![u].seen = remote]
            /\ UNCHANGED <<remote, dir, heads, head, worktree, result, budget>>

\* CloneRepo returns before it touches the directory: the credentials, a secret
\* or the options cannot be had.
CredentialsFail(u) ==
    /\ Spend("faults")
    /\ At(u, "clone")
    /\ Leave(u)
    /\ UNCHANGED <<remote, dir, heads, head, worktree, result>>

\* PlainClone makes the repository, unless it exists and is opened.
CloneOrOpen(u) ==
    /\ At(u, "clone")
    /\ \/ dir = "absent" /\ dir' = "cloning" /\ Goto(u, "cloning")
       \/ dir # "absent" /\ UNCHANGED dir /\ Goto(u, "branch")
    /\ UNCHANGED <<remote, heads, head, worktree, result, budget>>

\* Mutant: a bare clone.
ClonesBare(u) ==
    /\ At(u, "cloning")
    /\ dir' = "cloned"
    /\ heads' = [heads EXCEPT ![Default] = remote[Default]]
    /\ Goto(u, "branch")
    /\ UNCHANGED <<remote, head, worktree, result, budget>>

\* The clone completes: the default branch is created and checked out, the
\* other branches are known as refs/remotes/origin/* only.
CloneCompletes(u) ==
    /\ At(u, "cloning")
    /\ dir' = "cloned"
    /\ heads' = [heads EXCEPT ![Default] = remote[Default]]
    /\ head' = Default
    /\ worktree' = remote[Default]
    /\ Goto(u, "branch")
    /\ UNCHANGED <<remote, result, budget>>

\* fetchUpdates up to the first call that touches the repository: fetch and
\* check out only if HEAD is not on the target; no fetch for main and master.
ReadBranch(u) ==
    /\ At(u, "branch")
    /\ user' = [user EXCEPT
                  ![u].branch = head,
                  ![u].pc = IF head = user[u].target THEN "pull"
                            ELSE IF user[u].target \in MainNames THEN "checkout"
                            ELSE "fetch"]
    /\ UNCHANGED <<remote, dir, heads, head, worktree, result, budget>>

\* fetchAll with the refspec refs/*:refs/* and Force: all local branches move,
\* whichever is checked out, and the working tree does not.  (Here and below, "absent":
\* the failed clone of another run has removed the directory meanwhile.)
FetchAll(u) ==
    /\ At(u, "fetch")
    /\ \/ dir # "absent" /\ heads' = remote /\ Goto(u, "checkout")
       \/ dir = "absent" /\ UNCHANGED heads /\ Leave(u)
    /\ UNCHANGED <<remote, dir, head, worktree, result, budget>>

\* Mutant: the branch is looked up, the tag and the commit are not.
OnlyBranch(t) == {b \in Branches : b = t /\ heads[b] # NoCommit}

\* The commit of an annotated tag is not found, because its reference names
\* the tag object.
BranchesContainingTag(t) == {b \in Branches : t \in Tags /\ heads[b] # NoCommit}

BranchesContainingCommit(t) ==
    {b \in Branches : t \in Commits /\ heads[b] # NoCommit /\ Behind(t, heads[b])}

\* The branches checkoutRepo may choose: the one called t, else one that
\* contains tag t, else one that contains commit t.
CheckoutBranches(t) ==
    {b \in Branches : b = t /\ heads[b] # NoCommit}
        \cup BranchesContainingTag(t) \cup BranchesContainingCommit(t)

\* checkoutRepo: HEAD and the working tree go to the tip of the branch.
Checkout(u) ==
    /\ At(u, "checkout")
    /\ \/ \E b \in CheckoutBranches(user[u].target) :
             /\ head' = b
             /\ worktree' = heads[b]
             /\ Goto(u, "again")
       \/ /\ CheckoutBranches(user[u].target) = {}
          /\ Leave(u)
          /\ UNCHANGED <<head, worktree>>
    /\ UNCHANGED <<remote, dir, heads, result, budget>>

\* GetCurrentBranch after the checkout.
ReadBranchAgain(u) ==
    /\ At(u, "again")
    /\ \/ head # NoBranch /\ user' = [user EXCEPT ![u].branch = head, ![u].pc = "pull"]
       \/ head = NoBranch /\ Leave(u)
    /\ UNCHANGED <<remote, dir, heads, head, worktree, result, budget>>

\* Mutant: what is there is good enough.
NoPull(u) ==
    /\ At(u, "pull")
    /\ Goto(u, "resolve")
    /\ UNCHANGED <<remote, dir, heads, head, worktree, result, budget>>

\* Mutant: the branch moves, the files stay.
PullsWithoutFiles(u) ==
    LET theirs == remote[user[u].branch]
    IN /\ At(u, "pull")
       /\ heads' = [heads EXCEPT ![head] = theirs]
       /\ Goto(u, "resolve")
       /\ UNCHANGED <<remote, dir, head, worktree, result, budget>>

\* worktree.Pull of the branch read before, into the branch HEAD names now: a
\* fast-forward; nothing (or an error, when the fetch had news) if that branch
\* is ahead; an error if they have diverged.  HEAD names no branch only when the
\* failed clone of another run has removed the directory; if yet another one is
\* making it again, the pull may succeed on the branch that is not there yet.
Pull(u) ==
    LET theirs == remote[user[u].branch]
        ours == heads[head]
    IN /\ At(u, "pull")
       /\ \/ head = NoBranch /\ Leave(u) /\ UNCHANGED <<heads, worktree>>
          \/ /\ head = NoBranch /\ dir = "cloning"
             /\ worktree' = theirs
             /\ Goto(u, "resolve")
             /\ UNCHANGED heads
          \/ /\ head # NoBranch /\ Behind(ours, theirs)
             /\ heads' = [heads EXCEPT ![head] = theirs]
             /\ worktree' = theirs
             /\ Goto(u, "resolve")
          \/ /\ head # NoBranch /\ Behind(theirs, ours) /\ ours # theirs
             /\ Goto(u, "resolve") \/ Leave(u)
             /\ UNCHANGED <<heads, worktree>>
          \/ /\ head # NoBranch /\ ~Behind(theirs, ours) /\ ~Behind(ours, theirs)
             /\ Leave(u)
             /\ UNCHANGED <<heads, worktree>>
       /\ UNCHANGED <<remote, dir, head, result, budget>>

\* Mutant: the commit of HEAD.
HashOfHead(t) == heads[head]

\* getLatestCommitHash: the commit the target resolves to in the clone.
HashOf(t) == IF t \in Branches THEN heads[t] ELSE IF t \in Commits THEN t ELSE Root

Resolve(u) ==
    /\ At(u, "resolve")
    /\ \/ /\ HashOf(user[u].target) # NoCommit
          /\ user' = [user EXCEPT ![u].hash = HashOf(user[u].target), ![u].pc = "build"]
       \/ HashOf(user[u].target) = NoCommit /\ Leave(u)
    /\ UNCHANGED <<remote, dir, heads, head, worktree, result, budget>>

\* ExplicitType: no section means raw, several are an error.
ExplicitType(source) == IF source = {} THEN "raw"
                        ELSE IF Cardinality(source) > 1 THEN "error"
                        ELSE CHOOSE t \in source : TRUE

\* rawTemplate reads the tree of the commit; kustomize and helm read files.
ContentOf(u) == IF ExplicitType(user[u].source) = "raw" THEN user[u].hash ELSE worktree

\* The manifests are built, and GetLatestManifests returns.
Build(u) ==
    /\ At(u, "build")
    /\ result' = IF ExplicitType(user[u].source) = "error" THEN result
                 ELSE [result EXCEPT ![u] = [target |-> user[u].target, hash |-> user[u].hash,
                                             content |-> ContentOf(u), seen |-> user[u].seen]]
    /\ Leave(u)
    /\ UNCHANGED <<remote, dir, heads, head, worktree, budget>>

\* A git request, or the build, fails.  A failed clone removes the directory.
Fails(u) ==
    /\ Spend("faults")
    /\ user[u].pc \in {"cloning", "fetch", "pull", "build"}
    /\ \/ /\ At(u, "cloning")
          /\ dir' = "absent"
          /\ heads' = [b \in Branches |-> NoCommit]
          /\ head' = NoBranch
          /\ worktree' = NoCommit
       \/ ~At(u, "cloning") /\ UNCHANGED <<dir, heads, head, worktree>>
    /\ Leave(u)
    /\ UNCHANGED <<remote, result>>

\* The process restarts; the directory is on a persistent volume.
Crash == /\ Spend("crashes")
         /\ user' = [u \in Users |-> [user[u] EXCEPT !.pc = "out", !.branch = NoBranch,
                                                      !.hash = NoCommit]]
         /\ UNCHANGED <<remote, dir, heads, head, worktree, result>>

RunStep(u) == \/ Begin(u) \/ CloneOrOpen(u) \/ CloneCompletes(u) \/ ReadBranch(u)
              \/ FetchAll(u) \/ Checkout(u) \/ ReadBranchAgain(u) \/ Pull(u)
              \/ Resolve(u) \/ Build(u)

GNext == \/ \E b \in Branches : Push(b) \/ ForcePush(b)
         \/ \E u \in Users : RunStep(u) \/ EditTarget(u) \/ Fails(u) \/ CredentialsFail(u)
         \/ Crash

GSpec == GInit /\ [][GNext]_gitVars

\* Every GitSync is picked up again and again, and git requests return.
FairGSpec == GSpec /\ \A u \in Users : WF_gitVars(RunStep(u))

-----------------------------------------------------------------------------
\* Every variable has its type, and HEAD of a complete clone names a branch
\* that exists in it.
GTypeOK == /\ remote \in [Branches -> Commits]
           /\ dir \in {"absent", "cloning", "cloned"}
           /\ heads \in [Branches -> Commits \cup {NoCommit}]
           /\ head \in Branches \cup {NoBranch}
           /\ worktree \in Commits \cup {NoCommit}
           /\ user \in [Users -> UserStates]
           /\ result \in [Users -> Results \cup {NoResult}]
           /\ budget \in [BudgetFields -> Nat]
           /\ dir = "cloned" => head # NoBranch /\ heads[head] # NoCommit

Returned == {u \in Users : result[u] # NoResult}

\* The hash recorded in status.commitStatus belongs to the target revision: a
\* commit of that branch (of its earlier history if that was rewritten), the
\* tag's commit, or the commit itself, although the clone's branches are moved
\* by fetches and pulls of other runs.
HashIsOfTarget ==
    \A u \in Returned : LET t == result[u].target
                            h == result[u].hash IN
        /\ t \in Branches => \/ Behind(h, remote[t])
                             \/ h[1] = t /\ remote[t] = Rewritten(t)
        /\ t \in Commits => h = t
        /\ t \in Tags \cup Annotated => h = Root

\* A run on a branch returns a commit no older than the branch was on the
\* remote when the run started; in particular never one of a history that had
\* been rewritten by then, although the clone keeps it.
RunIsFresh ==
    \A u \in Returned : LET t == result[u].target IN
        t \in Branches => \/ Behind(result[u].seen[t], result[u].hash)
                          \/ result[u].hash = Rewritten(t)

\* The manifests are those of the commit whose hash is returned with them, for
\* every source type, as long as the target is a branch: the files kustomize
\* and helm read were reset to the commit the target then resolves to.
BranchManifestsMatchHash ==
    \A u \in Returned : result[u].target \in Branches => result[u].content = result[u].hash

\* The same for every target.
ManifestsMatchHash == \A u \in Returned : result[u].content = result[u].hash

\* The clone has a branch that is no ancestor of the remote's, because the
\* remote's was rewritten.
Diverged(b) == heads[b] # NoCommit /\ ~Behind(heads[b], remote[b])

\* A spec that names at most one kind of source.
OneSource(u) == ExplicitType(user[u].source) # "error"

\* Once the branch a GitSync follows stays at a commit, that commit is what
\* its runs return, after failed requests, changes of the target, restarts and
\* forced pushes, unless the clone is left with the history before the push.
\* (For main and master: provided the clone got that far, see FollowsMain.)
BranchIsFollowed ==
    \A u \in Users, b \in Branches, c \in Commits :
        <>[](/\ user[u].target = b /\ remote[b] = c /\ ~Diverged(b) /\ OneSource(u)
             /\ b \in MainNames => heads[b] # NoCommit)
            => <>[](u \in Returned /\ result[u].target = b /\ result[u].hash = c)

\* The same for a rewritten branch: pulls are made with Force.
RewriteIsFollowed ==
    \A u \in Users, b \in Branches :
        <>[](/\ user[u].target = b /\ remote[b] = Rewritten(b) /\ OneSource(u)
             /\ heads[b] # NoCommit)
            => <>(u \in Returned /\ result[u].target = b /\ result[u].hash = Rewritten(b))

\* The same for main and master, unconditionally: "no need to fetch the
\* references if the target revision is already main or master".
FollowsMain ==
    \A u \in Users, b \in MainNames, c \in Commits :
        <>[](user[u].target = b /\ remote[b] = c /\ OneSource(u))
            => <>[](u \in Returned /\ result[u].target = b /\ result[u].hash = c)

\* A target revision that is a lightweight tag ends up returning the commit of
\* the tag, whichever branch is checked out for it, and for a raw source the
\* manifests of that commit.  (kustomize and helm read the files of the branch
\* instead: see ManifestsMatchHash.)
TagIsSynced ==
    \A u \in Users, t \in Tags :
        <>[](user[u].target = t /\ OneSource(u))
            => <>[](/\ u \in Returned
                    /\ result[u].target = t /\ result[u].hash = Root
                    /\ ExplicitType(user[u].source) = "raw" => result[u].content = Root)

\* So does an annotated one: "the revision can be a branch, a tag, or a commit
\* hash".
AnnotatedIsSynced ==
    \A u \in Users, t \in Annotated :
        <>[](user[u].target = t /\ OneSource(u))
            => <>(u \in Returned /\ result[u].target = t)
=============================================================================
