--------------------------- MODULE GitRepoProofs ---------------------------
(***************************************************************************)
(* Proofs about the clone of a repository, for every set of branches, tags *)
(* and targets, any number of commits, forced pushes, failing requests and *)
(* restarts.  The types hold for any number of users of the directory; what *)
(* a run returns is proved for a directory with one user (OneUser), because *)
(* nothing locks it and two users do mix up their branches.                *)
(***************************************************************************)
EXTENDS GitRepo, TLAPS

\* Commit c belongs to branch b, which is at d: to its history, or to the one
\* a forced push has replaced.
OfBranch(c, d, b) == Behind(c, d) \/ (c[1] = b /\ d = Rewritten(b))

\* Commit d is no older than c on branch b, or b was rewritten to it.
Newer(c, d, b) == Behind(c, d) \/ d = Rewritten(b)

\* A branch of the remote is at the root or at a commit of its own.
RemoteInv == \A b \in Branches : remote[b] = Root \/ remote[b][1] = b

\* HEAD names a branch that exists, and a complete clone has a HEAD.
HeadInv == /\ dir = "cloned" => head # NoBranch
           /\ head # NoBranch => heads[head] # NoCommit

\* What is pulled is a branch, and what is built is a commit.
LocalsInv == \A u \in Users : /\ At(u, "pull") => user[u].branch \in Branches
                              /\ At(u, "build") => user[u].hash \in Commits

\* The remote only moves on from what a run saw when it started.
SeenInv == \A u \in Users, b \in Branches : Newer(user[u].seen[b], remote[b], b)

\* The inductive invariant of any number of users.
GInv == GTypeOK /\ RemoteInv /\ HeadInv /\ LocalsInv /\ SeenInv

\* At most one run at a time uses the directory.
OneUser == \A u, v \in Users : u = v

\* A branch of the clone is at a commit that the remote's has or had.
HeadsInv == \A b \in Branches : heads[b] = NoCommit \/ OfBranch(heads[b], remote[b], b)

\* Hash h is one of target t, when the branches of the remote are at rem.
IsOfTarget(h, t, rem) == /\ t \in Branches => OfBranch(h, rem[t], t)
                         /\ t \in Commits => h = t
                         /\ t \in Tags \cup Annotated => h = Root

\* What is known of a user who runs alone: HEAD stays on the branch that was
\* read, and on the target if that is a branch; after the pull that branch is
\* fresh and its files are checked out; what is built is what will be returned.
RunOK(u) == LET t == user[u].target
                h == user[u].hash IN
    /\ At(u, "pull") => user[u].branch = head
    /\ t \in Branches /\ user[u].pc \in {"again", "pull", "resolve"} => head = t
    /\ t \in Branches /\ At(u, "resolve")
          => Newer(user[u].seen[t], heads[t], t) /\ worktree = heads[t]
    /\ At(u, "build") =>
          /\ IsOfTarget(h, t, remote)
          /\ t \in Branches => Newer(user[u].seen[t], h, t) /\ worktree = h

\* What GetLatestManifests last returned to u is right.
ResultOK(u) ==
    LET r == result[u] IN
    r # NoResult =>
        /\ IsOfTarget(r.hash, r.target, remote)
        /\ r.target \in Branches => /\ Newer(r.seen[r.target], r.hash, r.target)
                                   /\ r.content = r.hash

\* The inductive invariant of one user.
OneInv == HeadsInv /\ \A u \in Users : RunOK(u) /\ ResultOK(u)

-----------------------------------------------------------------------------
(* Commits and the order of a history.                                     *)

\* A commit is a pair, and the only one with number 0 is the root.
LEMMA CommitShape ==
    ASSUME NEW c \in Commits
    PROVE  /\ c[1] \in Branches /\ c[2] \in 0 .. MaxCommits + 1
           /\ c = <<c[1], c[2]>>
           /\ c = Root <=> c[2] = 0
BY BranchAssumption, BoundsAssumption DEF Commits, Root

\* The commits the model names are commits, and the missing one is none.
LEMMA NamedCommits ==
    /\ Root \in Commits /\ NoCommit \notin Commits
    /\ \A b \in Branches, n \in 1 .. MaxCommits + 1 :
           <<b, n>> \in Commits /\ <<b, n>>[1] = b /\ <<b, n>>[2] = n
    /\ \A b \in Branches : /\ Rewritten(b) \in Commits /\ Rewritten(b) # Root
                           /\ Rewritten(b)[1] = b /\ Rewritten(b)[2] = MaxCommits + 1
BY BranchAssumption, BoundsAssumption DEF Commits, Root, NoCommit, Rewritten

\* The order of commits is antisymmetric.
LEMMA BehindAntisymmetric ==
    ASSUME NEW c \in Commits, NEW d \in Commits, Behind(c, d), Behind(d, c)
    PROVE  c = d
<1>1. /\ c = <<c[1], c[2]>> /\ d = <<d[1], d[2]>> /\ c[2] \in Nat /\ d[2] \in Nat
      /\ c = Root <=> c[2] = 0
      /\ d = Root <=> d[2] = 0
      BY CommitShape, BoundsAssumption
<1>2. QED
      BY <1>1, BoundsAssumption DEF Behind

\* A step of branch b from d to e: commits are added, or a forced push.
Moves(d, e, b) == Behind(d, e) \/ (e = Rewritten(b) /\ d # Root)

\* A commit of a branch stays one when the branch moves.
LEMMA OfBranchStays ==
    ASSUME NEW b \in Branches, NEW c \in Commits, NEW d \in Commits, NEW e \in Commits,
           d = Root \/ d[1] = b, Moves(d, e, b), OfBranch(c, d, b)
    PROVE  OfBranch(c, e, b)
<1>1. /\ c[2] \in Nat /\ d[2] \in Nat /\ e[2] \in Nat /\ MaxCommits \in Nat
      /\ c = Root <=> c[2] = 0
      /\ d = Root <=> d[2] = 0
      /\ Rewritten(b) # Root /\ Rewritten(b)[2] = MaxCommits + 1
      BY CommitShape, NamedCommits, BoundsAssumption
<1>2. CASE e = Rewritten(b) /\ d # Root
      BY <1>1, <1>2 DEF OfBranch, Behind
<1>3. CASE Behind(d, e)
      BY <1>1, <1>3 DEF OfBranch, Behind
<1>4. QED
      BY <1>2, <1>3 DEF Moves

\* A branch that was no older than c stays so when it moves.
LEMMA NewerStays ==
    ASSUME NEW b \in Branches, NEW c \in Commits, NEW d \in Commits, NEW e \in Commits,
           Moves(d, e, b), Newer(c, d, b)
    PROVE  Newer(c, e, b)
<1>1. /\ c[2] \in Nat /\ d[2] \in Nat /\ e[2] \in Nat /\ MaxCommits \in Nat
      /\ c = Root <=> c[2] = 0
      /\ d = Root <=> d[2] = 0
      /\ Rewritten(b) # Root /\ Rewritten(b)[2] = MaxCommits + 1
      BY CommitShape, NamedCommits, BoundsAssumption
<1>2. QED
      BY <1>1 DEF Moves, Newer, Behind

\* A branch with one user is never ahead of the remote's: if it is not behind
\* it, the remote's was rewritten and the two have diverged.
LEMMA NeverAhead ==
    ASSUME NEW b \in Branches, NEW c \in Commits, NEW d \in Commits,
           OfBranch(c, d, b), Behind(d, c)
    PROVE  c = d
<1>1. CASE Behind(c, d)
      BY <1>1, BehindAntisymmetric
<1>2. CASE c[1] = b /\ d = Rewritten(b)
  <2>1. /\ c[2] \in Nat /\ MaxCommits \in Nat
        /\ d # Root /\ d[2] = MaxCommits + 1
        BY <1>2, CommitShape, NamedCommits, BoundsAssumption
  <2>2. QED
        BY <2>1 DEF Behind
<1>3. QED
      BY <1>1, <1>2 DEF OfBranch

-----------------------------------------------------------------------------
(* What a step does to the record of a user.                               *)

Pcs == {"out", "clone", "cloning", "branch", "fetch", "checkout", "again",
        "pull", "resolve", "build"}

\* The step of user u leaves the spec and what the run saw alone, and the other
\* users altogether.
KeepsSpec(u) ==
    /\ user' \in [Users -> UserStates]
    /\ user'[u].target = user[u].target /\ user'[u].source = user[u].source
    /\ user'[u].seen = user[u].seen
    /\ \A v \in Users \ {u} : user'[v] = user[v]

\* Going on to the next step changes the program counter alone.
LEMMA GotoKeeps ==
    ASSUME user \in [Users -> UserStates], NEW u \in Users, NEW pc \in Pcs, Goto(u, pc)
    PROVE  /\ KeepsSpec(u) /\ user'[u].pc = pc
           /\ user'[u].branch = user[u].branch /\ user'[u].hash = user[u].hash
BY DEF Goto, KeepsSpec, UserStates, Pcs

\* Returning forgets the local variables.
LEMMA LeaveKeeps ==
    ASSUME user \in [Users -> UserStates], NEW u \in Users, Leave(u)
    PROVE  /\ KeepsSpec(u) /\ user'[u].pc = "out"
           /\ user'[u].branch = NoBranch /\ user'[u].hash = NoCommit
BY DEF Leave, KeepsSpec, UserStates

\* A restart forgets those of all users.
LEMMA CrashKeeps ==
    ASSUME user \in [Users -> UserStates], Crash
    PROVE  /\ user' \in [Users -> UserStates]
           /\ \A u \in Users : /\ user'[u].target = user[u].target
                               /\ user'[u].seen = user[u].seen /\ user'[u].pc = "out"
BY DEF Crash, UserStates

\* Only the fields of a budget are spent.
LEMMA SpendKeeps ==
    ASSUME budget \in [BudgetFields -> Nat], NEW f \in BudgetFields, Spend(f)
    PROVE  budget' \in [BudgetFields -> Nat]
BY DEF Spend

\* A branch of the remote moves and everything else stays.
LEMMA RemoteMoves ==
    ASSUME GTypeOK, RemoteInv, NEW b \in Branches, Push(b) \/ ForcePush(b)
    PROVE  /\ remote' \in [Branches -> Commits] /\ RemoteInv'
           /\ \A a \in Branches : Moves(remote[a], remote'[a], a)
           /\ budget' \in [BudgetFields -> Nat]
           /\ UNCHANGED <<dir, heads, head, worktree, user, result>>
<1>1. /\ remote \in [Branches -> Commits] /\ budget \in [BudgetFields -> Nat]
      /\ MaxCommits \in Nat
      BY BoundsAssumption DEF GTypeOK
<1>2. \A a \in Branches : Behind(remote[a], remote[a])
      BY DEF Behind
<1>3. CASE Push(b)
  <2> DEFINE n == IF remote[b] = Root THEN 0 ELSE remote[b][2]
  <2>1. n < MaxCommits /\ remote' = [remote EXCEPT ![b] = <<b, n + 1>>]
        BY <1>3 DEF Push
  <2>2. remote[b][2] \in Nat /\ (remote[b] = Root <=> remote[b][2] = 0)
        BY <1>1, CommitShape
  <2>3. n \in Nat /\ n + 1 \in 1 .. MaxCommits + 1
        BY <1>1, <2>1, <2>2
  <2> HIDE DEF n
  <2>4. /\ <<b, n + 1>> \in Commits /\ <<b, n + 1>>[1] = b /\ <<b, n + 1>>[2] = n + 1
        BY <2>3, NamedCommits
  <2>5. remote' \in [Branches -> Commits] /\ RemoteInv'
        BY <1>1, <2>1, <2>4 DEF RemoteInv
  <2>6. Behind(remote[b], <<b, n + 1>>)
        BY <1>1, <2>1, <2>2, <2>3, <2>4 DEF Behind, RemoteInv, n
  <2>7. \A a \in Branches : Moves(remote[a], remote'[a], a)
        BY <1>1, <1>2, <2>1, <2>6 DEF Moves
  <2>8. QED
        BY <1>1, <1>3, <2>5, <2>7 DEF Push
<1>4. CASE ForcePush(b)
  <2>1. /\ remote[b] # Root /\ remote' = [remote EXCEPT ![b] = Rewritten(b)]
        /\ Rewritten(b) \in Commits /\ Rewritten(b)[1] = b
        BY <1>4, NamedCommits DEF ForcePush
  <2>2. remote' \in [Branches -> Commits] /\ RemoteInv'
        BY <1>1, <2>1 DEF RemoteInv
  <2>3. \A a \in Branches : Moves(remote[a], remote'[a], a)
        BY <1>1, <1>2, <2>1 DEF Moves
  <2>4. budget' \in [BudgetFields -> Nat]
        BY <1>1, <1>4, SpendKeeps DEF ForcePush, BudgetFields
  <2>5. QED
        BY <1>4, <2>2, <2>3, <2>4 DEF ForcePush
<1>5. QED
      BY <1>3, <1>4

-----------------------------------------------------------------------------
(* Any number of users.                                                    *)

\* A step of user u that leaves the remote alone keeps what is known of users.
LEMMA UserStepKeeps ==
    ASSUME GInv, NEW u \in Users, KeepsSpec(u), remote' = remote,
           user'[u].pc = "pull" => user'[u].branch \in Branches,
           user'[u].pc = "build" => user'[u].hash \in Commits
    PROVE  RemoteInv' /\ LocalsInv' /\ SeenInv'
BY DEF GInv, KeepsSpec, RemoteInv, LocalsInv, SeenInv, At

\* Initially the directory is absent and the remote is at the root.
LEMMA InitEstablishesGInv == GInit => GInv
<1> SUFFICES ASSUME GInit PROVE GInv
    OBVIOUS
<1>1. Root \in Commits
      BY NamedCommits
<1>2. user \in [Users -> UserStates]
      BY <1>1, FirstTargetsAssumption DEF GInit, UserStates
<1>3. GTypeOK
      BY <1>1, <1>2, BoundsAssumption DEF GInit, GTypeOK
<1>4. RemoteInv /\ HeadInv /\ LocalsInv
      BY DEF GInit, RemoteInv, HeadInv, LocalsInv, At
<1>5. SeenInv
      BY DEF GInit, SeenInv, Newer, Behind
<1>6. QED
      BY <1>3, <1>4, <1>5 DEF GInv

\* Every step of every user, of the remote and of the process keeps it.
LEMMA StepKeepsGInv == GInv /\ [GNext]_gitVars => GInv'
<1> SUFFICES ASSUME GInv, [GNext]_gitVars PROVE GInv'
    OBVIOUS
<1> DEFINE Clone == /\ dir \in {"absent", "cloning", "cloned"}
                    /\ heads \in [Branches -> Commits \cup {NoCommit}]
                    /\ head \in Branches \cup {NoBranch}
                    /\ worktree \in Commits \cup {NoCommit}
           Rest == /\ remote \in [Branches -> Commits]
                   /\ result \in [Users -> Results \cup {NoResult}]
                   /\ budget \in [BudgetFields -> Nat]
<1>1. /\ user \in [Users -> UserStates] /\ Clone /\ Rest
      /\ RemoteInv /\ HeadInv /\ LocalsInv /\ SeenInv
      BY DEF GInv, GTypeOK
<1>2. SUFFICES /\ user' \in [Users -> UserStates] /\ Clone' /\ Rest'
               /\ RemoteInv' /\ HeadInv' /\ LocalsInv' /\ SeenInv'
      BY DEF GInv, GTypeOK, HeadInv
<1>3. ASSUME NEW u \in Users, RunStep(u) \/ CredentialsFail(u) \/ Fails(u) \/ EditTarget(u)
      PROVE  user[u] \in UserStates /\ remote' = remote
      BY <1>1, <1>3 DEF RunStep, Begin, CloneOrOpen, CloneCompletes, ReadBranch, FetchAll,
            Checkout, ReadBranchAgain, Pull, Resolve, Build, CredentialsFail, Fails, EditTarget
<1>4. user \in [Users -> UserStates] /\ remote \in [Branches -> Commits]
      BY <1>1
<1>10. ASSUME NEW b \in Branches, Push(b) \/ ForcePush(b) PROVE <1>2!1
  <2>1. /\ remote' \in [Branches -> Commits] /\ RemoteInv'
        /\ \A a \in Branches : Moves(remote[a], remote'[a], a)
        /\ budget' \in [BudgetFields -> Nat]
        /\ UNCHANGED <<dir, heads, head, worktree, user, result>>
        BY <1>10, RemoteMoves DEF GInv
  <2>2. SeenInv'
    <3>1. SUFFICES ASSUME NEW u \in Users, NEW a \in Branches
                   PROVE  Newer(user[u].seen[a], remote'[a], a)
          BY <2>1 DEF SeenInv
    <3>2. user[u].seen[a] \in Commits /\ remote[a] \in Commits /\ remote'[a] \in Commits
          BY <1>1, <2>1 DEF UserStates
    <3>3. QED
          BY <1>1, <2>1, <3>2, NewerStays DEF SeenInv
  <2>3. QED
        BY <1>1, <2>1, <2>2 DEF HeadInv, LocalsInv, At
<1>11. ASSUME NEW u \in Users, Begin(u) PROVE <1>2!1
  <2>1. /\ user' = [user EXCEPT ![u].pc = "clone", ![u].seen = remote]
        /\ UNCHANGED <<remote, dir, heads, head, worktree, result, budget>>
        BY <1>11 DEF Begin
  <2> DEFINE Snapshots == [Branches -> Commits]
  <2>10. remote \in Snapshots
        BY <1>4
  <2>11. UserStates = [pc : Pcs, target : Targets, source : Sources,
                       branch : Branches \cup {NoBranch}, hash : Commits \cup {NoCommit},
                       seen : Snapshots]
        BY DEF UserStates, Pcs
  <2> HIDE DEF Snapshots
  <2>2. user' \in [Users -> UserStates]
        BY <1>4, <2>1, <2>10, <2>11 DEF Pcs
  <2>3. /\ user'[u].pc = "clone" /\ user'[u].seen = remote
        /\ \A v \in Users \ {u} : user'[v] = user[v]
        BY <1>4, <2>1 DEF UserStates
  <2>4. \A b \in Branches : Newer(remote[b], remote[b], b)
        BY DEF Newer, Behind
  <2>5. SeenInv' /\ LocalsInv'
        BY <1>1, <2>1, <2>3, <2>4 DEF SeenInv, LocalsInv, At
  <2>6. QED
        BY <1>1, <2>1, <2>2, <2>5 DEF RemoteInv, HeadInv
<1>12. ASSUME NEW u \in Users, CredentialsFail(u) PROVE <1>2!1
  <2>1. KeepsSpec(u) /\ user'[u].pc = "out"
        BY <1>1, <1>12, LeaveKeeps DEF CredentialsFail
  <2>2. budget' \in [BudgetFields -> Nat]
        BY <1>1, <1>12, SpendKeeps DEF CredentialsFail, BudgetFields
  <2>3. QED
        BY <1>1, <1>3, <1>12, <2>1, <2>2, UserStepKeeps
           DEF CredentialsFail, KeepsSpec, HeadInv
<1>13. ASSUME NEW u \in Users, CloneOrOpen(u) PROVE <1>2!1
  <2>1. KeepsSpec(u) /\ user'[u].pc \notin {"pull", "build"}
        BY <1>1, <1>13, GotoKeeps DEF CloneOrOpen, Pcs
  <2>2. RemoteInv' /\ LocalsInv' /\ SeenInv'
        BY <1>3, <1>13, <2>1, UserStepKeeps DEF RunStep
  <2>3. Clone' /\ HeadInv'
        BY <1>1, <1>13 DEF CloneOrOpen, HeadInv
  <2>4. QED
        BY <1>1, <1>13, <2>1, <2>2, <2>3 DEF CloneOrOpen, KeepsSpec
<1>14. ASSUME NEW u \in Users, CloneCompletes(u) PROVE <1>2!1
  <2>1. KeepsSpec(u) /\ user'[u].pc \notin {"pull", "build"}
        BY <1>1, <1>14, GotoKeeps DEF CloneCompletes, Pcs
  <2>2. RemoteInv' /\ LocalsInv' /\ SeenInv'
        BY <1>3, <1>14, <2>1, UserStepKeeps DEF RunStep
  <2>3. Clone' /\ HeadInv'
        BY <1>1, <1>14, BranchAssumption, NamedCommits DEF CloneCompletes, HeadInv
  <2>4. QED
        BY <1>1, <1>14, <2>1, <2>2, <2>3 DEF CloneCompletes, KeepsSpec
<1>15. ASSUME NEW u \in Users, ReadBranch(u) PROVE <1>2!1
  <2>1. /\ KeepsSpec(u) /\ user'[u].branch = head /\ user'[u].pc # "build"
        /\ user'[u].pc = "pull" => head = user[u].target
    <3>1. head \in Branches \cup {NoBranch}
          BY <1>1
    <3>2. PICK pc \in {"pull", "checkout", "fetch"} :
             /\ user' = [user EXCEPT ![u].branch = head, ![u].pc = pc]
             /\ pc = "pull" => head = user[u].target
          BY <1>15 DEF ReadBranch
    <3>3. QED
          BY <1>4, <3>1, <3>2 DEF KeepsSpec, UserStates
  <2>2. user[u].target # NoBranch
        BY <1>3, <1>15, NamesAssumption DEF RunStep, UserStates
  <2>3. RemoteInv' /\ LocalsInv' /\ SeenInv'
        BY <1>1, <1>3, <1>15, <2>1, <2>2, UserStepKeeps DEF RunStep
  <2>4. QED
        BY <1>1, <1>15, <2>1, <2>3 DEF ReadBranch, KeepsSpec, HeadInv
<1>16. ASSUME NEW u \in Users, FetchAll(u) PROVE <1>2!1
  <2>1. KeepsSpec(u) /\ user'[u].pc \notin {"pull", "build"}
        BY <1>1, <1>16, GotoKeeps, LeaveKeeps DEF FetchAll, Pcs
  <2>2. RemoteInv' /\ LocalsInv' /\ SeenInv'
        BY <1>3, <1>16, <2>1, UserStepKeeps DEF RunStep
  <2>3. Clone' /\ HeadInv'
        BY <1>1, <1>16, NamedCommits DEF FetchAll, HeadInv
  <2>4. QED
        BY <1>1, <1>16, <2>1, <2>2, <2>3 DEF FetchAll, KeepsSpec
<1>17. ASSUME NEW u \in Users, Checkout(u) PROVE <1>2!1
  <2>1. KeepsSpec(u) /\ user'[u].pc \notin {"pull", "build"}
        BY <1>1, <1>17, GotoKeeps, LeaveKeeps DEF Checkout, Pcs
  <2>2. RemoteInv' /\ LocalsInv' /\ SeenInv'
        BY <1>3, <1>17, <2>1, UserStepKeeps DEF RunStep
  <2>3. \A b \in CheckoutBranches(user[u].target) : b \in Branches /\ heads[b] # NoCommit
        BY DEF CheckoutBranches, BranchesContainingTag, BranchesContainingCommit
  <2>4. Clone' /\ HeadInv'
        BY <1>1, <1>17, <2>3, BranchAssumption DEF Checkout, HeadInv
  <2>5. QED
        BY <1>1, <1>17, <2>1, <2>2, <2>4 DEF Checkout, KeepsSpec
<1>18. ASSUME NEW u \in Users, ReadBranchAgain(u) PROVE <1>2!1
  <2>1. /\ KeepsSpec(u) /\ user'[u].pc # "build"
        /\ user'[u].pc = "pull" => user'[u].branch \in Branches
    <3>1. CASE Leave(u)
          BY <1>1, <3>1, LeaveKeeps
    <3>2. CASE head # NoBranch /\ user' = [user EXCEPT ![u].branch = head, ![u].pc = "pull"]
          BY <1>1, <3>2 DEF KeepsSpec, UserStates
    <3>3. QED
          BY <1>18, <3>1, <3>2 DEF ReadBranchAgain
  <2>2. RemoteInv' /\ LocalsInv' /\ SeenInv'
        BY <1>3, <1>18, <2>1, UserStepKeeps DEF RunStep
  <2>3. QED
        BY <1>1, <1>18, <2>1, <2>2 DEF ReadBranchAgain, KeepsSpec, HeadInv
<1>19. ASSUME NEW u \in Users, Pull(u) PROVE <1>2!1
  <2>1. KeepsSpec(u) /\ user'[u].pc \notin {"pull", "build"}
        BY <1>1, <1>19, GotoKeeps, LeaveKeeps DEF Pull, Pcs
  <2>2. RemoteInv' /\ LocalsInv' /\ SeenInv'
        BY <1>3, <1>19, <2>1, UserStepKeeps DEF RunStep
  <2>3. remote[user[u].branch] \in Commits
    <3>1. LocalsInv /\ At(u, "pull")
          BY <1>1, <1>19 DEF Pull
    <3>2. user[u].branch \in Branches
          BY <3>1 DEF LocalsInv, At
    <3>3. QED
          BY <1>4, <3>2
  <2>4. Clone' /\ HeadInv'
    <3>1. \/ UNCHANGED <<heads, worktree>>
          \/ UNCHANGED heads /\ worktree' = remote[user[u].branch]
          \/ /\ head # NoBranch
             /\ heads' = [heads EXCEPT ![head] = remote[user[u].branch]]
             /\ worktree' = remote[user[u].branch]
          BY <1>19 DEF Pull
    <3>2. UNCHANGED <<dir, head>>
          BY <1>19 DEF Pull
    <3>3. QED
          BY <1>1, <2>3, <3>1, <3>2, NamedCommits DEF HeadInv
  <2>5. QED
        BY <1>1, <1>19, <2>1, <2>2, <2>4 DEF Pull, KeepsSpec
<1>20. ASSUME NEW u \in Users, Resolve(u) PROVE <1>2!1
  <2>1. user[u].target \in Targets
        BY <1>1 DEF UserStates
  <2>2. HashOf(user[u].target) \in Commits \cup {NoCommit}
        BY <1>1, <2>1, NamedCommits DEF HashOf, Targets
  <2>3. /\ KeepsSpec(u) /\ user'[u].pc # "pull"
        /\ user'[u].pc = "build" => user'[u].hash \in Commits
    <3>1. CASE Leave(u)
          BY <1>1, <3>1, LeaveKeeps
    <3>2. CASE /\ HashOf(user[u].target) # NoCommit
               /\ user' = [user EXCEPT ![u].hash = HashOf(user[u].target), ![u].pc = "build"]
          BY <1>4, <2>2, <3>2 DEF KeepsSpec, UserStates
    <3>3. QED
          BY <1>20, <3>1, <3>2 DEF Resolve
  <2>4. RemoteInv' /\ LocalsInv' /\ SeenInv'
        BY <1>3, <1>20, <2>3, UserStepKeeps DEF RunStep
  <2>5. QED
        BY <1>1, <1>20, <2>3, <2>4 DEF Resolve, KeepsSpec, HeadInv
<1>21. ASSUME NEW u \in Users, Build(u) PROVE <1>2!1
  <2>1. KeepsSpec(u) /\ user'[u].pc \notin {"pull", "build"}
        BY <1>1, <1>21, LeaveKeeps DEF Build
  <2>2. RemoteInv' /\ LocalsInv' /\ SeenInv'
        BY <1>3, <1>21, <2>1, UserStepKeeps DEF RunStep
  <2>3. /\ user[u].target \in Targets /\ user[u].hash \in Commits
        /\ user[u].seen \in [Branches -> Commits] /\ ContentOf(u) \in Commits \cup {NoCommit}
        BY <1>1, <1>21 DEF Build, UserStates, LocalsInv, ContentOf, At
  <2> DEFINE r == [target |-> user[u].target, hash |-> user[u].hash,
                   content |-> ContentOf(u), seen |-> user[u].seen]
  <2>4. r \in Results
        BY <2>3 DEF Results
  <2>5. result' = result \/ result' = [result EXCEPT ![u] = r]
        BY <1>21 DEF Build
  <2> HIDE DEF r
  <2>6. Rest'
        BY <1>1, <1>21, <2>4, <2>5 DEF Build
  <2>7. QED
        BY <1>1, <1>21, <2>1, <2>2, <2>6 DEF Build, KeepsSpec, HeadInv
<1>22. ASSUME NEW u \in Users, EditTarget(u) PROVE <1>2!1
  <2>1. PICK t \in FirstTargets : user' = [user EXCEPT ![u].target = t]
        BY <1>22 DEF EditTarget
  <2>2. t \in Targets
        BY FirstTargetsAssumption
  <2>3. /\ user' \in [Users -> UserStates]
        /\ \A v \in Users : /\ user'[v].pc = user[v].pc /\ user'[v].seen = user[v].seen
                            /\ user'[v].branch = user[v].branch
                            /\ user'[v].hash = user[v].hash
        BY <1>1, <2>1, <2>2 DEF UserStates
  <2>4. RemoteInv' /\ LocalsInv' /\ SeenInv'
        BY <1>1, <1>22, <2>3 DEF EditTarget, RemoteInv, LocalsInv, SeenInv, At
  <2>5. budget' \in [BudgetFields -> Nat]
        BY <1>1, <1>22, SpendKeeps DEF EditTarget, BudgetFields
  <2>6. QED
        BY <1>1, <1>22, <2>3, <2>4, <2>5 DEF EditTarget, HeadInv
<1>23. ASSUME NEW u \in Users, Fails(u) PROVE <1>2!1
  <2>1. KeepsSpec(u) /\ user'[u].pc \notin {"pull", "build"}
        BY <1>1, <1>23, LeaveKeeps DEF Fails
  <2>2. RemoteInv' /\ LocalsInv' /\ SeenInv'
        BY <1>3, <1>23, <2>1, UserStepKeeps
  <2>3. budget' \in [BudgetFields -> Nat]
        BY <1>1, <1>23, SpendKeeps DEF Fails, BudgetFields
  <2>4. Clone' /\ HeadInv'
        BY <1>1, <1>23 DEF Fails, HeadInv
  <2>5. QED
        BY <1>1, <1>23, <2>1, <2>2, <2>3, <2>4 DEF Fails, KeepsSpec
<1>24. CASE Crash
  <2>1. /\ user' \in [Users -> UserStates]
        /\ \A u \in Users : user'[u].seen = user[u].seen /\ user'[u].pc = "out"
        BY <1>1, <1>24, CrashKeeps
  <2>2. RemoteInv' /\ LocalsInv' /\ SeenInv'
        BY <1>1, <1>24, <2>1 DEF Crash, RemoteInv, LocalsInv, SeenInv, At
  <2>3. budget' \in [BudgetFields -> Nat]
        BY <1>1, <1>24, SpendKeeps DEF Crash, BudgetFields
  <2>4. QED
        BY <1>1, <1>24, <2>1, <2>2, <2>3 DEF Crash, HeadInv
<1>25. CASE UNCHANGED gitVars
      BY <1>1, <1>25 DEF gitVars, RemoteInv, HeadInv, LocalsInv, SeenInv, At
<1>26. QED
      BY <1>10, <1>11, <1>12, <1>13, <1>14, <1>15, <1>16, <1>17, <1>18, <1>19, <1>20,
         <1>21, <1>22, <1>23, <1>24, <1>25 DEF GNext, RunStep

\* The inductive invariant of any number of users holds in every reachable state.
THEOREM CloneInvariant == GSpec => []GInv
BY InitEstablishesGInv, StepKeepsGInv, PTL DEF GSpec

\* Every variable keeps its type and HEAD of a complete clone names a branch
\* that exists, whatever the users of the directory do to each other.
THEOREM CloneTypes == GSpec => []GTypeOK
<1>1. GInv => GTypeOK
      BY DEF GInv
<1>2. QED
      BY <1>1, CloneInvariant, PTL

-----------------------------------------------------------------------------
(* One user.                                                               *)

\* The three properties of the runs say that every result is right.
LEMMA ResultParts ==
    (\A u \in Users : ResultOK(u)) <=> HashIsOfTarget /\ RunIsFresh /\ BranchManifestsMatchHash
BY DEF ResultOK, HashIsOfTarget, RunIsFresh, BranchManifestsMatchHash, Returned, IsOfTarget,
       OfBranch, Newer

\* Initially the clone has no branches and nothing was returned.
LEMMA InitEstablishesOneInv == GInit => OneInv
BY DEF GInit, OneInv, HeadsInv, RunOK, ResultOK, At

\* A step of the remote keeps the invariant: commits stay commits of their
\* branch, and what is in the clone does not move.
LEMMA RemoteKeepsOneInv ==
    ASSUME GInv, OneInv, NEW a \in Branches, Push(a) \/ ForcePush(a)
    PROVE  OneInv'
<1>1. /\ remote \in [Branches -> Commits] /\ remote' \in [Branches -> Commits] /\ RemoteInv
      /\ \A b \in Branches : Moves(remote[b], remote'[b], b)
      /\ UNCHANGED <<dir, heads, head, worktree, user, result>>
      BY RemoteMoves DEF GInv, GTypeOK
<1>2. \A b \in Branches, c \in Commits : OfBranch(c, remote[b], b) => OfBranch(c, remote'[b], b)
      BY <1>1, OfBranchStays DEF RemoteInv
<1>3. \A h \in Commits : \A t : IsOfTarget(h, t, remote) => IsOfTarget(h, t, remote')
      BY <1>2 DEF IsOfTarget
<1>4. HeadsInv'
      BY <1>1, <1>2 DEF OneInv, HeadsInv, GInv, GTypeOK
<1>5. ASSUME NEW u \in Users PROVE RunOK(u)'
  <2>1. At(u, "build") => user[u].hash \in Commits
        BY DEF GInv, LocalsInv
  <2>2. QED
        BY <1>1, <1>3, <2>1 DEF OneInv, RunOK, At
<1>6. ASSUME NEW u \in Users PROVE ResultOK(u)'
  <2>1. result[u] # NoResult => result[u].hash \in Commits
        BY DEF GInv, GTypeOK, Results
  <2>2. QED
        BY <1>1, <1>3, <2>1 DEF OneInv, ResultOK
<1>7. QED
      BY <1>4, <1>5, <1>6 DEF OneInv

\* A step of the user that returns nothing keeps the invariant if it keeps the
\* branches of the clone and what is known of the run.
LEMMA AloneKeeps ==
    ASSUME OneUser, OneInv, NEW u \in Users, UNCHANGED <<remote, result>>, HeadsInv', RunOK(u)'
    PROVE  OneInv'
BY DEF OneUser, OneInv, ResultOK

\* A user at a step that promises nothing.
LEMMA IdleIsOK ==
    ASSUME NEW u \in Users, user'[u].pc \notin {"again", "pull", "resolve", "build"}
    PROVE  RunOK(u)'
BY DEF RunOK, At

\* Every step of the one user and of the remote keeps the invariant.
LEMMA StepKeepsOneInv ==
    ASSUME OneUser, GInv, OneInv, [GNext]_gitVars
    PROVE  OneInv'
<1>1. /\ user \in [Users -> UserStates] /\ remote \in [Branches -> Commits]
      /\ heads \in [Branches -> Commits \cup {NoCommit}] /\ head \in Branches \cup {NoBranch}
      /\ HeadInv /\ SeenInv /\ HeadsInv
      /\ \A u \in Users : user[u] \in UserStates /\ RunOK(u)
      BY DEF GInv, GTypeOK, OneInv
<1>2. \A b \in Branches : OfBranch(remote[b], remote[b], b)
      BY DEF OfBranch, Behind
<1>3. ASSUME NEW u \in Users, UNCHANGED <<remote, heads, result>>,
             user'[u].pc \notin {"again", "pull", "resolve", "build"}
      PROVE  OneInv'
      BY <1>1, <1>3, IdleIsOK, AloneKeeps DEF HeadsInv
<1>10. ASSUME NEW u \in Users, Begin(u) PROVE OneInv'
  <2>1. user'[u].pc = "clone"
        BY <1>1, <1>10 DEF Begin, UserStates
  <2>2. QED
        BY <1>3, <1>10, <2>1 DEF Begin
<1>11. ASSUME NEW u \in Users, EditTarget(u) PROVE OneInv'
  <2>1. user'[u].pc = "out"
        BY <1>1, <1>11 DEF EditTarget, At, UserStates
  <2>2. QED
        BY <1>3, <1>11, <2>1 DEF EditTarget
<1>12. ASSUME NEW u \in Users, CredentialsFail(u) \/ CloneOrOpen(u) PROVE OneInv'
  <2>1. user'[u].pc \in {"out", "cloning", "branch"}
        BY <1>1, <1>12, GotoKeeps, LeaveKeeps DEF CredentialsFail, CloneOrOpen, Pcs
  <2>2. QED
        BY <1>3, <1>12, <2>1 DEF CredentialsFail, CloneOrOpen
<1>13. ASSUME NEW u \in Users, CloneCompletes(u) PROVE OneInv'
  <2>1. user'[u].pc = "branch"
        BY <1>1, <1>13, GotoKeeps DEF CloneCompletes, Pcs
  <2>2. HeadsInv'
        BY <1>1, <1>2, <1>13 DEF CloneCompletes, HeadsInv
  <2>3. QED
        BY <1>13, <2>1, <2>2, IdleIsOK, AloneKeeps DEF CloneCompletes
<1>14. ASSUME NEW u \in Users, ReadBranch(u) PROVE OneInv'
  <2>1. /\ user'[u].pc \in {"pull", "checkout", "fetch"} /\ user'[u].branch = head
        /\ user'[u].target = user[u].target
        /\ user'[u].pc = "pull" => head = user[u].target
        BY <1>1, <1>14 DEF ReadBranch, UserStates
  <2>2. RunOK(u)'
        BY <1>14, <2>1 DEF RunOK, At, ReadBranch
  <2>3. QED
        BY <1>1, <1>14, <2>2, AloneKeeps DEF ReadBranch, HeadsInv
<1>15. ASSUME NEW u \in Users, FetchAll(u) PROVE OneInv'
  <2>1. user'[u].pc \in {"checkout", "out"}
        BY <1>1, <1>15, GotoKeeps, LeaveKeeps DEF FetchAll, Pcs
  <2>2. HeadsInv'
        BY <1>1, <1>2, <1>15 DEF FetchAll, HeadsInv
  <2>3. QED
        BY <1>15, <2>1, <2>2, IdleIsOK, AloneKeeps DEF FetchAll
<1>16. ASSUME NEW u \in Users, Checkout(u) PROVE OneInv'
  <2>1. CASE Leave(u)
        BY <1>1, <1>3, <1>16, <2>1, LeaveKeeps DEF Checkout
  <2>2. ASSUME NEW b \in CheckoutBranches(user[u].target), head' = b, Goto(u, "again")
        PROVE  OneInv'
    <3>1. user'[u].pc = "again" /\ user'[u].target = user[u].target
          BY <1>1, <2>2, GotoKeeps DEF Pcs, KeepsSpec
    <3>2. user[u].target \in Branches => b = user[u].target
          BY BranchAssumption, NamesAssumption
             DEF CheckoutBranches, BranchesContainingTag, BranchesContainingCommit
    <3>3. RunOK(u)'
          BY <2>2, <3>1, <3>2 DEF RunOK, At
    <3>4. QED
          BY <1>1, <1>16, <3>3, AloneKeeps DEF Checkout, HeadsInv
  <2>3. QED
        BY <1>16, <2>1, <2>2 DEF Checkout
<1>17. ASSUME NEW u \in Users, ReadBranchAgain(u) PROVE OneInv'
  <2>1. CASE Leave(u)
        BY <1>1, <1>3, <1>17, <2>1, LeaveKeeps DEF ReadBranchAgain
  <2>2. CASE user' = [user EXCEPT ![u].branch = head, ![u].pc = "pull"]
    <3>1. /\ user'[u].pc = "pull" /\ user'[u].branch = head
          /\ user'[u].target = user[u].target
          BY <1>1, <2>2 DEF UserStates
    <3>2. RunOK(u)'
          BY <1>1, <1>17, <3>1 DEF RunOK, At, ReadBranchAgain
    <3>3. QED
          BY <1>1, <1>17, <3>2, AloneKeeps DEF ReadBranchAgain, HeadsInv
  <2>3. QED
        BY <1>17, <2>1, <2>2 DEF ReadBranchAgain
<1>18. ASSUME NEW u \in Users, Pull(u) PROVE OneInv'
  <2>1. At(u, "pull") /\ user[u].branch = head /\ UNCHANGED <<remote, head, result>>
        BY <1>1, <1>18 DEF Pull, RunOK
  <2>2. CASE Leave(u) /\ UNCHANGED heads
        BY <1>1, <1>3, <2>1, <2>2, LeaveKeeps
  <2>3. ASSUME head # NoBranch, Behind(remote[head], heads[head]), heads[head] # remote[head]
        PROVE  FALSE
    <3>1. head \in Branches /\ heads[head] \in Commits /\ remote[head] \in Commits
          BY <1>1, <2>3 DEF HeadInv
    <3>2. OfBranch(heads[head], remote[head], head)
          BY <1>1, <3>1, NamedCommits DEF HeadsInv
    <3>3. QED
          BY <2>3, <3>1, <3>2, NeverAhead
  <2>4. CASE /\ head # NoBranch /\ heads' = [heads EXCEPT ![head] = remote[head]]
             /\ worktree' = remote[head] /\ Goto(u, "resolve")
    <3>1. /\ user'[u].pc = "resolve" /\ user'[u].target = user[u].target
          /\ user'[u].seen = user[u].seen
          BY <1>1, <2>4, GotoKeeps DEF Pcs, KeepsSpec
    <3>2. head \in Branches /\ heads'[head] = remote[head]
          BY <1>1, <2>4
    <3>3. HeadsInv'
          BY <1>1, <1>2, <2>1, <2>4 DEF HeadsInv
    <3>4. user[u].target \in Branches => head = user[u].target
          BY <1>1, <2>1 DEF RunOK, At
    <3>5. Newer(user[u].seen[head], remote[head], head)
          BY <1>1, <3>2 DEF SeenInv
    <3>6. RunOK(u)'
          BY <2>1, <2>4, <3>1, <3>2, <3>4, <3>5 DEF RunOK, At
    <3>7. QED
          BY <2>1, <3>3, <3>6, AloneKeeps
  <2>5. head # NoBranch
    <3>1. user[u].branch \in Branches
          BY <2>1 DEF GInv, LocalsInv
    <3>2. QED
          BY <2>1, <3>1, BranchAssumption
  <2>6. QED
        BY <1>18, <2>1, <2>2, <2>3, <2>4, <2>5 DEF Pull
<1>19. ASSUME NEW u \in Users, Resolve(u) PROVE OneInv'
  <2>1. CASE Leave(u)
        BY <1>1, <1>3, <1>19, <2>1, LeaveKeeps DEF Resolve
  <2>2. CASE /\ HashOf(user[u].target) # NoCommit
             /\ user' = [user EXCEPT ![u].hash = HashOf(user[u].target), ![u].pc = "build"]
    <3> DEFINE t == user[u].target
    <3>1. /\ user'[u].pc = "build" /\ user'[u].target = t /\ user'[u].seen = user[u].seen
          /\ user'[u].hash = HashOf(t) /\ t \in Targets
          BY <1>1, <2>2 DEF UserStates
    <3>2. t \in Branches => HashOf(t) = heads[t] /\ OfBranch(heads[t], remote[t], t)
          BY <1>1, <2>2 DEF HashOf, HeadsInv
    <3>3. t \in Commits => HashOf(t) = t /\ t \notin Branches
          BY NamesAssumption DEF HashOf
    <3>4. t \in Tags \cup Annotated => HashOf(t) = Root /\ t \notin Branches
          BY BranchAssumption, NamesAssumption DEF HashOf
    <3>5. t \in Branches => Newer(user[u].seen[t], heads[t], t) /\ worktree = heads[t]
          BY <1>1, <1>19 DEF RunOK, Resolve
    <3>6. IsOfTarget(HashOf(t), t, remote)
          BY <3>2, <3>3, <3>4 DEF IsOfTarget
    <3>7. UNCHANGED <<remote, heads, worktree, result>>
          BY <1>19 DEF Resolve
    <3> HIDE DEF t
    <3>8. RunOK(u)'
          BY <3>1, <3>2, <3>5, <3>6, <3>7 DEF RunOK, At
    <3>9. QED
          BY <1>1, <3>7, <3>8, AloneKeeps DEF HeadsInv
  <2>3. QED
        BY <1>19, <2>1, <2>2 DEF Resolve
<1>20. ASSUME NEW u \in Users, Build(u) PROVE OneInv'
  <2>1. user'[u].pc = "out"
        BY <1>1, <1>20, LeaveKeeps DEF Build
  <2>2. RunOK(u)'
        BY <2>1, IdleIsOK
  <2>3. HeadsInv'
        BY <1>1, <1>20 DEF Build, HeadsInv
  <2>4. CASE result' = result
        BY <1>20, <2>2, <2>3, <2>4, AloneKeeps DEF Build
  <2> DEFINE r == [target |-> user[u].target, hash |-> user[u].hash,
                   content |-> ContentOf(u), seen |-> user[u].seen]
  <2>5. CASE result' = [result EXCEPT ![u] = r]
    <3>1. result \in [Users -> Results \cup {NoResult}]
          BY DEF GInv, GTypeOK
    <3>2. result'[u] = r
          BY <2>5, <3>1
    <3>3. /\ IsOfTarget(r.hash, r.target, remote)
          /\ r.target \in Branches => Newer(r.seen[r.target], r.hash, r.target)
          /\ r.target \in Branches => r.content = r.hash
          BY <1>1, <1>20 DEF RunOK, Build, ContentOf
    <3> HIDE DEF r
    <3>4. remote' = remote
          BY <1>20 DEF Build
    <3>5. ResultOK(u)'
          BY <3>2, <3>3, <3>4 DEF ResultOK
    <3>6. QED
          BY <2>2, <2>3, <3>5 DEF OneInv, OneUser
  <2>6. QED
        BY <1>20, <2>4, <2>5 DEF Build
<1>21. ASSUME NEW u \in Users, Fails(u) PROVE OneInv'
  <2>1. user'[u].pc = "out"
        BY <1>1, <1>21, LeaveKeeps DEF Fails
  <2>2. HeadsInv'
        BY <1>1, <1>21 DEF Fails, HeadsInv
  <2>3. QED
        BY <1>21, <2>1, <2>2, IdleIsOK, AloneKeeps DEF Fails
<1>22. CASE Crash
  <2>1. \A u \in Users : user'[u].pc = "out"
        BY <1>1, <1>22, CrashKeeps
  <2>2. \A u \in Users : RunOK(u)'
        BY <2>1, IdleIsOK
  <2>3. QED
        BY <1>22, <2>2 DEF Crash, OneInv, HeadsInv, ResultOK
<1>23. CASE UNCHANGED gitVars
      BY <1>23 DEF gitVars, OneInv, HeadsInv, RunOK, ResultOK, At
<1>24. QED
      BY <1>10, <1>11, <1>12, <1>13, <1>14, <1>15, <1>16, <1>17, <1>18, <1>19, <1>20, <1>21,
         <1>22, <1>23, RemoteKeepsOneInv DEF GNext, RunStep

\* With one user the invariant holds in every reachable state.
THEOREM OneUserInvariant == ASSUME OneUser PROVE GSpec => [](GInv /\ OneInv)
<1>1. GInit => OneInv
      BY InitEstablishesOneInv
<1>2. GInv /\ OneInv /\ [GNext]_gitVars => OneInv'
      BY StepKeepsOneInv
<1>3. QED
      BY <1>1, <1>2, CloneInvariant, PTL DEF GSpec

\* The hash a run returns, which is recorded in the status, is one of the
\* target revision.
THEOREM HashBelongsToTarget == ASSUME OneUser PROVE GSpec => []HashIsOfTarget
<1>1. OneInv => HashIsOfTarget
      BY ResultParts DEF OneInv
<1>2. QED
      BY <1>1, OneUserInvariant, PTL

\* A run on a branch returns a commit no older than the branch was on the
\* remote when the run started.
THEOREM RunsAreFresh == ASSUME OneUser PROVE GSpec => []RunIsFresh
<1>1. OneInv => RunIsFresh
      BY ResultParts DEF OneInv
<1>2. QED
      BY <1>1, OneUserInvariant, PTL

\* For a branch the manifests are those of the commit returned with them,
\* whichever source type reads them.
THEOREM ManifestsAreOfHash == ASSUME OneUser PROVE GSpec => []BranchManifestsMatchHash
<1>1. OneInv => BranchManifestsMatchHash
      BY ResultParts DEF OneInv
<1>2. QED
      BY <1>1, OneUserInvariant, PTL
=============================================================================
