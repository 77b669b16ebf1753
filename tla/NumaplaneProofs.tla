-------------------------- MODULE NumaplaneProofs --------------------------
(***************************************************************************)
(* Proofs about the controller, for any set of GitSyncs, workers, specs,   *)
(* commits and configurations, and for any budget of edits, deletions,     *)
(* faults and restarts: what the reconciler and the workers write from     *)
(* their old copies of an object never damages what was written meanwhile. *)
(***************************************************************************)
EXTENDS Numaplane, TLAPS

-----------------------------------------------------------------------------
(* Versions of objects.                                                    *)

\* The fields of a version.
LEMMA VersionFields ==
    ASSUME NEW v \in Version
    PROVE  /\ v.here \in BOOLEAN /\ v.deleting \in BOOLEAN /\ v.finalizer \in BOOLEAN
           /\ v.rv \in Nat /\ v.gen \in Nat
           /\ v.spec \in Specs \cup {NoSpec} /\ v.phase \in Phases /\ v.commit \in Commits
BY DEF Version

\* A deletion is a version.
LEMMA GoneIsVersion ==
    ASSUME NEW n \in Nat
    PROVE  /\ Gone(n) \in Version
           /\ Gone(n).here = FALSE /\ Gone(n).rv = n /\ Gone(n).phase = ""
           /\ Gone(n).commit = NoCommit /\ ~NoCommit.synced
           /\ Gone(n).deleting = FALSE /\ Gone(n).finalizer = FALSE
BY DEF Gone, Version, NoSpec, NoCommit, Commits, Phases

\* u is a version with these fields; its generation is of no interest here.
Is(u, here, deleting, finalizer, spec, phase, commit) ==
    /\ u \in Version
    /\ u.here = here /\ u.deleting = deleting /\ u.finalizer = finalizer
    /\ u.spec = spec /\ u.phase = phase /\ u.commit = commit

\* u has the same fields as v, but for its resourceVersion and generation.
Same(u, v) == Is(u, v.here, v.deleting, v.finalizer, v.spec, v.phase, v.commit)

\* What the edits of the copies and of the stored object do, field by field.
LEMMA EditMetadata ==
    ASSUME NEW v \in Version, NEW n \in Nat, NEW b \in BOOLEAN
    PROVE  /\ Same([v EXCEPT !.rv = n], v) /\ [v EXCEPT !.rv = n].rv = n
           /\ Is([v EXCEPT !.finalizer = b], v.here, v.deleting, b, v.spec, v.phase, v.commit)
           /\ [v EXCEPT !.finalizer = b].rv = v.rv
           /\ Is([v EXCEPT !.deleting = TRUE, !.gen = n],
                 v.here, TRUE, v.finalizer, v.spec, v.phase, v.commit)
BY DEF Version, Is, Same

\* An edit of the spec, with the next generation.
LEMMA EditSpec ==
    ASSUME NEW v \in Version, NEW n \in Nat, NEW s \in Specs
    PROVE  Is([v EXCEPT !.spec = s, !.gen = n],
              v.here, v.deleting, v.finalizer, s, v.phase, v.commit)
BY DEF Version, Is, Same

\* An edit of the status, and of its parts.
LEMMA EditStatus ==
    ASSUME NEW v \in Version, NEW p \in Phases, NEW c \in Commits
    PROVE  /\ Is([v EXCEPT !.phase = p, !.commit = c],
                 v.here, v.deleting, v.finalizer, v.spec, p, c)
           /\ Is([v EXCEPT !.phase = p],
                 v.here, v.deleting, v.finalizer, v.spec, p, v.commit)
           /\ [v EXCEPT !.phase = p].rv = v.rv
           /\ Is([v EXCEPT !.commit = c],
                 v.here, v.deleting, v.finalizer, v.spec, v.phase, c)
           /\ [v EXCEPT !.commit = c].rv = v.rv
BY DEF Version, Is

\* What a user creates.
LEMMA CreatedVersion ==
    ASSUME NEW s \in Specs
    PROVE  Is([Gone(0) EXCEPT !.here = TRUE, !.gen = 1, !.spec = s],
              TRUE, FALSE, FALSE, s, "", NoCommit)
BY DEF Version, Gone, NoCommit, Commits, Phases, Is

-----------------------------------------------------------------------------
(* The inductive invariant.                                                *)

\* resourceVersions grow along the versions the informer has not delivered, so
\* that a copy with the stored resourceVersion is a copy of the stored object.
RvInv ==
    \A k \in Keys : \A i \in 1 .. Len(versions[k]) :
        /\ i < Len(versions[k]) => versions[k][i].rv < Stored(k).rv
        /\ versions[k][i].here => versions[k][i].spec \in Specs

\* Nobody has written the object of key k since obj was read.
Current(k, obj) == obj.rv = Stored(k).rv

\* The copy of the reconciler: as long as it is current it agrees with the
\* stored object in what the next write will overwrite or rely on.
RecInv ==
    rec.pc # "idle" =>
        /\ rec.key \in Keys
        /\ rec.obj.rv <= Stored(rec.key).rv
        /\ Current(rec.key, rec.obj) =>
              /\ rec.obj.deleting = Stored(rec.key).deleting
              /\ rec.obj.commit = Stored(rec.key).commit
              /\ rec.pc = "start" /\ ~rec.dirty => Stored(rec.key).finalizer
              /\ rec.pc = "status" /\ rec.obj.phase = "Running" => Stored(rec.key).finalizer
        /\ rec.pc \in {"cascade", "stop"} => rec.obj.deleting
        /\ rec.pc = "start" => rec.obj.finalizer /\ ~rec.obj.deleting
        /\ rec.pc = "update" =>
              \/ rec.obj.finalizer /\ ~rec.obj.deleting
              \/ ~rec.obj.finalizer /\ rec.obj.deleting /\ rec.key \notin watched

\* The locals of worker w: what it has to apply, or has applied, is what a path
\* has at its commit; what it reports as synced has been applied; and the copy it
\* will write has the stored phase as long as it is current.
RunOK(w) ==
    /\ run[w].pc # "none" => job[w] \in Keys
    /\ run[w].pc = "fetch" => run[w].obj.spec \in Specs
    /\ run[w].pc \in {"decide", "compare", "apply"} =>
          /\ run[w].hash \in Hashes
          /\ \E s \in Specs : run[w].target = Target(s, run[w].hash)
    /\ run[w].pc = "apply" =>
          \A r \in Resources \ run[w].todo : <<r, run[w].target[r]>> \in applied[job[w]]
    /\ run[w].pc = "statusGet" =>
          run[w].hash \in Hashes /\ (run[w].synced => WasApplied(job[w], run[w].hash))
    /\ run[w].pc = "statusPut" =>
          /\ run[w].obj.rv <= Stored(job[w]).rv
          /\ run[w].obj.commit.synced => WasApplied(job[w], run[w].obj.commit.hash)
          /\ Current(job[w], run[w].obj) => run[w].obj.phase = Stored(job[w]).phase
RunInv == \A w \in Workers : RunOK(w)

\* The history covers what is live.
LiveInv == \A k \in Keys, r \in Resources : <<r, live[k][r]>> \in applied[k]

NInv == /\ TypeOK /\ RvInv /\ RecInv /\ RunInv /\ LiveInv
        /\ RunningHasFinalizer /\ SyncedWasApplied

-----------------------------------------------------------------------------
(* What the steps do to the stored objects.                                *)

\* The first and the last version of a key.
LEMMA StoredFacts ==
    ASSUME ApiTypeOK, RvInv, NEW k \in Keys
    PROVE  /\ Stored(k) \in Version /\ Cached(k) \in Version
           /\ Stored(k).here => Stored(k).spec \in Specs
           /\ Cached(k).here => Cached(k).spec \in Specs
           /\ Cached(k).rv <= Stored(k).rv
           /\ Cached(k).rv = Stored(k).rv => Cached(k) = Stored(k)
<1>1. /\ versions[k] \in Seq(Version)
      /\ Len(versions[k]) \in Nat /\ Len(versions[k]) > 0
      BY DEF ApiTypeOK
<1>2. 1 \in 1 .. Len(versions[k]) /\ Len(versions[k]) \in 1 .. Len(versions[k])
      BY <1>1
<1>3. Stored(k) \in Version /\ Cached(k) \in Version
      BY <1>1, <1>2 DEF Stored, Cached
<1>4. /\ Stored(k).here => Stored(k).spec \in Specs
      /\ Cached(k).here => Cached(k).spec \in Specs
      BY <1>2 DEF RvInv, Stored, Cached
<1>5. Stored(k).rv \in Nat /\ Cached(k).rv \in Nat
      BY <1>3, VersionFields
<1>6. Len(versions[k]) = 1 => Cached(k) = Stored(k)
      BY DEF Stored, Cached
<1>7. Len(versions[k]) > 1 => Cached(k).rv < Stored(k).rv
      BY <1>2 DEF RvInv, Cached
<1>8. Cached(k) = Stored(k) \/ Cached(k).rv < Stored(k).rv
  <2>1. \A n \in Nat : n > 0 => n = 1 \/ n > 1
        OBVIOUS
  <2>2. Len(versions[k]) = 1 \/ Len(versions[k]) > 1
        BY <1>1, <2>1, Zenon
  <2> QED
      BY <1>6, <1>7, <2>2, Zenon
<1>9. /\ Cached(k).rv <= Stored(k).rv
      /\ Cached(k).rv = Stored(k).rv => Cached(k) = Stored(k)
      BY <1>5, <1>8
<1> QED
    BY <1>3, <1>4, <1>9

\* The step appends a version to those of k.
Wrote(k) == /\ versions' \in [Keys -> Seq(Version)]
            /\ \A j \in Keys \ {k} : versions'[j] = versions[j]
            /\ Len(versions'[k]) = Len(versions[k]) + 1
            /\ \A i \in 1 .. Len(versions[k]) : versions'[k][i] = versions[k][i]
            /\ Stored(k)'.rv = Stored(k).rv + 1
            /\ Stored(k)'.here => Stored(k)'.spec \in Specs

\* What Write makes of the versions of a key.
LEMMA WriteEffect ==
    ASSUME ApiTypeOK, RvInv, NEW k \in Keys, NEW v \in Version, Write(k, v),
           v.here => v.spec \in Specs
    PROVE  Wrote(k) /\ Same(Stored(k)', v)
<1> DEFINE u == [v EXCEPT !.rv = Stored(k).rv + 1]
<1>1. /\ versions \in [Keys -> Seq(Version)] /\ versions[k] \in Seq(Version)
      /\ Len(versions[k]) \in Nat
      BY DEF ApiTypeOK
<1>2. Stored(k).rv + 1 \in Nat
      BY StoredFacts, VersionFields
<1>3. Same(u, v) /\ u.rv = Stored(k).rv + 1
      BY <1>2, EditMetadata
<1>4. u \in Version
      BY <1>3 DEF Same, Is
<1>5. versions' = [versions EXCEPT ![k] = Append(versions[k], u)]
      BY DEF Write
<1> HIDE DEF u
<1>6. /\ Append(versions[k], u) \in Seq(Version)
      /\ Len(Append(versions[k], u)) = Len(versions[k]) + 1
      /\ Append(versions[k], u)[Len(versions[k]) + 1] = u
      /\ \A i \in 1 .. Len(versions[k]) : Append(versions[k], u)[i] = versions[k][i]
      BY <1>1, <1>4
<1>7. versions'[k] = Append(versions[k], u) /\ \A j \in Keys \ {k} : versions'[j] = versions[j]
      BY <1>1, <1>5
<1>8. Stored(k)' = u
      BY <1>6, <1>7 DEF Stored
<1>9. versions' \in [Keys -> Seq(Version)]
      BY <1>1, <1>5, <1>6
<1>10. u.here => u.spec \in Specs
      BY <1>3 DEF Same, Is
<1> QED
    BY <1>3, <1>6, <1>7, <1>8, <1>9, <1>10 DEF Wrote

\* UserCreates stores an object without status and finalizer.
LEMMA CreateEffect ==
    ASSUME ApiTypeOK, RvInv, NEW k \in Keys, NEW s \in Specs, UserCreates(k, s)
    PROVE  Wrote(k) /\ Is(Stored(k)', TRUE, FALSE, FALSE, s, "", NoCommit)
<1> DEFINE v == [Gone(0) EXCEPT !.here = TRUE, !.gen = 1, !.spec = s]
<1>1. Is(v, TRUE, FALSE, FALSE, s, "", NoCommit)
      BY CreatedVersion
<1>2. Write(k, v)
      BY DEF UserCreates
<1> HIDE DEF v
<1>3. v \in Version /\ (v.here => v.spec \in Specs)
      BY <1>1 DEF Is
<1>4. Wrote(k) /\ Same(Stored(k)', v)
      BY <1>2, <1>3, WriteEffect
<1> QED
    BY <1>1, <1>4 DEF Same, Is

\* UserEdits replaces the spec and nothing else the proofs look at.
LEMMA EditEffect ==
    ASSUME ApiTypeOK, RvInv, NEW k \in Keys, NEW s \in Specs, UserEdits(k, s)
    PROVE  /\ Wrote(k)
           /\ Is(Stored(k)', Stored(k).here, Stored(k).deleting, Stored(k).finalizer, s,
                 Stored(k).phase, Stored(k).commit)
<1> DEFINE v == [Stored(k) EXCEPT !.spec = s, !.gen = Stored(k).gen + 1]
<1>0. Stored(k) \in Version /\ Stored(k).gen + 1 \in Nat
      BY StoredFacts, VersionFields
<1>1. Is(v, Stored(k).here, Stored(k).deleting, Stored(k).finalizer, s,
         Stored(k).phase, Stored(k).commit)
      BY <1>0, EditSpec
<1>2. Write(k, v)
      BY DEF UserEdits
<1> HIDE DEF v
<1>3. v \in Version /\ (v.here => v.spec \in Specs)
      BY <1>1 DEF Is
<1>4. Wrote(k) /\ Same(Stored(k)', v)
      BY <1>2, <1>3, WriteEffect
<1> QED
    BY <1>1, <1>4 DEF Same, Is

\* UserDeletes marks an object with a finalizer and removes any other one.
LEMMA DeleteEffect ==
    ASSUME ApiTypeOK, RvInv, NEW k \in Keys, UserDeletes(k)
    PROVE  /\ Wrote(k)
           /\ Stored(k).finalizer =>
                 Is(Stored(k)', TRUE, TRUE, TRUE, Stored(k).spec,
                    Stored(k).phase, Stored(k).commit)
           /\ ~Stored(k).finalizer => ~Stored(k)'.here
<1>0. /\ Stored(k) \in Version /\ Stored(k).gen + 1 \in Nat
      /\ Stored(k).here => Stored(k).spec \in Specs
      BY StoredFacts, VersionFields
<1>1. CASE Stored(k).finalizer
  <2> DEFINE v == [Stored(k) EXCEPT !.deleting = TRUE, !.gen = Stored(k).gen + 1]
  <2>1. Is(v, Stored(k).here, TRUE, Stored(k).finalizer, Stored(k).spec,
           Stored(k).phase, Stored(k).commit)
        BY <1>0, EditMetadata
  <2>2. Write(k, v) /\ Stored(k).here
        BY <1>1 DEF UserDeletes
  <2> HIDE DEF v
  <2>3. v \in Version /\ (v.here => v.spec \in Specs)
        BY <1>0, <2>1 DEF Is
  <2>4. Wrote(k) /\ Same(Stored(k)', v)
        BY <2>2, <2>3, WriteEffect
  <2>5. Stored(k).here = TRUE /\ Stored(k).finalizer = TRUE
        BY <1>0, <1>1, <2>2, VersionFields
  <2> QED
      BY <1>1, <2>1, <2>4, <2>5 DEF Same, Is
<1>2. CASE ~Stored(k).finalizer
  <2>1. Write(k, Gone(0))
        BY <1>2 DEF UserDeletes
  <2>2. Wrote(k) /\ Same(Stored(k)', Gone(0))
        BY <2>1, GoneIsVersion, WriteEffect
  <2>3. ~Stored(k)'.here
        BY <2>2, GoneIsVersion DEF Same, Is
  <2> QED
      BY <1>2, <2>2, <2>3
<1> QED
    BY <1>1, <1>2

\* Update writes the finalizer, or lets an object that is being deleted go.
LEMMA UpdateFinalizerEffect ==
    ASSUME ApiTypeOK, RvInv, NEW k \in Keys, NEW obj \in Version, UpdateFinalizer(k, obj)
    PROVE  /\ Wrote(k)
           /\ Stored(k).deleting /\ ~obj.finalizer => ~Stored(k)'.here
           /\ ~(Stored(k).deleting /\ ~obj.finalizer) =>
                 Is(Stored(k)', Stored(k).here, Stored(k).deleting, obj.finalizer,
                    Stored(k).spec, Stored(k).phase, Stored(k).commit)
<1>0. /\ Stored(k) \in Version /\ obj.finalizer \in BOOLEAN
      /\ Stored(k).here => Stored(k).spec \in Specs
      BY StoredFacts, VersionFields
<1>1. CASE Stored(k).deleting /\ ~obj.finalizer
  <2>1. Write(k, Gone(0))
        BY <1>1 DEF UpdateFinalizer
  <2>2. Wrote(k) /\ Same(Stored(k)', Gone(0))
        BY <2>1, GoneIsVersion, WriteEffect
  <2>3. ~Stored(k)'.here
        BY <2>2, GoneIsVersion DEF Same, Is
  <2> QED
      BY <1>1, <2>2, <2>3
<1>2. CASE ~(Stored(k).deleting /\ ~obj.finalizer)
  <2> DEFINE v == [Stored(k) EXCEPT !.finalizer = obj.finalizer]
  <2>1. Is(v, Stored(k).here, Stored(k).deleting, obj.finalizer, Stored(k).spec,
           Stored(k).phase, Stored(k).commit)
        BY <1>0, EditMetadata
  <2>2. Write(k, v)
        BY <1>2 DEF UpdateFinalizer
  <2> HIDE DEF v
  <2>3. v \in Version /\ (v.here => v.spec \in Specs)
        BY <1>0, <2>1 DEF Is
  <2>4. Wrote(k) /\ Same(Stored(k)', v)
        BY <2>2, <2>3, WriteEffect
  <2> QED
      BY <1>2, <2>1, <2>4 DEF Same, Is
<1> QED
    BY <1>1, <1>2

\* Status().Update writes phase and commit of the copy.
LEMMA UpdateStatusEffect ==
    ASSUME ApiTypeOK, RvInv, NEW k \in Keys, NEW obj \in Version, UpdateStatus(k, obj)
    PROVE  /\ Wrote(k)
           /\ Is(Stored(k)', Stored(k).here, Stored(k).deleting, Stored(k).finalizer,
                 Stored(k).spec, obj.phase, obj.commit)
<1> DEFINE v == [Stored(k) EXCEPT !.phase = obj.phase, !.commit = obj.commit]
<1>0. /\ Stored(k) \in Version /\ obj.phase \in Phases /\ obj.commit \in Commits
      /\ Stored(k).here => Stored(k).spec \in Specs
      BY StoredFacts, VersionFields
<1>1. Is(v, Stored(k).here, Stored(k).deleting, Stored(k).finalizer,
         Stored(k).spec, obj.phase, obj.commit)
      BY <1>0, EditStatus
<1>2. Write(k, v)
      BY DEF UpdateStatus
<1> HIDE DEF v
<1>3. v \in Version /\ (v.here => v.spec \in Specs)
      BY <1>0, <1>1 DEF Is
<1>4. Wrote(k) /\ Same(Stored(k)', v)
      BY <1>2, <1>3, WriteEffect
<1> QED
    BY <1>1, <1>4 DEF Same, Is

-----------------------------------------------------------------------------
(* Every step keeps the order of the versions.                             *)

VersionsTyped == /\ versions \in [Keys -> Seq(Version)]
                 /\ \A k \in Keys : Len(versions[k]) > 0

\* A stored object stays or gets a larger resourceVersion.
Grown == \A k \in Keys : Stored(k)' = Stored(k) \/ Stored(k)'.rv > Stored(k).rv

\* A write gets the largest resourceVersion.
LEMMA WriteKeepsOrder ==
    ASSUME ApiTypeOK, RvInv, NEW k \in Keys, Wrote(k)
    PROVE  VersionsTyped' /\ RvInv' /\ Grown
<1>1. \A j \in Keys : Len(versions[j]) \in Nat /\ Len(versions[j]) > 0
      BY DEF ApiTypeOK
<1>2. \A j \in Keys \ {k} : versions'[j] = versions[j] /\ Stored(j)' = Stored(j)
      BY DEF Wrote, Stored
<1>3. Len(versions'[k]) = Len(versions[k]) + 1
      BY DEF Wrote
<1>4. VersionsTyped'
  <2>1. \A j \in Keys : Len(versions'[j]) > 0
        BY <1>1, <1>2, <1>3
  <2> QED
      BY <2>1 DEF VersionsTyped, Wrote
<1>5. Stored(k).rv \in Nat /\ Stored(k)'.rv = Stored(k).rv + 1
      BY StoredFacts, VersionFields DEF Wrote
<1>6. Grown
      BY <1>2, <1>5 DEF Grown
<1>7. ASSUME NEW i \in 1 .. Len(versions'[k])
      PROVE  /\ i < Len(versions'[k]) => versions'[k][i].rv < Stored(k)'.rv
             /\ versions'[k][i].here => versions'[k][i].spec \in Specs
  <2>1. CASE i = Len(versions'[k])
    <3>1. versions'[k][i] = Stored(k)'
          BY <2>1 DEF Stored
    <3>2. ~(i < Len(versions'[k]))
          BY <1>1, <1>3, <2>1
    <3> QED
        BY <3>1, <3>2 DEF Wrote
  <2>2. CASE i \in 1 .. Len(versions[k])
    <3>1. versions'[k][i] = versions[k][i]
          BY <2>2 DEF Wrote
    <3>2. versions[k][i] \in Version
          BY <2>2 DEF ApiTypeOK
    <3>3. versions[k][i].rv \in Nat
          BY <3>2, VersionFields
    <3>4. i < Len(versions[k]) => versions[k][i].rv < Stored(k).rv
          BY <2>2 DEF RvInv
    <3>5. i = Len(versions[k]) => versions[k][i].rv = Stored(k).rv
          BY DEF Stored
    <3>6. versions[k][i].rv < Stored(k)'.rv
          BY <1>1, <1>5, <2>2, <3>3, <3>4, <3>5
    <3>7. versions[k][i].here => versions[k][i].spec \in Specs
          BY <2>2 DEF RvInv
    <3> QED
        BY <3>1, <3>6, <3>7
  <2>3. i = Len(versions'[k]) \/ i \in 1 .. Len(versions[k])
        BY <1>1, <1>3
  <2> QED
      BY <2>1, <2>2, <2>3
<1>8. RvInv'
      BY <1>2, <1>7 DEF RvInv
<1> QED
    BY <1>4, <1>6, <1>8

\* A delivery drops the oldest version and leaves the stored one.
LEMMA InformerKeepsOrder ==
    ASSUME ApiTypeOK, RvInv, NEW k \in Keys, Informer(k)
    PROVE  VersionsTyped' /\ RvInv' /\ \A j \in Keys : Stored(j)' = Stored(j)
<1>1. /\ versions[k] \in Seq(Version) /\ Len(versions[k]) \in Nat /\ Len(versions[k]) > 1
      /\ versions \in [Keys -> Seq(Version)]
      BY DEF ApiTypeOK, Informer
<1>2. versions' = [versions EXCEPT ![k] = Tail(versions[k])]
      BY DEF Informer
<1>3. versions'[k] = Tail(versions[k]) /\ \A j \in Keys \ {k} : versions'[j] = versions[j]
      BY <1>1, <1>2
<1>4. /\ Tail(versions[k]) \in Seq(Version)
      /\ Len(Tail(versions[k])) = Len(versions[k]) - 1
      /\ \A i \in 1 .. Len(versions[k]) - 1 : Tail(versions[k])[i] = versions[k][i + 1]
      BY <1>1
<1>5. Stored(k)' = Stored(k)
      BY <1>1, <1>3, <1>4 DEF Stored
<1>6. \A j \in Keys : Stored(j)' = Stored(j)
      BY <1>3, <1>5 DEF Stored
<1>7. VersionsTyped'
  <2>1. versions' \in [Keys -> Seq(Version)]
        BY <1>1, <1>2, <1>4
  <2>2. \A j \in Keys : Len(versions'[j]) > 0
        BY <1>1, <1>3, <1>4 DEF ApiTypeOK
  <2> QED
      BY <2>1, <2>2 DEF VersionsTyped
<1>8. ASSUME NEW i \in 1 .. Len(versions'[k])
      PROVE  /\ i < Len(versions'[k]) => versions'[k][i].rv < Stored(k)'.rv
             /\ versions'[k][i].here => versions'[k][i].spec \in Specs
  <2>1. /\ i + 1 \in 1 .. Len(versions[k])
        /\ i < Len(versions'[k]) => i + 1 < Len(versions[k])
        /\ versions'[k][i] = versions[k][i + 1]
        BY <1>1, <1>3, <1>4
  <2> QED
      BY <1>5, <2>1 DEF RvInv
<1>9. RvInv'
      BY <1>3, <1>6, <1>8 DEF RvInv
<1> QED
    BY <1>6, <1>7, <1>9

\* A new process lists the stored objects.
LEMMA RestartKeepsOrder ==
    ASSUME ApiTypeOK, RvInv, StartsAgain
    PROVE  VersionsTyped' /\ RvInv' /\ \A j \in Keys : Stored(j)' = Stored(j)
<1>1. \A k \in Keys : Stored(k) \in Version /\ (Stored(k).here => Stored(k).spec \in Specs)
      BY StoredFacts
<1>2. versions' = [k \in Keys |-> <<Stored(k)>>]
      BY DEF StartsAgain
<1>3. \A k \in Keys : /\ versions'[k] = <<Stored(k)>> /\ Len(versions'[k]) = 1
                      /\ versions'[k][1] = Stored(k)
      BY <1>2
<1>4. \A k \in Keys : Stored(k)' = Stored(k)
      BY <1>3 DEF Stored
<1>5. VersionsTyped'
  <2>1. versions' \in [Keys -> Seq(Version)]
        BY <1>1, <1>2
  <2> QED
      BY <1>3, <2>1 DEF VersionsTyped
<1>6. RvInv'
  <2>1. ASSUME NEW k \in Keys, NEW i \in 1 .. Len(versions'[k])
        PROVE  ~(i < Len(versions'[k])) /\ versions'[k][i] = Stored(k)
    <3>1. Len(versions'[k]) = 1
          BY <1>3
    <3>2. i = 1 /\ ~(i < 1)
          BY <3>1
    <3> QED
        BY <1>3, <3>1, <3>2
  <2> QED
      BY <1>1, <1>4, <2>1 DEF RvInv
<1> QED
    BY <1>4, <1>5, <1>6

\* The parts of the invariant on the types.
LEMMA TypeParts ==
    ASSUME NInv
    PROVE  /\ ApiTypeOK /\ RvInv
           /\ rec.obj \in Version /\ rec.dirty \in BOOLEAN
           /\ rec.pc # "idle" => rec.key \in Keys
           /\ \A w \in Workers : /\ run[w] \in Runs /\ run[w].obj \in Version
                                 /\ run[w].pc # "none" => job[w] \in Keys
<1>1. ApiTypeOK /\ RvInv /\ RecTypeOK /\ RunTypeOK /\ RecInv /\ RunInv
      BY DEF NInv, TypeOK
<1>2. rec.obj \in Version /\ rec.dirty \in BOOLEAN
      BY <1>1 DEF RecTypeOK
<1>3. rec.pc # "idle" => rec.key \in Keys
      BY <1>1 DEF RecInv
<1>4. \A w \in Workers : run[w] \in Runs
      BY <1>1 DEF RunTypeOK
<1>5. \A w \in Workers : run[w].obj \in Version
      BY <1>4 DEF Runs
<1>6. \A w \in Workers : run[w].pc # "none" => job[w] \in Keys
      BY <1>1 DEF RunInv, RunOK
<1> QED
    BY <1>1, <1>2, <1>3, <1>4, <1>5, <1>6

\* The reconciler writes in Update and in Status().Update only.
LEMMA ReconcilerWrites ==
    ASSUME (\E k \in Keys : Reconcile(k)) \/ RecStep \/ RecFault
    PROVE  UNCHANGED versions \/ RecUpdates \/ RecUpdatesStatus
BY DEF Reconcile, ReconcileMissing, ReconcileMismatch, ReconcileDeleting, ReconcileInvalid,
       ReconcileValid, RecStep, RecFault, RecCascades, RecStops, RecStarts, RecConflicts,
       RecCascadeFails, RecWriteFails

\* A worker writes in updateCommitStatus only.
LEMMA WorkerWrites ==
    ASSUME NEW w \in Workers, RunStep(w) \/ RunFault(w)
    PROVE  UNCHANGED versions \/ (RunPutsStatus(w) /\ UpdateStatus(job[w], run[w].obj))
BY DEF RunStep, RunFault, RunGets, RunFetches, RunDecides, RunCompares, RunApplies, RunSyncs,
       RunGetsStatus, RunPutsStatus, RunCascades, RunStops, RunSyncFails, RunFails,
       RunCascadeFails

\* Every step is one of the following: nothing changes, the informer delivers,
\* the process starts again, or somebody writes.
LEMMA StepWrites ==
    ASSUME ComponentStep
    PROVE  \/ UNCHANGED versions
           \/ \E k \in Keys : Informer(k)
           \/ StartsAgain
           \/ (RecUpdates \/ RecUpdatesStatus) /\ run' = run
           \/ \E w \in Workers : RunPutsStatus(w) /\ UpdateStatus(job[w], run[w].obj)
           \/ UserActs
<1>1. OthersAct => UNCHANGED versions
      BY DEF OthersAct, Push, Drift, ReloadConfig
<1>2. \A w \in Workers, k \in Keys : WorkerTakes(w, k) => UNCHANGED versions
      BY DEF WorkerTakes, RunStarts
<1> QED
    BY <1>1, <1>2, ReconcilerWrites, WorkerWrites
    DEF ComponentStep, ReconcilerTakes, ReconcilerContinues, ReconcilerFails,
        WorkerContinues, WorkerFails, WorkerPanics, InformerDelivers, Restart

\* Every step keeps the versions typed and ordered, and never replaces a stored
\* object without a larger resourceVersion.
LEMMA ApiStep ==
    ASSUME NInv, ComponentStep
    PROVE  VersionsTyped' /\ RvInv' /\ Grown
<1> DEFINE Good == VersionsTyped' /\ RvInv' /\ Grown
<1> SUFFICES Good
    OBVIOUS
<1>0. /\ ApiTypeOK /\ RvInv
      /\ rec.obj \in Version /\ (rec.pc # "idle" => rec.key \in Keys)
      /\ \A w \in Workers : run[w].obj \in Version /\ (run[w].pc # "none" => job[w] \in Keys)
      BY TypeParts
<1>1. CASE UNCHANGED versions
      BY <1>0, <1>1 DEF VersionsTyped, ApiTypeOK, RvInv, Grown, Stored
<1>2. CASE \E k \in Keys : Informer(k)
      BY <1>0, <1>2, InformerKeepsOrder DEF Grown
<1>3. CASE StartsAgain
      BY <1>0, <1>3, RestartKeepsOrder DEF Grown
<1>4. CASE RecUpdates
  <2>1. rec.key \in Keys /\ UpdateFinalizer(rec.key, rec.obj)
        BY <1>0, <1>4 DEF RecUpdates
  <2>2. Wrote(rec.key)
        BY <1>0, <2>1, UpdateFinalizerEffect
  <2> QED
      BY <1>0, <2>1, <2>2, WriteKeepsOrder
<1>5. CASE RecUpdatesStatus
  <2>1. rec.key \in Keys /\ UpdateStatus(rec.key, rec.obj)
        BY <1>0, <1>5 DEF RecUpdatesStatus
  <2>2. Wrote(rec.key)
        BY <1>0, <2>1, UpdateStatusEffect
  <2> QED
      BY <1>0, <2>1, <2>2, WriteKeepsOrder
<1>6. ASSUME NEW w \in Workers, RunPutsStatus(w), UpdateStatus(job[w], run[w].obj)
      PROVE  Good
  <2>1. job[w] \in Keys
        BY <1>0, <1>6 DEF RunPutsStatus, Step
  <2>2. Wrote(job[w])
        BY <1>0, <1>6, <2>1, UpdateStatusEffect
  <2> QED
      BY <1>0, <2>1, <2>2, WriteKeepsOrder
<1>7. CASE UserStep
      BY <1>0, <1>7, CreateEffect, EditEffect, DeleteEffect, WriteKeepsOrder DEF UserStep
<1> QED
    BY <1>1, <1>2, <1>3, <1>4, <1>5, <1>6, <1>7, StepWrites DEF UserActs

-----------------------------------------------------------------------------
(* The reconciler's copy.                                                  *)

\* A copy that is current after a step was current before, and the stored
\* object is the same.
LEMMA CopyStays ==
    ASSUME NInv, ComponentStep, NEW k \in Keys, NEW n \in Nat, n <= Stored(k).rv
    PROVE  /\ n <= Stored(k)'.rv
           /\ n = Stored(k)'.rv => n = Stored(k).rv /\ Stored(k)' = Stored(k)
<1>1. Stored(k).rv \in Nat
      BY TypeParts, StoredFacts, VersionFields
<1>2. Stored(k)' \in Version
      BY ApiStep DEF VersionsTyped, Stored
<1>3. Stored(k)'.rv \in Nat
      BY <1>2, VersionFields
<1>4. Stored(k)' = Stored(k) \/ Stored(k)'.rv > Stored(k).rv
      BY ApiStep DEF Grown
<1> QED
    BY <1>1, <1>3, <1>4

\* The reconciler does nothing and nothing new is watched.
LEMMA OtherStepKeepsRecInv ==
    ASSUME NInv, ComponentStep, rec' = rec, watched' \subseteq watched
    PROVE  RecInv'
<1>1. CASE rec.pc = "idle"
      BY <1>1 DEF RecInv
<1>2. CASE rec.pc # "idle"
  <2>1. RecInv /\ rec.key \in Keys /\ rec.obj.rv \in Nat /\ rec.obj.rv <= Stored(rec.key).rv
        BY <1>2, TypeParts, VersionFields DEF NInv, RecInv
  <2>2. /\ rec.obj.rv <= Stored(rec.key)'.rv
        /\ rec.obj.rv = Stored(rec.key)'.rv =>
              rec.obj.rv = Stored(rec.key).rv /\ Stored(rec.key)' = Stored(rec.key)
        BY <2>1, CopyStays
  <2> DEFINE st == Stored(rec.key)'
  <2>3. rec'.obj.rv = st.rv => /\ rec'.obj.deleting = st.deleting
                               /\ rec'.obj.commit = st.commit
                               /\ rec'.pc = "start" /\ ~rec'.dirty => st.finalizer
                               /\ rec'.pc = "status" /\ rec'.obj.phase = "Running" => st.finalizer
        BY <1>2, <2>1, <2>2 DEF RecInv, Current
  <2>4. rec'.pc = "update" =>
           \/ rec'.obj.finalizer /\ ~rec'.obj.deleting
           \/ ~rec'.obj.finalizer /\ rec'.obj.deleting /\ rec'.key \notin watched'
        BY <1>2, <2>1 DEF RecInv
  <2> QED
      BY <1>2, <2>1, <2>2, <2>3, <2>4 DEF RecInv, Current
<1> QED
    BY <1>1, <1>2

\* Reading the object: the copy agrees with the stored object if it is current.
LEMMA ReadKeepsRecInv ==
    ASSUME NInv, NEW k \in Keys, Reconcile(k), rec' # rec, rec' # Idle
    PROVE  RecInv'
<1> DEFINE c == Cached(k)
<1>1. /\ c \in Version /\ Stored(k) \in Version /\ c.rv <= Stored(k).rv
      /\ c.rv = Stored(k).rv => c = Stored(k)
      BY TypeParts, StoredFacts
<1>2. c.deleting \in BOOLEAN /\ c.finalizer \in BOOLEAN
      BY <1>1, VersionFields
<1>3. Stored(k)' = Stored(k)
      BY ReconcilerWrites DEF Reconcile, ReconcileMissing, ReconcileMismatch,
         ReconcileDeleting, ReconcileInvalid, ReconcileValid, Stored
<1>4. Is(InitConditions(c), c.here, c.deleting, c.finalizer, c.spec, "Pending", c.commit)
      /\ InitConditions(c).rv = c.rv
      BY <1>1, EditStatus, VersionFields DEF InitConditions, Phases
<1> DEFINE o == InitConditions(c)
<1>5. o \in Version
      BY <1>4 DEF Is
<1>6. CASE ReconcileMismatch(k)
  <2> DEFINE p == MarkNotApplicable(o)
  <2>1. Is(p, o.here, o.deleting, o.finalizer, o.spec, "NotApplicable", o.commit) /\ p.rv = o.rv
        BY <1>5, EditStatus, VersionFields DEF MarkNotApplicable, Phases
  <2>2. /\ p.rv = c.rv /\ p.deleting = c.deleting /\ p.commit = c.commit
        /\ p.phase = "NotApplicable"
        BY <1>4, <2>1 DEF Is
  <2> HIDE DEF p
  <2>3. rec' = [pc |-> "status", key |-> k, obj |-> p, dirty |-> FALSE]
        BY <1>6 DEF ReconcileMismatch, p
  <2> QED
      BY <1>1, <1>3, <2>2, <2>3 DEF RecInv, Current
<1>7. CASE ReconcileDeleting(k)
  <2>1. o.rv = c.rv /\ o.deleting = c.deleting /\ o.commit = c.commit
        BY <1>4 DEF Is
  <2> HIDE DEF o
  <2>2. rec' = [pc |-> "cascade", key |-> k, obj |-> o, dirty |-> FALSE] /\ c.deleting
        BY <1>7 DEF ReconcileDeleting, o
  <2> QED
      BY <1>1, <1>3, <2>1, <2>2 DEF RecInv, Current
<1>8. CASE ReconcileValid(k)
  <2> DEFINE p == AddFinalizer(o)
  <2>1. Is(p, o.here, o.deleting, TRUE, o.spec, o.phase, o.commit) /\ p.rv = o.rv
        BY <1>5, EditMetadata DEF AddFinalizer
  <2>2. /\ p.rv = c.rv /\ p.deleting = c.deleting /\ p.commit = c.commit
        /\ p.finalizer = TRUE
        BY <1>4, <2>1 DEF Is
  <2> HIDE DEF p
  <2>3. /\ rec' = [pc |-> "start", key |-> k, obj |-> p, dirty |-> NeedsUpdate(c, p)]
        /\ ~c.deleting
        BY <1>8 DEF ReconcileValid, p
  <2>4. ~NeedsUpdate(c, p) => c.finalizer = TRUE
        BY <2>2 DEF NeedsUpdate
  <2> QED
      BY <1>1, <1>3, <2>2, <2>3, <2>4 DEF RecInv, Current
<1> QED
    BY <1>6, <1>7, <1>8 DEF Reconcile, ReconcileMissing, ReconcileInvalid

\* The steps after the read keep it so.
LEMMA ContinueKeepsRecInv ==
    ASSUME NInv, RecCascades \/ RecStops \/ RecStarts \/ RecUpdates, rec' # Idle
    PROVE  RecInv'
<1>0. rec.pc # "idle"
      BY DEF RecCascades, RecStops, RecStarts, RecUpdates
<1>k. PICK k \in Keys, o \in Version : k = rec.key /\ o = rec.obj
      BY <1>0, TypeParts
<1>1. /\ o.rv \in Nat /\ o.deleting \in BOOLEAN /\ o.finalizer \in BOOLEAN
      /\ rec.dirty \in BOOLEAN
      BY TypeParts, VersionFields
<1>2. /\ o.rv <= Stored(k).rv
      /\ o.rv = Stored(k).rv => /\ o.deleting = Stored(k).deleting
                                /\ o.commit = Stored(k).commit
      BY <1>0, <1>k DEF NInv, RecInv, Current
<1>3. rec \in [pc : {"idle", "cascade", "stop", "start", "update", "status"},
               key : Keys \cup {NoKey}, obj : Version, dirty : BOOLEAN]
      BY DEF NInv, TypeOK, RecTypeOK
<1>4. CASE RecCascades
  <2>1. o.deleting
        BY <1>0, <1>4, <1>k DEF NInv, RecInv, RecCascades
  <2>2. /\ rec' = [rec EXCEPT !.pc = "stop", !.obj = o, !.dirty = rec.dirty]
        /\ versions' = versions
        BY <1>4, <1>k DEF RecCascades, Continue
  <2>3. rec'.pc = "stop" /\ rec'.key = k /\ rec'.obj = o
        BY <1>3, <1>k, <2>2
  <2>4. Stored(k)' = Stored(k)
        BY <2>2 DEF Stored
  <2> QED
      BY <1>1, <1>2, <2>1, <2>3, <2>4 DEF RecInv, Current
<1>5. CASE RecStops
  <2> DEFINE p == RemoveFinalizer(o)
  <2>1. Is(p, o.here, o.deleting, FALSE, o.spec, o.phase, o.commit) /\ p.rv = o.rv
        BY <1>1, EditMetadata DEF RemoveFinalizer
  <2>2. p.rv = o.rv /\ p.deleting = o.deleting /\ p.commit = o.commit /\ p.finalizer = FALSE
        BY <2>1 DEF Is
  <2>3. o.deleting
        BY <1>0, <1>5, <1>k DEF NInv, RecInv, RecStops
  <2>4. AfterReconcile(p, NeedsUpdate(o, p)) /\ versions' = versions /\ k \notin watched'
        BY <1>5, <1>k DEF RecStops, Syncer!Unwatch
  <2> HIDE DEF p
  <2>5. rec' = [rec EXCEPT !.pc = "update", !.obj = p, !.dirty = NeedsUpdate(o, p)]
        BY <2>2, <2>3, <2>4 DEF AfterReconcile, Continue, Return
  <2>6. rec'.pc = "update" /\ rec'.key = k /\ rec'.obj = p
        BY <1>3, <1>k, <2>5
  <2>7. Stored(k)' = Stored(k)
        BY <2>4 DEF Stored
  <2> QED
      BY <1>1, <1>2, <2>2, <2>3, <2>4, <2>6, <2>7 DEF RecInv, Current
<1>6. CASE RecStarts
  <2> DEFINE p == MarkRunning(o)
  <2>1. Is(p, o.here, o.deleting, o.finalizer, o.spec, "Running", o.commit) /\ p.rv = o.rv
        BY <1>1, EditStatus, VersionFields DEF MarkRunning, Phases
  <2>2. p.rv = o.rv /\ p.deleting = o.deleting /\ p.commit = o.commit /\ p.finalizer = o.finalizer
        BY <2>1 DEF Is
  <2>3. /\ o.finalizer /\ ~o.deleting
        /\ o.rv = Stored(k).rv /\ ~rec.dirty => Stored(k).finalizer
        BY <1>0, <1>6, <1>k DEF NInv, RecInv, Current, RecStarts
  <2>4. AfterReconcile(p, rec.dirty) /\ versions' = versions
        BY <1>6, <1>k DEF RecStarts
  <2> HIDE DEF p
  <2>5. \/ rec.dirty /\ rec' = [rec EXCEPT !.pc = "update", !.obj = p, !.dirty = rec.dirty]
        \/ ~rec.dirty /\ rec' = [rec EXCEPT !.pc = "status", !.obj = p, !.dirty = rec.dirty]
        BY <2>2, <2>3, <2>4 DEF AfterReconcile, Continue
  <2>6. /\ rec'.key = k /\ rec'.obj = p
        /\ rec'.pc = "update" \/ (rec'.pc = "status" /\ ~rec.dirty)
    <3>1. ASSUME NEW st \in {"update", "status"},
                 rec' = [rec EXCEPT !.pc = st, !.obj = p, !.dirty = rec.dirty]
          PROVE  rec'.key = k /\ rec'.obj = p /\ rec'.pc = st
          BY <1>3, <1>k, <3>1
    <3> QED
        BY <2>5, <3>1
  <2>7. Stored(k)' = Stored(k)
        BY <2>4 DEF Stored
  <2> QED
      BY <1>1, <1>2, <2>2, <2>3, <2>6, <2>7 DEF RecInv, Current
<1>7. CASE RecUpdates
  <2> DEFINE p == [o EXCEPT !.rv = o.rv + 1]
  <2>1. o.rv + 1 \in Nat
        BY <1>1
  <2>2. p.rv = o.rv + 1 /\ p.deleting = o.deleting /\ p.commit = o.commit
    <3>1. Same(p, o) /\ p.rv = o.rv + 1
          BY <2>1, EditMetadata
    <3> QED
        BY <3>1 DEF Same, Is
  <2>3. o.rv = Stored(k).rv /\ UpdateFinalizer(k, o) /\ AfterReconcile(p, FALSE)
        BY <1>7, <1>k DEF RecUpdates, Fresh
  <2> HIDE DEF p
  <2>4. ~o.deleting /\ rec' = [rec EXCEPT !.pc = "status", !.obj = p, !.dirty = FALSE]
        BY <2>2, <2>3 DEF AfterReconcile, Continue, Return
  <2>5. o.finalizer
        BY <1>0, <1>7, <1>k, <2>4 DEF NInv, RecInv, RecUpdates
  <2>6. rec'.pc = "status" /\ rec'.key = k /\ rec'.obj = p
        BY <1>3, <1>k, <2>4
  <2>7. /\ Is(Stored(k)', Stored(k).here, Stored(k).deleting, o.finalizer,
              Stored(k).spec, Stored(k).phase, Stored(k).commit)
        /\ Wrote(k)
    <3>1. ApiTypeOK /\ RvInv
          BY TypeParts
    <3> QED
        BY <2>3, <2>5, <3>1, UpdateFinalizerEffect
  <2>8. /\ Stored(k)'.deleting = o.deleting /\ Stored(k)'.commit = o.commit
        /\ Stored(k)'.finalizer /\ Stored(k)'.rv = o.rv + 1
        BY <1>2, <2>3, <2>5, <2>7 DEF Is, Wrote
  <2> QED
      BY <1>1, <2>1, <2>2, <2>6, <2>8 DEF RecInv, Current
<1> QED
    BY <1>4, <1>5, <1>6, <1>7

\* A worker never starts watching a key.
LEMMA WorkerWatchesLess ==
    ASSUME NEW w \in Workers, RunStep(w) \/ RunFault(w) \/ \E k \in Keys : RunStarts(w, k)
    PROVE  rec' = rec /\ watched' \subseteq watched
BY DEF RunStep, RunFault, RunStarts, RunGets, RunFetches, RunDecides, RunCompares, RunApplies, RunSyncs,
       RunGetsStatus, RunPutsStatus, RunCascades, RunStops, RunSyncFails, RunFails,
       RunCascadeFails, EndRun, Syncer!Pick, Syncer!Finish, Syncer!FinishUnwatch

\* Every step keeps the reconciler's copy as RecInv says.
LEMMA StepKeepsRecInv ==
    ASSUME NInv, ComponentStep
    PROVE  RecInv'
<1>1. CASE rec' = Idle
      BY <1>1 DEF RecInv, Idle
<1>2. ASSUME rec' = rec, watched' \subseteq watched
      PROVE  RecInv'
      BY <1>2, OtherStepKeepsRecInv
<1>3. ASSUME NEW k \in Keys, ReconcilerTakes(k)
      PROVE  RecInv'
  <2>1. Reconcile(k) /\ watched' = watched
        BY <1>3 DEF ReconcilerTakes, Reconcile, ReconcileMissing, ReconcileMismatch,
           ReconcileDeleting, ReconcileInvalid, ReconcileValid
  <2> QED
      BY <1>1, <1>2, <2>1, ReadKeepsRecInv
<1>4. CASE ReconcilerContinues
  <2>1. \/ RecCascades \/ RecStops \/ RecStarts \/ RecUpdates
        \/ rec' = Idle
        BY <1>4 DEF ReconcilerContinues, RecStep, RecUpdatesStatus, RecConflicts,
           Return, ReturnError
  <2> QED
      BY <1>1, <2>1, ContinueKeepsRecInv
<1>5. CASE ReconcilerFails
      BY <1>1, <1>5 DEF ReconcilerFails, RecFault, RecCascadeFails, RecWriteFails, ReturnError
<1>6. ASSUME NEW w \in Workers,
             WorkerContinues(w) \/ WorkerFails(w) \/ \E k \in Keys : WorkerTakes(w, k)
      PROVE  RecInv'
      BY <1>2, <1>6, WorkerWatchesLess DEF WorkerContinues, WorkerFails, WorkerTakes
<1>7. ASSUME (\E k \in Keys : InformerDelivers(k)) \/ UserActs \/ OthersAct
      PROVE  RecInv'
      BY <1>2, <1>7 DEF InformerDelivers, UserActs, OthersAct
<1>8. ASSUME StartsAgain
      PROVE  RecInv'
      BY <1>1, <1>8 DEF StartsAgain
<1> QED
    BY <1>3, <1>4, <1>5, <1>6, <1>7, <1>8 DEF ComponentStep, WorkerPanics, Restart

-----------------------------------------------------------------------------
(* The locals of the workers.                                              *)

\* The history only grows.
LEMMA HistoryGrows ==
    ASSUME Remember, NEW k \in Keys
    PROVE  /\ applied[k] \subseteq applied'[k]
           /\ \A r \in Resources : <<r, live'[k][r]>> \in applied'[k]
BY DEF Remember

\* What has been applied stays so.
LEMMA AppliedStays ==
    ASSUME Remember, NEW k \in Keys, NEW h, WasApplied(k, h)
    PROVE  WasApplied(k, h)'
BY HistoryGrows DEF WasApplied, Target

\* A step that is not one of w leaves w's locals good.
LEMMA OtherStepKeepsRunOK ==
    ASSUME NInv, ComponentStep, Remember, NEW w \in Workers, run'[w] = run[w], job'[w] = job[w]
    PROVE  RunOK(w)'
<1>1. RunOK(w) /\ (run[w].pc # "none" => job[w] \in Keys)
      BY DEF NInv, RunInv, RunOK
<1>2. ASSUME run[w].pc # "none"
      PROVE  /\ applied[job[w]] \subseteq applied'[job[w]]
             /\ \A h : WasApplied(job[w], h) => WasApplied(job[w], h)'
  <2>1. PICK k \in Keys : k = job[w]
        BY <1>1, <1>2
  <2>2. \A h : WasApplied(k, h) => WasApplied(k, h)'
        BY AppliedStays
  <2> QED
      BY <2>1, <2>2, HistoryGrows DEF WasApplied
<1>3. ASSUME run[w].pc = "statusPut"
      PROVE  /\ run[w].obj.rv <= Stored(job[w])'.rv
             /\ run[w].obj.rv = Stored(job[w])'.rv => run[w].obj.phase = Stored(job[w])'.phase
  <2>1. PICK k \in Keys : k = job[w]
        BY <1>1, <1>3
  <2>2. run[w].obj.rv \in Nat /\ run[w].obj.rv <= Stored(k).rv
        BY <1>1, <1>3, <2>1, TypeParts, VersionFields DEF RunOK
  <2>3. /\ run[w].obj.rv <= Stored(k)'.rv
        /\ run[w].obj.rv = Stored(k)'.rv =>
              run[w].obj.rv = Stored(k).rv /\ Stored(k)' = Stored(k)
        BY <2>2, CopyStays
  <2>4. run[w].obj.rv = Stored(k).rv => run[w].obj.phase = Stored(k).phase
        BY <1>1, <1>3, <2>1 DEF RunOK, Current
  <2>5. Stored(job[w])' = Stored(k)'
        BY <2>1 DEF Stored
  <2> QED
      BY <2>3, <2>4, <2>5
<1> QED
    BY <1>1, <1>2, <1>3 DEF RunOK, Current

\* The worker's own steps do as well.
LEMMA OwnStepKeepsRunOK ==
    ASSUME NInv, Remember, NEW w \in Workers,
           RunStep(w) \/ RunFault(w) \/ \E k \in Keys : RunStarts(w, k)
    PROVE  RunOK(w)'
<1>1. run \in [Workers -> Runs] /\ run[w] \in Runs /\ RunOK(w)
      BY DEF NInv, TypeOK, RunTypeOK, RunInv
<1>2. job \in [Workers -> Keys \cup {NoKey}] /\ head \in Hashes /\ live \in [Keys -> Live]
      BY DEF NInv, TypeOK, ResTypeOK, Syncer!WSTypeOK
<1>3. CASE run'[w] = NoRun
      BY <1>3 DEF RunOK, NoRun
<1>4. ASSUME EndRun(w) PROVE RunOK(w)'
      BY <1>1, <1>3, <1>4 DEF EndRun
<1>5. ASSUME NEW k \in Keys, RunStarts(w, k) PROVE RunOK(w)'
  <2>1. run'[w].pc = "get" /\ job'[w] = k
        BY <1>1, <1>2, <1>5 DEF RunStarts, Syncer!Pick, Runs
  <2> QED
      BY <2>1 DEF RunOK
<1>6. ASSUME NEW pc \in {"stop", "cascade"}, Goto(w, pc), job' = job, run[w].pc # "none"
      PROVE  RunOK(w)'
  <2>1. run'[w].pc = pc
        BY <1>1, <1>6 DEF Goto, Runs
  <2> QED
      BY <1>1, <1>6, <2>1 DEF RunOK
<1>7. CASE RunGets(w)
  <2>1. PICK k \in Keys : k = job[w]
        BY <1>1, <1>7 DEF RunOK, RunGets, Step
  <2>2. Cached(k).here => Cached(k).spec \in Specs
        BY TypeParts, StoredFacts
  <2>3. CASE /\ run' = [run EXCEPT ![w].pc = "fetch", ![w].obj = Cached(k)]
             /\ Cached(k).here /\ job' = job
    <3>1. run'[w].pc = "fetch" /\ run'[w].obj = Cached(k)
          BY <1>1, <2>3 DEF Runs
    <3> QED
        BY <2>1, <2>2, <2>3, <3>1 DEF RunOK
  <2>4. run[w].pc # "none"
        BY <1>7 DEF RunGets, Step
  <2> QED
      BY <1>4, <1>6, <1>7, <2>1, <2>3, <2>4 DEF RunGets
<1>8. CASE RunFetches(w)
  <2>1. PICK s \in Specs : s = run[w].obj.spec
        BY <1>1, <1>8 DEF RunOK, RunFetches, Step
  <2>2. /\ run' = [run EXCEPT ![w].pc = "decide", ![w].hash = head,
                              ![w].target = Target(s, head), ![w].obj = Gone(0)]
        /\ job' = job
        BY <1>8, <2>1 DEF RunFetches
  <2>3. run'[w].pc = "decide" /\ run'[w].hash = head /\ run'[w].target = Target(s, head)
        BY <1>1, <2>2 DEF Runs
  <2>4. job[w] \in Keys
        BY <1>1, <1>8 DEF RunOK, RunFetches, Step
  <2> QED
      BY <1>2, <2>2, <2>3, <2>4 DEF RunOK, Target
<1>9. CASE RunDecides(w)
  <2>1. PICK s \in Specs, h \in Hashes : run[w].hash = h /\ run[w].target = Target(s, h)
        BY <1>1, <1>9 DEF RunOK, RunDecides, Step
  <2>2. ASSUME Goto(w, "compare"), job' = job
        PROVE  RunOK(w)'
    <3>1. run'[w].pc = "compare" /\ run'[w].hash = h /\ run'[w].target = Target(s, h)
          BY <1>1, <2>1, <2>2 DEF Runs, Goto
    <3>2. job[w] \in Keys
          BY <1>1, <1>9 DEF RunOK, RunDecides, Step
    <3> QED
        BY <2>2, <3>1, <3>2 DEF RunOK, Target
  <2> QED
      BY <1>4, <1>9, <2>2 DEF RunDecides
<1>10. CASE RunCompares(w)
  <2>1. PICK k \in Keys : k = job[w]
        BY <1>1, <1>10 DEF RunOK, RunCompares, Step
  <2>2. PICK s \in Specs, h \in Hashes : run[w].hash = h /\ run[w].target = Target(s, h)
        BY <1>1, <1>10 DEF RunOK, RunCompares, Step
  <2> DEFINE d == StateDiffs(Target(s, h), live[k])
  <2>3. run' = [run EXCEPT ![w].pc = "apply", ![w].todo = d] /\ job' = job
        BY <1>10, <2>1, <2>2 DEF RunCompares, GetManagedLiveObjs
  <2>4. \A r \in Resources \ d : <<r, Target(s, h)[r]>> \in applied'[k]
        BY HistoryGrows DEF NInv, LiveInv, StateDiffs
  <2> HIDE DEF d
  <2>5. /\ run'[w].pc = "apply" /\ run'[w].hash = h /\ run'[w].target = Target(s, h)
        /\ run'[w].todo = d
        BY <1>1, <2>2, <2>3 DEF Runs
  <2> QED
      BY <2>1, <2>3, <2>4, <2>5 DEF RunOK, Target
<1>11. CASE RunApplies(w)
  <2>1. PICK k \in Keys : k = job[w]
        BY <1>1, <1>11 DEF RunOK, RunApplies, Step
  <2>2. PICK s \in Specs, h \in Hashes : run[w].hash = h /\ run[w].target = Target(s, h)
        BY <1>1, <1>11 DEF RunOK, RunApplies, Step
  <2>3. PICK r \in Resources :
           /\ live' = [live EXCEPT ![k][r] = Target(s, h)[r]]
           /\ run' = [run EXCEPT ![w].todo = @ \ {r}]
        BY <1>1, <1>11, <2>1, <2>2 DEF RunApplies, Runs
  <2>4. job' = job /\ run[w].pc = "apply"
        BY <1>11 DEF RunApplies, Step
  <2>5. /\ run'[w].pc = "apply" /\ run'[w].hash = h /\ run'[w].target = Target(s, h)
        /\ run'[w].todo = run[w].todo \ {r}
        BY <1>1, <2>2, <2>3, <2>4 DEF Runs
  <2>6. live'[k][r] = Target(s, h)[r]
        BY <1>2, <2>3 DEF Live
  <2>7. \A x \in Resources \ run[w].todo : <<x, Target(s, h)[x]>> \in applied[k]
        BY <1>1, <2>1, <2>2, <2>4 DEF RunOK
  <2>8. \A x \in Resources \ (run[w].todo \ {r}) : <<x, Target(s, h)[x]>> \in applied'[k]
        BY <2>6, <2>7, HistoryGrows
  <2> QED
      BY <2>1, <2>4, <2>5, <2>8 DEF RunOK, Target
<1>12. ASSUME NEW b \in BOOLEAN, EndSync(w, b), job' = job,
              run[w].pc \in {"compare", "apply"},
              b => run[w].pc = "apply" /\ run[w].todo = {}
       PROVE  RunOK(w)'
  <2>1. PICK k \in Keys : k = job[w]
        BY <1>1, <1>12 DEF RunOK
  <2>2. PICK s \in Specs, h \in Hashes : run[w].hash = h /\ run[w].target = Target(s, h)
        BY <1>1, <1>12 DEF RunOK
  <2>3. run'[w].pc = "statusGet" /\ run'[w].hash = h /\ run'[w].synced = b
        BY <1>1, <1>12, <2>2 DEF Runs, EndSync
  <2>4. b => \A r \in Resources : <<r, Target(s, h)[r]>> \in applied[k]
        BY <1>1, <1>12, <2>1, <2>2 DEF RunOK
  <2>5. b => WasApplied(k, h)'
        BY <2>4, AppliedStays DEF WasApplied
  <2>6. b => WasApplied(job[w], run[w].hash)'
        BY <1>12, <2>1, <2>3, <2>5 DEF WasApplied
  <2> QED
      BY <1>12, <2>1, <2>3, <2>6 DEF RunOK
<1>16. CASE RunSyncs(w)
      BY <1>12, <1>16 DEF RunSyncs, Step
<1>17. CASE RunSyncFails(w)
      BY <1>12, <1>17 DEF RunSyncFails
<1>13. CASE RunGetsStatus(w)
  <2>1. PICK k \in Keys : k = job[w]
        BY <1>1, <1>13 DEF RunOK, RunGetsStatus, Step
  <2>2. run[w].hash \in Hashes /\ (run[w].synced => WasApplied(k, run[w].hash))
        BY <1>1, <1>13, <2>1 DEF RunOK, RunGetsStatus, Step
  <2> DEFINE o == [Cached(k) EXCEPT !.commit = NewCommit(w)]
  <2>3. NewCommit(w) \in Commits
        BY <1>1, <2>2 DEF NewCommit, Commits, Runs
  <2>4. /\ Cached(k) \in Version /\ Cached(k).rv <= Stored(k).rv
        /\ Cached(k).rv = Stored(k).rv => Cached(k) = Stored(k)
        BY TypeParts, StoredFacts
  <2>5. o.rv = Cached(k).rv /\ o.phase = Cached(k).phase /\ o.commit = NewCommit(w)
    <3>1. /\ Is(o, Cached(k).here, Cached(k).deleting, Cached(k).finalizer, Cached(k).spec,
                Cached(k).phase, NewCommit(w))
          /\ o.rv = Cached(k).rv
          BY <2>3, <2>4, EditStatus, VersionFields
    <3> QED
        BY <3>1 DEF Is
  <2> HIDE DEF o
  <2>6. PICK c \in Commits : c = NewCommit(w) /\ (c.synced => WasApplied(k, c.hash)')
    <3>1. PICK h \in Hashes : h = run[w].hash
          BY <2>2
    <3>2. run[w].synced => WasApplied(k, h)'
          BY <2>2, <3>1, AppliedStays
    <3>3. NewCommit(w).hash = h /\ NewCommit(w).synced = run[w].synced
          BY <3>1 DEF NewCommit
    <3> QED
        BY <2>3, <3>2, <3>3
  <2>7. ASSUME run' = [run EXCEPT ![w].pc = "statusPut", ![w].obj = o],
               job' = job, versions' = versions
        PROVE  RunOK(w)'
    <3>1. run'[w].pc = "statusPut" /\ run'[w].obj = o
          BY <1>1, <2>7 DEF Runs
    <3>2. Stored(job[w])' = Stored(k)
          BY <2>1, <2>7 DEF Stored
    <3>3. run'[w].obj.commit = c
          BY <2>5, <2>6, <3>1
    <3>4. run'[w].obj.commit.synced => WasApplied(job[w], run[w].obj.commit.hash)'
          BY <2>1, <2>6, <2>7, <3>3 DEF WasApplied
    <3> QED
        BY <2>1, <2>4, <2>5, <2>7, <3>1, <3>2, <3>4 DEF RunOK, Current
  <2>8. \/ EndRun(w)
        \/ /\ run' = [run EXCEPT ![w].pc = "statusPut", ![w].obj = o]
           /\ job' = job /\ versions' = versions
        BY <1>13, <2>1 DEF RunGetsStatus, o
  <2> QED
      BY <1>4, <2>7, <2>8
<1>14. CASE RunCascades(w)
  <2>1. Goto(w, "stop") /\ job' = job /\ run[w].pc # "none"
        BY <1>14 DEF RunCascades, Step
  <2> QED
      BY <1>6, <2>1
<1>15. CASE RunStops(w)
      BY <1>1, <1>3, <1>15 DEF RunStops
<1> QED
    BY <1>4, <1>5, <1>7, <1>8, <1>9, <1>10, <1>11, <1>13, <1>14, <1>15, <1>16,
       <1>17
    DEF RunStep, RunFault, RunPutsStatus, RunFails, RunCascadeFails

\* A step of w leaves the other workers alone.
LEMMA WorkersAreApart ==
    ASSUME NInv, NEW w \in Workers, NEW x \in Workers \ {w},
           RunStep(w) \/ RunFault(w) \/ \E k \in Keys : RunStarts(w, k)
    PROVE  run'[x] = run[x] /\ job'[x] = job[x]
<1>1. run \in [Workers -> Runs] /\ job \in [Workers -> Keys \cup {NoKey}]
      BY DEF NInv, TypeOK, RunTypeOK, Syncer!WSTypeOK
<1>2. run'[x] = run[x]
      BY <1>1 DEF RunStep, RunFault, RunStarts, RunGets, RunFetches, RunDecides, RunCompares,
         RunApplies, RunSyncs, EndSync, RunGetsStatus, RunPutsStatus, RunCascades, RunStops, RunSyncFails,
         RunFails, RunCascadeFails, EndRun, Goto
<1>3. job'[x] = job[x]
      BY <1>1 DEF RunStep, RunFault, RunStarts, RunGets, RunFetches, RunDecides, RunCompares,
         RunApplies, RunSyncs, EndSync, RunGetsStatus, RunPutsStatus, RunCascades, RunStops, RunSyncFails,
         RunFails, RunCascadeFails, EndRun, Syncer!Pick, Syncer!Finish, Syncer!FinishUnwatch
<1> QED
    BY <1>2, <1>3

\* The reconciler does not touch the jobs of the workers.
LEMMA ReconcilerLeavesJobs ==
    ASSUME (\E k \in Keys : Reconcile(k)) \/ RecStep \/ RecFault
    PROVE  job' = job
BY DEF Reconcile, ReconcileMissing, ReconcileMismatch, ReconcileDeleting, ReconcileInvalid,
       ReconcileValid, RecStep, RecFault, RecCascades, RecStops, RecStarts, RecUpdates,
       RecUpdatesStatus, RecConflicts, RecCascadeFails, RecWriteFails,
       Syncer!Watch, Syncer!Unwatch

\* Every step keeps the locals of every worker as RunInv says.
LEMMA StepKeepsRunInv ==
    ASSUME NInv, ComponentStep, Remember
    PROVE  RunInv'
<1>1. ASSUME run' = run, job' = job
      PROVE  RunInv'
      BY <1>1, OtherStepKeepsRunOK DEF RunInv
<1>2. ASSUME NEW w \in Workers,
             RunStep(w) \/ RunFault(w) \/ \E k \in Keys : RunStarts(w, k)
      PROVE  RunInv'
  <2>1. RunOK(w)'
        BY <1>2, OwnStepKeepsRunOK
  <2>2. ASSUME NEW x \in Workers \ {w}
        PROVE  RunOK(x)'
        BY <1>2, WorkersAreApart, OtherStepKeepsRunOK
  <2> QED
      BY <2>1, <2>2 DEF RunInv
<1>3. CASE StartsAgain
  <2>1. \A w \in Workers : run'[w].pc = "none"
        BY <1>3 DEF StartsAgain, NoRun
  <2> QED
      BY <2>1 DEF RunInv, RunOK
<1>4. ASSUME (\E k \in Keys : ReconcilerTakes(k)) \/ ReconcilerContinues \/ ReconcilerFails
      PROVE  run' = run /\ job' = job
      BY <1>4, ReconcilerLeavesJobs DEF ReconcilerTakes, ReconcilerContinues, ReconcilerFails
<1>5. ASSUME (\E k \in Keys : InformerDelivers(k)) \/ UserActs \/ OthersAct
      PROVE  run' = run /\ job' = job
      BY <1>5 DEF InformerDelivers, UserActs, OthersAct
<1>6. ASSUME NEW w \in Workers,
             WorkerContinues(w) \/ WorkerFails(w) \/ \E k \in Keys : WorkerTakes(w, k)
      PROVE  RunInv'
      BY <1>2, <1>6 DEF WorkerContinues, WorkerFails, WorkerTakes
<1> QED
    BY <1>1, <1>3, <1>4, <1>5, <1>6 DEF ComponentStep, WorkerPanics, Restart

-----------------------------------------------------------------------------
(* What is stored.                                                         *)

\* Both properties of the stored object.
StoredOK(k) ==
    /\ Stored(k).here /\ Stored(k).phase = "Running" => Stored(k).finalizer
    /\ Stored(k).here /\ Stored(k).commit.synced => WasApplied(k, Stored(k).commit.hash)

\* No write breaks what the stored objects promise: the copies that are written
\* are current, and so agree with what they overwrite.
LEMMA StepKeepsStoredOK ==
    ASSUME NInv, ComponentStep, Remember
    PROVE  RunningHasFinalizer' /\ SyncedWasApplied'
<1>1. SUFFICES ASSUME NEW k \in Keys
               PROVE  StoredOK(k)'
      BY <1>1 DEF StoredOK, RunningHasFinalizer, SyncedWasApplied
<1>2. /\ ApiTypeOK /\ RvInv
      /\ rec.obj \in Version /\ (rec.pc # "idle" => rec.key \in Keys)
      /\ \A w \in Workers : run[w].obj \in Version /\ (run[w].pc # "none" => job[w] \in Keys)
      BY TypeParts
<1>3. StoredOK(k) /\ \A h : WasApplied(k, h) => WasApplied(k, h)'
      BY AppliedStays DEF NInv, RunningHasFinalizer, SyncedWasApplied, StoredOK
<1>0. ASSUME NEW h, Stored(k)'.commit.hash = h, WasApplied(k, h)
      PROVE  WasApplied(k, Stored(k).commit.hash)'
  <2>1. WasApplied(k, h)'
        BY <1>0, <1>3
  <2> QED
      BY <1>0, <2>1 DEF WasApplied
<1>4. CASE Stored(k)' = Stored(k)
      BY <1>0, <1>3, <1>4 DEF StoredOK
<1>5. ASSUME NEW j \in Keys, Wrote(j), j # k
      PROVE  StoredOK(k)'
      BY <1>4, <1>5 DEF Wrote, Stored
<1>6. ASSUME UserStep
      PROVE  StoredOK(k)'
  <2>1. ASSUME NEW s \in Specs, UserCreates(k, s)
        PROVE  StoredOK(k)'
    <3>1. Is(Stored(k)', TRUE, FALSE, FALSE, s, "", NoCommit)
          BY <1>2, <2>1, CreateEffect
    <3>2. Stored(k)'.phase # "Running" /\ Stored(k)'.commit = NoCommit
          BY <3>1 DEF Is
    <3>3. ~NoCommit.synced
          BY DEF NoCommit
    <3> QED
        BY <3>2, <3>3 DEF StoredOK
  <2>2. ASSUME NEW s \in Specs, UserEdits(k, s)
        PROVE  StoredOK(k)'
    <3>1. Is(Stored(k)', Stored(k).here, Stored(k).deleting, Stored(k).finalizer, s,
             Stored(k).phase, Stored(k).commit)
          BY <1>2, <2>2, EditEffect
    <3> QED
        BY <1>0, <1>3, <3>1 DEF Is, StoredOK
  <2>3. ASSUME UserDeletes(k)
        PROVE  StoredOK(k)'
    <3>1. /\ Stored(k).finalizer =>
                 Is(Stored(k)', TRUE, TRUE, TRUE, Stored(k).spec,
                    Stored(k).phase, Stored(k).commit)
          /\ ~Stored(k).finalizer => ~Stored(k)'.here
          /\ Stored(k).here
          BY <1>2, <2>3, DeleteEffect DEF UserDeletes
    <3> QED
        BY <1>0, <1>3, <3>1 DEF Is, StoredOK
  <2>4. ASSUME NEW j \in Keys, j # k,
               UserDeletes(j) \/ \E s \in Specs : UserCreates(j, s) \/ UserEdits(j, s)
        PROVE  StoredOK(k)'
        BY <1>2, <1>5, <2>4, CreateEffect, EditEffect, DeleteEffect
  <2> QED
      BY <1>6, <2>1, <2>2, <2>3, <2>4 DEF UserStep
<1>7. CASE RecUpdates
  <2>1. PICK j \in Keys, o \in Version : j = rec.key /\ o = rec.obj
        BY <1>2, <1>7 DEF RecUpdates
  <2>2. UpdateFinalizer(j, o) /\ o.rv = Stored(j).rv
        BY <1>7, <2>1 DEF RecUpdates, Fresh
  <2>3. o.deleting = Stored(j).deleting /\ (o.finalizer \/ o.deleting)
        BY <1>7, <2>1, <2>2 DEF RecUpdates, NInv, RecInv, Current
  <2>4. /\ Wrote(j)
        /\ Stored(j).deleting /\ ~o.finalizer => ~Stored(j)'.here
        /\ ~(Stored(j).deleting /\ ~o.finalizer) =>
              Is(Stored(j)', Stored(j).here, Stored(j).deleting, o.finalizer,
                 Stored(j).spec, Stored(j).phase, Stored(j).commit)
        BY <1>2, <2>2, UpdateFinalizerEffect
  <2>5. ASSUME j = k
        PROVE  StoredOK(k)'
        BY <1>0, <1>3, <2>3, <2>4, <2>5 DEF Is, StoredOK
  <2> QED
      BY <1>5, <2>4, <2>5
<1>8. CASE RecUpdatesStatus
  <2>1. PICK j \in Keys, o \in Version : j = rec.key /\ o = rec.obj
        BY <1>2, <1>8 DEF RecUpdatesStatus
  <2>2. UpdateStatus(j, o) /\ o.rv = Stored(j).rv
        BY <1>8, <2>1 DEF RecUpdatesStatus, Fresh
  <2>3. o.commit = Stored(j).commit /\ (o.phase = "Running" => Stored(j).finalizer)
        BY <1>8, <2>1, <2>2 DEF RecUpdatesStatus, NInv, RecInv, Current
  <2>4. /\ Wrote(j)
        /\ Is(Stored(j)', Stored(j).here, Stored(j).deleting, Stored(j).finalizer,
              Stored(j).spec, o.phase, o.commit)
        BY <1>2, <2>2, UpdateStatusEffect
  <2>5. ASSUME j = k
        PROVE  StoredOK(k)'
        BY <1>0, <1>3, <2>3, <2>4, <2>5 DEF Is, StoredOK
  <2> QED
      BY <1>5, <2>4, <2>5
<1>9. ASSUME NEW w \in Workers, RunPutsStatus(w), UpdateStatus(job[w], run[w].obj),
             Stored(k)' # Stored(k)
      PROVE  StoredOK(k)'
  <2>1. PICK j \in Keys, o \in Version : j = job[w] /\ o = run[w].obj
        BY <1>2, <1>9 DEF RunPutsStatus, Step
  <2>2. /\ Wrote(j)
        /\ Is(Stored(j)', Stored(j).here, Stored(j).deleting, Stored(j).finalizer,
              Stored(j).spec, o.phase, o.commit)
        BY <1>2, <1>9, <2>1, UpdateStatusEffect
  <2>3. o.rv = Stored(j).rv
    <3>1. versions' # versions
          BY <1>9 DEF Stored
    <3> QED
        BY <1>9, <2>1, <3>1 DEF RunPutsStatus, Fresh
  <2>4. /\ o.phase = Stored(j).phase
        /\ o.commit.synced => WasApplied(j, o.commit.hash)
        BY <1>9, <2>1, <2>3 DEF RunPutsStatus, Step, NInv, RunInv, RunOK, Current
  <2>5. ASSUME j = k
        PROVE  StoredOK(k)'
        BY <1>0, <1>3, <2>2, <2>4, <2>5 DEF Is, StoredOK
  <2> QED
      BY <1>5, <2>2, <2>5
<1>10. ASSUME UNCHANGED versions \/ StartsAgain \/ \E j \in Keys : Informer(j)
      PROVE  StoredOK(k)'
      BY <1>2, <1>4, <1>10, InformerKeepsOrder, RestartKeepsOrder DEF Stored
<1> QED
    BY <1>4, <1>6, <1>7, <1>8, <1>9, <1>10, StepWrites DEF UserActs

-----------------------------------------------------------------------------
(* The types.                                                              *)

\* The budgets stay numbers.
LEMMA SpendKeepsBudget ==
    ASSUME budget \in [BudgetFields -> Nat], NEW f \in BudgetFields, Spend(f)
    PROVE  budget' \in [BudgetFields -> Nat]
BY DEF Spend

\* Versions, requests and budgets keep their types.
LEMMA StepKeepsApiTypeOK ==
    ASSUME NInv, ComponentStep
    PROVE  ApiTypeOK'
<1>1. requests \subseteq Keys /\ budget \in [BudgetFields -> Nat]
      BY DEF NInv, TypeOK, ApiTypeOK
<1>2. \/ UNCHANGED budget
      \/ \E f \in BudgetFields : Spend(f)
  <2>1. (\E k \in Keys : Reconcile(k)) \/ RecStep \/ RecFault
           => UNCHANGED budget \/ Spend("faults")
        BY DEF Reconcile, ReconcileMissing, ReconcileMismatch, ReconcileDeleting,
           ReconcileInvalid, ReconcileValid, RecStep, RecFault, RecCascades, RecStops,
           RecStarts, RecUpdates, RecUpdatesStatus, RecConflicts, RecCascadeFails, RecWriteFails
  <2>2. \A w \in Workers : RunStep(w) \/ RunFault(w) \/ (\E k \in Keys : RunStarts(w, k))
           => UNCHANGED budget \/ Spend("faults")
        BY DEF RunStep, RunFault, RunStarts, RunGets, RunFetches, RunDecides, RunCompares,
           RunApplies, RunSyncs, RunGetsStatus, RunPutsStatus, RunCascades, RunStops, RunSyncFails,
           RunFails, RunCascadeFails
  <2>3. \A k \in Keys : Informer(k) => UNCHANGED budget
        BY DEF Informer
  <2>4. UserStep => Spend("creates") \/ Spend("edits") \/ Spend("deletes")
        BY DEF UserStep, UserCreates, UserEdits, UserDeletes
  <2>5. OthersAct => Spend("pushes") \/ Spend("drifts") \/ Spend("reloads")
        BY DEF OthersAct, Push, Drift, ReloadConfig
  <2>6. {"creates", "edits", "deletes", "pushes", "drifts", "faults", "reloads", "restarts"}
           = BudgetFields
        BY DEF BudgetFields
  <2> QED
      BY <2>1, <2>2, <2>3, <2>4, <2>5, <2>6
      DEF ComponentStep, ReconcilerTakes, ReconcilerContinues, ReconcilerFails, WorkerTakes,
          WorkerContinues, WorkerFails, WorkerPanics, InformerDelivers, UserActs, Restart
<1>3. requests' \subseteq Keys
  <2>0. rec.pc # "idle" => rec.key \in Keys
        BY TypeParts
  <2>1. (\E k \in Keys : Reconcile(k)) => requests' \subseteq requests
        BY DEF Reconcile, ReconcileMissing, ReconcileMismatch, ReconcileDeleting,
           ReconcileInvalid, ReconcileValid
  <2>2. RecStep \/ RecFault => requests' \in {requests, requests \cup {rec.key}}
                               /\ rec.pc # "idle"
        BY DEF RecStep, RecFault, RecCascades, RecStops, RecStarts, RecUpdates,
           RecUpdatesStatus, RecConflicts, RecCascadeFails, RecWriteFails, ReturnError
  <2>3. \A w \in Workers : RunStep(w) \/ RunFault(w) \/ (\E k \in Keys : RunStarts(w, k))
           => UNCHANGED requests
        BY DEF RunStep, RunFault, RunStarts, RunGets, RunFetches, RunDecides, RunCompares,
           RunApplies, RunSyncs, RunGetsStatus, RunPutsStatus, RunCascades, RunStops, RunSyncFails,
           RunFails, RunCascadeFails
  <2>4. \A k \in Keys : Informer(k) => requests' \subseteq requests \cup {k}
        BY DEF Informer
  <2>5. UserStep \/ OthersAct => UNCHANGED requests
        BY DEF UserStep, UserCreates, UserEdits, UserDeletes, OthersAct, Push, Drift,
           ReloadConfig
  <2>6. StartsAgain => requests' \subseteq Keys
        BY DEF StartsAgain
  <2> QED
      BY <1>1, <2>0, <2>1, <2>2, <2>3, <2>4, <2>5, <2>6
      DEF ComponentStep, ReconcilerTakes, ReconcilerContinues, ReconcilerFails, WorkerTakes,
          WorkerContinues, WorkerFails, WorkerPanics, InformerDelivers, UserActs, Restart
<1>4. budget' \in [BudgetFields -> Nat]
      BY <1>1, <1>2, SpendKeepsBudget
<1> QED
    BY <1>3, <1>4, ApiStep DEF ApiTypeOK, VersionsTyped

\* Configuration, live resources and head keep their types.
LEMMA StepKeepsResTypeOK ==
    ASSUME NInv, ComponentStep
    PROVE  ResTypeOK'
<1>1. config \in Configs /\ live \in [Keys -> Live] /\ head \in Hashes
      BY DEF NInv, TypeOK, ResTypeOK
<1>2. NoResources \in Live
      BY DEF NoResources, Live
<1>3. config' \in Configs /\ head' \in Hashes
      BY <1>1 DEF ComponentStep, ReconcilerTakes, ReconcilerContinues, ReconcilerFails,
         WorkerTakes, WorkerContinues, WorkerFails, WorkerPanics, InformerDelivers, UserActs,
         Restart, StartsAgain, OthersAct, Push, Drift, ReloadConfig
<1>4. \A k \in Keys : live[k] \in Live
      BY <1>1
<1>5. ASSUME NEW k, ProcessGitSyncDeletion(k) \/ ProcessGitSyncDeletionFails(k)
      PROVE  live' \in [Keys -> Live]
  <2>1. CASE UNCHANGED live
        BY <1>1, <2>1
  <2>2. CASE CascadeDeletion(k)
        BY <1>1, <1>2, <2>2 DEF CascadeDeletion
  <2>3. ASSUME NEW d \in SUBSET Resources,
               live' = [live EXCEPT ![k] = [r \in Resources |->
                           IF r \in d THEN Absent ELSE live[k][r]]]
        PROVE  live' \in [Keys -> Live]
    <3>1. CASE k \in Keys
      <4>1. [r \in Resources |-> IF r \in d THEN Absent ELSE live[k][r]] \in Live
            BY <1>4, <3>1 DEF Live
      <4> QED
          BY <1>1, <2>3, <4>1
    <3>2. CASE k \notin Keys
          BY <1>1, <2>3, <3>2
    <3> QED
        BY <3>1, <3>2
  <2> QED
      BY <1>5, <2>1, <2>2, <2>3 DEF ProcessGitSyncDeletion, ProcessGitSyncDeletionFails
<1>6. ASSUME NEW k \in Keys, NEW r \in Resources, NEW c \in Contents \cup {Absent, Changed},
             live' = [live EXCEPT ![k][r] = c]
      PROVE  live' \in [Keys -> Live]
  <2>1. [live[k] EXCEPT ![r] = c] \in Live
        BY <1>4, <1>6 DEF Live
  <2> QED
      BY <1>1, <1>6, <2>1
<1>7. ASSUME (\E k \in Keys : Reconcile(k)) \/ RecStep \/ RecFault
      PROVE  live' \in [Keys -> Live]
  <2>1. \/ UNCHANGED live
        \/ ProcessGitSyncDeletion(rec.key) \/ ProcessGitSyncDeletionFails(rec.key)
        BY <1>7 DEF Reconcile, ReconcileMissing, ReconcileMismatch, ReconcileDeleting,
           ReconcileInvalid, ReconcileValid, RecStep, RecFault, RecCascades, RecStops,
           RecStarts, RecUpdates, RecUpdatesStatus, RecConflicts, RecCascadeFails,
           RecWriteFails
  <2> QED
      BY <1>1, <1>5, <2>1
<1>8. ASSUME NEW w \in Workers,
             RunStep(w) \/ RunFault(w) \/ (\E k \in Keys : RunStarts(w, k))
      PROVE  live' \in [Keys -> Live]
  <2>1. \/ UNCHANGED live
        \/ ProcessGitSyncDeletion(job[w]) \/ ProcessGitSyncDeletionFails(job[w])
        \/ RunApplies(w)
        BY <1>8 DEF RunStep, RunFault, RunStarts, RunGets, RunFetches, RunDecides, RunCompares,
           RunSyncs, RunGetsStatus, RunPutsStatus, RunCascades, RunStops, RunSyncFails,
           RunFails, RunCascadeFails
  <2>2. ASSUME RunApplies(w)
        PROVE  live' \in [Keys -> Live]
    <3>1. run[w] \in Runs /\ job[w] \in Keys
          BY <2>2, TypeParts DEF RunApplies, Step
    <3>2. run[w].target \in Live /\ run[w].todo \in SUBSET Resources
          BY <3>1 DEF Runs
    <3>3. PICK r \in Resources : live' = [live EXCEPT ![job[w]][r] = run[w].target[r]]
          BY <2>2, <3>2 DEF RunApplies
    <3>4. run[w].target[r] \in Contents \cup {Absent, Changed}
          BY <3>2 DEF Live
    <3> QED
        BY <1>6, <3>1, <3>3, <3>4
  <2> QED
      BY <1>1, <1>5, <2>1, <2>2
<1>9. ASSUME OthersAct
      PROVE  live' \in [Keys -> Live]
  <2>1. \/ UNCHANGED live
        \/ \E k \in Keys, r \in Resources : live' = [live EXCEPT ![k][r] = Changed]
        BY <1>9 DEF OthersAct, Push, Drift, ReloadConfig
  <2> QED
      BY <1>1, <1>6, <2>1
<1>10. live' \in [Keys -> Live]
      BY <1>1, <1>7, <1>8, <1>9
      DEF ComponentStep, ReconcilerTakes, ReconcilerContinues, ReconcilerFails, WorkerTakes,
          WorkerContinues, WorkerFails, WorkerPanics, InformerDelivers, UserActs, Restart,
          StartsAgain
<1> QED
    BY <1>3, <1>10 DEF ResTypeOK

\* The watched keys and the jobs keep their types.
LEMMA StepKeepsWSTypeOK ==
    ASSUME NInv, ComponentStep
    PROVE  Syncer!WSTypeOK'
<1>1. watched \subseteq Keys /\ job \in [Workers -> Keys \cup {NoKey}]
      BY DEF NInv, TypeOK, Syncer!WSTypeOK
<1>2. rec.pc # "idle" => rec.key \in Keys
      BY TypeParts
<1>3. ASSUME (\E k \in Keys : Reconcile(k)) \/ RecStep \/ RecFault
      PROVE  watched' \subseteq Keys /\ job' = job
  <2>1. watched' \subseteq watched \/ (watched' = watched \cup {rec.key} /\ rec.pc # "idle")
        BY <1>3 DEF Reconcile, ReconcileMissing, ReconcileMismatch, ReconcileDeleting,
           ReconcileInvalid, ReconcileValid, RecStep, RecFault, RecCascades, RecStops,
           RecStarts, RecUpdates, RecUpdatesStatus, RecConflicts, RecCascadeFails,
           RecWriteFails, Syncer!Watch, Syncer!Unwatch
  <2> QED
      BY <1>1, <1>2, <1>3, <2>1, ReconcilerLeavesJobs
<1>4. ASSUME NEW w \in Workers,
             RunStep(w) \/ RunFault(w) \/ (\E k \in Keys : RunStarts(w, k))
      PROVE  watched' \subseteq Keys /\ job' \in [Workers -> Keys \cup {NoKey}]
  <2>1. \/ job' = job \/ job' = [job EXCEPT ![w] = NoKey]
        \/ \E k \in Keys : job' = [job EXCEPT ![w] = k]
        BY <1>4 DEF RunStep, RunFault, RunStarts, RunGets, RunFetches, RunDecides,
           RunCompares, RunApplies, RunSyncs, RunGetsStatus, RunPutsStatus, RunCascades, RunStops,
           RunSyncFails, RunFails, RunCascadeFails, EndRun, Syncer!Pick, Syncer!Finish,
           Syncer!FinishUnwatch
  <2> QED
      BY <1>1, <1>4, <2>1, WorkerWatchesLess
<1>5. ASSUME StartsAgain
      PROVE  watched' \subseteq Keys /\ job' \in [Workers -> Keys \cup {NoKey}]
      BY <1>5 DEF StartsAgain
<1>6. watched' \subseteq Keys /\ job' \in [Workers -> Keys \cup {NoKey}]
      BY <1>1, <1>3, <1>4, <1>5
      DEF ComponentStep, ReconcilerTakes, ReconcilerContinues, ReconcilerFails, WorkerTakes,
          WorkerContinues, WorkerFails, WorkerPanics, InformerDelivers, UserActs, OthersAct,
          Restart
<1> QED
    BY <1>6 DEF Syncer!WSTypeOK

\* What reconcile() makes of a copy is a version.
LEMMA EditedCopies ==
    ASSUME NEW v \in Version
    PROVE  /\ InitConditions(v) \in Version /\ MarkRunning(v) \in Version
           /\ MarkNotApplicable(v) \in Version
           /\ AddFinalizer(v) \in Version /\ RemoveFinalizer(v) \in Version
<1>1. v.commit \in Commits /\ {"Pending", "Running", "NotApplicable"} \subseteq Phases
      BY VersionFields DEF Phases
<1>2. \A p \in Phases : [v EXCEPT !.phase = p] \in Version
      BY <1>1, EditStatus DEF Is
<1>3. \A b \in BOOLEAN : [v EXCEPT !.finalizer = b] \in Version
      BY EditMetadata DEF Is
<1> QED
    BY <1>1, <1>2, <1>3
    DEF InitConditions, MarkRunning, MarkNotApplicable, AddFinalizer, RemoveFinalizer

\* The reconciler keeps its type.
LEMMA StepKeepsRecTypeOK ==
    ASSUME NInv, ComponentStep
    PROVE  RecTypeOK'
<1> DEFINE Recs == [pc : {"idle", "cascade", "stop", "start", "update", "status"},
                    key : Keys \cup {NoKey}, obj : Version, dirty : BOOLEAN]
<1>1. rec \in Recs /\ rec.obj \in Version /\ rec.dirty \in BOOLEAN /\ rec.obj.rv + 1 \in Nat
      BY TypeParts, VersionFields DEF NInv, TypeOK, RecTypeOK
<1>2. Idle \in Recs
      BY GoneIsVersion DEF Idle
<1>3. ASSUME NEW pc \in {"stop", "update", "status"}, NEW o \in Version, NEW d \in BOOLEAN,
             Continue(pc, o, d)
      PROVE  rec' \in Recs
      BY <1>1, <1>3 DEF Continue
<1>4. ASSUME NEW o \in Version, NEW d \in BOOLEAN, AfterReconcile(o, d)
      PROVE  rec' \in Recs
      BY <1>2, <1>3, <1>4 DEF AfterReconcile, Return
<1>5. ASSUME NEW k \in Keys, Reconcile(k)
      PROVE  rec' \in Recs
  <2> DEFINE c == Cached(k)
             o == InitConditions(c)
  <2>1. c \in Version
        BY TypeParts, StoredFacts
  <2>2. /\ o \in Version /\ MarkNotApplicable(o) \in Version /\ AddFinalizer(o) \in Version
        /\ NeedsUpdate(c, AddFinalizer(o)) \in BOOLEAN
        BY <2>1, EditedCopies DEF NeedsUpdate
  <2> HIDE DEF o, c
  <2>3. CASE ReconcileMismatch(k)
        BY <1>2, <2>2, <2>3 DEF ReconcileMismatch, o, c
  <2>4. CASE ReconcileDeleting(k)
        BY <2>2, <2>4 DEF ReconcileDeleting, o, c
  <2>5. CASE ReconcileValid(k)
    <3>1. rec' = [pc |-> "start", key |-> k, obj |-> AddFinalizer(o),
                  dirty |-> NeedsUpdate(c, AddFinalizer(o))]
          BY <2>5 DEF ReconcileValid, o, c
    <3> QED
        BY <2>2, <3>1
  <2> QED
      BY <1>1, <1>5, <2>3, <2>4, <2>5 DEF Reconcile, ReconcileMissing, ReconcileInvalid
<1>6. ASSUME RecStep
      PROVE  rec' \in Recs
  <2>1. RemoveFinalizer(rec.obj) \in Version
        BY <1>1, EditedCopies
  <2>2. NeedsUpdate(rec.obj, RemoveFinalizer(rec.obj)) \in BOOLEAN
        BY DEF NeedsUpdate
  <2>3. MarkRunning(rec.obj) \in Version
        BY <1>1, EditedCopies
  <2>4. [rec.obj EXCEPT !.rv = rec.obj.rv + 1] \in Version
    <3>1. Same([rec.obj EXCEPT !.rv = rec.obj.rv + 1], rec.obj)
          BY <1>1, EditMetadata
    <3> QED
        BY <3>1 DEF Same, Is
  <2>5. CASE RecCascades
        BY <1>1, <1>3, <2>5 DEF RecCascades
  <2>6. CASE RecStops
        BY <1>4, <2>1, <2>2, <2>6 DEF RecStops
  <2>7. CASE RecStarts
        BY <1>1, <1>4, <2>3, <2>7 DEF RecStarts
  <2>8. CASE RecUpdates
        BY <1>4, <2>4, <2>8 DEF RecUpdates
  <2>9. CASE RecUpdatesStatus \/ RecConflicts
        BY <1>2, <2>9 DEF RecUpdatesStatus, RecConflicts, Return, ReturnError
  <2> QED
      BY <1>6, <2>5, <2>6, <2>7, <2>8, <2>9 DEF RecStep
<1>7. ASSUME RecFault \/ StartsAgain
      PROVE  rec' \in Recs
      BY <1>2, <1>7 DEF RecFault, RecCascadeFails, RecWriteFails, ReturnError, StartsAgain
<1>8. ASSUME NEW w \in Workers,
             RunStep(w) \/ RunFault(w) \/ (\E k \in Keys : RunStarts(w, k))
      PROVE  rec' = rec
      BY <1>8, WorkerWatchesLess
<1>9. rec' \in Recs
      BY <1>1, <1>5, <1>6, <1>7, <1>8
      DEF ComponentStep, ReconcilerTakes, ReconcilerContinues, ReconcilerFails, WorkerTakes,
          WorkerContinues, WorkerFails, WorkerPanics, InformerDelivers, UserActs, OthersAct,
          Restart
<1> QED
    BY <1>9 DEF RecTypeOK

\* What the steps of runOnce make of its locals.
LEMMA EditedRun ==
    ASSUME NEW f \in [Workers -> Runs], NEW w \in Workers, NEW pc \in Steps
    PROVE  /\ [f EXCEPT ![w].pc = pc] \in [Workers -> Runs]
           /\ \A c \in Configs : [f EXCEPT ![w].pc = pc, ![w].cfg = c] \in [Workers -> Runs]
           /\ \A o \in Version : [f EXCEPT ![w].pc = pc, ![w].obj = o] \in [Workers -> Runs]
           /\ \A d \in SUBSET Resources :
                 /\ [f EXCEPT ![w].pc = pc, ![w].todo = d] \in [Workers -> Runs]
                 /\ [f EXCEPT ![w].todo = d] \in [Workers -> Runs]
<1> DEFINE B == BOOLEAN
           D == SUBSET Resources
<1>1. Runs = [pc : Steps, cfg : Configs, obj : Version, hash : Hashes \cup {0},
              target : Live, todo : D, synced : B]
      BY DEF Runs
<1> HIDE DEF B, D
<1>2. [f EXCEPT ![w].pc = pc] \in [Workers -> Runs]
      BY <1>1
<1>3. \A c \in Configs : [f EXCEPT ![w].pc = pc, ![w].cfg = c] \in [Workers -> Runs]
      BY <1>1
<1>4. \A o \in Version : [f EXCEPT ![w].pc = pc, ![w].obj = o] \in [Workers -> Runs]
      BY <1>1
<1>5. \A d \in D : [f EXCEPT ![w].pc = pc, ![w].todo = d] \in [Workers -> Runs]
      BY <1>1
<1>6. \A d \in D : [f EXCEPT ![w].todo = d] \in [Workers -> Runs]
      BY <1>1
<1> QED
    BY <1>2, <1>3, <1>4, <1>5, <1>6 DEF D

\* The locals after CloneRepo and GetLatestManifests.
LEMMA FetchedRun ==
    ASSUME NEW f \in [Workers -> Runs], NEW w \in Workers,
           NEW h \in Hashes, NEW t \in Live, NEW o \in Version
    PROVE  [f EXCEPT ![w].pc = "decide", ![w].hash = h, ![w].target = t, ![w].obj = o]
              \in [Workers -> Runs]
<1> DEFINE H == Hashes \cup {0}
           B == BOOLEAN
           D == SUBSET Resources
<1>1. Runs = [pc : Steps, cfg : Configs, obj : Version, hash : H,
              target : Live, todo : D, synced : B]
      BY DEF Runs
<1>2. h \in H /\ "decide" \in Steps
      BY DEF Steps
<1> HIDE DEF H, B, D
<1> QED
    BY <1>1, <1>2

\* The locals after the sync, or after its failure.
LEMMA SyncedRun ==
    ASSUME NEW f \in [Workers -> Runs], NEW w \in Workers, NEW b \in BOOLEAN, NEW t \in Live
    PROVE  [f EXCEPT ![w].pc = "statusGet", ![w].synced = b, ![w].target = t,
                     ![w].todo = {}] \in [Workers -> Runs]
<1> DEFINE H == Hashes \cup {0}
           B == BOOLEAN
           D == SUBSET Resources
<1>1. Runs = [pc : Steps, cfg : Configs, obj : Version, hash : H,
              target : Live, todo : D, synced : B]
      BY DEF Runs
<1>2. {} \in D /\ b \in B /\ "statusGet" \in Steps
      BY DEF Steps
<1> HIDE DEF H, B, D
<1> QED
    BY <1>1, <1>2

\* A worker without a task has locals of the right types.
LEMMA NoRunIsRun ==
    ASSUME config \in Configs
    PROVE  NoRun \in Runs
<1>1. \A x : x \in Configs => (CHOOSE c \in Configs : TRUE) \in Configs
      OBVIOUS
<1>2. (CHOOSE c \in Configs : TRUE) \in Configs
      BY <1>1
<1>3. Gone(0) \in Version
      BY GoneIsVersion
<1>4. NoResources \in Live
      BY DEF NoResources, Live
<1> QED
    BY <1>2, <1>3, <1>4 DEF NoRun, Runs, Steps

\* The workers keep their types.
LEMMA StepKeepsRunTypeOK ==
    ASSUME NInv, ComponentStep
    PROVE  RunTypeOK'
<1>1. run \in [Workers -> Runs] /\ config \in Configs /\ head \in Hashes
      BY DEF NInv, TypeOK, RunTypeOK, ResTypeOK
<1>2. NoRun \in Runs /\ Gone(0) \in Version /\ NoResources \in Live
  <2>1. NoResources \in Live
        BY DEF NoResources, Live
  <2> QED
      BY <1>1, <2>1, NoRunIsRun, GoneIsVersion
<1>3. Steps = {"none", "get", "fetch", "decide", "compare", "apply", "statusGet",
               "statusPut", "cascade", "stop"}
      BY DEF Steps
<1>4. ASSUME NEW w \in Workers, EndRun(w) \/ RunStops(w)
      PROVE  run' \in [Workers -> Runs]
      BY <1>1, <1>2, <1>4 DEF EndRun, RunStops
<1>5. ASSUME NEW w \in Workers, NEW pc \in Steps, Goto(w, pc)
      PROVE  run' \in [Workers -> Runs]
      BY <1>1, <1>2, <1>5, EditedRun DEF Goto
<1>6. ASSUME NEW w \in Workers, NEW k \in Keys, RunStarts(w, k)
      PROVE  run' \in [Workers -> Runs]
  <2>1. run' = [run EXCEPT ![w].pc = "get", ![w].cfg = config]
        BY <1>6 DEF RunStarts
  <2>2. "get" \in Steps
        BY DEF Steps
  <2> QED
      BY <1>1, <2>1, <2>2, EditedRun
<1>7. ASSUME NEW w \in Workers, NEW pc \in Steps, NEW o \in Version,
             run' = [run EXCEPT ![w].pc = pc, ![w].obj = o]
      PROVE  run' \in [Workers -> Runs]
      BY <1>1, <1>2, <1>7, EditedRun
<1>8. ASSUME NEW w \in Workers, RunGets(w)
      PROVE  run' \in [Workers -> Runs]
  <2>1. PICK k \in Keys : k = job[w]
        BY <1>8, TypeParts DEF RunGets, Step
  <2>2. Cached(k) \in Version
        BY TypeParts, StoredFacts
  <2>3. \/ EndRun(w) \/ Goto(w, "stop") \/ Goto(w, "cascade")
        \/ run' = [run EXCEPT ![w].pc = "fetch", ![w].obj = Cached(k)]
        BY <1>8, <2>1 DEF RunGets
  <2> QED
      BY <1>3, <1>4, <1>5, <1>7, <2>2, <2>3
<1>9. ASSUME NEW w \in Workers, RunFetches(w)
      PROVE  run' \in [Workers -> Runs]
  <2>1. Target(run[w].obj.spec, head) \in Live
        BY <1>1, <1>9, ManifestsAssumption
        DEF RunFetches, Step, NInv, RunInv, RunOK, Live, Target
  <2>2. run' = [run EXCEPT ![w].pc = "decide", ![w].hash = head,
                           ![w].target = Target(run[w].obj.spec, head), ![w].obj = Gone(0)]
        BY <1>9 DEF RunFetches
  <2> QED
      BY <1>1, <1>2, <2>1, <2>2, FetchedRun
<1>10. ASSUME NEW w \in Workers, RunCompares(w) \/ RunApplies(w)
      PROVE  run' \in [Workers -> Runs]
  <2>1. PICK d \in SUBSET Resources :
           \/ run' = [run EXCEPT ![w].pc = "apply", ![w].todo = d]
           \/ run' = [run EXCEPT ![w].todo = d]
    <3>1. CASE RunCompares(w)
          BY <3>1 DEF RunCompares, StateDiffs
    <3>2. CASE RunApplies(w)
      <4>1. run[w].todo \in SUBSET Resources
            BY <1>1 DEF Runs
      <4>2. PICK r \in run[w].todo : run' = [run EXCEPT ![w].todo = run[w].todo \ {r}]
            BY <3>2 DEF RunApplies
      <4> QED
          BY <4>1, <4>2
    <3> QED
        BY <1>10, <3>1, <3>2
  <2>2. "apply" \in Steps
        BY DEF Steps
  <2>3. CASE run' = [run EXCEPT ![w].pc = "apply", ![w].todo = d]
        BY <1>1, <2>2, <2>3, EditedRun
  <2>4. CASE run' = [run EXCEPT ![w].todo = d]
        BY <1>1, <2>2, <2>4, EditedRun
  <2> QED
      BY <2>1, <2>3, <2>4
<1>11. ASSUME NEW w \in Workers, RunSyncs(w) \/ RunSyncFails(w)
      PROVE  run' \in [Workers -> Runs]
  <2>1. PICK b \in BOOLEAN :
           run' = [run EXCEPT ![w].pc = "statusGet", ![w].synced = b,
                              ![w].target = NoResources, ![w].todo = {}]
        BY <1>11 DEF RunSyncs, RunSyncFails, EndSync
  <2> QED
      BY <1>1, <1>2, <2>1, SyncedRun
<1>12. ASSUME NEW w \in Workers, RunGetsStatus(w)
      PROVE  run' \in [Workers -> Runs]
  <2>1. PICK k \in Keys : k = job[w]
        BY <1>12, TypeParts DEF RunGetsStatus, Step
  <2>2. Cached(k) \in Version
        BY TypeParts, StoredFacts
  <2>3. NewCommit(w) \in Commits
    <3>1. run[w].hash \in Hashes /\ run[w].synced \in BOOLEAN
          BY <1>1, <1>12 DEF RunGetsStatus, Step, NInv, RunInv, RunOK, Runs
    <3> QED
        BY <3>1 DEF NewCommit, Commits
  <2>4. [Cached(k) EXCEPT !.commit = NewCommit(w)] \in Version
        BY <2>2, <2>3, EditStatus, VersionFields DEF Is
  <2>5. \/ EndRun(w)
        \/ run' = [run EXCEPT ![w].pc = "statusPut",
                              ![w].obj = [Cached(k) EXCEPT !.commit = NewCommit(w)]]
        BY <1>12, <2>1 DEF RunGetsStatus
  <2> QED
      BY <1>3, <1>4, <1>7, <2>4, <2>5
<1>13. ASSUME NEW w \in Workers,
              RunStep(w) \/ RunFault(w) \/ (\E k \in Keys : RunStarts(w, k))
       PROVE  run' \in [Workers -> Runs]
       BY <1>3, <1>4, <1>5, <1>6, <1>8, <1>9, <1>10, <1>11, <1>12, <1>13
       DEF RunStep, RunFault, RunDecides, RunPutsStatus, RunCascades, RunFails, RunCascadeFails
<1>14. StartsAgain => run' \in [Workers -> Runs]
       BY <1>2 DEF StartsAgain
<1>15. run' \in [Workers -> Runs]
      BY <1>1, <1>13, <1>14
      DEF ComponentStep, ReconcilerTakes, ReconcilerContinues, ReconcilerFails, WorkerTakes,
          WorkerContinues, WorkerFails, WorkerPanics, InformerDelivers, UserActs, OthersAct,
          Restart
<1> QED
    BY <1>15 DEF RunTypeOK

-----------------------------------------------------------------------------
(* The theorems.                                                           *)

\* Initially there is no object and nobody works.
LEMMA InitEstablishesNInv == Init => NInv
<1> SUFFICES ASSUME Init
             PROVE  NInv
    OBVIOUS
<1>1. Gone(0) \in Version /\ Gone(0).here = FALSE
      BY GoneIsVersion
<1>2. /\ versions = [k \in Keys |-> <<Gone(0)>>] /\ requests = {} /\ budget \in Budgets
      /\ config \in Configs /\ live = [k \in Keys |-> NoResources]
      /\ head = CHOOSE h \in Hashes : \A g \in Hashes : h <= g
      /\ rec = Idle /\ watched = {} /\ job = [w \in Workers |-> NoKey]
      /\ run = [w \in Workers |-> NoRun]
      /\ applied = [k \in Keys |-> {<<r, Absent>> : r \in Resources}]
      BY DEF Init, ApiInit, ResInit, RecInit, RunInit, Syncer!WSInit
<1>3. \A k \in Keys : /\ versions[k] = <<Gone(0)>> /\ Len(versions[k]) = 1
                      /\ versions[k][1] = Gone(0)
      BY <1>2
<1>4. \A k \in Keys : Stored(k) = Gone(0)
      BY <1>3 DEF Stored
<1>5. ApiTypeOK
  <2>1. versions \in [Keys -> Seq(Version)]
        BY <1>1, <1>2
  <2>2. \A k \in Keys : Len(versions[k]) > 0
        BY <1>3
  <2> QED
      BY <1>2, <2>1, <2>2, BudgetsAssumption DEF ApiTypeOK
<1>6. ResTypeOK
  <2>1. NoResources \in Live
        BY DEF NoResources, Live
  <2>2. head \in Hashes
        BY <1>2, FirstHashAssumption
  <2> QED
      BY <1>2, <2>1, <2>2 DEF ResTypeOK
<1>7. RecTypeOK /\ RecInv
      BY <1>1, <1>2 DEF RecTypeOK, RecInv, Idle
<1>8. RunTypeOK
      BY <1>2, NoRunIsRun DEF RunTypeOK
<1>9. RunInv
      BY <1>2 DEF RunInv, RunOK, NoRun
<1>10. Syncer!WSTypeOK
      BY <1>2 DEF Syncer!WSTypeOK
<1>11. RvInv
  <2>1. ASSUME NEW k \in Keys, NEW i \in 1 .. Len(versions[k])
        PROVE  ~(i < Len(versions[k])) /\ versions[k][i] = Gone(0)
    <3>1. Len(versions[k]) = 1
          BY <1>3
    <3>2. i = 1 /\ ~(i < 1)
          BY <3>1
    <3> QED
        BY <1>3, <3>1, <3>2
  <2> QED
      BY <1>1, <2>1 DEF RvInv
<1>12. RunningHasFinalizer /\ SyncedWasApplied
      BY <1>1, <1>4 DEF RunningHasFinalizer, SyncedWasApplied
<1>13. LiveInv
      BY <1>2 DEF LiveInv, NoResources
<1> QED
    BY <1>5, <1>6, <1>7, <1>8, <1>9, <1>10, <1>11, <1>12, <1>13 DEF NInv, TypeOK

\* The invariant is inductive.
LEMMA StepKeepsNInv == NInv /\ [Next]_vars => NInv'
<1>1. ASSUME NInv, ComponentStep, Remember
      PROVE  NInv'
  <2>1. LiveInv'
        BY <1>1, HistoryGrows DEF LiveInv
  <2>2. RvInv'
        BY <1>1, ApiStep
  <2> QED
      BY <1>1, <2>1, <2>2, StepKeepsApiTypeOK, StepKeepsResTypeOK, StepKeepsRecTypeOK,
         StepKeepsRunTypeOK, StepKeepsWSTypeOK, StepKeepsRecInv, StepKeepsRunInv,
         StepKeepsStoredOK
      DEF NInv, TypeOK
<1>2. ASSUME NInv, UNCHANGED vars
      PROVE  NInv'
  <2>1. TypeOK'
        BY <1>2 DEF NInv, TypeOK, vars, ApiTypeOK, ResTypeOK, RecTypeOK, RunTypeOK,
           Syncer!WSTypeOK
  <2>2. RvInv' /\ RecInv'
        BY <1>2 DEF NInv, vars, RvInv, RecInv, Current, Stored
  <2>3. RunInv' /\ LiveInv'
        BY <1>2 DEF NInv, vars, RunInv, RunOK, LiveInv, Current, Stored, WasApplied
  <2>4. RunningHasFinalizer' /\ SyncedWasApplied'
        BY <1>2 DEF NInv, vars, RunningHasFinalizer, SyncedWasApplied, Stored, WasApplied
  <2> QED
      BY <2>1, <2>2, <2>3, <2>4 DEF NInv
<1> QED
    BY <1>1, <1>2 DEF Next

\* The inductive invariant of the controller.
THEOREM ControllerInvariant == Spec => []NInv
BY InitEstablishesNInv, StepKeepsNInv, PTL DEF Spec

\* Every variable of the controller keeps its type.
THEOREM ControllerTypes == Spec => []TypeOK
<1>1. NInv => TypeOK
      BY DEF NInv
<1> QED
    BY ControllerInvariant, <1>1, PTL

\* A GitSync that reports Running has its finalizer.
THEOREM RunningIsProtected == Spec => []RunningHasFinalizer
<1>1. NInv => RunningHasFinalizer
      BY DEF NInv
<1> QED
    BY ControllerInvariant, <1>1, PTL

\* A commit recorded as synced was applied to its last resource.
THEOREM SyncedIsTrue == Spec => []SyncedWasApplied
<1>1. NInv => SyncedWasApplied
      BY DEF NInv
<1> QED
    BY ControllerInvariant, <1>1, PTL

\* Who changes the stored object of k, and what stays the same in it: users,
\* the reconciler (either write) and the workers.
Changes(k) ==
    \/ /\ UserActs
       /\ ~Stored(k).here \/ ~Stored(k).finalizer \/ Stored(k)'.here
    \/ /\ RecUpdates \/ RecUpdatesStatus
       /\ run' = run
       /\ \/ ~Stored(k)'.here /\ k \notin watched
          \/ Stored(k)'.here /\ Stored(k)'.commit = Stored(k).commit
    \/ /\ \E w \in Workers : RunPutsStatus(w)
       /\ Stored(k)'.here /\ Stored(k)'.phase = Stored(k).phase

\* A stored object changes in no other way.
LEMMA StoredChange ==
    ASSUME NInv, ComponentStep, NEW k \in Keys, Stored(k)' # Stored(k)
    PROVE  Changes(k)
<1>0. versions' # versions
      BY DEF Stored
<1>1. /\ ApiTypeOK /\ RvInv
      /\ rec.obj \in Version /\ (rec.pc # "idle" => rec.key \in Keys)
      /\ \A w \in Workers : run[w].obj \in Version /\ (run[w].pc # "none" => job[w] \in Keys)
      BY TypeParts
<1>2. \A j \in Keys : Wrote(j) => j = k
      BY DEF Wrote, Stored
<1>3. CASE UserActs
  <2> USE DEF Changes
  <2>1. \/ UserDeletes(k) \/ \E s \in Specs : UserCreates(k, s) \/ UserEdits(k, s)
        BY <1>1, <1>2, <1>3, CreateEffect, EditEffect, DeleteEffect DEF UserActs, UserStep
  <2>2. CASE UserDeletes(k)
    <3>1. /\ Stored(k).finalizer =>
                 Is(Stored(k)', TRUE, TRUE, TRUE, Stored(k).spec,
                    Stored(k).phase, Stored(k).commit)
          /\ ~Stored(k).finalizer => ~Stored(k)'.here
          BY <1>1, <2>2, DeleteEffect
    <3> QED
        BY <1>3, <3>1 DEF Is
  <2>3. CASE \E s \in Specs : UserCreates(k, s)
        BY <1>3, <2>3 DEF UserCreates
  <2>4. CASE \E s \in Specs : UserEdits(k, s)
    <3>1. Stored(k)'.here = Stored(k).here
          BY <1>1, <2>4, EditEffect DEF Is
    <3> QED
        BY <1>3, <3>1
  <2> QED
      BY <2>1, <2>2, <2>3, <2>4
<1>4. ASSUME RecUpdates, run' = run
      PROVE  Changes(k)
  <2>1. PICK j \in Keys, o \in Version : j = rec.key /\ o = rec.obj
        BY <1>1, <1>4 DEF RecUpdates
  <2>2. UpdateFinalizer(j, o) /\ o.rv = Stored(j).rv /\ Stored(j).here
        BY <1>4, <2>1 DEF RecUpdates, Fresh
  <2>3. /\ o.deleting = Stored(j).deleting
        /\ ~o.finalizer => j \notin watched
        BY <1>4, <2>1, <2>2 DEF RecUpdates, NInv, RecInv, Current
  <2>4. /\ Wrote(j)
        /\ Stored(j).deleting /\ ~o.finalizer => ~Stored(j)'.here
        /\ ~(Stored(j).deleting /\ ~o.finalizer) =>
              Is(Stored(j)', Stored(j).here, Stored(j).deleting, o.finalizer,
                 Stored(j).spec, Stored(j).phase, Stored(j).commit)
        BY <1>1, <2>2, UpdateFinalizerEffect
  <2>5. j = k
        BY <1>2, <2>4
  <2> QED
      BY <1>4, <2>2, <2>3, <2>4, <2>5 DEF Is, Changes
<1>5. ASSUME RecUpdatesStatus, run' = run
      PROVE  Changes(k)
  <2>1. PICK j \in Keys, o \in Version : j = rec.key /\ o = rec.obj
        BY <1>1, <1>5 DEF RecUpdatesStatus
  <2>2. UpdateStatus(j, o) /\ o.rv = Stored(j).rv /\ Stored(j).here
        BY <1>5, <2>1 DEF RecUpdatesStatus, Fresh
  <2>3. o.commit = Stored(j).commit
        BY <1>5, <2>1, <2>2 DEF RecUpdatesStatus, NInv, RecInv, Current
  <2>4. /\ Wrote(j)
        /\ Is(Stored(j)', Stored(j).here, Stored(j).deleting, Stored(j).finalizer,
              Stored(j).spec, o.phase, o.commit)
        BY <1>1, <2>2, UpdateStatusEffect
  <2>5. j = k
        BY <1>2, <2>4
  <2> QED
      BY <1>5, <2>2, <2>3, <2>4, <2>5 DEF Is, Changes
<1>6. ASSUME NEW w \in Workers, RunPutsStatus(w), UpdateStatus(job[w], run[w].obj)
      PROVE  Changes(k)
  <2>1. PICK j \in Keys, o \in Version : j = job[w] /\ o = run[w].obj
        BY <1>1, <1>6 DEF RunPutsStatus, Step
  <2>2. /\ Wrote(j)
        /\ Is(Stored(j)', Stored(j).here, Stored(j).deleting, Stored(j).finalizer,
              Stored(j).spec, o.phase, o.commit)
        BY <1>1, <1>6, <2>1, UpdateStatusEffect
  <2>3. o.rv = Stored(j).rv /\ Stored(j).here
        BY <1>0, <1>6, <2>1 DEF RunPutsStatus, Fresh
  <2>4. o.phase = Stored(j).phase
        BY <1>6, <2>1, <2>3 DEF RunPutsStatus, Step, NInv, RunInv, RunOK, Current
  <2>5. j = k
        BY <1>2, <2>2
  <2> QED
      BY <1>6, <2>2, <2>3, <2>4, <2>5 DEF Is, Changes
<1>7. ~(StartsAgain \/ \E j \in Keys : Informer(j))
      BY <1>1, InformerKeepsOrder, RestartKeepsOrder
<1> QED
    BY <1>0, <1>3, <1>4, <1>5, <1>6, <1>7, StepWrites

\* The reconciler's writes leave the commit status of the workers alone.
THEOREM ReconcilerKeepsCommit == Spec => OnlyWorkersWriteCommit
<1>1. ASSUME NInv, [Next]_vars, rec' # rec, NEW k \in Keys, Stored(k)'.here, Stored(k).here
      PROVE  Stored(k)'.commit = Stored(k).commit
  <2>1. ComponentStep
        BY <1>1 DEF Next, vars
  <2>2. CASE Stored(k)' # Stored(k)
    <3>1. ~UserActs /\ \A w \in Workers : ~RunPutsStatus(w)
          BY <1>1 DEF UserActs, RunPutsStatus
    <3> QED
        BY <1>1, <2>1, <2>2, <3>1, StoredChange DEF Changes
  <2> QED
      BY <2>2
<1>2. NInv /\ [Next]_vars
         => [(rec' # rec) => \A k \in Keys :
                Stored(k)'.here /\ Stored(k).here => Stored(k)'.commit = Stored(k).commit]_vars
      BY <1>1
<1> QED
    BY ControllerInvariant, <1>2, PTL DEF Spec, OnlyWorkersWriteCommit

\* The workers' writes leave the phase of the reconciler alone.
THEOREM WorkersKeepPhase == Spec => OnlyReconcilerWritesPhase
<1>1. ASSUME NInv, [Next]_vars, run' # run, NEW k \in Keys
      PROVE  Stored(k)'.phase = Stored(k).phase
  <2>1. ComponentStep
        BY <1>1 DEF Next, vars
  <2>2. CASE Stored(k)' # Stored(k)
    <3>1. ~UserActs
          BY <1>1 DEF UserActs
    <3> QED
        BY <1>1, <2>1, <2>2, <3>1, StoredChange DEF Changes
  <2> QED
      BY <2>2
<1>2. NInv /\ [Next]_vars
         => [(run' # run /\ budget'["restarts"] = budget["restarts"]) =>
                \A k \in Keys : Stored(k)'.phase = Stored(k).phase]_vars
      BY <1>1
<1> QED
    BY ControllerInvariant, <1>2, PTL DEF Spec, OnlyReconcilerWritesPhase

\* An object leaves with its finalizer only when its key is not watched.
THEOREM RemovedIsUnwatched == Spec => GoneIsUnwatched
<1>1. ASSUME NInv, [Next]_vars, NEW k \in Keys,
             Stored(k).here, Stored(k).finalizer, ~Stored(k)'.here
      PROVE  k \notin watched
  <2>1. Stored(k)' # Stored(k)
        BY <1>1
  <2>2. ComponentStep
        BY <1>1, <2>1 DEF Next, vars, Stored
  <2> QED
      BY <1>1, <2>1, <2>2, StoredChange DEF Changes
<1>2. NInv /\ [Next]_vars
         => [\A k \in Keys : (Stored(k).here /\ Stored(k).finalizer /\ ~Stored(k)'.here)
                => k \notin watched]_vars
      BY <1>1
<1> QED
    BY ControllerInvariant, <1>2, PTL DEF Spec, GoneIsUnwatched
=============================================================================
