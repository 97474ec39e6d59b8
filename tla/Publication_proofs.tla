-------------------------- MODULE Publication_proofs --------------------------
(***************************************************************************)
(* Proofs about Publication, for all media, requests, readers and bounds.  *)
(***************************************************************************)
EXTENDS Publication, FiniteSetTheorems, TLAPS

\* A request that has begun has a media, and so does a reader's call.
MediaHeld ==
  /\ \A p \in Post : publisher[p].pc # "new" => MediaOf(p) \in Media
  /\ \A v \in Viewer : viewer[v].pc # "idle" => viewer[v].media \in Media

\* Only a request that has begun has a row or a post: its media stays what it is.
RowsBegun == \A p \in Post : p \in posts \/ reserved[p] # 0 => publisher[p].pc # "new"

\* No two rows of pending_publications hold the same media.
OneReservationPerMedia ==
  \A p, q \in Post :
    reserved[p] # 0 /\ reserved[q] # 0 /\ MediaOf(p) = MediaOf(q) => p = q

\* No request lives in the future.
NowIsPast == \A p \in Post : publisher[p].now <= clock

\* A request that uploads has its row until it expires: only a prune by a request
\* called later takes it away.
UploadReserved ==
  \A p \in Post :
    publisher[p].pc = "put" =>
      \/ reserved[p] = publisher[p].now + PendingTtl
      \/ clock >= publisher[p].now + PendingTtl

\* The inductive invariant.
IInv ==
  /\ TypeOK
  /\ MediaHeld
  /\ RowsBegun
  /\ OneReservationPerMedia
  /\ NowIsPast
  /\ UploadReserved
  /\ OnePostPerMedia

-----------------------------------------------------------------------------
\* An empty deployment satisfies it.
LEMMA InitIInv == Init => IInv
  BY NoneIsNoMedia, PublicationBounds
  DEF Init, IInv, TypeOK, PublisherState, ViewerState, MediaHeld, RowsBegun,
      OneReservationPerMedia, NowIsPast, UploadReserved, OnePostPerMedia, MediaOf

\* Every table row, request and call keeps its shape.
LEMMA TypeStep == IInv /\ [Next]_vars => TypeOK' /\ MediaHeld'
<1> SUFFICES ASSUME IInv, [Next]_vars PROVE TypeOK' /\ MediaHeld'
  OBVIOUS
<1>0. TypeOK /\ MediaHeld /\ \A p \in posts : p \in Post /\ MediaOf(p) \in Media
  BY DEF IInv, TypeOK, MediaHeld, RowsBegun
<1> USE DEF TypeOK, MediaHeld, MediaOf
<1>1. ASSUME NEW p \in Post, PublishStep(p) PROVE TypeOK' /\ MediaHeld'
  <2>1. CASE Publish(p)
    BY <1>0, <2>1 DEF Publish, tables, bucket, viewing, PublisherState
  <2>2. CASE Prune(p)
    BY <1>0, <2>2 DEF Prune, Pruned, GoTo, bucket, viewing, PublisherState
  <2>3. CASE Lookup(p) \/ Find(p)
    <3>1. PICK pc \in {"find", "reserve", "duplicate"} : GoTo(p, pc)
      BY <2>3 DEF Lookup, Find
    <3> QED
      BY <1>0, <2>3, <3>1
      DEF Lookup, Find, GoTo, tables, bucket, viewing, PublisherState
  <2>4. CASE Reserve(p)
    <3>1. reserved' \in [Post -> Nat]
      BY <1>0, <2>4, PublicationBounds DEF Reserve, PublisherState
    <3>2. PICK pc \in {"find", "put"} : GoTo(p, pc)
      BY <2>4 DEF Reserve
    <3> QED
      BY <1>0, <2>4, <3>1, <3>2
      DEF Reserve, GoTo, bucket, viewing, PublisherState
  <2>5. CASE Put(p) \/ PutFails(p) \/ Discard(p)
    BY <1>0, <2>5 DEF Put, PutFails, Discard, Fault, GoTo, tables, viewing,
       PublisherState
  <2>6. CASE Release(p)
    BY <1>0, <2>6 DEF Release, Released, Fault, GoTo, bucket, viewing,
       PublisherState
  <2>7. CASE Commit(p) \/ CommitFails(p)
    BY <1>0, <2>7 DEF Commit, CommitFails, WritePost, Fault, GoTo, tables, bucket,
       viewing, PublisherState
  <2>8. CASE PublisherFails(p)
    BY <1>0, <2>8 DEF PublisherFails, Fault, GoTo, tables, bucket, viewing,
       PublisherState
  <2> QED
    BY <1>1, <2>1, <2>2, <2>3, <2>4, <2>5, <2>6, <2>7, <2>8 DEF PublishStep
<1>2. ASSUME NEW p \in Post, DeleteStep(p) PROVE TypeOK' /\ MediaHeld'
  BY <1>0, <1>2 DEF DeleteStep, DeleteRow, DeleteMedia, DeletePreview, Fault,
     tables, bucket, viewing
<1>3. ASSUME NEW v \in Viewer, ViewStep(v) PROVE TypeOK' /\ MediaHeld'
  <2>1. CASE PreviewMiss(v)
    BY <1>0, <2>1 DEF PreviewMiss, tables, bucket, ViewerState
  <2>2. CASE Join(v)
    BY <1>0, <2>2 DEF Join, tables, bucket, ViewerState
  <2>3. CASE ReadSource(v) \/ StorePreview(v) \/ GenerationFails(v)
    BY <1>0, <2>3 DEF ReadSource, StorePreview, GenerationFails, EndGeneration,
       Fault, tables, bucket, ViewerState
  <2> QED
    BY <1>3, <2>1, <2>2, <2>3 DEF ViewStep
<1>4. CASE Restart
  <2>1. /\ publisher' \in [Post -> PublisherState]
        /\ \A p \in Post : publisher'[p].media = publisher[p].media
        /\ \A p \in Post : publisher[p].pc = "new" => publisher'[p].pc = "new"
    BY <1>0, <1>4 DEF Restart, PublisherState, Ended
  <2>2. /\ viewer' \in [Viewer -> ViewerState]
        /\ \A v \in Viewer : viewer'[v].pc = "idle"
    BY <1>0, <1>4 DEF Restart, ViewerState
  <2>3. deletion' \in [Post -> {"none", "media", "preview", "done", "stopped"}]
    BY <1>0, <1>4 DEF Restart
  <2>4. \A p \in Post : publisher'[p].pc # "new" => publisher[p].pc # "new"
    BY <2>1
  <2> QED
    BY <1>0, <1>4, <2>1, <2>2, <2>3, <2>4 DEF Restart, Fault, tables, bucket
<1>5. CASE Tick
  BY <1>0, <1>5 DEF Tick, tables, bucket, viewing
<1>6. CASE UNCHANGED vars
  BY <1>0, <1>6 DEF vars, tables, bucket, viewing
<1> QED
  BY <1>1, <1>2, <1>3, <1>4, <1>5, <1>6 DEF Next

-----------------------------------------------------------------------------
(* The rest of IInv is about the tables and the publish requests *)

RowsInv ==
  /\ RowsBegun
  /\ OneReservationPerMedia
  /\ NowIsPast
  /\ UploadReserved
  /\ OnePostPerMedia

\* A request that moves on, or fails, and not to its upload, keeps it.
LEMMA RequestMoves ==
  ASSUME IInv, NEW p \in Post, NEW pc, pc \notin {"new", "put"},
         publisher[p].pc # "new", GoTo(p, pc), UNCHANGED <<clock, tables>>
  PROVE  RowsInv'
  BY DEF GoTo, IInv, TypeOK, PublisherState, RowsInv, RowsBegun,
         OneReservationPerMedia, NowIsPast, UploadReserved, OnePostPerMedia,
         MediaOf, tables

\* Each step of a publish request keeps it.
LEMMA PublishRows ==
  ASSUME IInv, NEW p \in Post, PublishStep(p)
  PROVE  RowsInv'
<1> USE DEF IInv, TypeOK, PublisherState, RowsInv, RowsBegun,
            OneReservationPerMedia, NowIsPast, UploadReserved, OnePostPerMedia,
            MediaOf
<1>1. CASE Publish(p)
  BY <1>1 DEF Publish, tables
<1>2. CASE Prune(p)
  BY <1>2 DEF Prune, Pruned, GoTo
<1>3. CASE Reserve(p)
  <2>1. CASE ReservationCollides(MediaOf(p))
    BY <1>3, <2>1, RequestMoves DEF Reserve, tables
  <2>2. CASE ~ ReservationCollides(MediaOf(p))
    <3>1. /\ publisher[p].pc = "reserve"
          /\ \A q \in Post : reserved[q] # 0 => MediaOf(q) # MediaOf(p)
          /\ reserved' = [reserved EXCEPT ![p] = publisher[p].now + PendingTtl]
          /\ GoTo(p, "put")
          /\ UNCHANGED <<clock, posts>>
      BY <1>3, <2>2 DEF Reserve, ReservationCollides, Reserved
    <3>2. publisher[p].now + PendingTtl \in Nat \ {0}
      BY PublicationBounds
    <3> QED
      BY <3>1, <3>2 DEF GoTo
  <2> QED
    BY <2>1, <2>2
<1>4. CASE Release(p)
  <2>1. PICK pc \in {"discard", "find", "failed"} : GoTo(p, pc)
    BY <1>4 DEF Release
  <2>2. reserved' = reserved \/ reserved' = [reserved EXCEPT ![p] = 0]
    BY <1>4 DEF Release, Released
  <2> QED
    BY <1>4, <2>1, <2>2 DEF Release, GoTo
<1>5. CASE Commit(p) \/ CommitFails(p)
  <2>1. PICK pc \in {"created", "drop", "abort"} : GoTo(p, pc)
    BY <1>5 DEF Commit, CommitFails
  <2>2. \/ UNCHANGED tables
        \/ WritePost(p) /\ ~ Published(MediaOf(p))
    BY <1>5 DEF Commit, CommitFails, Committable, PostCollides
  <2>3. publisher[p].pc = "commit" /\ clock' = clock
    BY <1>5 DEF Commit, CommitFails
  <2>4. CASE UNCHANGED tables
    BY <2>1, <2>3, <2>4, RequestMoves
  <2>5. CASE WritePost(p) /\ ~ Published(MediaOf(p))
    BY <2>1, <2>3, <2>5 DEF WritePost, Published, GoTo
  <2> QED
    BY <2>2, <2>4, <2>5
<1>6. CASE \/ Lookup(p) \/ Put(p) \/ PutFails(p) \/ Discard(p) \/ Find(p)
           \/ PublisherFails(p)
  <2>1. PICK pc : pc \notin {"new", "put"} /\ GoTo(p, pc)
    BY <1>6 DEF Lookup, Put, PutFails, Discard, Find, PublisherFails
  <2> QED
    BY <1>6, <2>1, RequestMoves
    DEF Lookup, Put, PutFails, Discard, Find, PublisherFails
<1> QED
  BY <1>1, <1>2, <1>3, <1>4, <1>5, <1>6 DEF PublishStep

\* Every step keeps it.
LEMMA RowsStep == IInv /\ [Next]_vars => RowsInv'
<1> SUFFICES ASSUME IInv, [Next]_vars PROVE RowsInv'
  OBVIOUS
<1>1. CASE \E p \in Post : PublishStep(p)
  BY <1>1, PublishRows
<1> USE DEF IInv, TypeOK, RowsInv, RowsBegun, OneReservationPerMedia, NowIsPast,
            UploadReserved, OnePostPerMedia, MediaOf
<1>2. CASE \E p \in Post : DeleteStep(p)
  <2>1. posts' \subseteq posts /\ UNCHANGED <<clock, reserved, publisher>>
    BY <1>2 DEF DeleteStep, DeleteRow, DeleteMedia, DeletePreview, tables
  <2> QED
    BY <2>1
<1>3. CASE UNCHANGED <<clock, posts, reserved, publisher>>
  BY <1>3
<1>4. CASE Restart
  <2>1. /\ \A p \in Post : publisher'[p].media = publisher[p].media
        /\ \A p \in Post : publisher'[p].now = publisher[p].now
        /\ \A p \in Post : publisher'[p].pc \in {publisher[p].pc, "failed"}
    BY <1>4 DEF Restart, PublisherState
  <2> QED
    BY <1>4, <2>1 DEF Restart, tables
<1>5. CASE Tick
  BY <1>5, PublicationBounds DEF Tick, tables, PublisherState
<1>6. \/ \E p \in Post : PublishStep(p) \/ DeleteStep(p)
      \/ UNCHANGED <<clock, posts, reserved, publisher>>
      \/ Restart
      \/ Tick
  BY DEF Next, vars, ViewStep, PreviewMiss, Join, ReadSource, StorePreview,
         GenerationFails, tables
<1> QED
  BY <1>1, <1>2, <1>3, <1>4, <1>5, <1>6

-----------------------------------------------------------------------------
\* IInv holds in every reachable state.
THEOREM PublicationInvariance == Spec => []IInv
<1>1. IInv /\ [Next]_vars => IInv'
  BY TypeStep, RowsStep DEF IInv, RowsInv
<1> QED
  BY <1>1, InitIInv, PTL DEF Spec

\* Tables, bucket, requests and calls keep their shape.
THEOREM PublicationTypeCorrect == Spec => []TypeOK
  BY PublicationInvariance, PTL DEF IInv

\* A creator never has two posts of the same media, however many requests race
\* between the look for an existing post, the reservation and the commit.
THEOREM OnePost == Spec => []OnePostPerMedia
  BY PublicationInvariance, PTL DEF IInv

\* Two requests never upload the same media while both are within pendingTtlMs of
\* their calls.
THEOREM ExclusiveUploads == Spec => []UploadsExclusive
<1>1. IInv => UploadsExclusive
  BY PublicationBounds
  DEF IInv, TypeOK, PublisherState, UploadReserved, OneReservationPerMedia,
      UploadsExclusive
<1> QED
  BY <1>1, PublicationInvariance, PTL

-----------------------------------------------------------------------------
(* Generations of previews *)

Running(v) == viewer[v].pc \in {"source", "store"}

\* A call that generates has the entry of its key, no two have the same key, and
\* every entry is of a call that generates.
GenerationsOwned ==
  /\ \A v \in Viewer : Running(v) => viewer[v].media \in inflight
  /\ \A v, w \in Viewer :
       Running(v) /\ Running(w) /\ viewer[v].media = viewer[w].media => v = w
  /\ \A m \in inflight : \E v \in Viewer : Running(v) /\ viewer[v].media = m

LEMMA InitGenerations == Init => GenerationsOwned
  BY DEF Init, GenerationsOwned, Running

\* A generation that ends takes its own entry away, and nobody else's.
LEMMA EndedGeneration ==
  ASSUME IInv, GenerationsOwned, NEW v \in Viewer, Running(v), EndGeneration(v)
  PROVE  GenerationsOwned'
<1>1. /\ viewer \in [Viewer -> ViewerState]
      /\ viewer' = [viewer EXCEPT ![v].pc = "idle"]
      /\ inflight' = inflight \ {viewer[v].media}
  BY DEF EndGeneration, IInv, TypeOK
<1>2. /\ viewer'[v].pc = "idle"
      /\ \A w \in Viewer \ {v} : viewer'[w] = viewer[w]
  BY <1>1 DEF ViewerState
<1>3. \A w \in Viewer : Running(w)' <=> w # v /\ Running(w)
  BY <1>2 DEF Running
<1> QED
  BY <1>1, <1>2, <1>3 DEF GenerationsOwned

LEMMA GenerationsStep == IInv /\ GenerationsOwned /\ [Next]_vars => GenerationsOwned'
<1> SUFFICES ASSUME IInv, GenerationsOwned, [Next]_vars PROVE GenerationsOwned'
  OBVIOUS
<1>0. viewer \in [Viewer -> ViewerState]
  BY DEF IInv, TypeOK
<1>1. ASSUME NEW v \in Viewer, PreviewMiss(v) PROVE GenerationsOwned'
  <2>1. /\ viewer[v].pc = "idle" /\ viewer'[v].pc = "miss"
        /\ \A w \in Viewer \ {v} : viewer'[w] = viewer[w]
        /\ inflight' = inflight
    BY <1>0, <1>1 DEF PreviewMiss
  <2>2. \A w \in Viewer : Running(w)' <=> w # v /\ Running(w)
    BY <2>1 DEF Running
  <2>3. ~ Running(v)
    BY <2>1 DEF Running
  <2> QED
    BY <2>1, <2>2, <2>3 DEF GenerationsOwned
<1>2. ASSUME NEW v \in Viewer, Join(v) PROVE GenerationsOwned'
  <2>1. /\ viewer[v].pc = "miss"
        /\ viewer'[v].pc = IF viewer[v].media \in inflight THEN "idle" ELSE "source"
        /\ viewer'[v].media = viewer[v].media
        /\ \A w \in Viewer \ {v} : viewer'[w] = viewer[w]
        /\ inflight' = inflight \cup {viewer[v].media}
    BY <1>0, <1>2 DEF Join, ViewerState
  <2>2. /\ \A w \in Viewer \ {v} : Running(w)' <=> Running(w)
        /\ ~ Running(v)
        /\ Running(v)' <=> viewer[v].media \notin inflight
    BY <2>1 DEF Running
  <2> QED
    BY <2>1, <2>2 DEF GenerationsOwned
<1>3. ASSUME NEW v \in Viewer, ReadSource(v) \/ StorePreview(v) \/ GenerationFails(v)
      PROVE  GenerationsOwned'
  <2>1. Running(v)
    BY <1>3 DEF ReadSource, StorePreview, GenerationFails, Running
  <2>2. CASE EndGeneration(v)
    BY <2>1, <2>2, EndedGeneration
  <2>3. CASE viewer' = [viewer EXCEPT ![v].pc = "store"] /\ UNCHANGED inflight
    <3>1. \A w \in Viewer : /\ Running(w)' <=> Running(w)
                            /\ viewer'[w].media = viewer[w].media
      BY <1>0, <2>1, <2>3 DEF Running, ViewerState
    <3> QED
      BY <2>3, <3>1 DEF GenerationsOwned
  <2> QED
    BY <1>3, <2>2, <2>3 DEF ReadSource, StorePreview, GenerationFails
<1>4. CASE Restart
  <2>1. inflight' = {} /\ \A v \in Viewer : viewer'[v].pc = "idle"
    BY <1>0, <1>4 DEF Restart, ViewerState
  <2> QED
    BY <2>1 DEF GenerationsOwned, Running
<1>5. CASE UNCHANGED viewing
  BY <1>5 DEF viewing, GenerationsOwned, Running
<1>6. \/ \E v \in Viewer : ViewStep(v)
      \/ Restart
      \/ UNCHANGED viewing
  BY DEF Next, PublishStep, Publish, Prune, Lookup, Reserve, Put, PutFails, Release,
         Discard, Commit, CommitFails, Find, PublisherFails, DeleteStep, DeleteRow,
         DeleteMedia, DeletePreview, Tick, vars
<1> QED
  BY <1>1, <1>2, <1>3, <1>4, <1>5, <1>6 DEF ViewStep

\* One generation per key and no entry without one: readers that race, generations
\* that fail and restarts of the process neither start a second one nor block a later
\* one.
THEOREM OneGenerationPerKey == Spec => []GenerationsInFlight
<1>1. GenerationsOwned => GenerationsInFlight
  <2> SUFFICES ASSUME GenerationsOwned, NEW m \in Media
               PROVE  Cardinality({v \in Viewer : Running(v) /\ viewer[v].media = m})
                        = IF m \in inflight THEN 1 ELSE 0
    BY DEF GenerationsInFlight, Running
  <2> DEFINE running == {v \in Viewer : Running(v) /\ viewer[v].media = m}
  <2>1. CASE m \in inflight
    <3>1. PICK v \in Viewer : Running(v) /\ viewer[v].media = m
      BY <2>1 DEF GenerationsOwned
    <3>2. running = {v}
      BY <3>1 DEF GenerationsOwned
    <3> QED
      BY <2>1, <3>2, FS_Singleton
  <2>2. CASE m \notin inflight
    <3>1. running = {}
      BY <2>2 DEF GenerationsOwned
    <3> QED
      BY <2>2, <3>1, FS_EmptySet
  <2> QED
    BY <2>1, <2>2
<1> QED
  BY <1>1, InitGenerations, GenerationsStep, PublicationInvariance, PTL DEF Spec

-----------------------------------------------------------------------------
(* The media of a post stays *)

\* No post of p's media was deleted.
Undeleted(p) == \A q \in Post : MediaOf(q) = MediaOf(p) => deletion[q] = "none"

\* The upload of p is over: it is to be committed, or was.
Uploaded(p) == publisher[p].pc = "commit" \/ p \in posts

\* Only a post that was published is deleted.
DeletedBegun == \A p \in Post : publisher[p].pc = "new" => deletion[p] = "none"

\* As long as nothing failed, no request is at one of the cleanups that follow a
\* failure, and the media of every upload that is over is in the bucket, whether or not
\* its post was written: only the deletion of a post of that media removes it.
UploadsKept ==
  faults = 0 =>
    /\ \A p \in Post : publisher[p].pc \notin {"release", "discard"}
    /\ \A p \in Post : Uploaded(p) /\ Undeleted(p) => MediaOf(p) \in objects

KeptInv == DeletedBegun /\ UploadsKept

LEMMA InitKept == Init => KeptInv
  BY DEF Init, KeptInv, DeletedBegun, UploadsKept, Uploaded

\* What every step does: a request keeps its media once it has begun, and a deletion
\* that has begun is not forgotten.
LEMMA MediaAndDeletionsStay ==
  ASSUME IInv, [Next]_vars
  PROVE  /\ \A p \in Post : publisher[p].pc # "new" =>
              publisher'[p].pc # "new" /\ MediaOf(p)' = MediaOf(p)
         /\ \A p \in Post : deletion'[p] = "none" => deletion[p] = "none"
         /\ \A p \in Post : deletion[p] = "none" /\ deletion'[p] # "none" => p \in posts
<1>0. /\ publisher \in [Post -> PublisherState]
      /\ deletion \in [Post -> {"none", "media", "preview", "done", "stopped"}]
  BY DEF IInv, TypeOK
<1> USE DEF MediaOf
<1>1. ASSUME NEW p \in Post, PublishStep(p)
      PROVE  /\ UNCHANGED deletion
             /\ publisher'[p].pc # "new"
             /\ publisher[p].pc # "new" => publisher'[p].media = publisher[p].media
             /\ \A q \in Post \ {p} : publisher'[q] = publisher[q]
  <2>1. CASE Publish(p)
    BY <1>0, <2>1 DEF Publish
  <2>2. CASE ~ Publish(p)
    <3>1. PICK pc : pc # "new" /\ GoTo(p, pc) /\ UNCHANGED deletion
      BY <1>1, <2>2 DEF PublishStep, Prune, Lookup, Reserve, Put, PutFails, Release,
         Discard, Commit, CommitFails, Find, PublisherFails
    <3> QED
      BY <1>0, <3>1 DEF GoTo, PublisherState
  <2> QED
    BY <2>1, <2>2
<1>2. ASSUME NEW p \in Post, DeleteStep(p)
      PROVE  /\ UNCHANGED publisher
             /\ \E to \in {"media", "preview", "done"} :
                  deletion' = [deletion EXCEPT ![p] = to]
             /\ deletion[p] = "none" => p \in posts
  BY <1>2 DEF DeleteStep, DeleteRow, DeleteMedia, DeletePreview
<1>3. CASE Restart
  <2>1. /\ \A p \in Post : publisher'[p].media = publisher[p].media
        /\ \A p \in Post : publisher'[p].pc \in {publisher[p].pc, "failed"}
    BY <1>0, <1>3 DEF Restart, PublisherState
  <2>2. \A p \in Post : deletion'[p] = IF deletion[p] \in {"media", "preview"}
                                         THEN "stopped" ELSE deletion[p]
    BY <1>3 DEF Restart
  <2> QED
    BY <2>1, <2>2
<1>4. \/ \E p \in Post : PublishStep(p) \/ DeleteStep(p)
      \/ Restart
      \/ UNCHANGED <<publisher, deletion>>
  BY DEF Next, vars, ViewStep, PreviewMiss, Join, ReadSource, StorePreview,
         GenerationFails, Tick
<1>5. CASE \E p \in Post : PublishStep(p)
  BY <1>0, <1>1, <1>5
<1>6. CASE \E p \in Post : DeleteStep(p)
  <2>1. PICK p \in Post : DeleteStep(p)
    BY <1>6
  <2>2. PICK to \in {"media", "preview", "done"} :
          deletion' = [deletion EXCEPT ![p] = to]
    BY <1>2, <2>1
  <2> QED
    BY <1>0, <1>2, <2>1, <2>2
<1> QED
  BY <1>3, <1>4, <1>5, <1>6

LEMMA DeletedBegunStep == IInv /\ DeletedBegun /\ [Next]_vars => DeletedBegun'
<1> SUFFICES ASSUME IInv, DeletedBegun, [Next]_vars, NEW p \in Post,
                    publisher'[p].pc = "new"
             PROVE  deletion'[p] = "none"
  BY DEF DeletedBegun
<1>1. publisher[p].pc = "new" /\ deletion[p] = "none" /\ p \notin posts
  BY MediaAndDeletionsStay DEF IInv, RowsBegun, DeletedBegun
<1> QED
  BY <1>1, MediaAndDeletionsStay

\* A step that takes nothing from the bucket, and after which an upload is over only if
\* it was or has its media there, keeps it.
LEMMA KeptIfStored ==
  ASSUME IInv, KeptInv, [Next]_vars, faults = 0,
         objects \subseteq objects',
         \A p \in Post : publisher'[p].pc \notin {"release", "discard"},
         \A p \in Post : Uploaded(p)' => Uploaded(p) \/ MediaOf(p)' \in objects'
  PROVE  UploadsKept'
<1> SUFFICES ASSUME NEW p \in Post, Uploaded(p)', Undeleted(p)'
             PROVE  MediaOf(p)' \in objects'
  BY DEF UploadsKept
<1>1. CASE Uploaded(p)
  <2>1. publisher[p].pc # "new"
    BY <1>1 DEF Uploaded, IInv, RowsBegun
  <2>2. MediaOf(p)' = MediaOf(p)
    BY <2>1, MediaAndDeletionsStay
  <2>3. Undeleted(p)
    <3> SUFFICES ASSUME NEW q \in Post, MediaOf(q) = MediaOf(p)
                 PROVE  deletion[q] = "none"
      BY DEF Undeleted
    <3>1. CASE publisher[q].pc = "new"
      BY <3>1 DEF KeptInv, DeletedBegun
    <3>2. CASE publisher[q].pc # "new"
      <4>1. MediaOf(q)' = MediaOf(p)'
        BY <2>2, <3>2, MediaAndDeletionsStay
      <4>2. deletion'[q] = "none"
        BY <4>1 DEF Undeleted, MediaOf
      <4> QED
        BY <4>2, MediaAndDeletionsStay
    <3> QED
      BY <3>1, <3>2
  <2> QED
    BY <1>1, <2>2, <2>3 DEF KeptInv, UploadsKept
<1>2. CASE ~ Uploaded(p)
  BY <1>2
<1> QED
  BY <1>1, <1>2

LEMMA KeptStep == IInv /\ KeptInv /\ [Next]_vars => UploadsKept'
<1> SUFFICES ASSUME IInv, KeptInv, [Next]_vars, faults' = 0 PROVE UploadsKept'
  BY DEF UploadsKept
<1>0. /\ publisher \in [Post -> PublisherState]
      /\ deletion \in [Post -> {"none", "media", "preview", "done", "stopped"}]
      /\ posts \subseteq Post /\ faults \in Nat
  BY DEF IInv, TypeOK
<1>1. ~ Fault
  BY <1>0 DEF Fault
<1>2. ASSUME faults = 0
      PROVE  \A p \in Post : publisher[p].pc \notin {"release", "discard"}
  BY <1>2 DEF KeptInv, UploadsKept
<1>3. ASSUME NEW p \in Post, PublishStep(p) PROVE UploadsKept'
  <2>1. CASE Put(p)
    <3>1. /\ faults = 0 /\ posts' = posts /\ MediaOf(p)' = MediaOf(p)
          /\ objects' = objects \cup {MediaOf(p)}
          /\ publisher'[p].pc = "commit"
          /\ \A q \in Post \ {p} : publisher'[q] = publisher[q]
      BY <1>0, <2>1 DEF Put, GoTo, PublisherState, tables, MediaOf
    <3> QED
      BY <1>2, <3>1, KeptIfStored DEF Uploaded
  <2>2. CASE Commit(p)
    <3>1. PICK pc \in {"created", "drop"} : GoTo(p, pc)
      BY <2>2 DEF Commit
    <3>2. /\ faults = 0 /\ objects' = objects
          /\ publisher[p].pc = "commit" /\ posts' \subseteq posts \cup {p}
      BY <2>2 DEF Commit, WritePost, tables, bucket
    <3>3. /\ publisher'[p].pc \in {"created", "drop"}
          /\ \A q \in Post \ {p} : publisher'[q] = publisher[q]
      BY <1>0, <3>1 DEF GoTo, PublisherState
    <3> QED
      BY <1>2, <3>2, <3>3, KeptIfStored DEF Uploaded
  <2>3. CASE Publish(p)
    <3>1. /\ faults = 0 /\ objects' = objects /\ posts' = posts
          /\ publisher'[p].pc = "prune"
          /\ \A q \in Post \ {p} : publisher'[q] = publisher[q]
      BY <1>0, <2>3 DEF Publish, tables, bucket
    <3> QED
      BY <1>2, <3>1, KeptIfStored DEF Uploaded
  <2>4. CASE ~ (Put(p) \/ Commit(p) \/ Publish(p))
    <3>1. /\ UNCHANGED <<posts, faults>>
          /\ \E pc \in {"lookup", "find", "reserve", "put", "failed", "duplicate"} :
               GoTo(p, pc)
          /\ UNCHANGED objects
      BY <1>1, <1>2, <1>3, <2>4
      DEF PublishStep, Prune, Lookup, Reserve, PutFails, Release, Discard, CommitFails,
          Find, PublisherFails, tables, bucket
    <3>2. /\ publisher'[p].pc \notin {"release", "discard", "commit"}
          /\ \A q \in Post \ {p} : publisher'[q] = publisher[q]
      BY <1>0, <3>1 DEF GoTo, PublisherState
    <3> QED
      BY <1>2, <3>1, <3>2, KeptIfStored DEF Uploaded
  <2> QED
    BY <2>1, <2>2, <2>3, <2>4
<1>4. ASSUME NEW p \in Post, DeleteStep(p) PROVE UploadsKept'
  <2>1. faults = 0 /\ posts' \subseteq posts /\ publisher' = publisher
    BY <1>1, <1>4 DEF DeleteStep, DeleteRow, DeleteMedia, DeletePreview, tables
  <2>2. CASE DeleteMedia(p)
    <3>1. /\ objects' = objects \ {MediaOf(p)} /\ posts' = posts
          /\ deletion' = [deletion EXCEPT ![p] = "preview"]
          /\ deletion[p] # "none"
      BY <1>1, <2>2 DEF DeleteMedia, tables
    <3>2. SUFFICES ASSUME NEW q \in Post, Uploaded(q)', Undeleted(q)'
                   PROVE  MediaOf(q)' \in objects'
      BY <1>2, <2>1 DEF UploadsKept
    <3>3. Uploaded(q) /\ MediaOf(q)' = MediaOf(q)
      BY <2>1, <3>1, <3>2 DEF Uploaded, MediaOf
    <3>4. /\ MediaOf(p) # MediaOf(q)
          /\ Undeleted(q)
      BY <1>0, <2>1, <3>1, <3>2 DEF Undeleted, MediaOf
    <3> QED
      BY <2>1, <3>1, <3>3, <3>4 DEF KeptInv, UploadsKept
  <2>3. CASE ~ DeleteMedia(p)
    <3>1. objects' = objects
      BY <1>4, <2>3 DEF DeleteStep, DeleteRow, DeletePreview, bucket
    <3> QED
      BY <1>2, <2>1, <3>1, KeptIfStored DEF Uploaded
  <2> QED
    BY <2>2, <2>3
<1>5. CASE UNCHANGED <<publisher, posts, objects, faults>>
  BY <1>2, <1>5, KeptIfStored DEF Uploaded
<1>6. \/ \E p \in Post : PublishStep(p) \/ DeleteStep(p)
      \/ UNCHANGED <<publisher, posts, objects, faults>>
  BY <1>1 DEF Next, vars, ViewStep, PreviewMiss, Join, ReadSource, StorePreview,
         GenerationFails, Restart, Tick, tables, bucket
<1> QED
  BY <1>3, <1>4, <1>5, <1>6

\* Races and expiry alone lose no media: as long as nothing failed, a post whose media
\* was never deleted with another post has it in the bucket.
THEOREM RacesLoseNoMedia == Spec => []MediaKept
<1>1. IInv /\ KeptInv => MediaKept
  BY DEF KeptInv, UploadsKept, Uploaded, Undeleted, MediaKept, IInv, TypeOK
<1>2. IInv /\ KeptInv /\ [Next]_vars => KeptInv'
  BY DeletedBegunStep, KeptStep DEF KeptInv
<1> QED
  BY <1>1, <1>2, InitKept, PublicationInvariance, PTL DEF Spec

=============================================================================
