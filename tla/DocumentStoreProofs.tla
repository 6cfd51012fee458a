------------------------- MODULE DocumentStoreProofs -------------------------
(***************************************************************************)
(* What holds of the document service for any number of documents,         *)
(* requests, replicas and failures.  Everything rests on StoreInv: what    *)
(* each call in flight knows of its document.                              *)
(***************************************************************************)
EXTENDS DocumentStore, TLAPS

USE DEF At, Idle, Goto, Begin, Done, Fault,
        Pc, UploadPc, DeletePc, Active, Uploading, Deleting,
        tables, answers, accidents, start

-----------------------------------------------------------------------------
(* Each action keeps StoreInv.                                             *)

LEMMA PutObjectKeeps ==
  ASSUME StoreInv, NEW r \in Req, PutObject(r)
  PROVE  StoreInv'
<1> USE DEF PutObject, StoreInv
<1>1. TypeOK'
  BY DEF TypeOK, DocsDrawn, DeletesKnow
<1>2. UploadsApart'
  BY DEF TypeOK, UploadsApart, DocsDrawn
<1>3. DocsDrawn'
  BY DEF TypeOK, DocsDrawn
<1>4. UploadsKnow'
  BY DEF TypeOK, UploadsApart, DocsDrawn, UploadsKnow, DeletesKnow
<1>5. DeletesKnow'
  BY DEF TypeOK, UploadsKnow, DeletesKnow
<1>6. NoneLeftBehind'
  BY DEF TypeOK, NoneLeftBehind, UploadsKnow, DeletesKnow
<1>7. Untouched'
  BY DEF TypeOK, Untouched, UploadsKnow, DeletesKnow
<1>8. RowHasObject'
  BY DEF TypeOK, RowHasObject, UploadsKnow, DeletesKnow
<1>9. OrphansAreUploads'
  BY DEF TypeOK, OrphansAreUploads, NoneLeftBehind, UploadsKnow, DeletesKnow
<1>10. UploadedStays'
  BY DEF TypeOK, UploadedStays, UploadsKnow, DeletesKnow
<1>11. LinksWork'
  BY DEF TypeOK, LinksWork, Untouched, UploadsKnow, DeletesKnow
<1> QED  BY <1>1, <1>2, <1>3, <1>4, <1>5, <1>6, <1>7, <1>8, <1>9, <1>10, <1>11

LEMMA InsertRowKeeps ==
  ASSUME StoreInv, NEW r \in Req, InsertRow(r)
  PROVE  StoreInv'
<1> USE DEF InsertRow, StoreInv
<1>1. TypeOK'
  BY DEF TypeOK, DocsDrawn, DeletesKnow
<1>2. UploadsApart'
  BY DEF TypeOK, UploadsApart, DocsDrawn
<1>3. DocsDrawn'
  BY DEF TypeOK, DocsDrawn
<1>4. UploadsKnow'
  BY DEF TypeOK, UploadsApart, DocsDrawn, UploadsKnow, DeletesKnow
<1>5. DeletesKnow'
  BY DEF TypeOK, UploadsKnow, DeletesKnow
<1>6. NoneLeftBehind'
  BY DEF TypeOK, NoneLeftBehind, UploadsKnow, DeletesKnow
<1>7. Untouched'
  BY DEF TypeOK, Untouched, UploadsKnow, DeletesKnow
<1>8. RowHasObject'
  BY DEF TypeOK, RowHasObject, UploadsKnow, DeletesKnow
<1>9. OrphansAreUploads'
  BY DEF TypeOK, OrphansAreUploads, NoneLeftBehind, UploadsKnow, DeletesKnow
<1>10. UploadedStays'
  BY DEF TypeOK, UploadedStays, UploadsKnow, DeletesKnow
<1>11. LinksWork'
  BY DEF TypeOK, LinksWork, Untouched, UploadsKnow, DeletesKnow
<1> QED  BY <1>1, <1>2, <1>3, <1>4, <1>5, <1>6, <1>7, <1>8, <1>9, <1>10, <1>11

LEMMA UndoPutKeeps ==
  ASSUME StoreInv, NEW r \in Req, UndoPut(r)
  PROVE  StoreInv'
<1> USE DEF UndoPut, StoreInv
<1>1. TypeOK'
  BY DEF TypeOK, DocsDrawn, DeletesKnow
<1>2. UploadsApart'
  BY DEF TypeOK, UploadsApart, DocsDrawn
<1>3. DocsDrawn'
  BY DEF TypeOK, DocsDrawn
<1>4. UploadsKnow'
  BY DEF TypeOK, UploadsApart, DocsDrawn, UploadsKnow, DeletesKnow
<1>5. DeletesKnow'
  BY DEF TypeOK, UploadsKnow, DeletesKnow
<1>6. NoneLeftBehind'
  BY DEF TypeOK, NoneLeftBehind, UploadsKnow, DeletesKnow
<1>7. Untouched'
  BY DEF TypeOK, Untouched, UploadsKnow, DeletesKnow
<1>8. RowHasObject'
  BY DEF TypeOK, RowHasObject, UploadsKnow, DeletesKnow
<1>9. OrphansAreUploads'
  BY DEF TypeOK, OrphansAreUploads, NoneLeftBehind, UploadsKnow, DeletesKnow
<1>10. UploadedStays'
  BY DEF TypeOK, UploadedStays, UploadsKnow, DeletesKnow
<1>11. LinksWork'
  BY DEF TypeOK, LinksWork, Untouched, UploadsKnow, DeletesKnow
<1> QED  BY <1>1, <1>2, <1>3, <1>4, <1>5, <1>6, <1>7, <1>8, <1>9, <1>10, <1>11

LEMMA RemoveObjectKeeps ==
  ASSUME StoreInv, NEW r \in Req, RemoveObject(r)
  PROVE  StoreInv'
<1> USE DEF RemoveObject, StoreInv
<1>1. TypeOK'
  BY DEF TypeOK, DocsDrawn, DeletesKnow
<1>2. UploadsApart'
  BY DEF TypeOK, UploadsApart, DocsDrawn
<1>3. DocsDrawn'
  BY DEF TypeOK, DocsDrawn
<1>4. UploadsKnow'
  BY DEF TypeOK, UploadsApart, DocsDrawn, UploadsKnow, DeletesKnow
<1>5. DeletesKnow'
  BY DEF TypeOK, UploadsKnow, DeletesKnow
<1>6. NoneLeftBehind'
  BY DEF TypeOK, NoneLeftBehind, UploadsKnow, DeletesKnow
<1>7. Untouched'
  BY DEF TypeOK, Untouched, UploadsKnow, DeletesKnow
<1>8. RowHasObject'
  BY DEF TypeOK, RowHasObject, UploadsKnow, DeletesKnow
<1>9. OrphansAreUploads'
  BY DEF TypeOK, OrphansAreUploads, NoneLeftBehind, UploadsKnow, DeletesKnow
<1>10. UploadedStays'
  BY DEF TypeOK, UploadedStays, UploadsKnow, DeletesKnow
<1>11. LinksWork'
  BY DEF TypeOK, LinksWork, Untouched, UploadsKnow, DeletesKnow
<1> QED  BY <1>1, <1>2, <1>3, <1>4, <1>5, <1>6, <1>7, <1>8, <1>9, <1>10, <1>11

LEMMA DeleteRowKeeps ==
  ASSUME StoreInv, NEW r \in Req, DeleteRow(r)
  PROVE  StoreInv'
<1> USE DEF DeleteRow, StoreInv
<1>1. TypeOK'
  BY DEF TypeOK, DocsDrawn, DeletesKnow
<1>2. UploadsApart'
  BY DEF TypeOK, UploadsApart, DocsDrawn
<1>3. DocsDrawn'
  BY DEF TypeOK, DocsDrawn
<1>4. UploadsKnow'
  BY DEF TypeOK, UploadsApart, DocsDrawn, UploadsKnow, DeletesKnow
<1>5. DeletesKnow'
  BY DEF TypeOK, UploadsKnow, DeletesKnow
<1>6. NoneLeftBehind'
  BY DEF TypeOK, NoneLeftBehind, UploadsKnow, DeletesKnow
<1>7. Untouched'
  BY DEF TypeOK, Untouched, UploadsKnow, DeletesKnow
<1>8. RowHasObject'
  BY DEF TypeOK, RowHasObject, UploadsKnow, DeletesKnow
<1>9. OrphansAreUploads'
  BY DEF TypeOK, OrphansAreUploads, NoneLeftBehind, UploadsKnow, DeletesKnow
<1>10. UploadedStays'
  BY DEF TypeOK, UploadedStays, UploadsKnow, DeletesKnow
<1>11. LinksWork'
  BY DEF TypeOK, LinksWork, Untouched, UploadsKnow, DeletesKnow
<1> QED  BY <1>1, <1>2, <1>3, <1>4, <1>5, <1>6, <1>7, <1>8, <1>9, <1>10, <1>11

LEMMA SignUrlKeeps ==
  ASSUME StoreInv, NEW r \in Req, SignUrl(r)
  PROVE  StoreInv'
<1> USE DEF SignUrl, StoreInv
<1>1. TypeOK'
  BY DEF TypeOK, DocsDrawn, DeletesKnow
<1>2. UploadsApart'
  BY DEF TypeOK, UploadsApart, DocsDrawn
<1>3. DocsDrawn'
  BY DEF TypeOK, DocsDrawn
<1>4. UploadsKnow'
  BY DEF TypeOK, UploadsApart, DocsDrawn, UploadsKnow, DeletesKnow
<1>5. DeletesKnow'
  BY DEF TypeOK, UploadsKnow, DeletesKnow
<1>6. NoneLeftBehind'
  BY DEF TypeOK, NoneLeftBehind, UploadsKnow, DeletesKnow
<1>7. Untouched'
  BY DEF TypeOK, Untouched, UploadsKnow, DeletesKnow
<1>8. RowHasObject'
  BY DEF TypeOK, RowHasObject, UploadsKnow, DeletesKnow
<1>9. OrphansAreUploads'
  BY DEF TypeOK, OrphansAreUploads, NoneLeftBehind, UploadsKnow, DeletesKnow
<1>10. UploadedStays'
  BY DEF TypeOK, UploadedStays, UploadsKnow, DeletesKnow
<1>11. LinksWork'
  BY DEF TypeOK, LinksWork, Untouched, UploadsKnow, DeletesKnow
<1> QED  BY <1>1, <1>2, <1>3, <1>4, <1>5, <1>6, <1>7, <1>8, <1>9, <1>10, <1>11

LEMMA UploadKeeps ==
  ASSUME StoreInv, NEW r \in Req, Upload(r)
  PROVE  StoreInv'
<1> USE DEF Upload, StoreInv
<1>1. TypeOK'
  BY DEF TypeOK, DocsDrawn, DeletesKnow
<1>2. UploadsApart'
  BY DEF TypeOK, UploadsApart, DocsDrawn
<1>3. DocsDrawn'
  BY DEF TypeOK, DocsDrawn
<1>4. UploadsKnow'
  BY DEF TypeOK, UploadsApart, DocsDrawn, UploadsKnow, DeletesKnow
<1>5. DeletesKnow'
  BY DEF TypeOK, UploadsKnow, DeletesKnow
<1>6. NoneLeftBehind'
  BY DEF TypeOK, NoneLeftBehind, UploadsKnow, DeletesKnow
<1>7. Untouched'
  BY DEF TypeOK, Untouched, UploadsKnow, DeletesKnow
<1>8. RowHasObject'
  BY DEF TypeOK, RowHasObject, UploadsKnow, DeletesKnow
<1>9. OrphansAreUploads'
  BY DEF TypeOK, OrphansAreUploads, NoneLeftBehind, UploadsKnow, DeletesKnow
<1>10. UploadedStays'
  BY DEF TypeOK, UploadedStays, UploadsKnow, DeletesKnow
<1>11. LinksWork'
  BY DEF TypeOK, LinksWork, Untouched, UploadsKnow, DeletesKnow
<1> QED  BY <1>1, <1>2, <1>3, <1>4, <1>5, <1>6, <1>7, <1>8, <1>9, <1>10, <1>11

LEMMA DeleteKeeps ==
  ASSUME StoreInv, NEW r \in Req, NEW d \in Doc, Delete(r, d)
  PROVE  StoreInv'
<1> USE DEF Delete, StoreInv
<1>1. TypeOK'
  BY DEF TypeOK, DocsDrawn, DeletesKnow
<1>2. UploadsApart'
  BY DEF TypeOK, UploadsApart, DocsDrawn
<1>3. DocsDrawn'
  BY DEF TypeOK, DocsDrawn
<1>4. UploadsKnow'
  BY DEF TypeOK, UploadsApart, DocsDrawn, UploadsKnow, DeletesKnow
<1>5. DeletesKnow'
  BY DEF TypeOK, UploadsKnow, DeletesKnow
<1>6. NoneLeftBehind'
  BY DEF TypeOK, NoneLeftBehind, UploadsKnow, DeletesKnow
<1>7. Untouched'
  BY DEF TypeOK, Untouched, UploadsKnow, DeletesKnow
<1>8. RowHasObject'
  BY DEF TypeOK, RowHasObject, UploadsKnow, DeletesKnow
<1>9. OrphansAreUploads'
  BY DEF TypeOK, OrphansAreUploads, NoneLeftBehind, UploadsKnow, DeletesKnow
<1>10. UploadedStays'
  BY DEF TypeOK, UploadedStays, UploadsKnow, DeletesKnow
<1>11. LinksWork'
  BY DEF TypeOK, LinksWork, Untouched, UploadsKnow, DeletesKnow
<1> QED  BY <1>1, <1>2, <1>3, <1>4, <1>5, <1>6, <1>7, <1>8, <1>9, <1>10, <1>11

LEMMA GetKeeps ==
  ASSUME StoreInv, NEW r \in Req, NEW d \in Doc, Get(r, d)
  PROVE  StoreInv'
<1> USE DEF Get, StoreInv
<1>1. TypeOK'
  BY DEF TypeOK, DocsDrawn, DeletesKnow
<1>2. UploadsApart'
  BY DEF TypeOK, UploadsApart, DocsDrawn
<1>3. DocsDrawn'
  BY DEF TypeOK, DocsDrawn
<1>4. UploadsKnow'
  BY DEF TypeOK, UploadsApart, DocsDrawn, UploadsKnow, DeletesKnow
<1>5. DeletesKnow'
  BY DEF TypeOK, UploadsKnow, DeletesKnow
<1>6. NoneLeftBehind'
  BY DEF TypeOK, NoneLeftBehind, UploadsKnow, DeletesKnow
<1>7. Untouched'
  BY DEF TypeOK, Untouched, UploadsKnow, DeletesKnow
<1>8. RowHasObject'
  BY DEF TypeOK, RowHasObject, UploadsKnow, DeletesKnow
<1>9. OrphansAreUploads'
  BY DEF TypeOK, OrphansAreUploads, NoneLeftBehind, UploadsKnow, DeletesKnow
<1>10. UploadedStays'
  BY DEF TypeOK, UploadedStays, UploadsKnow, DeletesKnow
<1>11. LinksWork'
  BY DEF TypeOK, LinksWork, Untouched, UploadsKnow, DeletesKnow
<1> QED  BY <1>1, <1>2, <1>3, <1>4, <1>5, <1>6, <1>7, <1>8, <1>9, <1>10, <1>11

LEMMA StartKeeps ==
  ASSUME StoreInv, NEW p \in Replica, Start(p)
  PROVE  StoreInv'
<1> USE DEF Start, StoreInv
<1>1. TypeOK'
  BY DEF TypeOK, DocsDrawn, DeletesKnow
<1>2. UploadsApart'
  BY DEF TypeOK, UploadsApart, DocsDrawn
<1>3. DocsDrawn'
  BY DEF TypeOK, DocsDrawn
<1>4. UploadsKnow'
  BY DEF TypeOK, UploadsApart, DocsDrawn, UploadsKnow, DeletesKnow
<1>5. DeletesKnow'
  BY DEF TypeOK, UploadsKnow, DeletesKnow
<1>6. NoneLeftBehind'
  BY DEF TypeOK, NoneLeftBehind, UploadsKnow, DeletesKnow
<1>7. Untouched'
  BY DEF TypeOK, Untouched, UploadsKnow, DeletesKnow
<1>8. RowHasObject'
  BY DEF TypeOK, RowHasObject, UploadsKnow, DeletesKnow
<1>9. OrphansAreUploads'
  BY DEF TypeOK, OrphansAreUploads, NoneLeftBehind, UploadsKnow, DeletesKnow
<1>10. UploadedStays'
  BY DEF TypeOK, UploadedStays, UploadsKnow, DeletesKnow
<1>11. LinksWork'
  BY DEF TypeOK, LinksWork, Untouched, UploadsKnow, DeletesKnow
<1> QED  BY <1>1, <1>2, <1>3, <1>4, <1>5, <1>6, <1>7, <1>8, <1>9, <1>10, <1>11

LEMMA MakeBucketKeeps ==
  ASSUME StoreInv, NEW p \in Replica, MakeBucket(p)
  PROVE  StoreInv'
<1> USE DEF MakeBucket, StoreInv
<1>1. TypeOK'
  <2>1. /\ bucket' = TRUE \/ bucket' = bucket
        /\ hurt' = hurt \/ hurt' = hurt \cup {}
        /\ faults' = faults \/ faults' = faults + 1
        /\ UNCHANGED <<rows, objects, listed, uploaded, condemned, linked, req, drawn>>
    OBVIOUS
  <2>2. \/ replica' = [replica EXCEPT ![p] = "up"]
        \/ replica' = [replica EXCEPT ![p] = "down"]
    OBVIOUS
  <2>3. replica' \in [Replica -> {"down", "making", "up"}]
    BY <2>2 DEF TypeOK
  <2>4. bucket' \in BOOLEAN /\ faults' \in Nat /\ hurt' \subseteq drawn
    <3>1. bucket' \in BOOLEAN
      BY <2>1 DEF TypeOK
    <3>2. faults' \in Nat
      BY <2>1 DEF TypeOK
    <3>3. hurt' \subseteq drawn
      BY <2>1 DEF TypeOK
    <3> QED  BY <3>1, <3>2, <3>3
  <2> QED  BY <2>1, <2>3, <2>4 DEF TypeOK
<1>2. UploadsApart'
  BY DEF TypeOK, UploadsApart, DocsDrawn
<1>3. DocsDrawn'
  BY DEF TypeOK, DocsDrawn
<1>4. UploadsKnow'
  BY DEF TypeOK, UploadsApart, DocsDrawn, UploadsKnow, DeletesKnow
<1>5. DeletesKnow'
  BY DEF TypeOK, UploadsKnow, DeletesKnow
<1>6. NoneLeftBehind'
  BY DEF TypeOK, NoneLeftBehind, UploadsKnow, DeletesKnow
<1>7. Untouched'
  BY DEF TypeOK, Untouched, UploadsKnow, DeletesKnow
<1>8. RowHasObject'
  BY DEF TypeOK, RowHasObject, UploadsKnow, DeletesKnow
<1>9. OrphansAreUploads'
  BY DEF TypeOK, OrphansAreUploads, NoneLeftBehind, UploadsKnow, DeletesKnow
<1>10. UploadedStays'
  BY DEF TypeOK, UploadedStays, UploadsKnow, DeletesKnow
<1>11. LinksWork'
  BY DEF TypeOK, LinksWork, Untouched, UploadsKnow, DeletesKnow
<1> QED  BY <1>1, <1>2, <1>3, <1>4, <1>5, <1>6, <1>7, <1>8, <1>9, <1>10, <1>11

LEMMA CrashKeeps ==
  ASSUME StoreInv, NEW p \in Replica, Crash(p)
  PROVE  StoreInv'
<1> USE DEF Crash, StoreInv
<1>1. TypeOK'
  BY DEF TypeOK, DocsDrawn, DeletesKnow
<1>2. UploadsApart'
  BY DEF TypeOK, UploadsApart, DocsDrawn
<1>3. DocsDrawn'
  BY DEF TypeOK, DocsDrawn
<1>4. UploadsKnow'
  BY DEF TypeOK, UploadsApart, DocsDrawn, UploadsKnow, DeletesKnow
<1>5. DeletesKnow'
  BY DEF TypeOK, UploadsKnow, DeletesKnow
<1>6. NoneLeftBehind'
  BY DEF TypeOK, NoneLeftBehind, UploadsKnow, DeletesKnow
<1>7. Untouched'
  BY DEF TypeOK, Untouched, UploadsKnow, DeletesKnow
<1>8. RowHasObject'
  BY DEF TypeOK, RowHasObject, UploadsKnow, DeletesKnow
<1>9. OrphansAreUploads'
  BY DEF TypeOK, OrphansAreUploads, NoneLeftBehind, UploadsKnow, DeletesKnow
<1>10. UploadedStays'
  BY DEF TypeOK, UploadedStays, UploadsKnow, DeletesKnow
<1>11. LinksWork'
  BY DEF TypeOK, LinksWork, Untouched, UploadsKnow, DeletesKnow
<1> QED  BY <1>1, <1>2, <1>3, <1>4, <1>5, <1>6, <1>7, <1>8, <1>9, <1>10, <1>11

-----------------------------------------------------------------------------
(* StoreInv is an invariant.                                               *)

LEMMA StoreInit == Init => StoreInv
<1> SUFFICES ASSUME Init PROVE StoreInv
  OBVIOUS
<1>1. TypeOK
  BY DEF Init, TypeOK
<1>2. \A r \in Req : req[r] = Idle
  BY DEF Init
<1> QED
  BY <1>1, <1>2
  DEF Init, StoreInv, UploadsApart, DocsDrawn, UploadsKnow, DeletesKnow,
      NoneLeftBehind, Untouched, RowHasObject, OrphansAreUploads, UploadedStays, LinksWork

LEMMA StoreStep == StoreInv /\ [Next]_vars => StoreInv'
<1> SUFFICES ASSUME StoreInv, [Next]_vars PROVE StoreInv'
  OBVIOUS
<1>1. CASE UNCHANGED vars
  BY <1>1
  DEF vars, StoreInv, TypeOK, UploadsApart, DocsDrawn, UploadsKnow, DeletesKnow,
      NoneLeftBehind, Untouched, RowHasObject, OrphansAreUploads, UploadedStays, LinksWork
<1>2. ASSUME NEW p \in Replica, Start(p) \/ MakeBucket(p) \/ Crash(p) PROVE StoreInv'
  BY <1>2, StartKeeps, MakeBucketKeeps, CrashKeeps
<1>3. ASSUME NEW r \in Req, Upload(r) \/ Step(r) PROVE StoreInv'
  BY <1>3, UploadKeeps, PutObjectKeeps, InsertRowKeeps, UndoPutKeeps,
     RemoveObjectKeeps, DeleteRowKeeps, SignUrlKeeps DEF Step
<1>4. ASSUME NEW r \in Req, NEW d \in Doc, Delete(r, d) \/ Get(r, d) PROVE StoreInv'
  BY <1>4, DeleteKeeps, GetKeeps
<1> QED  BY <1>1, <1>2, <1>3, <1>4 DEF Next

\* The inductive invariant: what each call in flight knows of its document.
THEOREM StoreInvariant == Spec => []StoreInv
  BY StoreInit, StoreStep, PTL DEF Spec

\* Both stores, the requests and the history sets keep their types.
THEOREM TypeCorrect == Spec => []TypeOK
<1>1. StoreInv => TypeOK  BY DEF StoreInv
<1> QED  BY <1>1, StoreInvariant, PTL

\* A row whose object is gone is being deleted, or a failure met the document.
THEOREM RowsAreWhole == Spec => []RowHasObject
<1>1. StoreInv => RowHasObject  BY DEF StoreInv
<1> QED  BY <1>1, StoreInvariant, PTL

\* Deletions leave no object behind; uploads do only while in flight or hurt.
THEOREM NoLostObjects == Spec => []OrphansAreUploads
<1>1. StoreInv => OrphansAreUploads  BY DEF StoreInv
<1> QED  BY <1>1, StoreInvariant, PTL

\* What was answered 201 stays until a deletion finds it.
THEOREM UploadsAreKept == Spec => []UploadedStays
<1>1. StoreInv => UploadedStays  BY DEF StoreInv
<1> QED  BY <1>1, StoreInvariant, PTL

\* A download URL names an object, deletions and failures apart.
THEOREM LinksAreGood == Spec => []LinksWork
<1>1. StoreInv => LinksWork  BY DEF StoreInv
<1> QED  BY <1>1, StoreInvariant, PTL

-----------------------------------------------------------------------------
(* No deletion is dropped.                                                 *)

\* What has left both stores for good: once a document is listed nothing puts it
\* back, and failures are remembered.
LEMMA StoresShrink ==
  ASSUME StoreInv, [Next]_vars, NEW d \in condemned
  PROVE  /\ d \notin rows \cup objects => d \notin (rows \cup objects)'
         /\ hurt \subseteq hurt'
<1>1. d \in listed
  BY DEF StoreInv, TypeOK
<1> USE DEF StoreInv, UploadsKnow
<1>2. CASE UNCHANGED vars
  BY <1>2 DEF vars
<1>3. ASSUME NEW p \in Replica, Start(p) \/ MakeBucket(p) \/ Crash(p)
      PROVE  UNCHANGED <<rows, objects>> /\ hurt \subseteq hurt'
  BY <1>3 DEF Start, MakeBucket, Crash
<1>4. ASSUME NEW r \in Req, Upload(r) \/ SignUrl(r)
      PROVE  UNCHANGED <<rows, objects>> /\ hurt \subseteq hurt'
  BY <1>4 DEF Upload, SignUrl
<1>5. ASSUME NEW r \in Req, PutObject(r)
      PROVE  /\ d \notin rows \cup objects => d \notin (rows \cup objects)'
             /\ hurt \subseteq hurt'
  BY <1>1, <1>5 DEF PutObject
<1>6. ASSUME NEW r \in Req, InsertRow(r)
      PROVE  /\ d \notin rows \cup objects => d \notin (rows \cup objects)'
             /\ hurt \subseteq hurt'
  BY <1>1, <1>6 DEF InsertRow
<1>7. ASSUME NEW r \in Req, UndoPut(r) \/ RemoveObject(r) \/ DeleteRow(r)
      PROVE  (rows \cup objects)' \subseteq rows \cup objects /\ hurt \subseteq hurt'
  BY <1>7 DEF UndoPut, RemoveObject, DeleteRow
<1>8. ASSUME NEW r \in Req, NEW e \in Doc, Delete(r, e) \/ Get(r, e)
      PROVE  UNCHANGED <<rows, objects>> /\ hurt \subseteq hurt'
  BY <1>8 DEF Delete, Get
<1> QED  BY <1>2, <1>3, <1>4, <1>5, <1>6, <1>7, <1>8 DEF Next, Step

\* A request that deletes a document goes on, ends with both stores rid of it, or is
\* ended by a failure, which meets the document.
LEMMA DeletionGoesOn ==
  ASSUME StoreInv, [Next]_vars, NEW r \in Req, Deleting(r)
  PROVE  \/ Deleting(r)' /\ req'[r].doc = req[r].doc
         \/ req[r].doc \notin (rows \cup objects)'
         \/ req[r].doc \in hurt'
<1> DEFINE d == req[r].doc
<1>1. /\ req \in [Req -> {Idle} \cup [pc : Pc \ {"idle"}, doc : Doc]]
      /\ At(r, "deleteRow") => d \notin objects
  BY DEF StoreInv, TypeOK, DeletesKnow
<1>2. CASE UNCHANGED req
  BY <1>2
<1>3. CASE RemoveObject(r)
  BY <1>1, <1>3 DEF RemoveObject
<1>4. CASE DeleteRow(r)
  BY <1>1, <1>4 DEF DeleteRow
<1>5. ASSUME NEW s \in Req, s # r, Upload(s) \/ Step(s) PROVE req'[r] = req[r]
  BY <1>1, <1>5 DEF Upload, Step, PutObject, InsertRow, UndoPut, RemoveObject, DeleteRow, SignUrl
<1>6. ASSUME NEW s \in Req, NEW e \in Doc, Delete(s, e) \/ Get(s, e) PROVE req'[r] = req[r]
  BY <1>1, <1>6 DEF Delete, Get
<1>7. ASSUME NEW p \in Replica, Crash(p) PROVE req'[r] = req[r] \/ d \in hurt'
  BY <1>7 DEF Crash
<1>8. ~Upload(r) /\ (Step(r) => RemoveObject(r) \/ DeleteRow(r))
  BY DEF Upload, Step, PutObject, InsertRow, UndoPut, SignUrl
<1>9. ASSUME NEW p \in Replica, Start(p) \/ MakeBucket(p) PROVE UNCHANGED req
  BY <1>9 DEF Start, MakeBucket
<1> QED  BY <1>2, <1>3, <1>4, <1>5, <1>6, <1>7, <1>8, <1>9 DEF Next, vars

LEMMA DeletionsInit == Init => DeletionsInHand
  BY DEF Init, DeletionsInHand

LEMMA DeletionsStep == StoreInv /\ DeletionsInHand /\ [Next]_vars => DeletionsInHand'
<1> SUFFICES ASSUME StoreInv, DeletionsInHand, [Next]_vars, NEW d \in condemned' \ hurt'
             PROVE  \/ d \notin (rows \cup objects)'
                    \/ \E r \in Req : Deleting(r)' /\ req'[r].doc = d
  BY DEF DeletionsInHand
<1>1. CASE d \in condemned
  <2>1. d \notin hurt
    BY <1>1, StoresShrink
  <2>2. CASE d \notin rows \cup objects
    BY <1>1, <2>2, StoresShrink
  <2>3. CASE \E r \in Req : Deleting(r) /\ req[r].doc = d
    BY <2>3, DeletionGoesOn
  <2> QED  BY <1>1, <2>1, <2>2, <2>3 DEF DeletionsInHand
<1>2. CASE d \notin condemned
  <2>1. ASSUME NEW p \in Replica, Start(p) \/ MakeBucket(p) \/ Crash(p) PROVE UNCHANGED condemned
    BY <2>1 DEF Start, MakeBucket, Crash
  <2>2. ASSUME NEW r \in Req, Upload(r) \/ Step(r) PROVE UNCHANGED condemned
    BY <2>2 DEF Upload, Step, PutObject, InsertRow, UndoPut, RemoveObject, DeleteRow, SignUrl
  <2>3. ASSUME NEW r \in Req, NEW e \in Doc, Get(r, e) PROVE UNCHANGED condemned
    BY <2>3 DEF Get
  <2>4. PICK r \in Req : Delete(r, d)
    BY <1>2, <2>1, <2>2, <2>3 DEF Next, vars, Delete
  <2>5. req'[r] = [pc |-> "removeObject", doc |-> d]
    BY <2>4 DEF Delete, StoreInv, TypeOK
  <2> QED  BY <2>5
<1> QED  BY <1>1, <1>2

\* Every deletion that found its document is in hand until the document is off both
\* stores, failures apart: what the fairness of its calls turns into DeletesFinish
\* (document.service.ts 121-146).
THEOREM DeletionsAreInHand == Spec => []DeletionsInHand
  BY DeletionsInit, DeletionsStep, StoreInvariant, PTL DEF Spec

\* When no request is in flight the table and the bucket agree, and every deletion
\* has been carried out, but for the documents that a failure met.
THEOREM StoresAgreeWhenQuiet == Spec => []QuietStoresAgree
<1>1. StoreInv /\ DeletionsInHand => QuietStoresAgree
  <2> SUFFICES ASSUME StoreInv, DeletionsInHand, \A r \in Req : At(r, "idle")
               PROVE  (rows \ objects) \cup (objects \ rows) \cup (condemned \cap rows) \subseteq hurt
    BY DEF QuietStoresAgree
  <2>0. ASSUME NEW r \in Req, NEW d,
               req[r] = [pc |-> "deleteRow", doc |-> d] \/ req[r] = [pc |-> "insert", doc |-> d]
        PROVE  FALSE
    <3>1. req[r].pc = "idle"
      OBVIOUS
    <3>2. req[r].pc = "deleteRow" \/ req[r].pc = "insert"
      BY <2>0
    <3> QED  BY <3>1, <3>2
  <2>1. rows \ objects \subseteq hurt
    BY <2>0 DEF StoreInv, RowHasObject
  <2>2. objects \ rows \subseteq hurt
    BY <2>0 DEF StoreInv, OrphansAreUploads
  <2>3. condemned \cap rows \subseteq hurt
    BY DEF DeletionsInHand
  <2> QED  BY <2>1, <2>2, <2>3
<1> QED  BY <1>1, StoreInvariant, DeletionsAreInHand, PTL

\* A start that meets no failure only gets on: what the fairness of Start and
\* MakeBucket turns into ReplicasServe.
THEOREM StartsProgress == Spec => StartsOnlyProgress
<1>1. ASSUME TypeOK, [Next]_vars, NEW p \in Replica, faults' = faults
      PROVE  IF replica'[p] = replica[p] THEN StepsToServe(p)' <= StepsToServe(p)
                                         ELSE StepsToServe(p)' < StepsToServe(p)
  <2>1. /\ faults \in Nat /\ faults + 1 # faults /\ bucket \in BOOLEAN
        /\ replica \in [Replica -> {"down", "making", "up"}]
    BY <1>1 DEF TypeOK
  <2>2. CASE UNCHANGED <<replica, bucket>>
    BY <2>1, <2>2 DEF StepsToServe
  <2>3. ASSUME NEW q \in Replica, Start(q)
        PROVE  IF replica'[p] = replica[p] THEN StepsToServe(p)' <= StepsToServe(p)
                                           ELSE StepsToServe(p)' < StepsToServe(p)
    BY <2>1, <2>3 DEF Start, StepsToServe
  <2>4. ASSUME NEW q \in Replica, MakeBucket(q)
        PROVE  IF replica'[p] = replica[p] THEN StepsToServe(p)' <= StepsToServe(p)
                                           ELSE StepsToServe(p)' < StepsToServe(p)
    <3>1. /\ replica[q] = "making"
          /\ \/ bucket' = TRUE /\ replica' = [replica EXCEPT ![q] = "up"]
             \/ bucket /\ bucket' = bucket /\ replica' = [replica EXCEPT ![q] = "down"]
      BY <1>1, <2>1, <2>4 DEF MakeBucket
    <3> QED  BY <2>1, <3>1 DEF StepsToServe
  <2>5. ASSUME NEW q \in Replica PROVE ~Crash(q)
    BY <1>1, <2>1 DEF Crash
  <2>6. ASSUME NEW r \in Req, Upload(r) \/ Step(r) PROVE UNCHANGED <<replica, bucket>>
    BY <2>6 DEF Upload, Step, PutObject, InsertRow, UndoPut, RemoveObject, DeleteRow, SignUrl
  <2>7. ASSUME NEW r \in Req, NEW d \in Doc, Delete(r, d) \/ Get(r, d)
        PROVE  UNCHANGED <<replica, bucket>>
    BY <2>7 DEF Delete, Get
  <2>8. UNCHANGED vars => UNCHANGED <<replica, bucket>>
    BY DEF vars
  <2> QED  BY <1>1, <2>2, <2>3, <2>4, <2>5, <2>6, <2>7, <2>8 DEF Next
<1>2. TypeOK /\ [Next]_vars =>
        [\A p \in Replica :
           faults' = faults =>
             IF replica'[p] = replica[p] THEN StepsToServe(p)' <= StepsToServe(p)
                                         ELSE StepsToServe(p)' < StepsToServe(p)]_vars
  BY <1>1
<1> QED  BY <1>2, TypeCorrect, PTL DEF Spec, StartsOnlyProgress

-----------------------------------------------------------------------------
(* The two stores implement one set of documents.                          *)

Statuses == [d \in Doc |-> StatusOf(d)]

\* A step that changes the status of at most one document, as DocumentSet lets it.
Moves(d) ==
  \/ StatusOf(d) = "absent" /\ StatusOf(d)' = "available"
  \/ StatusOf(d) = "available" /\ StatusOf(d)' = "broken"
  \/ StatusOf(d) = "broken" /\ StatusOf(d)' = "gone"

LEMMA OneMove ==
  ASSUME NEW d \in Doc,
         StatusOf(d)' = StatusOf(d) \/ Moves(d),
         \A e \in Doc \ {d} : StatusOf(e)' = StatusOf(e)
  PROVE  [Abstract!Next]_Statuses
<1>1. CASE StatusOf(d)' = StatusOf(d)
  BY <1>1 DEF Statuses
<1>2. CASE Moves(d)
  <2>1. Statuses' = [Statuses EXCEPT ![d] = StatusOf(d)']
    BY DEF Statuses
  <2>2. Abstract!Publish(d) \/ Abstract!Break(d) \/ Abstract!Withdraw(d)
    BY <1>2, <2>1 DEF Moves, Statuses, Abstract!Publish, Abstract!Break,
                      Abstract!Withdraw, Abstract!Change
  <2> QED  BY <2>2 DEF Abstract!Next
<1> QED  BY <1>1, <1>2

LEMMA SameTables ==
  ASSUME UNCHANGED tables
  PROVE  [Abstract!Next]_Statuses
<1>1. \A d \in Doc : StatusOf(d)' = StatusOf(d)
  BY DEF StatusOf
<1> QED  BY <1>1 DEF Statuses

LEMMA TableSteps ==
  ASSUME StoreInv, NEW r \in Req,
         PutObject(r) \/ InsertRow(r) \/ UndoPut(r) \/ RemoveObject(r) \/ DeleteRow(r)
  PROVE  [Abstract!Next]_Statuses
<1> USE DEF StoreInv
<1>1. req[r].doc \in Doc
  BY DEF TypeOK, PutObject, InsertRow, UndoPut, RemoveObject, DeleteRow
<1>2. \A e \in Doc \ {req[r].doc} :
        /\ e \in rows' <=> e \in rows
        /\ e \in objects' <=> e \in objects
        /\ e \in listed' <=> e \in listed
  BY DEF PutObject, InsertRow, UndoPut, RemoveObject, DeleteRow
<1>3. \A e \in Doc \ {req[r].doc} : StatusOf(e)' = StatusOf(e)
  BY <1>2 DEF StatusOf
<1>4. ASSUME NEW d \in Doc, d = req[r].doc
      PROVE  StatusOf(d)' = StatusOf(d) \/ Moves(d)
  <2>1. CASE PutObject(r)
    BY <2>1, <1>4 DEF PutObject, UploadsKnow, TypeOK, StatusOf, Moves
  <2>2. CASE InsertRow(r)
    BY <2>2, <1>4 DEF InsertRow, UploadsKnow, TypeOK, StatusOf, Moves
  <2>3. CASE UndoPut(r)
    BY <2>3, <1>4 DEF UndoPut, NoneLeftBehind, TypeOK, StatusOf, Moves
  <2>4. CASE RemoveObject(r)
    BY <2>4, <1>4 DEF RemoveObject, NoneLeftBehind, TypeOK, StatusOf, Moves
  <2>5. CASE DeleteRow(r)
    BY <2>5, <1>4 DEF DeleteRow, DeletesKnow, TypeOK, StatusOf, Moves
  <2> QED  BY <2>1, <2>2, <2>3, <2>4, <2>5
<1>5. PICK d \in Doc : d = req[r].doc
  BY <1>1
<1>6. StatusOf(d)' = StatusOf(d) \/ Moves(d)
  BY <1>4, <1>5
<1>7. \A e \in Doc \ {d} : StatusOf(e)' = StatusOf(e)
  BY <1>3, <1>5
<1> QED  BY <1>6, <1>7, OneMove

LEMMA StepRefines == StoreInv /\ [Next]_vars => [Abstract!Next]_Statuses
<1> SUFFICES ASSUME StoreInv, [Next]_vars PROVE [Abstract!Next]_Statuses
  OBVIOUS
<1>1. CASE UNCHANGED vars
  BY <1>1, SameTables DEF vars
<1>2. ASSUME NEW p \in Replica, Start(p) \/ MakeBucket(p) \/ Crash(p)
      PROVE  UNCHANGED tables
  BY <1>2 DEF Start, MakeBucket, Crash
<1>3. ASSUME NEW r \in Req, Upload(r) \/ SignUrl(r) PROVE UNCHANGED tables
  BY <1>3 DEF Upload, SignUrl
<1>4. ASSUME NEW r \in Req, NEW d \in Doc, Delete(r, d) \/ Get(r, d)
      PROVE  UNCHANGED tables
  BY <1>4 DEF Delete, Get
<1> QED  BY <1>1, <1>2, <1>3, <1>4, SameTables, TableSteps DEF Next, Step

\* Seen from outside, the table and the bucket are one set of documents: each is
\* listed once, whole when it first is, and leaves no content behind.
THEOREM Refinement == Spec => ImplementsDocumentSet
<1>1. Init => Abstract!Init
  BY DEF Init, Abstract!Init, StatusOf
<1>2. StoreInv /\ [Next]_vars => [Abstract!Next]_Statuses
  BY StepRefines
<1> QED  BY <1>1, <1>2, StoreInvariant, PTL
         DEF Spec, ImplementsDocumentSet, Abstract!Spec, Statuses

==============================================================================
