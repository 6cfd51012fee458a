---------------------------- MODULE DocumentStore ----------------------------
(***************************************************************************)
(* The document service: DocumentService over the table documents and the  *)
(* bucket of MinioService, with the start of its replicas.                 *)
(*                                                                         *)
(* An action is one awaited call together with the code up to the next     *)
(* one.  A call that rejects may have taken effect, when only its answer   *)
(* was lost.  A replica may die at any time with the requests it serves.   *)
(*                                                                         *)
(* A document of another organization is found by none of the lookups: a   *)
(* request that names one is answered 404 and changes nothing.             *)
(***************************************************************************)
EXTENDS Naturals

CONSTANTS
  Doc,          \* identifiers: UUIDs, drawn once
  NoDoc,
  Req,          \* requests in flight over all replicas
  Replica,
  MaxFaults     \* bound on calls that reject and replicas that die

ASSUME StoreAssumption ==
  /\ NoDoc \notin Doc
  /\ MaxFaults \in Nat

VARIABLES
  rows,         \* table documents
  objects,      \* the bucket
  bucket,       \* the bucket exists
  replica,      \* where a replica's start is
  req,          \* the call a request makes next, and its document
  drawn,        \* identifiers drawn so far
  listed,       \* documents that have ever been in the table
  uploaded,     \* documents whose upload was answered 201
  condemned,    \* documents a deletion has found
  linked,       \* documents a download URL was handed out for
  hurt,         \* documents a failure has met
  faults

tables == <<rows, objects, listed>>
answers == <<uploaded, condemned, linked>>
accidents == <<hurt, faults>>
start == <<bucket, replica>>
vars == <<tables, answers, accidents, start, req, drawn>>

UploadPc == {"put", "insert", "undo"}
DeletePc == {"removeObject", "deleteRow"}
Pc == {"idle", "sign"} \cup UploadPc \cup DeletePc

Idle == [pc |-> "idle", doc |-> NoDoc]

TypeOK ==
  /\ rows \subseteq listed
  /\ objects \subseteq drawn
  /\ listed \subseteq drawn
  /\ drawn \subseteq Doc
  /\ uploaded \subseteq listed /\ condemned \subseteq listed /\ linked \subseteq listed
  /\ hurt \subseteq drawn
  /\ faults \in Nat
  /\ bucket \in BOOLEAN
  /\ replica \in [Replica -> {"down", "making", "up"}]
  /\ req \in [Req -> {Idle} \cup [pc : Pc \ {"idle"}, doc : Doc]]

Init ==
  /\ rows = {} /\ objects = {} /\ listed = {} /\ drawn = {}
  /\ uploaded = {} /\ condemned = {} /\ linked = {}
  /\ hurt = {} /\ faults = 0
  /\ bucket = FALSE
  /\ replica = [p \in Replica |-> "down"]
  /\ req = [r \in Req |-> Idle]

At(r, pc) == req[r].pc = pc
Goto(r, pc) == req' = [req EXCEPT ![r].pc = pc]
Begin(r, pc, d) == req' = [req EXCEPT ![r] = [pc |-> pc, doc |-> d]]

\* Mutated form of Done: a request does not forget its document when it ends.
DoneKeepsDoc(r) == req' = [req EXCEPT ![r].pc = "idle"]

Done(r) == req' = [req EXCEPT ![r] = Idle]

Serving == \E p \in Replica : replica[p] = "up"

\* Failures that meet the documents of D.
Fault(D) ==
  /\ faults < MaxFaults
  /\ faults' = faults + 1
  /\ hurt' = hurt \cup D

-----------------------------------------------------------------------------
(* Mutated forms of definitions below: the bugs the properties must catch. *)

\* The row is inserted before the object is stored.
InsertFirst(r) ==
  /\ At(r, "put")
  /\ rows' = rows \cup {req[r].doc}
  /\ listed' = listed \cup {req[r].doc}
  /\ Goto(r, "insert")
  /\ UNCHANGED <<objects, answers, accidents, start, drawn>>

\* A failed insert is logged and the upload answered 201.
InsertIgnored(r) ==
  /\ At(r, "insert")
  /\ Done(r)
  /\ \/ /\ rows' = rows \cup {req[r].doc}
        /\ UNCHANGED accidents
     \/ UNCHANGED rows /\ Fault({req[r].doc})
  /\ listed' = listed \cup {req[r].doc}
  /\ uploaded' = uploaded \cup {req[r].doc}
  /\ UNCHANGED <<objects, condemned, linked, start, drawn>>

\* The row is deleted and the object left for later.
RowFirst(r) ==
  /\ At(r, "removeObject")
  /\ rows' = rows \ {req[r].doc}
  /\ Done(r)
  /\ UNCHANGED <<objects, listed, answers, accidents, start, drawn>>

\* The answer to the deletion of the object is not awaited.
RemoveNotAwaited(r) ==
  /\ At(r, "removeObject")
  /\ objects' = objects \ {req[r].doc} \/ UNCHANGED objects
  /\ Goto(r, "deleteRow")
  /\ UNCHANGED <<rows, listed, answers, accidents, start, drawn>>

\* Nothing but the object is deleted.
RemoveOnly(r) ==
  /\ At(r, "removeObject")
  /\ objects' = objects \ {req[r].doc}
  /\ Done(r)
  /\ UNCHANGED <<rows, listed, answers, accidents, start, drawn>>

\* Every start creates the bucket.
AlwaysMake(p) ==
  /\ replica[p] = "down"
  /\ replica' = [replica EXCEPT ![p] = "making"]
  /\ UNCHANGED <<tables, answers, accidents, bucket, req, drawn>>

-----------------------------------------------------------------------------
(* Start of a replica: MinioService.onModuleInit.                          *)

\* A failed bucketExists, like any other failure of the start, ends the process;
\* it is started again.
Start(p) ==
  /\ replica[p] = "down"
  /\ replica' = [replica EXCEPT ![p] = IF bucket THEN "up" ELSE "making"]
  /\ UNCHANGED <<tables, answers, accidents, bucket, req, drawn>>

\* When another replica made the bucket meanwhile, the store may say
\* BucketAlreadyExists, which is ignored, or BucketAlreadyOwnedByYou, which is not.
MakeBucket(p) ==
  /\ replica[p] = "making"
  /\ \/ /\ bucket' = TRUE
        /\ replica' = [replica EXCEPT ![p] = "up"]
        /\ UNCHANGED accidents
     \/ /\ bucket
        /\ replica' = [replica EXCEPT ![p] = "down"]
        /\ UNCHANGED <<bucket, accidents>>
     \/ /\ bucket' = TRUE \/ UNCHANGED bucket
        /\ replica' = [replica EXCEPT ![p] = "down"]
        /\ Fault({})
  /\ UNCHANGED <<tables, answers, req, drawn>>

-----------------------------------------------------------------------------
(* uploadDocument                                                          *)

Upload(r) ==
  /\ Serving
  /\ At(r, "idle")
  /\ \E d \in Doc \ drawn : Begin(r, "put", d) /\ drawn' = drawn \cup {d}
  /\ UNCHANGED <<tables, answers, accidents, start>>

PutObject(r) ==
  LET d == req[r].doc
  IN
  /\ At(r, "put")
  /\ \/ objects' = objects \cup {d} /\ Goto(r, "insert") /\ UNCHANGED accidents
     \/ /\ objects' = objects \cup {d} \/ UNCHANGED objects
        /\ Done(r)
        /\ Fault({d})
  /\ UNCHANGED <<rows, listed, answers, start, drawn>>

InsertRow(r) ==
  LET d == req[r].doc
      Insert == rows' = rows \cup {d} /\ listed' = listed \cup {d}
  IN
  /\ At(r, "insert")
  /\ \/ Insert /\ uploaded' = uploaded \cup {d} /\ Done(r) /\ UNCHANGED accidents
     \/ /\ Insert \/ UNCHANGED <<rows, listed>>
        /\ UNCHANGED uploaded
        /\ Goto(r, "undo")
        /\ Fault({d})
  /\ UNCHANGED <<objects, condemned, linked, start, drawn>>

\* The catch block: a failure to delete the object again is logged and ignored.
UndoPut(r) ==
  LET d == req[r].doc
  IN
  /\ At(r, "undo")
  /\ \/ objects' = objects \ {d} /\ UNCHANGED accidents
     \/ (objects' = objects \ {d} \/ UNCHANGED objects) /\ Fault({d})
  /\ Done(r)
  /\ UNCHANGED <<rows, listed, answers, start, drawn>>

-----------------------------------------------------------------------------
(* deleteDocument                                                          *)

Delete(r, d) ==
  /\ Serving
  /\ At(r, "idle")
  /\ d \in rows
  /\ Begin(r, "removeObject", d)
  /\ condemned' = condemned \cup {d}
  /\ UNCHANGED <<tables, uploaded, linked, accidents, start, drawn>>

\* Removing an object that is not there succeeds too.
RemoveObject(r) ==
  LET d == req[r].doc
  IN
  /\ At(r, "removeObject")
  /\ \/ objects' = objects \ {d} /\ Goto(r, "deleteRow") /\ UNCHANGED accidents
     \/ /\ objects' = objects \ {d} \/ UNCHANGED objects
        /\ Done(r)
        /\ Fault({d})
  /\ UNCHANGED <<rows, listed, answers, start, drawn>>

DeleteRow(r) ==
  LET d == req[r].doc
  IN
  /\ At(r, "deleteRow")
  /\ \/ rows' = rows \ {d} /\ UNCHANGED accidents
     \/ (rows' = rows \ {d} \/ UNCHANGED rows) /\ Fault({d})
  /\ Done(r)
  /\ UNCHANGED <<objects, listed, answers, start, drawn>>

-----------------------------------------------------------------------------
(* getDocument: the URL is signed for whatever key the row held, whether or *)
(* not there is an object.                                                  *)

Get(r, d) ==
  /\ Serving
  /\ At(r, "idle")
  /\ d \in rows
  /\ Begin(r, "sign", d)
  /\ UNCHANGED <<tables, answers, accidents, start, drawn>>

SignUrl(r) ==
  /\ At(r, "sign")
  /\ linked' = linked \cup {req[r].doc} \/ UNCHANGED linked
  /\ Done(r)
  /\ UNCHANGED <<tables, uploaded, condemned, accidents, start, drawn>>

-----------------------------------------------------------------------------

\* A replica dies with its requests R; the last one takes all with it.
Crash(p) ==
  LET Busy == {r \in Req : ~At(r, "idle")}
  IN
  /\ replica[p] # "down"
  /\ replica' = [replica EXCEPT ![p] = "down"]
  /\ \E R \in SUBSET Busy :
       /\ replica[p] = "making" => R = {}
       /\ (\A q \in Replica \ {p} : replica[q] # "up") => R = Busy
       /\ req' = [r \in Req |-> IF r \in R THEN Idle ELSE req[r]]
       /\ Fault({req[r].doc : r \in R})
  /\ UNCHANGED <<tables, answers, bucket, drawn>>

Step(r) ==
  \/ PutObject(r) \/ InsertRow(r) \/ UndoPut(r)
  \/ RemoveObject(r) \/ DeleteRow(r)
  \/ SignUrl(r)

Next ==
  \/ \E p \in Replica : Start(p) \/ MakeBucket(p) \/ Crash(p)
  \/ \E r \in Req : Upload(r) \/ Step(r)
  \/ \E r \in Req, d \in Doc : Delete(r, d) \/ Get(r, d)

Spec == Init /\ [][Next]_vars

\* Calls end one way or the other, and the supervisor starts what is down.
Fairness ==
  /\ \A p \in Replica : WF_vars(Start(p)) /\ WF_vars(MakeBucket(p))
  /\ \A r \in Req : WF_vars(Step(r))

FairSpec == Spec /\ Fairness

-----------------------------------------------------------------------------
(* Inductive invariant: what each call of a request knows of its document. *)

Active(r) == ~At(r, "idle")
Uploading(r) == req[r].pc \in UploadPc
Deleting(r) == req[r].pc \in DeletePc

UploadsApart ==
  \A r, s \in Req : Uploading(r) /\ Uploading(s) /\ req[r].doc = req[s].doc => r = s

DocsDrawn == \A r \in Req : Active(r) => req[r].doc \in drawn

UploadsKnow ==
  \A r \in Req :
    /\ At(r, "put") => req[r].doc \notin objects \cup listed
    /\ At(r, "insert") => req[r].doc \in objects \ listed
    /\ At(r, "undo") => req[r].doc \in hurt \ uploaded

DeletesKnow ==
  \A r \in Req :
    /\ Deleting(r) => req[r].doc \in condemned
    /\ At(r, "deleteRow") => req[r].doc \notin objects
    /\ At(r, "sign") => req[r].doc \in listed

NoneLeftBehind == listed \cap objects \subseteq rows

Untouched == listed \ (condemned \cup hurt) \subseteq rows \cap objects

-----------------------------------------------------------------------------
(* Properties.                                                             *)

\* A row without its object is about to be deleted by a request in flight, or a
\* failure has met the document: a deletion that stopped half-way, or an upload
\* that was undone although its row had been inserted (lines 57-78, 139-143).
RowHasObject ==
  \A d \in rows \ objects :
    d \in hurt \/ \E r \in Req : req[r] = [pc |-> "deleteRow", doc |-> d]

\* An object without a row has never been listed: deletions leave none behind,
\* and uploads do only when they are in flight or met a failure.
OrphansAreUploads ==
  \A d \in objects \ rows :
    /\ d \notin listed
    /\ d \in hurt \/ \E r \in Req : req[r] = [pc |-> "insert", doc |-> d]

\* What was answered 201 stays, row and object, until a deletion finds it, no
\* matter which requests run or fail beside it.
UploadedStays == uploaded \ condemned \subseteq rows \cap objects

\* A download URL names an object, unless the document was being deleted or a
\* failure has met it: the URL is signed without a look at the bucket.
LinksWork == linked \subseteq objects \cup condemned \cup hurt

\* A document that a deletion found is gone from both stores, or a request in flight
\* is deleting it, or a failure has met it: no deletion is dropped on the way.
DeletionsInHand ==
  \A d \in condemned \ hurt :
    d \notin rows \cup objects \/ \E r \in Req : Deleting(r) /\ req[r].doc = d

\* With nothing in flight the two stores name the same documents, none of which was
\* found by a deletion, except for those that a failure has met.
QuietStoresAgree ==
  (\A r \in Req : At(r, "idle")) =>
    (rows \ objects) \cup (objects \ rows) \cup (condemned \cap rows) \subseteq hurt

StatusOf(d) == CASE d \in rows /\ d \in objects -> "available"
                 [] d \in rows /\ d \notin objects -> "broken"
                 [] d \notin rows /\ d \in listed -> "gone"
                 [] OTHER -> "absent"

\* The two stores together behave like one set of documents (DocumentSet), even
\* where uploads are undone and deletions stop half-way.
Abstract == INSTANCE DocumentSet WITH status <- [d \in Doc |-> StatusOf(d)]

ImplementsDocumentSet == Abstract!Spec

StoreInv ==
  /\ TypeOK
  /\ UploadsApart /\ DocsDrawn /\ UploadsKnow /\ DeletesKnow
  /\ NoneLeftBehind /\ Untouched
  /\ RowHasObject /\ OrphansAreUploads /\ UploadedStays /\ LinksWork

\* A deletion that has found its document makes an end of it, unless it fails.
DeletesFinish ==
  \A d \in Doc : d \in condemned ~> (d \notin rows \cup objects \/ d \in hurt)

\* The steps a replica still takes to come up.  Before there is a bucket it may find
\* none and try to make it; afterwards it may fail at that once, and starts again.
StepsToServe(p) ==
  CASE replica[p] = "up" -> 0
    [] replica[p] = "down" -> IF bucket THEN 1 ELSE 4
    [] replica[p] = "making" -> IF bucket THEN 2 ELSE 3

\* Failures apart, whatever a replica does brings it nearer to serving, and nothing
\* that another one does sets it back (minio.service.ts 36-55).
StartsOnlyProgress ==
  [][\A p \in Replica :
       faults' = faults =>
         IF replica'[p] = replica[p] THEN StepsToServe(p)' <= StepsToServe(p)
                                     ELSE StepsToServe(p)' < StepsToServe(p)]_vars

\* Replicas that start together may stop each other once, by making the same
\* bucket, but all of them come up.
ReplicasServe == <>[](\A p \in Replica : replica[p] = "up")

=============================================================================
