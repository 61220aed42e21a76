------------------------------- MODULE S3Lock -------------------------------
(***************************************************************************)
(* The lock of src/s3/s3.go: Get, Create and Update on one object of a     *)
(* bucket, and the object store as the client sees it.  Each of the three  *)
(* is two requests: Get is StatObject and GetObject, set is StatObject and *)
(* an unconditional PutObject, and other clients may act between the two.  *)
(*                                                                         *)
(* The ETag of an object is a hash of its content, the JSON of a record;   *)
(* it is modelled by that record, and the ETag "" of an object that does   *)
(* not exist by ZeroRecord, which is never stored.                         *)
(***************************************************************************)
EXTENDS LockInterface

CONSTANT
    MaxFaults       \* bound: how many requests fail for no reason of their own,
                    \* and how often the object is deleted from outside

ASSUME S3Assumption == MaxFaults \in Nat

VARIABLES
    object,     \* the content of the object, or NoObject
    etag,       \* etag[c]: l.etag
    stated,     \* stated[c]: the StatObject of c's call is over
    late,       \* PutObjects whose caller has gone and that may still happen
    raced,      \* history: when the object was last deleted, replaced by a
                \* PutObject whose StatObject had not seen it, or released by a
                \* client that was not its holder; or Never
    faults

s3Vars == <<object, etag, stated, late, raced, faults>>

NoObject == ZeroRecord

\* A PutObject: the ETag that set compared, the record it stores, and whether it
\* releases the lease.
Put == [tag: Record, rec: Record, release: BOOLEAN]

S3TypeOK ==
    /\ object \in Record
    /\ etag \in [Client -> Record]
    /\ stated \in [Client -> BOOLEAN]
    /\ late \subseteq Put
    /\ raced \in 0..Never
    /\ faults \in 0..MaxFaults

S3Init ==
    /\ object = NoObject
    /\ etag = [c \in Client |-> NoObject]
    /\ stated = [c \in Client |-> FALSE]
    /\ late = {}
    /\ raced = Never
    /\ faults = 0

-----------------------------------------------------------------------------
Pending(c, op) == call[c].op = op /\ call[c].st = "pending"

PendingWrite(c) == IsWrite(c) /\ call[c].st = "pending"

\* The store carries out a PutObject, whatever it holds.
Store(put) ==
    /\ object' = put.rec
    /\ raced' = IF object = put.tag /\ (put.release => object.holder = put.rec.holder)
                THEN raced ELSE now

PutOf(c) == [tag |-> etag[c], rec |-> call[c].rec, release |-> call[c].op = "release"]

\* StatObject of Get: the object does not exist, or its ETag is remembered.
GetStat(c) ==
    /\ Pending(c, "get") /\ ~stated[c]
    /\ \/ /\ object = NoObject
          /\ Answer(c, "notexist", ZeroRecord, 0)
          /\ UNCHANGED <<etag, stated>>
       \/ /\ object # NoObject
          /\ etag' = [etag EXCEPT ![c] = object]
          /\ stated' = [stated EXCEPT ![c] = TRUE]
          /\ UNCHANGED call
    /\ UNCHANGED <<object, late, raced, faults>>

\* StatObject of Get fails: the error is not looked at, the ETag is "".
GetStatFails(c) ==
    /\ Pending(c, "get") /\ ~stated[c] /\ faults < MaxFaults
    /\ faults' = faults + 1
    /\ etag' = [etag EXCEPT ![c] = NoObject]
    /\ stated' = [stated EXCEPT ![c] = TRUE]
    /\ UNCHANGED <<call, object, late, raced>>

\* Mutant: Get reads the object first and takes the ETag afterwards.
GetObjectThenStat(c) ==
    /\ Pending(c, "get") /\ stated[c] /\ object # NoObject
    /\ Answer(c, "ok", etag[c], 0)
    /\ etag' = [etag EXCEPT ![c] = object]
    /\ UNCHANGED <<object, stated, late, raced, faults>>

GetObject(c) ==
    /\ Pending(c, "get") /\ stated[c] /\ object # NoObject
    /\ Answer(c, "ok", object, 0)
    /\ UNCHANGED s3Vars

\* StatObject of set: the ETag is the one the client knows.
SetStat(c) ==
    /\ PendingWrite(c) /\ ~stated[c] /\ object = etag[c]
    /\ stated' = [stated EXCEPT ![c] = TRUE]
    /\ UNCHANGED <<call, object, etag, late, raced, faults>>

PutObject(c) ==
    /\ PendingWrite(c) /\ stated[c]
    /\ Store(PutOf(c))
    /\ Answer(c, "ok", call[c].rec, 0)
    /\ UNCHANGED <<etag, stated, late, faults>>

-----------------------------------------------------------------------------
CallOver(c) == stated' = [stated EXCEPT ![c] = FALSE]

\* A call returns without an error, or with os.ErrNotExist from Get.
Returns(c) ==
    /\ call[c].st \in {"ok", "notexist"} /\ ~CallCtxDone(c)
    /\ etag' = [etag EXCEPT ![c] = IF IsWrite(c) THEN call[c].rec ELSE etag[c]]
    /\ CallOver(c)
    /\ UNCHANGED <<object, late, raced, faults>>

\* The ETags differ, or the object was deleted before GetObject read it.
Refused(c) ==
    /\ \/ PendingWrite(c) /\ ~stated[c] /\ object # etag[c]
       \/ Pending(c, "get") /\ stated[c] /\ object = NoObject
    /\ CallOver(c)
    /\ UNCHANGED <<object, etag, late, raced, faults>>

\* A call ends without an answer: a StatObject that fails in Get leaves the
\* ETag "", a PutObject that was sent may still happen.
Abandoned(c) ==
    /\ CallOver(c)
    /\ etag' = [etag EXCEPT ![c] =
                  IF call[c].op = "get" /\ ~stated[c] THEN NoObject ELSE etag[c]]
    /\ late' = IF PendingWrite(c) /\ stated[c] THEN late \cup {PutOf(c)} ELSE late
    /\ UNCHANGED <<object, raced>>

ContextEnds(c) ==
    /\ call[c].op # "none" /\ CallCtxDone(c)
    /\ Abandoned(c)
    /\ UNCHANGED faults

\* A request or its answer is lost, or times out.
Lost(c) ==
    /\ call[c].op # "none" /\ faults < MaxFaults
    /\ faults' = faults + 1
    /\ Abandoned(c)

Fails(c) == Refused(c) \/ ContextEnds(c) \/ Lost(c)

LatePut(put) ==
    /\ late' = late \ {put}
    /\ Store(put)
    /\ UNCHANGED <<call, etag, stated, faults>>

\* The process is gone, and with it l.etag.
ClientGone(c) ==
    /\ late' = IF PendingWrite(c) /\ stated[c] THEN late \cup {PutOf(c)} ELSE late
    /\ etag' = [etag EXCEPT ![c] = NoObject]
    /\ CallOver(c)
    /\ UNCHANGED <<object, raced, faults>>

DeleteObject ==
    /\ object # NoObject /\ faults < MaxFaults
    /\ object' = NoObject
    /\ faults' = faults + 1
    /\ raced' = now
    /\ UNCHANGED <<call, etag, stated, late>>
=============================================================================
