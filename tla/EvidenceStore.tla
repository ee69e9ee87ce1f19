--------------------------- MODULE EvidenceStore ---------------------------
(***************************************************************************)
(* EvidenceService with its HTTP routes, its PostgreSQL repository and its *)
(* object storage: a client declares a file, uploads it with a signed URL, *)
(* asks for the upload to be completed and downloads what was preserved.   *)
(*                                                                         *)
(* A completion reads the row, inspects the object, has it scanned, copies *)
(* it into quarantine and only then changes the row; a download signs a    *)
(* URL, audits it and only then answers.  Between any two of these other   *)
(* requests act, the client uploads again, credentials rotate and the      *)
(* process may die.  A request that does not finish leaves its             *)
(* idempotency reservation behind.                                         *)
(***************************************************************************)
EXTENDS Naturals

CONSTANTS
    Ids,            \* evidence ids drawn by randomUUID
    Contents,       \* file contents, told apart by size, type and checksum
    Harmless,       \* the contents the scanner calls CLEAN
    Traces,         \* trace ids of requests
    Keys,           \* idempotency keys
    Actors,         \* authenticated actors with a role for the operation
    InScope,        \* those the road event is visible to
    Requests,       \* requests under way at a time
    UploadTtl,      \* uploadTtlMs
    DownloadTtl,    \* downloadTtlMs
    StorageTtl,     \* validity of the requests ROS itself sends to storage
    CredentialLife, \* how long fresh storage credentials are valid
    Margin,         \* MIN_CREDENTIAL_MARGIN_MS
    MaxEvTime,      \* bound on the clock
    Absent          \* no row, no object, no request

(* A row of evidence_objects.                                              *)
EvRow == [declared : Contents, expires : Nat,
          status : {"PENDING_UPLOAD", "PRESERVED", "QUARANTINED"}]

ASSUME EvidenceAssumption ==
    /\ Absent \notin EvRow
    /\ {UploadTtl, DownloadTtl, StorageTtl, CredentialLife} \subseteq Nat \ {0}
    /\ {Margin, MaxEvTime} \subseteq Nat
    /\ Harmless \subseteq Contents
    /\ InScope \subseteq Actors
    /\ Absent \notin Contents

VARIABLES
    evClock,     \* time, of every process
    credential,  \* expiry of the storage credentials a provider hands out
    row,         \* evidence_objects
    object,      \* the object under objectKey
    copy,        \* the object under quarantine/<id>
    evAudit,     \* evidence_audit_logs: how often an action was logged
    evReq,       \* requests under way
    evReserved,  \* idempotency_reservations
    evRecord,    \* idempotency_records
    accessLog,   \* logged accesses, with the request's idempotency identity
    urls         \* download URLs that were handed out

evVars == <<evClock, credential, row, object, copy, evAudit, evReq, evReserved,
            evRecord, accessLog, urls>>

AuditActions == {"upload_intent_created", "preserved", "quarantined",
                 "download_intent_created"}

EvidenceInit ==
    /\ evClock = 0
    /\ credential = CredentialLife
    /\ row = [i \in Ids |-> Absent]
    /\ object = [i \in Ids |-> Absent]
    /\ copy = [i \in Ids |-> Absent]
    /\ evAudit = [i \in Ids |-> [a \in AuditActions |-> 0]]
    /\ evReq = [r \in Requests |-> Absent]
    /\ evReserved = {}
    /\ evRecord = {}
    /\ accessLog = {}
    /\ urls = {}

(* ScopedRoadEventEvidenceAuthorization: the road event is found in the    *)
(* scope of the principal.                                                 *)
canAccess(p) == p \in InScope

(* Credentials are resolved for every signed operation; they must outlive  *)
(* it by the margin.                                                       *)
adapterFor(until) ==
    /\ credential > evClock + Margin
    /\ credential > until + Margin

(* The scope of an idempotency key; an upload's resource is the road event. *)
Scoped(r) == <<r.who, r.op, r.target, r.key>>

(* The request is authenticated, authorized for its resource and reserves  *)
(* its key, or is answered from the record of an earlier one.  The         *)
(* fingerprint of an upload covers the trace id, the others only the id.   *)
Begin(r, p, op, target, key, input) ==
    LET q == [who |-> p, op |-> op, target |-> target, key |-> key,
              input |-> input, at |-> "held", scan |-> "CLEAN",
              until |-> 0, signer |-> 0]
        known == {x \in evRecord : x.key = Scoped(q)}
    IN  /\ evReq[r] = Absent
        /\ canAccess(p)
        /\ op # "upload" => row[target] # Absent
        /\ Scoped(q) \notin evReserved
        /\ \/ /\ known = {}
              /\ evReserved' = evReserved \cup {Scoped(q)}
              /\ evReq' = [evReq EXCEPT ![r] = q]
              /\ UNCHANGED urls
           \/ \E x \in known :
                 /\ x.input = input
                 /\ urls' = urls \cup x.url
                 /\ UNCHANGED <<evReserved, evReq>>
        /\ UNCHANGED <<evClock, credential, row, object, copy, evAudit,
                       evRecord, accessLog>>

At(r, step) == evReq[r] # Absent /\ evReq[r].at = step

Leave(r) == evReq' = [evReq EXCEPT ![r] = Absent]

(* The answer is recorded, the reservation released and the answer sent.   *)
Answer(r, url) ==
    /\ Leave(r)
    /\ evReserved' = evReserved \ {Scoped(evReq[r])}
    /\ evRecord' = evRecord \cup {[key |-> Scoped(evReq[r]),
                                   input |-> evReq[r].input, url |-> url]}
    /\ urls' = urls \cup url

Logged(i, action) == evAudit' = [evAudit EXCEPT ![i][action] = @ + 1]

(* createUploadIntent: retention and declaration are valid, the upload is  *)
(* signed, row and audit are written in a transaction.                     *)
createUploadIntent(r, i) ==
    /\ At(r, "held")
    /\ evReq[r].op = "upload"
    /\ row[i] = Absent
    /\ adapterFor(evClock + UploadTtl)
    /\ row' = [row EXCEPT ![i] =
                 [declared |-> evReq[r].input.content, status |-> "PENDING_UPLOAD",
                  expires |-> evClock + UploadTtl]]
    /\ Logged(i, "upload_intent_created")
    /\ Answer(r, {})
    /\ UNCHANGED <<evClock, credential, object, copy, accessLog>>

(* A mutant: the signature does not cover the checksum.                    *)
Signed_AnyContent(i, c) == evClock =< row[i].expires

(* What the signed PUT admits: the declared length, type and checksum,     *)
(* until it expires.                                                       *)
Signed(i, c) == evClock =< row[i].expires /\ c = row[i].declared

Put(i, c) ==
    /\ row[i] # Absent
    /\ Signed(i, c)
    /\ object[i] # c
    /\ object' = [object EXCEPT ![i] = c]
    /\ UNCHANGED <<evClock, credential, row, copy, evAudit, evReq, evReserved,
                   evRecord, accessLog, urls>>

(* completeUpload: the row is read again and must be pending and in time.  *)
Check(r) ==
    /\ At(r, "held")
    /\ evReq[r].op = "complete"
    /\ row[evReq[r].target].status = "PENDING_UPLOAD"
    /\ evClock =< row[evReq[r].target].expires
    /\ evReq' = [evReq EXCEPT ![r].at = "checked"]
    /\ UNCHANGED <<evClock, credential, row, object, copy, evAudit, evReserved,
                   evRecord, accessLog, urls>>

(* The object is there and its size, type and checksum are the declared    *)
(* ones.                                                                   *)
inspect(r) ==
    LET i == evReq[r].target
    IN  /\ At(r, "checked")
        /\ adapterFor(evClock + StorageTtl)
        /\ object[i] = row[i].declared
        /\ evReq' = [evReq EXCEPT ![r].at = "inspected"]
        /\ UNCHANGED <<evClock, credential, row, object, copy, evAudit,
                       evReserved, evRecord, accessLog, urls>>

(* What a scanner may answer: it may always fail, and the fallback of the  *)
(* synthetic staging does nothing else.                                    *)
Outcomes(c) == {"ERROR", IF c \in Harmless THEN "CLEAN" ELSE "MALICIOUS"}

scan(r) ==
    /\ At(r, "inspected")
    /\ \E outcome \in Outcomes(object[evReq[r].target]) :
          evReq' = [evReq EXCEPT
                      ![r].scan = outcome,
                      ![r].at = IF outcome = "CLEAN" THEN "judged" ELSE "infected"]
    /\ UNCHANGED <<evClock, credential, row, object, copy, evAudit, evReserved,
                   evRecord, accessLog, urls>>

(* The object is copied and the copy verified before the row may change;   *)
(* the source stays.                                                       *)
quarantine(r) ==
    LET i == evReq[r].target
    IN  /\ At(r, "infected")
        /\ adapterFor(evClock + StorageTtl)
        /\ copy' = [copy EXCEPT ![i] = object[i]]
        /\ evReq' = [evReq EXCEPT ![r].at = "judged"]
        /\ UNCHANGED <<evClock, credential, row, object, evAudit, evReserved,
                       evRecord, accessLog, urls>>

(* UPDATE ... WHERE status = 'PENDING_UPLOAD' finds the row it locked.     *)
Changeable(i) == row[i].status = "PENDING_UPLOAD"

(* markPreserved or markQuarantined, with its audit in the transaction.    *)
transition(r) ==
    LET i == evReq[r].target
        clean == evReq[r].scan = "CLEAN"
    IN  /\ At(r, "judged")
        /\ Changeable(i)
        /\ row' = [row EXCEPT ![i].status =
                      IF clean THEN "PRESERVED" ELSE "QUARANTINED"]
        /\ Logged(i, IF clean THEN "preserved" ELSE "quarantined")
        /\ evReq' = [evReq EXCEPT ![r].at = "done"]
        /\ UNCHANGED <<evClock, credential, object, copy, evReserved, evRecord,
                       accessLog, urls>>

Completed(r) ==
    /\ At(r, "done")
    /\ Answer(r, {})
    /\ UNCHANGED <<evClock, credential, row, object, copy, evAudit, accessLog>>

(* createDownloadRequest: the row is preserved; the URL is signed with the *)
(* credentials of the moment and expires counting from the clock's reading. *)
Sign(r) ==
    /\ At(r, "held")
    /\ evReq[r].op = "download"
    /\ row[evReq[r].target].status = "PRESERVED"
    /\ adapterFor(evClock + DownloadTtl)
    /\ evReq' = [evReq EXCEPT ![r].at = "signed",
                              ![r].until = evClock + DownloadTtl,
                              ![r].signer = credential]
    /\ UNCHANGED <<evClock, credential, row, object, copy, evAudit, evReserved,
                   evRecord, accessLog, urls>>

Url(r) == [id |-> evReq[r].target, access |-> Scoped(evReq[r]),
           until |-> evReq[r].until, signer |-> evReq[r].signer]

(* A mutant: the URL is answered although the audit may have failed.       *)
appendAccessAudit_BestEffort(r) ==
    /\ At(r, "signed")
    /\ evReq' = [evReq EXCEPT ![r].at = "audited"]
    /\ \/ UNCHANGED <<evAudit, accessLog>>
       \/ /\ Logged(evReq[r].target, "download_intent_created")
          /\ accessLog' = accessLog \cup {<<evReq[r].target, Scoped(evReq[r])>>}
    /\ UNCHANGED <<evClock, credential, row, object, copy, evReserved, evRecord,
                   urls>>

appendAccessAudit(r) ==
    /\ At(r, "signed")
    /\ evReq' = [evReq EXCEPT ![r].at = "audited"]
    /\ Logged(evReq[r].target, "download_intent_created")
    /\ accessLog' = accessLog \cup {<<evReq[r].target, Scoped(evReq[r])>>}
    /\ UNCHANGED <<evClock, credential, row, object, copy, evReserved, evRecord,
                   urls>>

Downloadable(r) ==
    /\ At(r, "audited")
    /\ Answer(r, {Url(r)})
    /\ UNCHANGED <<evClock, credential, row, object, copy, evAudit, accessLog>>

(* A request fails where a guard above refuses it, or storage, scanner or  *)
(* database do, or its process dies; its reservation stays.                *)
Fail(r) ==
    /\ evReq[r] # Absent
    /\ Leave(r)
    /\ UNCHANGED <<evClock, credential, row, object, copy, evAudit, evReserved,
                   evRecord, accessLog, urls>>

(* The provider hands out the credentials of the next rotation.            *)
Rotate ==
    /\ credential' = evClock + CredentialLife
    /\ credential' # credential
    /\ UNCHANGED <<evClock, row, object, copy, evAudit, evReq, evReserved,
                   evRecord, accessLog, urls>>

EvTick ==
    /\ evClock < MaxEvTime
    /\ evClock' = evClock + 1
    /\ UNCHANGED <<credential, row, object, copy, evAudit, evReq, evReserved,
                   evRecord, accessLog, urls>>

Inputs(op) == IF op = "upload" THEN [content : Contents, trace : Traces]
                               ELSE {Absent}

EvidenceNext ==
    \/ \E r \in Requests :
          \/ \E p \in Actors, k \in Keys :
                \/ \E x \in Inputs("upload") : Begin(r, p, "upload", "event", k, x)
                \/ \E i \in Ids, op \in {"complete", "download"} :
                      Begin(r, p, op, i, k, Absent)
          \/ \E i \in Ids : createUploadIntent(r, i)
          \/ Check(r) \/ inspect(r) \/ scan(r) \/ quarantine(r)
          \/ transition(r) \/ Completed(r)
          \/ Sign(r) \/ appendAccessAudit(r) \/ Downloadable(r)
          \/ Fail(r)
    \/ \E i \in Ids, c \in Contents : Put(i, c)
    \/ Rotate
    \/ EvTick

EvidenceSpec == EvidenceInit /\ [][EvidenceNext]_evVars

-----------------------------------------------------------------------------
(* Properties                                                              *)

(* What is preserved, and so may be downloaded, is harmless, and is what   *)
(* was declared, inspected and scanned, although client and scanner act    *)
(* between the steps of several completions and the object may be written  *)
(* again before and after the verdict.                                     *)
PreservedIsScanned ==
    \A i \in Ids : row[i] # Absent /\ row[i].status = "PRESERVED" =>
                      /\ object[i] = row[i].declared
                      /\ object[i] \in Harmless

(* Of several completions that overlap, one changes the row and is audited *)
(* for it; no later one changes the verdict.                               *)
OneVerdict ==
    \A i \in Ids :
       /\ evAudit[i]["preserved"] =
             (IF row[i] # Absent /\ row[i].status = "PRESERVED" THEN 1 ELSE 0)
       /\ evAudit[i]["quarantined"] =
             (IF row[i] # Absent /\ row[i].status = "QUARANTINED" THEN 1 ELSE 0)

(* Quarantined evidence exists twice, so that neither a failing copy nor a *)
(* completion that died after it loses what was found.                     *)
QuarantineKeeps ==
    \A i \in Ids : row[i] # Absent /\ row[i].status = "QUARANTINED" =>
                      /\ copy[i] = row[i].declared
                      /\ object[i] = row[i].declared

(* A URL stops working by its own expiry, never because the credentials it *)
(* was signed with expired first.                                          *)
UrlOutlived == \A u \in urls : evClock =< u.until => evClock < u.signer

(* The store keeps and serves what was judged: one verdict for an item,    *)
(* on the object that is there, and URLs that work for as long as they     *)
(* say, whatever overlaps, fails or rotates (completeUpload,               *)
(* createDownload).                                                        *)
EvidenceIsSafe ==
    /\ PreservedIsScanned
    /\ OneVerdict
    /\ QuarantineKeeps
    /\ UrlOutlived

(* The store implements the custody of evidence: one verdict, nothing      *)
(* harmful preserved, and no access granted that is not in the audit log.  *)
Custody ==
    INSTANCE EvidenceCustody WITH
        Items <- Ids,
        Accesses <- Actors \X {"download"} \X Ids \X Keys,
        Nothing <- Absent,
        holds <- [i \in Ids |-> IF row[i] = Absent THEN Absent ELSE row[i].declared],
        verdict <- [i \in Ids |-> IF row[i] = Absent THEN Absent ELSE row[i].status],
        noted <- accessLog,
        served <- {<<u.id, u.access>> : u \in urls}

(* EvidenceCustody!CustodySpec under the mapping above.                    *)
ImplementsCustody == Custody!CustodySpec
=============================================================================
