------------------------------- MODULE Files -------------------------------
(***************************************************************************)
(* Files in the object store: attachments (storage/handler.go) and         *)
(* presentations (presenton/handler.go).  Both put the file under a new    *)
(* key, then write the row that names the key and the row that refers to   *)
(* it in one transaction; the store and the database share no transaction, *)
(* and nothing is ever removed from either.  A presentation is made and    *)
(* downloaded from a service before.                                       *)
(***************************************************************************)
EXTENDS FiniteSets

CONSTANTS
    Keys,     \* object keys, each new
    Servers,  \* HTTP requests in progress at a time
    NoKey     \* no key yet

FilesAssumption == NoKey \notin Keys

VARIABLES
    s3,       \* whether the process has an object store
    stored,   \* the keys in the object store
    rows,     \* the keys with rows: storage_objects and what refers to it
    upload,   \* what each request does next
    linked,   \* history: keys for which a client was given an address
    broken,   \* history: keys whose request ended between store and rows
    storeless \* history: keys of attachments taken while there was no store

lvars == <<s3, stored, rows, upload, linked, broken, storeless>>

Free == [step |-> "idle", kind |-> "attachment", key |-> NoKey]

LTypeOK ==
    /\ s3 \in BOOLEAN
    /\ stored \subseteq Keys /\ linked \subseteq Keys /\ broken \subseteq Keys
    /\ storeless \subseteq Keys
    /\ rows \in [Keys -> {"none", "attachment", "presentation"}]
    /\ upload \in [Servers -> [step : {"idle", "generating", "downloading", "storing", "stored"},
                               kind : {"attachment", "presentation"}, key : Keys \cup {NoKey}]]

LInit ==
    /\ s3 \in BOOLEAN
    /\ stored = {} /\ linked = {} /\ broken = {} /\ storeless = {}
    /\ rows = [k \in Keys |-> "none"]
    /\ upload = [h \in Servers |-> Free]

At(h, step) == upload[h].step = step
Used == stored \cup storeless \cup {k \in Keys : rows[k] # "none"} \cup {upload[h].key : h \in Servers}

\* Generate asks the service for a presentation, then downloads it.
Generate(h) ==
    /\ At(h, "idle")
    /\ upload' = [upload EXCEPT ![h] = [Free EXCEPT !.step = "generating", !.kind = "presentation"]]
    /\ UNCHANGED <<s3, stored, rows, linked, broken, storeless>>

DownloadFile(h) ==
    /\ At(h, "generating")
    /\ upload' = [upload EXCEPT ![h].step = "downloading"]
    /\ UNCHANGED <<s3, stored, rows, linked, broken, storeless>>

\* The file has its key.  Without a store a presentation is refused.
Name(h, k) ==
    /\ At(h, "downloading") /\ s3
    /\ k \notin Used
    /\ upload' = [upload EXCEPT ![h].step = "storing", ![h].key = k]
    /\ UNCHANGED <<s3, stored, rows, linked, broken, storeless>>

\* Upload, of an attachment; without a store it goes on without the file.
Upload(h, k) ==
    /\ At(h, "idle")
    /\ k \notin Used
    /\ upload' = [upload EXCEPT ![h] = [kind |-> "attachment", key |-> k,
                                        step |-> IF s3 THEN "storing" ELSE "stored"]]
    /\ storeless' = IF s3 THEN storeless ELSE storeless \cup {k}
    /\ UNCHANGED <<s3, stored, rows, linked, broken>>

\* Mutant: a file that could not be stored is recorded all the same.
PutOrSkip(h) ==
    /\ At(h, "storing")
    /\ stored' \in {stored, stored \cup {upload[h].key}}
    /\ upload' = [upload EXCEPT ![h].step = "stored"]
    /\ UNCHANGED <<s3, rows, linked, broken, storeless>>

PutObject(h) ==
    /\ At(h, "storing")
    /\ stored' = stored \cup {upload[h].key}
    /\ upload' = [upload EXCEPT ![h].step = "stored"]
    /\ UNCHANGED <<s3, rows, linked, broken, storeless>>

\* The transaction.
Record(h) ==
    /\ At(h, "stored")
    /\ rows' = [rows EXCEPT ![upload[h].key] = upload[h].kind]
    /\ upload' = [upload EXCEPT ![h] = Free]
    /\ UNCHANGED <<s3, stored, linked, broken, storeless>>

\* The service, the store or the database fails, or the process ends.  A store
\* that reports a failure, or that is not heard, may hold the file.
Fail(h) ==
    /\ ~At(h, "idle")
    /\ stored' \in IF At(h, "storing") THEN {stored, stored \cup {upload[h].key}} ELSE {stored}
    /\ broken' = broken \cup ({upload[h].key} \ {NoKey})
    /\ upload' = [upload EXCEPT ![h] = Free]
    /\ UNCHANGED <<s3, rows, linked, storeless>>

\* DownloadURL and Download: an address is signed for what the row names; the
\* store is not asked whether it is there.
Link(k) ==
    /\ s3
    /\ rows[k] # "none"
    /\ linked' = linked \cup {k}
    /\ UNCHANGED <<s3, stored, rows, upload, broken, storeless>>

\* The process is started again, with another configuration perhaps; a store
\* that does not answer at the start is left out.
Restart ==
    /\ s3' \in BOOLEAN
    /\ \A h \in Servers : At(h, "idle")
    /\ UNCHANGED <<stored, rows, upload, linked, broken, storeless>>

LNext ==
    \/ Restart
    \/ \E h \in Servers :
        \/ Generate(h) \/ DownloadFile(h) \/ PutObject(h) \/ Record(h) \/ Fail(h)
        \/ \E k \in Keys : Name(h, k) \/ Upload(h, k)
    \/ \E k \in Keys : Link(k)

LSpec == LInit /\ [][LNext]_lvars

-----------------------------------------------------------------------------
(* Properties *)

\* Every row names a file that is in the store, so that an address given to a
\* client leads to one, but for attachments taken while there was no store; a
\* presentation always has its file.  A file without rows belongs to a request
\* that is about to write them or that ended between the two (Upload,
\* Generate, Download, DownloadURL).
FilesSound ==
    /\ linked \subseteq stored \cup storeless
    /\ \A k \in Keys : rows[k] # "none" =>
        k \in stored \/ (k \in storeless /\ rows[k] = "attachment")
    /\ \A k \in stored :
        rows[k] # "none" \/ k \in broken \/ \E h \in Servers : upload[h].key = k
=============================================================================
