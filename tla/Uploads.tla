------------------------------ MODULE Uploads ------------------------------
(***************************************************************************)
(* From an upload to the bytes a parser reads: the object in the bucket of  *)
(* the originals, the row of documents with its job, and the places where   *)
(* MAX_UPLOAD_BYTES and PARSE_MAX_BYTES are compared.  What else a parser    *)
(* refuses, and what happens to the job then, is in the other modules.      *)
(***************************************************************************)
EXTENDS Naturals, FiniteSets

CONSTANTS Documents, \* BOUND: identifiers, one drawn by each upload
          Sizes,     \* of the uploaded files
          Unpacked,  \* bytes that the entries of an archive declare, together
          Limits,    \* MAX_UPLOAD_BYTES, 0 for none
          Caps,      \* PARSE_MAX_BYTES, 0 for none
          Overheads, \* what else a multipart body holds
          Margin     \* what the transport allows for it, 1 << 16

UploadsAssumption ==
    /\ Sizes \subseteq Nat \ {0} /\ Unpacked \subseteq Nat
    /\ Limits \subseteq Nat /\ Caps \subseteq Nat
    /\ Overheads \subseteq Nat /\ Margin \in Nat

VARIABLES limit,   \* cfg.Limit.MaxUploadBytes
          cap,     \* cfg.Limit.ParseMaxBytes
          size,    \* of each file
          format,  \* of each document: docx, or one that is read at once
          unpacked, \* what its archive holds, if it is one
          request, \* the next call of an upload: put, compare, insert, answered
          answer,  \* what it was answered
          objects, \* the keys of the bucket
          row,     \* of documents: absent, live, deleted
          job,     \* of the document: absent, queued, fetched, parsed, or the fault
          open     \* OpenOriginal: idle, found (the row), then what is served

given == <<limit, cap, size, format, unpacked>>
uploadVars == <<given, request, answer, objects, row, job, open>>

ReadAtOnce == {"markdown", "text", "html", "pdf"}

OriginalKey(d) == d

UploadsInit ==
    /\ limit \in Limits /\ cap \in Caps /\ cap <= limit
    /\ size \in [Documents -> Sizes]
    /\ format \in [Documents -> ReadAtOnce \cup {"docx"}]
    /\ unpacked \in [Documents -> Unpacked]
    /\ request = [d \in Documents |-> "put"]
    /\ answer = [d \in Documents |-> "none"]
    /\ objects = {}
    /\ row = [d \in Documents |-> "absent"]
    /\ job = [d \in Documents |-> "absent"]
    /\ open = [d \in Documents |-> "idle"]

Proceed(d, step) == request' = [request EXCEPT ![d] = step] /\ UNCHANGED answer

Answer(d, what) ==
    /\ request' = [request EXCEPT ![d] = "answered"]
    /\ answer' = [answer EXCEPT ![d] = what]

---------------------------------------------------------------------------
(* DocumentService.Upload *)

TooLong(n) == limit > 0 /\ n > limit

\* The bytes go from the socket to the bucket; MaxBytesReader breaks the stream of a
\* body that is too long, and then there is no object.
Put(d) ==
    /\ request[d] = "put"
    /\ \E overhead \in Overheads :
         IF limit > 0 /\ size[d] + overhead > limit + Margin
         THEN Answer(d, "too_large") /\ UNCHANGED objects
         ELSE objects' = objects \cup {OriginalKey(d)} /\ Proceed(d, "compare")
    /\ UNCHANGED <<given, row, job, open>>

\* The result of RemovePrefix is not looked at.
Compare(d) ==
    /\ request[d] = "compare"
    /\ IF TooLong(size[d])
       THEN Answer(d, "too_large") /\ objects' \in {objects, objects \ {OriginalKey(d)}}
       ELSE Proceed(d, "insert") /\ UNCHANGED objects
    /\ UNCHANGED <<given, row, job, open>>

\* The document, its job and the row of the outbox in one transaction.
Rows(d) ==
    /\ row' = [row EXCEPT ![d] = "live"]
    /\ job' = [job EXCEPT ![d] = "queued"]

CreateWithDocument(d) ==
    /\ request[d] = "insert"
    /\ Rows(d)
    /\ \E what \in {"accepted", "error"} : Answer(d, what)
    /\ UNCHANGED <<given, objects, open>>

\* A call fails, with or without an object left behind, or the client goes away.
UploadFails(d) ==
    /\ request[d] # "answered"
    /\ Answer(d, "error")
    /\ \/ UNCHANGED objects
       \/ request[d] = "put" /\ objects' = objects \cup {OriginalKey(d)}
    /\ UNCHANGED <<given, row, job, open>>

---------------------------------------------------------------------------
(* SoftDelete and OpenOriginal; the job goes on without asking *)

SoftDelete(d) ==
    /\ row[d] = "live"
    /\ row' = [row EXCEPT ![d] = "deleted"]
    /\ UNCHANGED <<given, request, answer, objects, job, open>>

FindOriginal(d) ==
    /\ open[d] = "idle" /\ row[d] = "live"
    /\ open' = [open EXCEPT ![d] = "found"]
    /\ UNCHANGED <<given, request, answer, objects, row, job>>

ServeOriginal(d) ==
    /\ open[d] = "found"
    /\ open' = [open EXCEPT ![d] = IF OriginalKey(d) \in objects THEN "served" ELSE "broken"]
    /\ UNCHANGED <<given, request, answer, objects, row, job>>

---------------------------------------------------------------------------
(* process (convert.go): the download, and the limit of the parsers *)

\* GetAll reads one byte more than the limit, to tell a longer object from a whole one.
Fetched(d) == IF size[d] > limit + 1 THEN limit + 1 ELSE size[d]

Download(d) ==
    /\ job[d] = "queued"
    /\ job' = [job EXCEPT ![d] =
                 IF OriginalKey(d) \notin objects THEN "no_original"
                 ELSE IF Fetched(d) > limit THEN "source_too_large" ELSE "fetched"]
    /\ UNCHANGED <<given, request, answer, objects, row, open>>

\* Source.Bytes, of the formats that are read at once.
OverCap(d) == format[d] \in ReadAtOnce /\ cap > 0 /\ Fetched(d) > cap

\* checkZipQuota compares what the archive unpacks to, not its own size.
OverQuota(d) == format[d] = "docx" /\ cap > 0 /\ unpacked[d] > 20 * cap

\* A parser has further reasons to refuse a document, none of them its size.
Parse(d) ==
    /\ job[d] = "fetched"
    /\ \E outcome \in {"parsed", "unreadable"} :
         job' = [job EXCEPT ![d] = IF OverCap(d) THEN "over_cap"
                                   ELSE IF OverQuota(d) THEN "zip_too_large" ELSE outcome]
    /\ UNCHANGED <<given, request, answer, objects, row, open>>

UploadsNext ==
    \E d \in Documents :
        \/ Put(d) \/ Compare(d) \/ CreateWithDocument(d) \/ UploadFails(d)
        \/ SoftDelete(d) \/ FindOriginal(d) \/ ServeOriginal(d)
        \/ Download(d) \/ Parse(d)

UploadsSpec == UploadsInit /\ [][UploadsNext]_uploadVars

---------------------------------------------------------------------------
(* Correctness *)

\* documents.go: "Si algo falla despues, sobra un objeto; nunca falta".  No document,
\* deleted or not, is ever without its object, so that its download does not break and
\* its job can be retried; and who was told that it is accepted finds it.
NeverMissing ==
    \A d \in Documents :
        /\ row[d] # "absent" => OriginalKey(d) \in objects
        /\ open[d] # "broken"
        /\ answer[d] = "accepted" => row[d] # "absent"
        /\ answer[d] = "too_large" => row[d] = "absent"

\* README.md, of MAX_UPLOAD_BYTES: "Se rechaza con 413, nunca se trunca".  Under a positive
\* limit no job fails because its object is gone or is longer than an upload may be, and
\* what its parser gets is the whole file.  The only limit on size that an accepted
\* document may still be over is PARSE_MAX_BYTES: its own size if it is read at once, of
\* which nothing is then read, and twenty times as much for what an archive unpacks to.
\* With a limit of 0 the API takes any document and the worker none.
ConvertedWhole ==
    limit > 0 =>
        \A d \in Documents :
            /\ job[d] \notin {"no_original", "source_too_large"}
            /\ job[d] \notin {"absent", "queued"} => Fetched(d) = size[d]
            /\ job[d] = "over_cap" => cap > 0 /\ size[d] > cap /\ size[d] <= limit
            /\ job[d] = "zip_too_large" => cap > 0 /\ unpacked[d] > 20 * cap
            /\ job[d] = "parsed" /\ format[d] \in ReadAtOnce /\ cap > 0 => size[d] <= cap
=============================================================================
