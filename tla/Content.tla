------------------------------ MODULE Content -------------------------------
(***************************************************************************)
(* Content uploads and share links: the handlers (api/handlers/content.go),*)
(* the service (service/content.go), the statements they execute           *)
(* (repository/postgres/workflow_store.go, share_store.go) and the files   *)
(* they write, one statement or system call per step.                      *)
(*                                                                         *)
(* A request that is refused before it wrote anything leaves no trace and  *)
(* is left out where it is refused. What an upload carries is abstracted   *)
(* to chunks of one size, so two byte strings are equal when their chunks  *)
(* are, and a checksum is the byte string it belongs to. Titles, metadata, *)
(* search and the list of versions are not modelled.                       *)
(***************************************************************************)
EXTENDS Integers, FiniteSets

CONSTANTS
    Requests,      \* slots for HTTP requests in flight at the same time
    Users,         \* coordinators, instructors and admins: who the routes admit
    Admins,        \* the admins among them
    Docs,          \* ids clients choose for content items
    Filed,         \* documents an operator enters in uploaded_files once they exist
    Names,         \* file names
    AllowedNames,  \* those with an extension allowedFile accepts
    Sessions,      \* ids the server draws for upload sessions
    Indices,       \* chunk indices clients send
    Data,          \* chunk contents
    ChunkCounts,   \* values of expected_chunks clients send
    Checksums,     \* values of expected_checksum clients send, or NULL
    Hours,         \* expiry_hours clients ask for
    LinkTTL,       \* longest life of a link (72 hours in the code)
    Ops,           \* the kinds of request clients send
    MaxClock,      \* bound: last tick of the clock
    MaxRequests,   \* bound: requests that arrive
    MaxFaults,     \* bound: database errors and server crashes
    NULL

AllOps == {"start", "chunk", "finalize", "share", "download"}

\* Offsets in a file, in chunks.
Slots == 1..Cardinality(Indices)

\* The bytes of a file or of an upload; NULL past its end and in a hole.
Bytes == [Slots -> Data \cup {NULL}]

ASSUME ContentAssumption ==
    /\ IsFiniteSet(Requests) /\ Requests # {}
    /\ Admins \subseteq Users
    /\ Filed \subseteq Docs
    /\ AllowedNames \subseteq Names
    /\ IsFiniteSet(Indices) /\ Indices \subseteq Int
    /\ ChunkCounts \subseteq Nat \ {0}
    /\ Checksums \subseteq Bytes \cup {NULL}
    /\ LinkTTL \in Nat \ {0}
    /\ Hours \subseteq 1..LinkTTL
    /\ Ops \subseteq AllOps
    /\ MaxClock \in Nat /\ MaxRequests \in Nat /\ MaxFaults \in Nat
    /\ NULL \notin Users \cup Docs \cup Names \cup Sessions \cup Data \cup Nat
    /\ NULL \notin Bytes

VARIABLES
    clock,      \* wall clock; a tick is a second, the resolution of a token
    owner,      \* content_items.created_by_user_id, NULL while there is no row
    sessions,   \* the upload_sessions table
    disk,       \* files of the storage directory, by document and name
    links,      \* the document_share_links table, by token
    req,        \* what each request in flight is doing
    arrived,    \* requests so far
    faults,     \* errors and crashes so far
    \* What clients have asked for and been told, which no code reads:
    acked,      \* chunks acknowledged, by session, with who sent them
    asked,      \* expiries of the links that were saved, by token
    told,       \* tokens of which some client was told
    served      \* downloads served: which token, decided when

tables == <<owner, sessions, links>>
history == <<acked, asked, told, served>>
vars == <<clock, owner, sessions, disk, links, req, arrived, faults, history>>

-----------------------------------------------------------------------------
(* Rows, tokens and requests.                                              *)

\* received_chunks maps the indices received to their bytes.
Chunks == [Indices -> Data \cup {NULL}]
NoChunks == [i \in Indices |-> NULL]
Received(c) == {i \in Indices : c[i] # NULL}

\* A token signs the document and the second LinkTTL after it was issued.
Tokens == [doc : Docs, exp : 0..(MaxClock + LinkTTL)]

SessionRow == [doc : Docs, name : AllowedNames, expected : ChunkCounts,
               checksum : Checksums, chunks : Chunks,
               stale : BOOLEAN]     \* a save has overwritten a later one
\* An id not drawn yet.
NoSession == NULL

ASSUME NullAssumption == NULL \notin SessionRow

\* mixed: the file was opened anew while another request was writing it.
File == [bytes : Bytes, from : Sessions \cup {NULL}, mixed : BOOLEAN, done : BOOLEAN]
EmptyFile == [k \in Slots |-> NULL]
NoFile == [bytes |-> EmptyFile, from |-> NULL, mixed |-> FALSE, done |-> FALSE]

LinkRow == [expires : Nat, count : Nat]

PC == {"idle", "upsert", "insert", "read", "save", "create", "write", "version",
       "link", "tell", "row", "file"}

Request == [pc      : PC,
            op      : AllOps,
            user    : Users \cup {NULL},
            doc     : Docs \cup {NULL},
            name    : Names \cup {NULL},
            session : Sessions \cup {NULL},
            index   : Indices \cup {NULL},
            datum   : Data \cup {NULL},
            chunks  : Chunks,          \* received_chunks as the request read them
            next    : Nat,             \* chunks of the file written
            exp     : Nat,             \* expiry in the token
            until   : Nat,             \* expiry asked for; for a download, when
                                       \* the server last found it in time
            linked  : BOOLEAN]         \* the download found a row for its token

Idle == [pc |-> "idle", op |-> "start", user |-> NULL, doc |-> NULL, name |-> NULL,
         session |-> NULL, index |-> NULL, datum |-> NULL, chunks |-> NoChunks,
         next |-> 0, exp |-> 0, until |-> 0, linked |-> FALSE]

Become(p, r) == req' = [req EXCEPT ![p] = r]
Finish(p) == Become(p, Idle)
Token(r) == [doc |-> r.doc, exp |-> r.exp]

\* FinalizeUpload joins the chunks in the order of their indices.
Position(c, i) == Cardinality({j \in Received(c) : j <= i})
Assembled(c) ==
    [k \in Slots |-> IF \E i \in Received(c) : Position(c, i) = k
                       THEN c[CHOOSE i \in Received(c) : Position(c, i) = k]
                       ELSE NULL]

\* ensureContentOwnership; admins pass whether or not there is such an item.
Owns(u, d) == u \in Admins \/ owner[d] = u

\* ensureOrCreateContentOwnership: who does not own the document goes on to
\* create it.
EnsureOrCreate(u, d) == IF Owns(u, d) THEN "insert" ELSE "upsert"

\* filepath.Join(StoragePath, DocumentID_FileName)
Path(r) == <<r.doc, r.name>>
Writing(q, path) == req[q].pc = "write" /\ Path(req[q]) = path

-----------------------------------------------------------------------------
(* Requests arrive.                                                        *)

Arrive(p, o) ==
    /\ o \in Ops
    /\ req[p].pc = "idle"
    /\ arrived < MaxRequests
    /\ arrived' = arrived + 1
    /\ UNCHANGED <<clock, tables, disk, faults, history>>

\* ContentHandler.StartUpload
BeginStart(p) ==
    /\ Arrive(p, "start")
    /\ \E u \in Users, d \in Docs, n \in Names :
          Become(p, [Idle EXCEPT !.user = u, !.doc = d, !.name = n,
                                 !.pc = EnsureOrCreate(u, d)])

\* AppendChunk and FinalizeUpload find the session and check its document's
\* owner.
BeginChunk(p) ==
    /\ Arrive(p, "chunk")
    /\ \E u \in Users, s \in Sessions, i \in Indices, x \in Data :
          /\ sessions[s] # NoSession
          /\ Owns(u, sessions[s].doc)
          /\ Become(p, [Idle EXCEPT !.pc = "read", !.op = "chunk", !.user = u,
                                    !.session = s, !.index = i, !.datum = x])

BeginFinalize(p) ==
    /\ Arrive(p, "finalize")
    /\ \E u \in Users, s \in Sessions :
          /\ sessions[s] # NoSession
          /\ Owns(u, sessions[s].doc)
          /\ Become(p, [Idle EXCEPT !.pc = "read", !.op = "finalize", !.user = u,
                                    !.session = s])

\* GenerateShare: the token always lives LinkTTL, the row as long as asked for.
BeginShare(p) ==
    /\ Arrive(p, "share")
    /\ \E u \in Users, d \in Docs, h \in Hours :
          /\ Owns(u, d)
          /\ Become(p, [Idle EXCEPT !.pc = "link", !.op = "share", !.user = u, !.doc = d,
                                    !.exp = clock + LinkTTL, !.until = clock + h])

\* DownloadShared: anyone who was given a token may use it until it expires.
BeginDownload(p) ==
    /\ Arrive(p, "download")
    /\ \E t \in Tokens :
          /\ t \in told
          /\ clock <= t.exp
          /\ Become(p, [Idle EXCEPT !.pc = "row", !.op = "download", !.doc = t.doc,
                                    !.exp = t.exp, !.until = clock])

-----------------------------------------------------------------------------
(* StartUpload.                                                            *)

\* UpsertContentItem: on conflict the item is renamed, its owner stays. The
\* slip: the owner is updated too.
UpsertTakingOver(p) ==
    /\ req[p].pc = "upsert"
    /\ owner' = [owner EXCEPT ![req[p].doc] = req[p].user]
    /\ Become(p, [req[p] EXCEPT !.pc = "insert"])
    /\ UNCHANGED <<clock, sessions, links, disk, arrived, faults, history>>

UpsertContentItem(p) ==
    /\ req[p].pc = "upsert"
    /\ owner' = [owner EXCEPT ![req[p].doc] = IF @ = NULL THEN req[p].user ELSE @]
    /\ Become(p, [req[p] EXCEPT !.pc = "insert"])
    /\ UNCHANGED <<clock, sessions, links, disk, arrived, faults, history>>

\* The slip: any type of file is accepted.
AcceptedUnread(r) == owner[r.doc] # NULL

\* ContentService.StartUpload refuses a file type that is not supported, and
\* the foreign key refuses an admin's upload of a document that does not exist.
Accepted(r) == r.name \in AllowedNames /\ owner[r.doc] # NULL

\* SaveUploadSession inserts the session under a new id.
InsertSession(p) ==
    /\ req[p].pc = "insert"
    /\ IF Accepted(req[p])
         THEN \E s \in Sessions, e \in ChunkCounts, c \in Checksums :
                /\ sessions[s] = NoSession
                /\ sessions' = [sessions EXCEPT ![s] =
                      [doc |-> req[p].doc, name |-> req[p].name, expected |-> e,
                       checksum |-> c, chunks |-> NoChunks, stale |-> FALSE]]
         ELSE UNCHANGED sessions
    /\ Finish(p)
    /\ UNCHANGED <<clock, owner, links, disk, arrived, faults, history>>

-----------------------------------------------------------------------------
(* AppendChunk: the service reads the session, adds the chunk and saves    *)
(* the whole map again.                                                    *)

ReadForChunk(p) ==
    /\ req[p].pc = "read"
    /\ req[p].op = "chunk"
    /\ Become(p, [req[p] EXCEPT !.pc = "save", !.chunks = sessions[req[p].session].chunks])
    /\ UNCHANGED <<clock, tables, disk, arrived, faults, history>>

\* Another chunk of this session is between its read and its save.
Overlapped(p) ==
    \E q \in Requests \ {p} :
        req[q].pc = "save" /\ req[q].session = req[p].session

\* SaveUploadSession. The slip saves an empty map with the new chunk.
SaveOnlyNewChunk(p) ==
    LET s == req[p].session IN
    /\ req[p].pc = "save"
    /\ sessions' = [sessions EXCEPT
          ![s].chunks = [NoChunks EXCEPT ![req[p].index] = req[p].datum],
          ![s].stale = @ \/ Overlapped(p)]
    /\ acked' = [acked EXCEPT ![s] = @ \cup {<<req[p].index, req[p].user>>}]
    /\ Finish(p)
    /\ UNCHANGED <<clock, owner, links, disk, arrived, faults, asked, told, served>>

SaveChunk(p) ==
    LET s == req[p].session IN
    /\ req[p].pc = "save"
    /\ sessions' = [sessions EXCEPT
          ![s].chunks = [req[p].chunks EXCEPT ![req[p].index] = req[p].datum],
          ![s].stale = @ \/ Overlapped(p)]
    /\ acked' = [acked EXCEPT ![s] = @ \cup {<<req[p].index, req[p].user>>}]
    /\ Finish(p)
    /\ UNCHANGED <<clock, owner, links, disk, arrived, faults, asked, told, served>>

-----------------------------------------------------------------------------
(* FinalizeUpload: check the session, write the file, add a version.       *)

\* The slip: the checksum is not compared.
WholeByCount(row) == Cardinality(Received(row.chunks)) >= row.expected

\* len(ReceivedChunks) >= ExpectedChunks and, if one was given, the checksum.
Whole(row) ==
    /\ Cardinality(Received(row.chunks)) >= row.expected
    /\ row.checksum \in {NULL, Assembled(row.chunks)}

ReadForFinalize(p) ==
    LET row == sessions[req[p].session] IN
    /\ req[p].pc = "read"
    /\ req[p].op = "finalize"
    /\ IF Whole(row)
         THEN Become(p, [req[p] EXCEPT !.pc = "create", !.doc = row.doc, !.name = row.name,
                                       !.chunks = row.chunks])
         ELSE Finish(p)
    /\ UNCHANGED <<clock, tables, disk, arrived, faults, history>>

\* os.Create empties the file if it is there.
CreateFile(p) ==
    /\ req[p].pc = "create"
    /\ disk' = [disk EXCEPT ![Path(req[p])] =
          [bytes |-> EmptyFile, from |-> req[p].session, done |-> FALSE,
           mixed |-> \E q \in Requests \ {p} : Writing(q, Path(req[p]))]]
    /\ Become(p, [req[p] EXCEPT !.pc = "write"])
    /\ UNCHANGED <<clock, tables, arrived, faults, history>>

\* One file.Write per chunk, at the offset of the request's own file handle.
WriteChunk(p) ==
    LET k == req[p].next + 1
        last == k = Cardinality(Received(req[p].chunks))
    IN  /\ req[p].pc = "write"
        /\ disk' = [disk EXCEPT ![Path(req[p])].bytes[k] = Assembled(req[p].chunks)[k],
                                ![Path(req[p])].done = @ \/ last]
        /\ Become(p, [req[p] EXCEPT !.next = k, !.pc = IF last THEN "version" ELSE "write"])
        /\ UNCHANGED <<clock, tables, arrived, faults, history>>

\* AddDocumentVersion locks the content item and counts its versions, and then
\* PostgreSQL refuses the version's id, "dv_" and a number, as a uuid: the
\* transaction is rolled back, the handler answers with an error, and the
\* session is not deleted.
AddDocumentVersion(p) ==
    /\ req[p].pc = "version"
    /\ Finish(p)
    /\ UNCHANGED <<clock, tables, disk, arrived, faults, history>>

-----------------------------------------------------------------------------
(* Share links.                                                            *)

\* SaveShareLink: two links for a document within a second are one row. The
\* foreign key refuses a document without a content item, and the error is dropped.
SaveShareLinkFor(p, expires) ==
    LET t == Token(req[p]) IN
    /\ req[p].pc = "link"
    /\ IF owner[req[p].doc] = NULL THEN UNCHANGED <<links, asked>>
       ELSE /\ links' = [links EXCEPT ![t] =
                  [expires |-> expires, count |-> IF @ = NULL THEN 0 ELSE @.count]]
            /\ asked' = [asked EXCEPT ![t] = @ \cup {req[p].until}]
    /\ Become(p, [req[p] EXCEPT !.pc = "tell"])
    /\ UNCHANGED <<clock, owner, sessions, disk, arrived, faults, acked, told, served>>

SaveShareLinkForever(p) == SaveShareLinkFor(p, req[p].exp)
SaveShareLink(p) == SaveShareLinkFor(p, req[p].until)

\* GenerateShare answers with the token, whether or not the row was saved.
TellShareLink(p) ==
    /\ req[p].pc = "tell"
    /\ told' = told \cup {Token(req[p])}
    /\ Finish(p)
    /\ UNCHANGED <<clock, tables, disk, arrived, faults, acked, asked, served>>

\* GetShareLinkByToken; a missing row is no obstacle.
CheckShareLink(p) ==
    LET row == links[Token(req[p])] IN
    /\ req[p].pc = "row"
    /\ IF row = NULL
         THEN Become(p, [req[p] EXCEPT !.pc = "file"])
         ELSE IF clock > row.expires
         THEN Finish(p)
         ELSE Become(p, [req[p] EXCEPT !.pc = "file", !.until = clock, !.linked = TRUE])
    /\ UNCHANGED <<clock, tables, disk, arrived, faults, history>>

\* GetLatestUploadedFileForDocument and os.ReadFile. No code writes
\* uploaded_files: only documents entered by hand are served.
OnFile(d) == d \in Filed /\ owner[d] # NULL

Deliver(p) ==
    /\ req[p].pc = "file"
    /\ served' = IF OnFile(req[p].doc)
                   THEN served \cup {[token |-> Token(req[p]), at |-> req[p].until,
                                      linked |-> req[p].linked]}
                   ELSE served
    /\ Finish(p)
    /\ UNCHANGED <<clock, owner, sessions, disk, arrived, acked, asked, told>>

\* The download is counted if the link has a row.
Serve(p) ==
    LET t == Token(req[p]) IN
    /\ Deliver(p)
    /\ links' = IF OnFile(req[p].doc) /\ links[t] # NULL
                  THEN [links EXCEPT ![t].count = @ + 1]
                  ELSE links
    /\ UNCHANGED faults

-----------------------------------------------------------------------------
(* Failures and time.                                                      *)

Fault ==
    /\ faults < MaxFaults
    /\ faults' = faults + 1

\* A statement or a write fails, or the client goes away.
Abort(p) ==
    /\ Fault
    /\ req[p].pc # "idle"
    /\ Finish(p)
    /\ UNCHANGED <<clock, tables, disk, arrived, history>>

\* SaveShareLink's error is dropped.
ShareLinkLost(p) ==
    /\ Fault
    /\ req[p].pc = "link"
    /\ Become(p, [req[p] EXCEPT !.pc = "tell"])
    /\ UNCHANGED <<clock, tables, disk, arrived, history>>

\* An error of GetShareLinkByToken is no obstacle, and one of
\* IncrementShareDownload is dropped.
LookupFails(p) ==
    /\ Fault
    /\ req[p].pc = "row"
    /\ Become(p, [req[p] EXCEPT !.pc = "file"])
    /\ UNCHANGED <<clock, tables, disk, arrived, history>>

ServeUncounted(p) ==
    /\ Fault
    /\ Deliver(p)
    /\ UNCHANGED links

\* The server stops and starts again; tables and files survive.
Crash ==
    /\ Fault
    /\ req' = [p \in Requests |-> Idle]
    /\ UNCHANGED <<clock, tables, disk, arrived, history>>

Tick ==
    /\ clock < MaxClock
    /\ clock' = clock + 1
    /\ UNCHANGED <<tables, disk, req, arrived, faults, history>>

Init ==
    /\ clock = 0
    /\ owner = [d \in Docs |-> NULL]
    /\ sessions = [s \in Sessions |-> NoSession]
    /\ disk = [path \in Docs \X Names |-> NoFile]
    /\ links = [t \in Tokens |-> NULL]
    /\ req = [p \in Requests |-> Idle]
    /\ arrived = 0
    /\ faults = 0
    /\ acked = [s \in Sessions |-> {}]
    /\ asked = [t \in Tokens |-> {}]
    /\ told = {}
    /\ served = {}

Upload(p) ==
    \/ UpsertContentItem(p) \/ InsertSession(p)
    \/ ReadForChunk(p) \/ SaveChunk(p)
    \/ ReadForFinalize(p) \/ CreateFile(p) \/ WriteChunk(p) \/ AddDocumentVersion(p)

Share(p) == SaveShareLink(p) \/ TellShareLink(p) \/ CheckShareLink(p) \/ Serve(p)

Next ==
    \/ \E p \in Requests :
          \/ BeginStart(p) \/ BeginChunk(p) \/ BeginFinalize(p)
          \/ BeginShare(p) \/ BeginDownload(p)
          \/ Upload(p) \/ Share(p)
          \/ Abort(p) \/ ShareLinkLost(p) \/ LookupFails(p) \/ ServeUncounted(p)
    \/ Crash
    \/ Tick

Spec == Init /\ [][Next]_vars

-----------------------------------------------------------------------------
(* Properties.                                                             *)

\* Every variable has its type.
TypeOK ==
    /\ clock \in Nat
    /\ owner \in [Docs -> Users \cup {NULL}]
    /\ sessions \in [Sessions -> SessionRow \cup {NoSession}]
    /\ disk \in [Docs \X Names -> File]
    /\ links \in [Tokens -> LinkRow \cup {NULL}]
    /\ req \in [Requests -> Request]
    /\ arrived \in Nat
    /\ faults \in Nat
    /\ acked \in [Sessions -> SUBSET (Indices \X Users)]
    /\ asked \in [Tokens -> SUBSET Nat]
    /\ told \subseteq Tokens
    /\ served \subseteq [token : Tokens, at : Nat, linked : BOOLEAN]

\* AppendChunk answers once the chunk is saved, and a chunk that was
\* acknowledged stays in its session: through later chunks, chunks sent twice,
\* attempts to finalize, errors and crashes. It can be lost in one way only,
\* to a chunk of the same upload that was read before it and saved after it.
AckedChunksKept ==
    \A s \in Sessions : sessions[s] # NoSession /\ ~sessions[s].stale =>
        \A a \in acked[s] : sessions[s].chunks[a[1]] # NULL

\* Only its owner and the admins feed an upload of a document, although the
\* owner is looked up long before the chunk is saved, and although anybody may
\* start an upload of any document.
OnlyOwnersFeed ==
    \A s \in Sessions : \A a \in acked[s] : Owns(a[2], sessions[s].doc)

\* A file that one request wrote to the end, with no other request writing it,
\* has as many chunks as its upload declared and the checksum it declared,
\* whatever chunks arrived meanwhile.
FilesMatchUploads ==
    \A path \in Docs \X Names :
        disk[path].done /\ ~disk[path].mixed =>
            LET row == sessions[disk[path].from] IN
            /\ Cardinality({k \in Slots : disk[path].bytes[k] # NULL}) >= row.expected
            /\ row.checksum \in {NULL, disk[path].bytes}

\* No download is served that was found in time later than LinkTTL after its
\* link was issued nor, if the link had a row, later than every expiry that clients
\* asked for it, although the row is saved before the client is told and either may
\* fail. Links asked for within one second share a token and a row, so the expiry
\* may be that of another client, even of one that was never answered.
DownloadsInTime ==
    \A d \in served :
        /\ d.at <= d.token.exp
        /\ d.linked => \E e \in asked[d.token] : d.at <= e
=============================================================================
