---------------------------- MODULE ContentProofs ---------------------------
(***************************************************************************)
(* Safety of Content for every set of users, documents, uploads, chunks    *)
(* and requests, and every life of a link.                                 *)
(***************************************************************************)
EXTENDS Content, FiniteSetTheorems, TLAPS

\* What a request carries fits its next statement.
Formed(r) ==
    /\ r.pc = "upsert" => r.user \in Users
    /\ r.pc \in {"upsert", "insert"} => r.doc \in Docs /\ r.name \in Names
    /\ r.pc \in {"read", "save"} /\ r.op = "chunk" =>
          r.user \in Users /\ r.index \in Indices /\ r.datum \in Data
    /\ r.pc = "save" => r.op = "chunk"
    /\ r.pc \in {"create", "write"} => r.doc \in Docs /\ r.name \in Names
    /\ r.pc \in {"read", "create"} => r.next = 0
    /\ r.pc = "write" => r.next < Cardinality(Received(r.chunks))
    /\ r.pc \in {"link", "tell", "row", "file"} => Token(r) \in Tokens /\ r.until <= r.exp
    /\ r.pc = "row" => ~r.linked

\* What it knows about the owners O and the upload sessions S.
Uploading(r, O, S) ==
    /\ r.pc \in {"read", "save", "create", "write"} =>
          r.session \in Sessions /\ S[r.session] # NoSession
    /\ r.pc \in {"read", "save"} /\ r.op = "chunk" =>
          r.user \in Admins \/ O[S[r.session].doc] = r.user
    /\ r.pc = "save" /\ ~S[r.session].stale => r.chunks = S[r.session].chunks
    /\ r.pc \in {"create", "write"} =>
          /\ Cardinality(Received(r.chunks)) >= S[r.session].expected
          /\ S[r.session].checksum \in {NULL, Assembled(r.chunks)}

\* What it knows about the expiries A asked for its link.
InTime(r, A) == r.pc = "file" /\ r.linked => \E e \in A[Token(r)] : r.until <= e

Knowing ==
    \A p \in Requests :
        Formed(req[p]) /\ Uploading(req[p], owner, sessions) /\ InTime(req[p], asked)

\* The bytes of a file of which n chunks of c were written.
Prefix(c, n) == [k \in Slots |-> IF k <= n THEN Assembled(c)[k] ELSE NULL]

\* Who writes a file that is not mixed writes it alone.
WritersAlone ==
    \A p \in Requests : req[p].pc = "write" /\ ~disk[Path(req[p])].mixed =>
        /\ \A q \in Requests \ {p} : ~Writing(q, Path(req[p]))
        /\ disk[Path(req[p])].from = req[p].session
        /\ ~disk[Path(req[p])].done
        /\ disk[Path(req[p])].bytes = Prefix(req[p].chunks, req[p].next)

FilesFromUploads ==
    \A path \in Docs \X Names : disk[path].done /\ ~disk[path].mixed =>
        disk[path].from \in Sessions /\ sessions[disk[path].from] # NoSession

Unfed == \A s \in Sessions : sessions[s] = NoSession => acked[s] = {}

LinksAsked ==
    \A t \in Tokens : links[t] # NULL => links[t].expires <= t.exp /\ links[t].expires \in asked[t]

Inv ==
    /\ TypeOK /\ clock <= MaxClock
    /\ Knowing
    /\ WritersAlone /\ FilesFromUploads /\ FilesMatchUploads
    /\ Unfed /\ AckedChunksKept /\ OnlyOwnersFeed
    /\ LinksAsked /\ DownloadsInTime

-----------------------------------------------------------------------------
(* Chunks and the bytes they make.                                         *)

LEMMA ReceivedFinite ==
    ASSUME NEW c \in Chunks
    PROVE  /\ IsFiniteSet(Received(c)) /\ Cardinality(Received(c)) \in Nat
           /\ Cardinality(Received(c)) <= Cardinality(Indices) /\ Cardinality(Indices) \in Nat
<1>1. Received(c) \subseteq Indices
  BY DEF Received
<1>2. QED
  BY <1>1, ContentAssumption, FS_Subset, FS_CardinalityType

LEMMA Positions ==
    ASSUME NEW c \in Chunks, NEW i \in Received(c)
    PROVE  /\ Position(c, i) \in Nat
           /\ Position(c, i) <= Cardinality(Received(c))
           /\ \A j \in Received(c) : j < i => Position(c, j) < Position(c, i)
<1> DEFINE Upto(x) == {j \in Received(c) : j <= x}
<1>1. Received(c) \subseteq Int
  BY ContentAssumption DEF Received
<1>2. \A x : IsFiniteSet(Upto(x)) /\ Upto(x) \subseteq Received(c)
  BY ReceivedFinite, FS_Subset
<1>3. Position(c, i) = Cardinality(Upto(i)) /\ \A j : Position(c, j) = Cardinality(Upto(j))
  BY DEF Position
<1>4. Position(c, i) \in Nat /\ Position(c, i) <= Cardinality(Received(c))
  BY <1>2, <1>3, ReceivedFinite, FS_Subset, FS_CardinalityType
<1>5. ASSUME NEW j \in Received(c), j < i PROVE Position(c, j) < Position(c, i)
  <2>1. Upto(j) \subseteq Upto(i)
    BY <1>1, <1>5
  <2>2. i \in Upto(i) /\ i \notin Upto(j)
    BY <1>1, <1>5
  <2>3. Upto(j) # Upto(i)
    BY <2>2
  <2> HIDE DEF Upto
  <2>4. Cardinality(Upto(j)) < Cardinality(Upto(i))
    <3>1. Cardinality(Upto(j)) \in Nat /\ Cardinality(Upto(i)) \in Nat
      BY <1>2, FS_CardinalityType
    <3>2. /\ Cardinality(Upto(j)) <= Cardinality(Upto(i))
          /\ Cardinality(Upto(j)) # Cardinality(Upto(i))
      BY <1>2, <2>1, <2>3, FS_Subset
    <3>3. QED
      BY <3>1, <3>2
  <2>5. QED
    BY <1>3, <2>4
<1>6. QED
  BY <1>4, <1>5

LEMMA AssembledBytes ==
    ASSUME NEW c \in Chunks
    PROVE  /\ Assembled(c) \in Bytes
           /\ \A n : Prefix(c, n) \in Bytes
           /\ \A i \in Received(c) : /\ Position(c, i) \in Slots
                                     /\ Assembled(c)[Position(c, i)] # NULL
           /\ \A k \in Slots : k > Cardinality(Received(c)) => Assembled(c)[k] = NULL
<1> DEFINE At(k) == CHOOSE i \in Received(c) : Position(c, i) = k
<1>1. ASSUME NEW k \in Slots, \E i \in Received(c) : Position(c, i) = k
      PROVE  At(k) \in Received(c) /\ Position(c, At(k)) = k
  BY <1>1
<1> HIDE DEF At
<1>2. \A i \in Received(c) : i \in Indices /\ c[i] \in Data /\ c[i] # NULL
  BY DEF Received, Chunks
<1>3. ASSUME NEW k \in Slots
      PROVE  /\ Assembled(c)[k] = IF \E i \in Received(c) : Position(c, i) = k
                                  THEN c[At(k)] ELSE NULL
             /\ Assembled(c)[k] \in Data \cup {NULL}
  BY <1>1, <1>2 DEF Assembled, At
<1>4. Assembled(c) \in Bytes
  BY <1>3 DEF Assembled, Bytes
<1>5. ASSUME NEW n PROVE Prefix(c, n) \in Bytes
  BY <1>4 DEF Prefix, Bytes
<1>6. ASSUME NEW i \in Received(c)
      PROVE  Position(c, i) \in Slots /\ Assembled(c)[Position(c, i)] # NULL
  <2>1. Position(c, i) >= 1
    <3>1. {j \in Received(c) : j <= i} \subseteq Received(c) /\ i \in Int
      BY <1>2, ContentAssumption
    <3>2. i \in {j \in Received(c) : j <= i}
      BY <3>1
    <3>3. /\ IsFiniteSet({j \in Received(c) : j <= i})
          /\ Cardinality({j \in Received(c) : j <= i}) # 0
      BY <3>1, <3>2, ReceivedFinite, FS_Subset, FS_EmptySet
    <3>4. QED
      BY <3>3, Positions DEF Position
  <2>2. Position(c, i) \in Slots
    BY <2>1, Positions, ReceivedFinite DEF Slots
  <2>3. QED
    BY <1>1, <1>2, <1>3, <2>2
<1>7. ASSUME NEW k \in Slots, k > Cardinality(Received(c)) PROVE Assembled(c)[k] = NULL
  <2>1. ~ \E i \in Received(c) : Position(c, i) = k
    BY <1>7, Positions, ReceivedFinite DEF Slots
  <2>2. QED
    BY <1>3, <2>1
<1>8. QED
  BY <1>4, <1>5, <1>6, <1>7

\* A file to which every chunk was written is what the chunks make, and has as
\* many chunks as were received.
LEMMA WholeFile ==
    ASSUME NEW c \in Chunks
    PROVE  /\ Prefix(c, Cardinality(Received(c))) = Assembled(c)
           /\ Cardinality({k \in Slots : Assembled(c)[k] # NULL}) >= Cardinality(Received(c))
<1> DEFINE n == Cardinality(Received(c))
           T == {k \in Slots : Assembled(c)[k] # NULL}
<1>1. n \in Nat /\ IsFiniteSet(Received(c)) /\ Cardinality(Indices) \in Nat
  BY ReceivedFinite
<1>2. \A k \in Slots : (IF k <= n THEN Assembled(c)[k] ELSE NULL) = Assembled(c)[k]
  BY <1>1, AssembledBytes DEF Slots
<1>3. Prefix(c, n) = Assembled(c)
  BY <1>2 DEF Prefix, Assembled
<1>4. T \subseteq 1..Cardinality(Indices)
  BY DEF Slots
<1>5. IsFiniteSet(T) /\ Cardinality(T) \in Nat
  <2>1. IsFiniteSet(1..Cardinality(Indices))
    BY <1>1, FS_Interval
  <2> HIDE DEF T
  <2>2. IsFiniteSet(T)
    BY <1>4, <2>1, FS_Subset
  <2>3. QED
    BY <2>2, FS_CardinalityType
<1>6. ASSUME Cardinality(T) < n PROVE FALSE
  <2> DEFINE f == [i \in Received(c) |-> Position(c, i)]
  <2>1. f \in [Received(c) -> T]
    BY AssembledBytes
  <2> HIDE DEF T
  <2>2. \A i \in Received(c) : f[i] = Position(c, i)
    OBVIOUS
  <2> HIDE DEF f
  <2>3. PICK x \in Received(c), y \in Received(c) : x # y /\ Position(c, x) = Position(c, y)
    <3>1. \E x, y \in Received(c) : x # y /\ f[x] = f[y]
      BY <1>1, <1>5, <1>6, <2>1, FS_PigeonHole
    <3>2. QED
      BY <2>2, <3>1
  <2>4. x \in Int /\ y \in Int
    BY ContentAssumption DEF Received
  <2>5. x < y \/ y < x
    BY <2>3, <2>4
  <2>6. Position(c, x) < Position(c, y) \/ Position(c, y) < Position(c, x)
    BY <2>5, Positions
  <2>7. QED
    BY <2>3, <2>6, Positions
<1>7. QED
  BY <1>1, <1>3, <1>5, <1>6

-----------------------------------------------------------------------------
(* Requests.                                                               *)

LEMMA IdleKnows ==
    /\ Idle \in Request /\ Idle.pc = "idle"
    /\ Formed(Idle)
    /\ \A O, S : Uploading(Idle, O, S)
    /\ \A A : InTime(Idle, A)
BY ContentAssumption
   DEF Idle, Request, PC, AllOps, Chunks, NoChunks, Formed, Uploading, InTime

LEMMA RequestKnows ==
    ASSUME Inv, NEW p \in Requests
    PROVE  /\ req[p] \in Request /\ Formed(req[p])
           /\ Uploading(req[p], owner, sessions) /\ InTime(req[p], asked)
BY DEF Inv, TypeOK, Knowing

\* A request takes a step, after which it is not writing a file.
LEMMA WritersStay ==
    ASSUME Inv, NEW p \in Requests, NEW r \in Request, Become(p, r), r.pc # "write",
           disk' = disk
    PROVE  WritersAlone'
<1>1. req'[p] = r /\ \A q \in Requests \ {p} : req'[q] = req[q]
  BY DEF Become, Inv, TypeOK
<1> SUFFICES ASSUME NEW q \in Requests, req'[q].pc = "write", ~disk[Path(req'[q])].mixed
             PROVE  /\ \A z \in Requests \ {q} :
                          ~(req'[z].pc = "write" /\ Path(req'[z]) = Path(req'[q]))
                    /\ disk[Path(req'[q])].from = req'[q].session
                    /\ ~disk[Path(req'[q])].done
                    /\ disk[Path(req'[q])].bytes = Prefix(req'[q].chunks, req'[q].next)
  BY DEF WritersAlone, Writing
<1>2. q # p /\ req'[q] = req[q]
  BY <1>1
<1>3. /\ \A z \in Requests \ {q} : ~Writing(z, Path(req[q]))
      /\ disk[Path(req[q])].from = req[q].session
      /\ ~disk[Path(req[q])].done
      /\ disk[Path(req[q])].bytes = Prefix(req[q].chunks, req[q].next)
  BY <1>2 DEF Inv, WritersAlone
<1>4. \A z \in Requests \ {q} : ~(req'[z].pc = "write" /\ Path(req'[z]) = Path(req'[q]))
  BY <1>1, <1>2, <1>3 DEF Writing
<1>5. QED
  BY <1>2, <1>3, <1>4

\* A request that takes a step and leaves tables and files alone.
LEMMA GoesOn ==
    ASSUME Inv, NEW p \in Requests, NEW r \in Request, Become(p, r), r.pc # "write",
           UNCHANGED <<clock, tables, disk, history>>, arrived' \in Nat, faults' \in Nat,
           Formed(r), Uploading(r, owner, sessions), InTime(r, asked)
    PROVE  Inv'
<1>1. /\ req' \in [Requests -> Request] /\ req'[p] = r
      /\ \A q \in Requests \ {p} : req'[q] = req[q]
  BY DEF Become, Inv, TypeOK
<1>2. UNCHANGED <<clock, owner, sessions, links, disk, acked, asked, told, served>>
  BY DEF tables, history
<1>3. TypeOK' /\ clock' <= MaxClock
  BY <1>1, <1>2 DEF Inv, TypeOK
<1>4. Knowing'
  BY <1>1, <1>2 DEF Inv, Knowing
<1>5. WritersAlone'
  BY <1>2, WritersStay
<1>6. FilesFromUploads' /\ FilesMatchUploads'
  BY <1>2 DEF Inv, FilesFromUploads, FilesMatchUploads
<1>7. Unfed' /\ AckedChunksKept' /\ OnlyOwnersFeed'
  BY <1>2 DEF Inv, Unfed, AckedChunksKept, OnlyOwnersFeed, Owns
<1>8. LinksAsked' /\ DownloadsInTime'
  BY <1>2 DEF Inv, LinksAsked, DownloadsInTime
<1>9. QED
  BY <1>3, <1>4, <1>5, <1>6, <1>7, <1>8 DEF Inv

LEMMA Ends ==
    ASSUME Inv, NEW p \in Requests, Finish(p), UNCHANGED <<clock, tables, disk, history>>,
           arrived' \in Nat, faults' \in Nat
    PROVE  Inv'
<1>1. /\ Idle \in Request /\ Idle.pc # "write" /\ Formed(Idle)
      /\ Uploading(Idle, owner, sessions) /\ InTime(Idle, asked)
  BY IdleKnows
<1>2. Become(p, Idle)
  BY DEF Finish
<1>3. QED
  BY <1>1, <1>2, GoesOn

LEMMA Arrives ==
    ASSUME Inv, NEW p \in Requests, NEW o, Arrive(p, o)
    PROVE  UNCHANGED <<clock, tables, disk, history>> /\ arrived' \in Nat /\ faults' \in Nat
BY DEF Arrive, Inv, TypeOK

LEMMA BeginStartKnowing == ASSUME Inv, NEW p \in Requests, BeginStart(p) PROVE Inv'
<1>1. PICK u \in Users, d \in Docs, n \in Names :
        Become(p, [Idle EXCEPT !.user = u, !.doc = d, !.name = n, !.pc = EnsureOrCreate(u, d)])
  BY DEF BeginStart
<1> DEFINE pc == EnsureOrCreate(u, d)
           r == [Idle EXCEPT !.user = u, !.doc = d, !.name = n, !.pc = pc]
<1>2. pc \in {"insert", "upsert"}
  BY DEF EnsureOrCreate
<1> HIDE DEF pc
<1>3. r \in Request /\ r.pc = pc /\ r.user = u /\ r.doc = d /\ r.name = n
  BY <1>2, IdleKnows DEF Idle, Request, PC
<1>4. Become(p, r)
  BY <1>1 DEF pc
<1> HIDE DEF r
<1>5. Formed(r) /\ Uploading(r, owner, sessions) /\ InTime(r, asked) /\ r.pc # "write"
  BY <1>2, <1>3 DEF Formed, Uploading, InTime
<1>6. QED
  BY <1>3, <1>4, <1>5, Arrives, GoesOn DEF BeginStart

LEMMA BeginChunkKnowing == ASSUME Inv, NEW p \in Requests, BeginChunk(p) PROVE Inv'
<1>1. PICK u \in Users, s \in Sessions, i \in Indices, x \in Data :
        /\ sessions[s] # NoSession
        /\ Owns(u, sessions[s].doc)
        /\ Become(p, [Idle EXCEPT !.pc = "read", !.op = "chunk", !.user = u,
                                  !.session = s, !.index = i, !.datum = x])
  BY DEF BeginChunk
<1> DEFINE r == [Idle EXCEPT !.pc = "read", !.op = "chunk", !.user = u,
                             !.session = s, !.index = i, !.datum = x]
<1>2. /\ r \in Request /\ r.pc = "read" /\ r.op = "chunk" /\ r.user = u /\ r.session = s
      /\ r.index = i /\ r.datum = x /\ r.next = 0
  BY IdleKnows DEF Idle, Request, PC, AllOps
<1>3. Become(p, r)
  BY <1>1
<1> HIDE DEF r
<1>4. Formed(r) /\ Uploading(r, owner, sessions) /\ InTime(r, asked) /\ r.pc # "write"
  BY <1>1, <1>2 DEF Formed, Uploading, InTime, Owns
<1>5. QED
  BY <1>2, <1>3, <1>4, Arrives, GoesOn DEF BeginChunk

LEMMA BeginFinalizeKnowing == ASSUME Inv, NEW p \in Requests, BeginFinalize(p) PROVE Inv'
<1>1. PICK u \in Users, s \in Sessions :
        /\ sessions[s] # NoSession
        /\ Become(p, [Idle EXCEPT !.pc = "read", !.op = "finalize", !.user = u, !.session = s])
  BY DEF BeginFinalize
<1> DEFINE r == [Idle EXCEPT !.pc = "read", !.op = "finalize", !.user = u, !.session = s]
<1>2. /\ r \in Request /\ r.pc = "read" /\ r.op = "finalize" /\ r.user = u /\ r.session = s
      /\ r.next = 0
  BY IdleKnows DEF Idle, Request, PC, AllOps
<1>3. Become(p, r)
  BY <1>1
<1> HIDE DEF r
<1>4. Formed(r) /\ Uploading(r, owner, sessions) /\ InTime(r, asked) /\ r.pc # "write"
  BY <1>1, <1>2 DEF Formed, Uploading, InTime
<1>5. QED
  BY <1>2, <1>3, <1>4, Arrives, GoesOn DEF BeginFinalize

LEMMA BeginShareKnowing == ASSUME Inv, NEW p \in Requests, BeginShare(p) PROVE Inv'
<1>1. PICK u \in Users, d \in Docs, h \in Hours :
        Become(p, [Idle EXCEPT !.pc = "link", !.op = "share", !.user = u, !.doc = d,
                               !.exp = clock + LinkTTL, !.until = clock + h])
  BY DEF BeginShare
<1> DEFINE e == clock + LinkTTL
           w == clock + h
           r == [Idle EXCEPT !.pc = "link", !.op = "share", !.user = u, !.doc = d,
                             !.exp = e, !.until = w]
<1>2. e \in 0..(MaxClock + LinkTTL) /\ e \in Nat /\ w \in Nat /\ w <= e
  BY ContentAssumption DEF Inv, TypeOK
<1>3. Become(p, r)
  BY <1>1
<1> HIDE DEF e, w
<1>4. r \in Request /\ r.pc = "link" /\ r.doc = d /\ r.exp = e /\ r.until = w
  BY <1>2, IdleKnows DEF Idle, Request, PC, AllOps
<1> HIDE DEF r
<1>5. Token(r) \in Tokens
  BY <1>2, <1>4 DEF Token, Tokens
<1>6. Formed(r) /\ Uploading(r, owner, sessions) /\ InTime(r, asked) /\ r.pc # "write"
  BY <1>2, <1>4, <1>5 DEF Formed, Uploading, InTime
<1>7. QED
  BY <1>3, <1>4, <1>6, Arrives, GoesOn DEF BeginShare

LEMMA BeginDownloadKnowing == ASSUME Inv, NEW p \in Requests, BeginDownload(p) PROVE Inv'
<1>1. PICK t \in Tokens :
        /\ clock <= t.exp
        /\ Become(p, [Idle EXCEPT !.pc = "row", !.op = "download", !.doc = t.doc,
                                  !.exp = t.exp, !.until = clock])
  BY DEF BeginDownload
<1> DEFINE r == [Idle EXCEPT !.pc = "row", !.op = "download", !.doc = t.doc,
                             !.exp = t.exp, !.until = clock]
<1>2. t.doc \in Docs /\ t.exp \in 0..(MaxClock + LinkTTL) /\ t.exp \in Nat /\ clock \in Nat
  BY ContentAssumption DEF Tokens, Inv, TypeOK
<1>3. /\ r \in Request /\ r.pc = "row" /\ r.doc = t.doc /\ r.exp = t.exp /\ r.until = clock
      /\ ~r.linked
  BY <1>2, IdleKnows DEF Idle, Request, PC, AllOps
<1>4. Become(p, r)
  BY <1>1
<1> HIDE DEF r
<1>5. Token(r) \in Tokens
  BY <1>2, <1>3 DEF Token, Tokens
<1>6. Formed(r) /\ Uploading(r, owner, sessions) /\ InTime(r, asked) /\ r.pc # "write"
  BY <1>1, <1>3, <1>5 DEF Formed, Uploading, InTime
<1>7. QED
  BY <1>3, <1>4, <1>6, Arrives, GoesOn DEF BeginDownload

-----------------------------------------------------------------------------
(* Steps that read.                                                        *)

LEMMA Row ==
    ASSUME Inv, NEW s \in Sessions, sessions[s] # NoSession
    PROVE  /\ sessions[s] \in SessionRow /\ sessions[s].doc \in Docs
           /\ sessions[s].name \in Names /\ sessions[s].chunks \in Chunks
           /\ sessions[s].expected \in Nat \ {0}
<1>1. sessions[s] \in SessionRow
  BY DEF Inv, TypeOK
<1>2. QED
  BY <1>1, ContentAssumption DEF SessionRow

LEMMA ReadForChunkKnowing == ASSUME Inv, NEW p \in Requests, ReadForChunk(p) PROVE Inv'
<1> DEFINE s == req[p].session
           c == sessions[s].chunks
           r == [req[p] EXCEPT !.pc = "save", !.chunks = c]
<1>1. req[p] \in Request /\ Formed(req[p]) /\ Uploading(req[p], owner, sessions)
  BY RequestKnows
<1>2. req[p].pc = "read" /\ req[p].op = "chunk" /\ Become(p, r)
  BY DEF ReadForChunk
<1>3. s \in Sessions /\ sessions[s] # NoSession
  BY <1>1, <1>2 DEF Uploading
<1>4. c \in Chunks
  BY <1>3, Row
<1>5. UNCHANGED <<clock, tables, disk, history>> /\ arrived' \in Nat /\ faults' \in Nat
  BY DEF ReadForChunk, Inv, TypeOK
<1> HIDE DEF c
<1>6. /\ r \in Request /\ r.pc = "save" /\ r.op = "chunk" /\ r.chunks = c /\ r.session = s
      /\ r.user = req[p].user /\ r.index = req[p].index /\ r.datum = req[p].datum
  BY <1>1, <1>2, <1>4 DEF Request, PC
<1> HIDE DEF r, s
<1>7. Formed(r)
  BY <1>1, <1>2, <1>6 DEF Formed
<1>8. Uploading(r, owner, sessions)
  BY <1>1, <1>2, <1>3, <1>6 DEF Uploading, c, s
<1>9. InTime(r, asked) /\ r.pc # "write"
  BY <1>6 DEF InTime
<1>10. QED
  BY <1>2, <1>5, <1>6, <1>7, <1>8, <1>9, GoesOn

LEMMA ReadForFinalizeKnowing == ASSUME Inv, NEW p \in Requests, ReadForFinalize(p) PROVE Inv'
<1> DEFINE s == req[p].session
           row == sessions[s]
           r == [req[p] EXCEPT !.pc = "create", !.doc = row.doc, !.name = row.name,
                               !.chunks = row.chunks]
<1>1. req[p] \in Request /\ Formed(req[p]) /\ Uploading(req[p], owner, sessions)
  BY RequestKnows
<1>2. req[p].pc = "read" /\ (IF Whole(row) THEN Become(p, r) ELSE Finish(p))
  BY DEF ReadForFinalize
<1>3. UNCHANGED <<clock, tables, disk, history>> /\ arrived' \in Nat /\ faults' \in Nat
  BY DEF ReadForFinalize, Inv, TypeOK
<1>4. s \in Sessions /\ row # NoSession
  BY <1>1, <1>2 DEF Uploading
<1>5. row.doc \in Docs /\ row.name \in Names /\ row.chunks \in Chunks
  BY <1>4, Row
<1> HIDE DEF row
<1>6. CASE Whole(row)
  <2>1. /\ r \in Request /\ r.pc = "create" /\ r.chunks = row.chunks /\ r.session = s
        /\ r.doc = row.doc /\ r.name = row.name /\ r.next = req[p].next
    BY <1>1, <1>2, <1>5 DEF Request, PC
  <2>2. Become(p, r)
    BY <1>2, <1>6
  <2> HIDE DEF r, s
  <2>3. Formed(r)
    BY <1>1, <1>2, <1>5, <2>1 DEF Formed
  <2>4. Uploading(r, owner, sessions)
    BY <1>4, <1>6, <2>1 DEF Uploading, Whole, row
  <2>5. InTime(r, asked) /\ r.pc # "write"
    BY <2>1 DEF InTime
  <2>6. QED
    BY <1>3, <2>1, <2>2, <2>3, <2>4, <2>5, GoesOn
<1>7. CASE ~Whole(row)
  BY <1>2, <1>3, <1>7, Ends
<1>8. QED
  BY <1>6, <1>7

LEMMA AddDocumentVersionKnowing == ASSUME Inv, NEW p \in Requests, AddDocumentVersion(p) PROVE Inv'
<1>1. /\ Finish(p) /\ UNCHANGED <<clock, tables, disk, history>>
      /\ arrived' \in Nat /\ faults' \in Nat
  BY DEF AddDocumentVersion, Inv, TypeOK
<1>2. QED
  BY <1>1, Ends

LEMMA AbortKnowing == ASSUME Inv, NEW p \in Requests, Abort(p) PROVE Inv'
<1>1. /\ Finish(p) /\ UNCHANGED <<clock, tables, disk, history>>
      /\ arrived' \in Nat /\ faults' \in Nat
  BY DEF Abort, Fault, Inv, TypeOK
<1>2. QED
  BY <1>1, Ends

\* A download goes on to the file, found in time at w if it is linked.
LEMMA ToFile ==
    ASSUME Inv, NEW p \in Requests, req[p].pc = "row", NEW w \in Nat, NEW l \in BOOLEAN,
           w <= req[p].exp, l => \E e \in asked[Token(req[p])] : w <= e,
           Become(p, [req[p] EXCEPT !.pc = "file", !.until = w, !.linked = l]),
           UNCHANGED <<clock, tables, disk, history>>, arrived' \in Nat, faults' \in Nat
    PROVE  Inv'
<1> DEFINE r == [req[p] EXCEPT !.pc = "file", !.until = w, !.linked = l]
<1>1. req[p] \in Request /\ Formed(req[p])
  BY RequestKnows
<1>2. /\ r \in Request /\ r.pc = "file" /\ r.until = w /\ r.linked = l
      /\ r.doc = req[p].doc /\ r.exp = req[p].exp
  BY <1>1 DEF Request, PC
<1> HIDE DEF r
<1>3. Token(r) = Token(req[p])
  BY <1>2 DEF Token
<1>4. Formed(r) /\ Uploading(r, owner, sessions) /\ InTime(r, asked) /\ r.pc # "write"
  BY <1>1, <1>2, <1>3 DEF Formed, Uploading, InTime
<1>5. Become(p, r)
  BY DEF r
<1>6. QED
  BY <1>2, <1>4, <1>5, GoesOn

\* The step to the file without a row.
LEMMA Unlinked ==
    ASSUME Inv, NEW p \in Requests, req[p].pc = "row",
           Become(p, [req[p] EXCEPT !.pc = "file"])
    PROVE  /\ req[p].until \in Nat /\ req[p].until <= req[p].exp
           /\ Become(p, [req[p] EXCEPT !.pc = "file", !.until = req[p].until,
                                       !.linked = FALSE])
<1>1. req[p] \in Request /\ Formed(req[p])
  BY RequestKnows
<1>2. ~req[p].linked /\ req[p].linked \in BOOLEAN /\ req[p].until <= req[p].exp
      /\ req[p].until \in Nat
  BY <1>1 DEF Formed, Request
<1>3. [req[p] EXCEPT !.pc = "file"]
        = [req[p] EXCEPT !.pc = "file", !.until = req[p].until, !.linked = FALSE]
  BY <1>1, <1>2 DEF Request
<1>4. QED
  BY <1>2, <1>3 DEF Become

LEMMA CheckShareLinkKnowing == ASSUME Inv, NEW p \in Requests, CheckShareLink(p) PROVE Inv'
<1> DEFINE t == Token(req[p])
           row == links[t]
<1>1. req[p] \in Request /\ Formed(req[p]) /\ req[p].pc = "row"
  BY RequestKnows DEF CheckShareLink
<1>2. UNCHANGED <<clock, tables, disk, history>> /\ arrived' \in Nat /\ faults' \in Nat
  BY DEF CheckShareLink, Inv, TypeOK
<1>3. t \in Tokens /\ t.exp = req[p].exp
  BY <1>1 DEF Formed, Token
<1>4. CASE row = NULL
  <2>1. Become(p, [req[p] EXCEPT !.pc = "file"])
    BY <1>4 DEF CheckShareLink
  <2>2. /\ req[p].until \in Nat /\ req[p].until <= req[p].exp
        /\ Become(p, [req[p] EXCEPT !.pc = "file", !.until = req[p].until, !.linked = FALSE])
    BY <1>1, <2>1, Unlinked
  <2>3. QED
    BY <1>1, <1>2, <2>2, ToFile
<1>5. CASE row # NULL /\ clock > row.expires
  BY <1>2, <1>5, Ends DEF CheckShareLink
<1>6. CASE row # NULL /\ ~(clock > row.expires)
  <2>1. Become(p, [req[p] EXCEPT !.pc = "file", !.until = clock, !.linked = TRUE])
    BY <1>6 DEF CheckShareLink
  <2>2. row \in LinkRow /\ clock \in Nat /\ row.expires <= t.exp /\ row.expires \in asked[t]
    BY <1>3, <1>6 DEF Inv, TypeOK, LinksAsked
  <2>3. row.expires \in Nat /\ req[p].exp \in Nat
    BY <1>1, <2>2 DEF LinkRow, Request
  <2>4. clock <= req[p].exp /\ clock <= row.expires
    BY <1>3, <1>6, <2>2, <2>3
  <2>5. QED
    BY <1>1, <1>2, <2>1, <2>2, <2>4, ToFile
<1>7. QED
  BY <1>4, <1>5, <1>6

LEMMA LookupFailsKnowing == ASSUME Inv, NEW p \in Requests, LookupFails(p) PROVE Inv'
<1>1. /\ req[p].pc = "row" /\ Become(p, [req[p] EXCEPT !.pc = "file"])
      /\ UNCHANGED <<clock, tables, disk, history>> /\ arrived' \in Nat /\ faults' \in Nat
  BY DEF LookupFails, Fault, Inv, TypeOK
<1>2. /\ req[p].until \in Nat /\ req[p].until <= req[p].exp
      /\ Become(p, [req[p] EXCEPT !.pc = "file", !.until = req[p].until, !.linked = FALSE])
  BY <1>1, Unlinked
<1>3. QED
  BY <1>1, <1>2, ToFile

-----------------------------------------------------------------------------
(* Steps that write tables.                                                *)

LEMMA UpsertContentItemKnowing == ASSUME Inv, NEW p \in Requests, UpsertContentItem(p) PROVE Inv'
<1> DEFINE d == req[p].doc
           u == req[p].user
           r == [req[p] EXCEPT !.pc = "insert"]
<1>1. req[p] \in Request /\ Formed(req[p]) /\ req[p].pc = "upsert"
  BY RequestKnows DEF UpsertContentItem
<1>2. u \in Users /\ d \in Docs /\ req[p].name \in Names
  BY <1>1 DEF Formed
<1>3. /\ owner \in [Docs -> Users \cup {NULL}]
      /\ owner' = [owner EXCEPT ![d] = IF @ = NULL THEN u ELSE @]
  BY DEF UpsertContentItem, Inv, TypeOK
<1>4. /\ owner' \in [Docs -> Users \cup {NULL}]
      /\ \A x \in Docs : owner[x] # NULL => owner'[x] = owner[x]
  BY <1>2, <1>3
<1>5. UNCHANGED <<clock, sessions, links, disk, arrived, faults, acked, asked, told, served>>
  BY DEF UpsertContentItem, history
<1>6. r \in Request /\ r.pc = "insert" /\ r.doc = d /\ r.name = req[p].name
  BY <1>1 DEF Request, PC
<1>7. Become(p, r)
  BY DEF UpsertContentItem
<1> HIDE DEF r
<1>8. /\ req' \in [Requests -> Request] /\ req'[p] = r
      /\ \A q \in Requests \ {p} : req'[q] = req[q]
  BY <1>6, <1>7 DEF Become, Inv, TypeOK
<1>9. TypeOK' /\ clock' <= MaxClock
  BY <1>4, <1>5, <1>8 DEF Inv, TypeOK
<1>10. Formed(r) /\ InTime(r, asked) /\ \A O, S : Uploading(r, O, S)
  BY <1>2, <1>6 DEF Formed, InTime, Uploading
<1>11. ASSUME NEW q \in Requests PROVE Uploading(req[q], owner', sessions)
  <2>1. req[q] \in Request /\ Formed(req[q]) /\ Uploading(req[q], owner, sessions)
    BY RequestKnows
  <2>2. ASSUME req[q].pc \in {"read", "save"}, req[q].op = "chunk"
        PROVE  \/ req[q].user \in Admins
               \/ owner'[sessions[req[q].session].doc] = req[q].user
    <3>1. req[q].user \in Users /\ req[q].user # NULL
      BY <2>1, <2>2, ContentAssumption DEF Formed
    <3>2. req[q].session \in Sessions /\ sessions[req[q].session] # NoSession
      BY <2>1, <2>2 DEF Uploading
    <3>3. sessions[req[q].session].doc \in Docs
      BY <3>2, Row
    <3>4. req[q].user \in Admins \/ owner[sessions[req[q].session].doc] = req[q].user
      BY <2>1, <2>2 DEF Uploading
    <3>5. QED
      BY <1>4, <3>1, <3>3, <3>4
  <2>3. QED
    BY <2>1, <2>2 DEF Uploading
<1>12. Knowing'
  BY <1>5, <1>8, <1>10, <1>11, RequestKnows DEF Knowing
<1>13. WritersAlone'
  BY <1>5, <1>6, <1>7, WritersStay
<1>14. FilesFromUploads' /\ FilesMatchUploads'
  BY <1>5 DEF Inv, FilesFromUploads, FilesMatchUploads
<1>15. Unfed' /\ AckedChunksKept'
  BY <1>5 DEF Inv, Unfed, AckedChunksKept
<1>16. ASSUME NEW s \in Sessions, NEW a \in acked[s]
       PROVE  a[2] \in Admins \/ owner'[sessions[s].doc] = a[2]
  <2>1. a[2] \in Users /\ a[2] # NULL
    BY <1>16, ContentAssumption DEF Inv, TypeOK
  <2>2. sessions[s] # NoSession
    BY <1>16 DEF Inv, Unfed
  <2>3. sessions[s].doc \in Docs
    BY <2>2, Row
  <2>4. a[2] \in Admins \/ owner[sessions[s].doc] = a[2]
    BY <1>16 DEF Inv, OnlyOwnersFeed, Owns
  <2>5. QED
    BY <1>4, <2>1, <2>3, <2>4
<1>17. OnlyOwnersFeed'
  BY <1>5, <1>16 DEF OnlyOwnersFeed, Owns
<1>18. LinksAsked' /\ DownloadsInTime'
  BY <1>5 DEF Inv, LinksAsked, DownloadsInTime
<1>19. QED
  BY <1>9, <1>12, <1>13, <1>14, <1>15, <1>17, <1>18 DEF Inv

LEMMA InsertSessionKnowing == ASSUME Inv, NEW p \in Requests, InsertSession(p) PROVE Inv'
<1>1. req[p] \in Request /\ Formed(req[p]) /\ req[p].pc = "insert"
  BY RequestKnows DEF InsertSession
<1>2. /\ UNCHANGED <<clock, owner, links, disk, arrived, faults, acked, asked, told, served>>
      /\ Finish(p)
  BY DEF InsertSession, history
<1>3. CASE ~Accepted(req[p])
  <2>1. UNCHANGED sessions
    BY <1>3 DEF InsertSession
  <2>2. /\ UNCHANGED <<clock, tables, disk, history>>
        /\ arrived' \in Nat /\ faults' \in Nat
    BY <1>2, <2>1 DEF tables, history, Inv, TypeOK
  <2>3. QED
    BY <1>2, <2>2, Ends
<1>4. CASE Accepted(req[p])
  <2>1. PICK s \in Sessions, e \in ChunkCounts, c \in Checksums :
          /\ sessions[s] = NoSession
          /\ sessions' = [sessions EXCEPT ![s] =
                [doc |-> req[p].doc, name |-> req[p].name, expected |-> e,
                 checksum |-> c, chunks |-> NoChunks, stale |-> FALSE]]
    BY <1>4 DEF InsertSession
  <2> DEFINE row == [doc |-> req[p].doc, name |-> req[p].name, expected |-> e,
                     checksum |-> c, chunks |-> NoChunks, stale |-> FALSE]
  <2>2. row \in SessionRow
    <3>1. req[p].doc \in Docs /\ req[p].name \in AllowedNames
      BY <1>1, <1>4 DEF Formed, Accepted
    <3>2. NoChunks \in Chunks
      BY DEF NoChunks, Chunks
    <3>3. QED
      BY <3>1, <3>2 DEF SessionRow
  <2> HIDE DEF row
  <2>3. /\ sessions' \in [Sessions -> SessionRow \cup {NoSession}] /\ sessions'[s] = row
        /\ \A x \in Sessions \ {s} : sessions'[x] = sessions[x]
    BY <2>1, <2>2 DEF Inv, TypeOK, row
  <2>4. sessions'[s] # NoSession
    BY <2>2, <2>3, NullAssumption DEF NoSession
  <2>5. acked[s] = {}
    BY <2>1 DEF Inv, Unfed
  <2>6. /\ req' \in [Requests -> Request] /\ req'[p] = Idle
        /\ \A q \in Requests \ {p} : req'[q] = req[q]
    BY <1>2, IdleKnows DEF Finish, Become, Inv, TypeOK
  <2>7. TypeOK' /\ clock' <= MaxClock
    BY <1>2, <2>3, <2>6 DEF Inv, TypeOK
  <2>8. ASSUME NEW q \in Requests PROVE Uploading(req[q], owner, sessions')
    <3>1. Uploading(req[q], owner, sessions)
      BY RequestKnows
    <3>2. req[q].pc \in {"read", "save", "create", "write"} =>
            req[q].session \in Sessions /\ sessions'[req[q].session] = sessions[req[q].session]
      BY <2>1, <2>3, <3>1 DEF Uploading
    <3>3. QED
      BY <3>1, <3>2 DEF Uploading
  <2>9. Knowing'
    BY <1>2, <2>6, <2>8, IdleKnows, RequestKnows DEF Knowing
  <2>10. WritersAlone'
    BY <1>2, IdleKnows, WritersStay DEF Finish
  <2>11. ASSUME NEW path \in Docs \X Names, disk[path].done, ~disk[path].mixed
         PROVE  /\ disk[path].from \in Sessions
                /\ sessions'[disk[path].from] = sessions[disk[path].from]
                /\ sessions[disk[path].from] # NoSession
    BY <2>1, <2>3, <2>11 DEF Inv, FilesFromUploads
  <2>12. FilesFromUploads'
    BY <1>2, <2>11 DEF FilesFromUploads
  <2>13. FilesMatchUploads'
    BY <1>2, <2>11 DEF Inv, FilesMatchUploads
  <2>14. Unfed' /\ AckedChunksKept' /\ OnlyOwnersFeed'
    BY <1>2, <2>3, <2>4, <2>5 DEF Inv, Unfed, AckedChunksKept, OnlyOwnersFeed, Owns
  <2>15. LinksAsked' /\ DownloadsInTime'
    BY <1>2 DEF Inv, LinksAsked, DownloadsInTime
  <2>16. QED
    BY <2>7, <2>9, <2>10, <2>12, <2>13, <2>14, <2>15 DEF Inv
<1>5. QED
  BY <1>3, <1>4

LEMMA SaveChunkKnowing == ASSUME Inv, NEW p \in Requests, SaveChunk(p) PROVE Inv'
<1> DEFINE s == req[p].session
           i == req[p].index
           x == req[p].datum
           u == req[p].user
           c == [req[p].chunks EXCEPT ![i] = x]
           b == sessions[s].stale \/ Overlapped(p)
<1>1. /\ req[p] \in Request /\ Formed(req[p]) /\ Uploading(req[p], owner, sessions)
      /\ req[p].pc = "save"
  BY RequestKnows DEF SaveChunk
<1>2. req[p].op = "chunk" /\ u \in Users /\ i \in Indices /\ x \in Data /\ x # NULL
  BY <1>1, ContentAssumption DEF Formed
<1>3. s \in Sessions /\ sessions[s] # NoSession /\ (u \in Admins \/ owner[sessions[s].doc] = u)
  BY <1>1, <1>2 DEF Uploading
<1>4. req[p].chunks \in Chunks /\ c \in Chunks
  BY <1>1, <1>2 DEF Request, Chunks
<1>5. /\ sessions' = [sessions EXCEPT ![s].chunks = c, ![s].stale = @ \/ Overlapped(p)]
      /\ acked' = [acked EXCEPT ![s] = @ \cup {<<i, u>>}]
      /\ Finish(p)
      /\ UNCHANGED <<clock, owner, links, disk, arrived, faults, asked, told, served>>
  BY DEF SaveChunk
<1>6. /\ sessions[s] \in SessionRow /\ b \in BOOLEAN
      /\ sessions \in [Sessions -> SessionRow \cup {NoSession}]
  BY <1>3, Row DEF Inv, TypeOK, Overlapped
<1>7. c[i] = x /\ \A j \in Indices : j # i => c[j] = req[p].chunks[j]
  BY <1>2, <1>4 DEF Chunks
<1>8. ~b => \A q \in Requests \ {p} : ~(req[q].pc = "save" /\ req[q].session = s)
  BY DEF Overlapped
<1>9. ~b => req[p].chunks = sessions[s].chunks
  BY <1>1 DEF Uploading
<1>10. b = (sessions[s].stale \/ Overlapped(p))
  OBVIOUS
<1>11. \A y \in Sessions \ {s} : sessions'[y] = sessions[y]
  BY <1>3, <1>5, <1>6
<1> HIDE DEF c, b
<1>12. sessions'[s] = [sessions[s] EXCEPT !.chunks = c, !.stale = b]
  BY <1>3, <1>5, <1>6, <1>10 DEF SessionRow
<1>13. /\ sessions'[s] \in SessionRow
       /\ sessions'[s].doc = sessions[s].doc /\ sessions'[s].expected = sessions[s].expected
       /\ sessions'[s].checksum = sessions[s].checksum
       /\ sessions'[s].chunks = c /\ sessions'[s].stale = b
  BY <1>4, <1>6, <1>12 DEF SessionRow
<1>14. sessions' \in [Sessions -> SessionRow \cup {NoSession}]
  BY <1>3, <1>5, <1>6, <1>11, <1>13
<1>15. sessions'[s] # NoSession
  BY <1>13, NullAssumption DEF NoSession
<1>16. /\ acked' \in [Sessions -> SUBSET (Indices \X Users)]
       /\ acked'[s] = acked[s] \cup {<<i, u>>}
       /\ \A y \in Sessions \ {s} : acked'[y] = acked[y]
  BY <1>2, <1>3, <1>5 DEF Inv, TypeOK
<1>17. /\ req' \in [Requests -> Request] /\ req'[p] = Idle
       /\ \A q \in Requests \ {p} : req'[q] = req[q]
  BY <1>5, IdleKnows DEF Finish, Become, Inv, TypeOK
<1>18. TypeOK' /\ clock' <= MaxClock
  BY <1>5, <1>14, <1>16, <1>17 DEF Inv, TypeOK
<1>19. ASSUME NEW q \in Requests \ {p} PROVE Uploading(req[q], owner, sessions')
  <2>1. Uploading(req[q], owner, sessions)
    BY RequestKnows
  <2>2. CASE req[q].session = s
    BY <1>3, <1>8, <1>13, <1>15, <2>1, <2>2 DEF Uploading
  <2>3. CASE req[q].session # s
    <3>1. req[q].pc \in {"read", "save", "create", "write"} =>
            sessions'[req[q].session] = sessions[req[q].session]
      BY <1>11, <2>1, <2>3 DEF Uploading
    <3>2. QED
      BY <2>1, <3>1 DEF Uploading
  <2>4. QED
    BY <2>2, <2>3
<1>20. Knowing'
  BY <1>5, <1>17, <1>19, IdleKnows, RequestKnows DEF Knowing
<1>21. WritersAlone'
  BY <1>5, IdleKnows, WritersStay DEF Finish
<1>22. ASSUME NEW y \in Sessions, sessions[y] # NoSession
       PROVE  /\ sessions'[y] # NoSession /\ sessions'[y].doc = sessions[y].doc
              /\ sessions'[y].expected = sessions[y].expected
              /\ sessions'[y].checksum = sessions[y].checksum
  BY <1>11, <1>13, <1>15, <1>22
<1>23. FilesFromUploads'
  BY <1>5, <1>22 DEF Inv, FilesFromUploads
<1>24. FilesMatchUploads'
  <2>1. ASSUME NEW path \in Docs \X Names, disk[path].done, ~disk[path].mixed
        PROVE  /\ sessions'[disk[path].from].expected = sessions[disk[path].from].expected
               /\ sessions'[disk[path].from].checksum = sessions[disk[path].from].checksum
    BY <1>22, <2>1 DEF Inv, FilesFromUploads
  <2>2. disk' = disk
    BY <1>5
  <2>3. ASSUME NEW path \in Docs \X Names, disk[path].done, ~disk[path].mixed
        PROVE  /\ Cardinality({k \in Slots : disk[path].bytes[k] # NULL})
                     >= sessions'[disk[path].from].expected
               /\ sessions'[disk[path].from].checksum \in {NULL, disk[path].bytes}
    BY <2>1, <2>3 DEF Inv, FilesMatchUploads
  <2>4. QED
    BY <2>2, <2>3 DEF FilesMatchUploads
<1>25. Unfed'
  BY <1>11, <1>15, <1>16 DEF Inv, Unfed
<1>26. AckedChunksKept'
  <2>1. ASSUME NEW a \in acked'[s], ~b PROVE c[a[1]] # NULL
    <3>1. a = <<i, u>> \/ a \in acked[s]
      BY <1>16, <2>1
    <3>2. CASE a[1] = i
      BY <1>2, <1>7, <3>2
    <3>3. CASE a \in acked[s] /\ a[1] # i
      <4>1. ~sessions[s].stale
        BY <1>10, <2>1
      <4>2. sessions[s].chunks[a[1]] # NULL
        BY <1>3, <3>3, <4>1 DEF Inv, AckedChunksKept
      <4>3. a[1] \in Indices
        BY <1>3, <3>3 DEF Inv, TypeOK
      <4>4. QED
        BY <1>7, <1>9, <2>1, <3>3, <4>2, <4>3
    <3>4. QED
      BY <3>1, <3>2, <3>3
  <2>2. QED
    BY <1>11, <1>13, <1>16, <2>1 DEF Inv, AckedChunksKept
<1>27. OnlyOwnersFeed'
  <2>1. ASSUME NEW y \in Sessions, NEW a \in acked'[y]
        PROVE  a[2] \in Admins \/ owner[sessions'[y].doc] = a[2]
    <3>1. CASE a \in acked[y]
      <4>1. sessions[y] # NoSession
        BY <3>1 DEF Inv, Unfed
      <4>2. sessions'[y].doc = sessions[y].doc
        BY <1>22, <4>1
      <4>3. QED
        BY <3>1, <4>2 DEF Inv, OnlyOwnersFeed, Owns
    <3>2. CASE a \notin acked[y]
      BY <1>3, <1>13, <1>16, <2>1, <3>2
    <3>3. QED
      BY <3>1, <3>2
  <2>2. QED
    BY <1>5, <2>1 DEF OnlyOwnersFeed, Owns
<1>28. LinksAsked' /\ DownloadsInTime'
  BY <1>5 DEF Inv, LinksAsked, DownloadsInTime
<1>29. QED
  BY <1>18, <1>20, <1>21, <1>23, <1>24, <1>25, <1>26, <1>27, <1>28 DEF Inv

-----------------------------------------------------------------------------
(* Steps that write files.                                                 *)

\* What keeps the invariant when only the file at P and the request p, which
\* is not about a link, change: that the file is still what its upload declared.
LEMMA FileChanges ==
    ASSUME Inv, NEW p \in Requests, NEW r \in Request, NEW P \in Docs \X Names, NEW f \in File,
           Become(p, r), disk' = [disk EXCEPT ![P] = f],
           UNCHANGED <<clock, tables, arrived, faults, history>>,
           Formed(r), Uploading(r, owner, sessions), InTime(r, asked),
           r.pc = "write" => Path(r) = P,
           ~f.mixed => \A q \in Requests \ {p} : ~Writing(q, P),
           r.pc = "write" /\ ~f.mixed =>
              ~f.done /\ f.from = r.session /\ f.bytes = Prefix(r.chunks, r.next),
           f.done /\ ~f.mixed =>
              /\ f.from \in Sessions /\ sessions[f.from] # NoSession
              /\ Cardinality({k \in Slots : f.bytes[k] # NULL}) >= sessions[f.from].expected
              /\ sessions[f.from].checksum \in {NULL, f.bytes}
    PROVE  Inv'
<1>1. /\ req' \in [Requests -> Request] /\ req'[p] = r
      /\ \A q \in Requests \ {p} : req'[q] = req[q]
  BY DEF Become, Inv, TypeOK
<1>2. UNCHANGED <<clock, owner, sessions, links, arrived, faults, acked, asked, told, served>>
  BY DEF tables, history
<1>3. /\ disk' \in [Docs \X Names -> File] /\ disk'[P] = f
      /\ \A path \in Docs \X Names : path # P => disk'[path] = disk[path]
  BY DEF Inv, TypeOK
<1>4. TypeOK' /\ clock' <= MaxClock
  BY <1>1, <1>2, <1>3 DEF Inv, TypeOK
<1>5. Knowing'
  BY <1>1, <1>2 DEF Inv, Knowing
<1>6. ASSUME NEW q \in Requests, req'[q].pc = "write", ~disk'[Path(req'[q])].mixed
      PROVE  /\ \A z \in Requests \ {q} :
                   ~(req'[z].pc = "write" /\ Path(req'[z]) = Path(req'[q]))
             /\ disk'[Path(req'[q])].from = req'[q].session
             /\ ~disk'[Path(req'[q])].done
             /\ disk'[Path(req'[q])].bytes = Prefix(req'[q].chunks, req'[q].next)
  <2>1. CASE q = p
    <3>1. req'[q] = r /\ Path(r) = P /\ ~f.mixed
      BY <1>1, <1>3, <1>6, <2>1
    <3>2. \A z \in Requests \ {q} : ~(req'[z].pc = "write" /\ Path(req'[z]) = P)
      BY <1>1, <2>1, <3>1 DEF Writing
    <3>3. QED
      BY <1>3, <1>6, <3>1, <3>2
  <2>2. CASE q # p
    <3>1. req'[q] = req[q] /\ req[q].pc = "write"
      BY <1>1, <1>6, <2>2
    <3>2. Path(req[q]) \in Docs \X Names
      BY <3>1, RequestKnows DEF Formed, Path
    <3>3. Path(req[q]) # P
      BY <1>3, <1>6, <2>2, <3>1 DEF Writing
    <3>4. disk'[Path(req[q])] = disk[Path(req[q])]
      BY <1>3, <3>2, <3>3
    <3>5. /\ \A z \in Requests \ {q} : ~Writing(z, Path(req[q]))
          /\ disk[Path(req[q])].from = req[q].session
          /\ ~disk[Path(req[q])].done
          /\ disk[Path(req[q])].bytes = Prefix(req[q].chunks, req[q].next)
      BY <1>6, <3>1, <3>4 DEF Inv, WritersAlone
    <3>6. \A z \in Requests \ {q} : ~(req'[z].pc = "write" /\ Path(req'[z]) = Path(req[q]))
      BY <1>1, <3>3, <3>5 DEF Writing
    <3>7. QED
      BY <3>1, <3>4, <3>5, <3>6
  <2>3. QED
    BY <2>1, <2>2
<1>7. WritersAlone'
  BY <1>6 DEF WritersAlone, Writing
<1>8. FilesFromUploads'
  BY <1>2, <1>3 DEF Inv, FilesFromUploads
<1>9. FilesMatchUploads'
  <2>1. ASSUME NEW path \in Docs \X Names, disk'[path].done, ~disk'[path].mixed
        PROVE  /\ Cardinality({k \in Slots : disk'[path].bytes[k] # NULL})
                     >= sessions[disk'[path].from].expected
               /\ sessions[disk'[path].from].checksum \in {NULL, disk'[path].bytes}
    <3>1. CASE path = P
      BY <1>3, <2>1, <3>1
    <3>2. CASE path # P
      BY <1>3, <2>1, <3>2 DEF Inv, FilesMatchUploads
    <3>3. QED
      BY <3>1, <3>2
  <2>2. QED
    BY <1>2, <2>1 DEF FilesMatchUploads
<1>10. Unfed' /\ AckedChunksKept' /\ OnlyOwnersFeed'
  BY <1>2 DEF Inv, Unfed, AckedChunksKept, OnlyOwnersFeed, Owns
<1>11. LinksAsked' /\ DownloadsInTime'
  BY <1>2 DEF Inv, LinksAsked, DownloadsInTime
<1>12. QED
  BY <1>4, <1>5, <1>7, <1>8, <1>9, <1>10, <1>11 DEF Inv

LEMMA CreateFileKnowing == ASSUME Inv, NEW p \in Requests, CreateFile(p) PROVE Inv'
<1> DEFINE P == Path(req[p])
           m == \E q \in Requests \ {p} : Writing(q, P)
           f == [bytes |-> EmptyFile, from |-> req[p].session, done |-> FALSE, mixed |-> m]
           r == [req[p] EXCEPT !.pc = "write"]
<1>1. /\ req[p] \in Request /\ Formed(req[p]) /\ Uploading(req[p], owner, sessions)
      /\ req[p].pc = "create"
  BY RequestKnows DEF CreateFile
<1>2. /\ Become(p, r) /\ disk' = [disk EXCEPT ![P] = f]
      /\ UNCHANGED <<clock, tables, arrived, faults, history>>
  BY DEF CreateFile
<1>3. m \in BOOLEAN /\ (~m => \A q \in Requests \ {p} : ~Writing(q, P))
  OBVIOUS
<1> HIDE DEF m
<1>4. P \in Docs \X Names
  BY <1>1 DEF Formed, Path
<1>5. /\ r \in Request /\ r.pc = "write" /\ r.doc = req[p].doc /\ r.name = req[p].name
      /\ r.session = req[p].session /\ r.chunks = req[p].chunks /\ r.next = req[p].next
  BY <1>1 DEF Request, PC
<1> HIDE DEF r
<1>6. /\ r.next = 0 /\ r.chunks \in Chunks /\ r.session \in Sessions
      /\ sessions[r.session] # NoSession
      /\ Cardinality(Received(r.chunks)) >= sessions[r.session].expected
      /\ sessions[r.session].checksum \in {NULL, Assembled(r.chunks)}
  BY <1>1, <1>5 DEF Formed, Uploading, Request
<1>7. 0 < Cardinality(Received(r.chunks))
  <2>1. sessions[r.session].expected \in Nat \ {0}
    BY <1>6, Row
  <2>2. Cardinality(Received(r.chunks)) \in Nat
    BY <1>6, ReceivedFinite
  <2>3. QED
    BY <1>6, <2>1, <2>2
<1>8. Formed(r) /\ Uploading(r, owner, sessions) /\ InTime(r, asked) /\ Path(r) = P
  BY <1>1, <1>4, <1>5, <1>6, <1>7 DEF Formed, Uploading, InTime, Path
<1>9. EmptyFile \in Bytes
  BY DEF EmptyFile, Bytes
<1>10. /\ f \in File /\ f.bytes = EmptyFile /\ f.from = r.session /\ f.done = FALSE
       /\ f.mixed = m
  BY <1>3, <1>5, <1>6, <1>9 DEF File
<1> HIDE DEF f, P
<1>11. EmptyFile = Prefix(r.chunks, r.next)
  <2>1. \A k \in Slots : ~(k <= 0)
    BY ReceivedFinite DEF Slots
  <2>2. QED
    BY <1>6, <2>1 DEF EmptyFile, Prefix
<1>12. QED
  BY <1>2, <1>3, <1>4, <1>5, <1>8, <1>10, <1>11, FileChanges

LEMMA WriteChunkKnowing == ASSUME Inv, NEW p \in Requests, WriteChunk(p) PROVE Inv'
<1> DEFINE P == Path(req[p])
           c == req[p].chunks
           n == Cardinality(Received(c))
           k == req[p].next + 1
           b == [disk[P].bytes EXCEPT ![k] = Assembled(c)[k]]
           d == disk[P].done \/ k = n
           f == [disk[P] EXCEPT !.bytes = b, !.done = d]
           g == IF k = n THEN "version" ELSE "write"
           r == [req[p] EXCEPT !.next = k, !.pc = g]
<1>1. /\ req[p] \in Request /\ Formed(req[p]) /\ Uploading(req[p], owner, sessions)
      /\ req[p].pc = "write"
  BY RequestKnows DEF WriteChunk
<1>2. P \in Docs \X Names /\ c \in Chunks /\ req[p].next \in Nat
  BY <1>1 DEF Formed, Path, Request
<1>3. n \in Nat /\ n <= Cardinality(Indices) /\ Cardinality(Indices) \in Nat
  BY <1>2, ReceivedFinite
<1>4. req[p].next < n
  BY <1>1 DEF Formed
<1>5. k \in Slots /\ k \in Nat /\ k <= n /\ Assembled(c) \in Bytes
  BY <1>2, <1>3, <1>4, AssembledBytes DEF Slots
<1>6. disk[P] \in File /\ disk \in [Docs \X Names -> File]
  BY <1>2 DEF Inv, TypeOK
<1>7. /\ disk' = [disk EXCEPT ![P].bytes[k] = Assembled(c)[k], ![P].done = @ \/ k = n]
      /\ Become(p, r)
      /\ UNCHANGED <<clock, tables, arrived, faults, history>>
  BY DEF WriteChunk
<1>8. disk' = [disk EXCEPT ![P] = f]
  BY <1>2, <1>6, <1>7 DEF File
<1>9. b \in Bytes /\ d \in BOOLEAN /\ (d <=> disk[P].done \/ k = n)
  BY <1>5, <1>6 DEF Bytes, File
<1>10. g \in {"version", "write"} /\ (g = "write" <=> k # n)
  OBVIOUS
<1>11. b = [disk[P].bytes EXCEPT ![k] = Assembled(c)[k]]
  OBVIOUS
<1> HIDE DEF b, d, g, k
<1>12. /\ f \in File /\ f.bytes = b /\ f.done = d /\ f.from = disk[P].from
       /\ f.mixed = disk[P].mixed
  BY <1>6, <1>9 DEF File
<1>13. /\ r \in Request /\ r.pc = g /\ r.next = k /\ r.doc = req[p].doc
       /\ r.name = req[p].name /\ r.session = req[p].session /\ r.chunks = c
  BY <1>1, <1>5, <1>10 DEF Request, PC
<1> HIDE DEF f, r
<1>14. /\ req[p].session \in Sessions /\ sessions[req[p].session] # NoSession
       /\ n >= sessions[req[p].session].expected
       /\ sessions[req[p].session].checksum \in {NULL, Assembled(c)}
  BY <1>1 DEF Uploading
<1>15. Path(r) = P /\ InTime(r, asked)
  BY <1>10, <1>13 DEF Path, InTime
<1>16. Formed(r)
  BY <1>1, <1>3, <1>5, <1>10, <1>13 DEF Formed
<1>17. Uploading(r, owner, sessions)
  BY <1>10, <1>13, <1>14 DEF Uploading
<1>18. ASSUME ~disk[P].mixed
       PROVE  /\ \A q \in Requests \ {p} : ~Writing(q, P)
              /\ disk[P].from = req[p].session /\ ~disk[P].done
              /\ b = Prefix(c, k)
  <2>1. /\ \A q \in Requests \ {p} : ~Writing(q, P)
        /\ disk[P].from = req[p].session /\ ~disk[P].done
        /\ disk[P].bytes = Prefix(c, req[p].next)
    BY <1>1, <1>18 DEF Inv, WritersAlone
  <2>2. b = Prefix(c, k)
    <3>1. \A j \in Slots : j \in Nat
      BY <1>3 DEF Slots
    <3>2. b = [[j \in Slots |-> IF j <= req[p].next THEN Assembled(c)[j] ELSE NULL]
                 EXCEPT ![k] = Assembled(c)[k]]
      BY <1>11, <2>1 DEF Prefix
    <3>3. \A j \in Slots : b[j] = IF j <= k THEN Assembled(c)[j] ELSE NULL
      BY <1>2, <1>5, <3>1, <3>2 DEF k
    <3>4. b = [j \in Slots |-> b[j]]
      BY <1>9 DEF Bytes
    <3>5. QED
      BY <3>3, <3>4 DEF Prefix
  <2>3. QED
    BY <2>1, <2>2
<1>19. ASSUME d, ~disk[P].mixed
       PROVE  /\ Cardinality({j \in Slots : b[j] # NULL}) >= sessions[req[p].session].expected
              /\ sessions[req[p].session].checksum \in {NULL, b}
  <2>1. k = n /\ b = Prefix(c, n)
    BY <1>9, <1>18, <1>19
  <2>2. b = Assembled(c) /\ Cardinality({j \in Slots : b[j] # NULL}) >= n
    BY <1>2, <2>1, WholeFile
  <2>3. Cardinality({j \in Slots : b[j] # NULL}) \in Nat
    <3>1. IsFiniteSet(1..Cardinality(Indices)) /\ {j \in Slots : b[j] # NULL} \subseteq Slots
      BY <1>3, FS_Interval
    <3>2. IsFiniteSet({j \in Slots : b[j] # NULL})
      BY <3>1, FS_Subset DEF Slots
    <3>3. QED
      BY <3>2, FS_CardinalityType
  <2>4. sessions[req[p].session].expected \in Nat
    BY <1>14, Row
  <2> DEFINE N == Cardinality({j \in Slots : b[j] # NULL})
  <2>5. N >= sessions[req[p].session].expected
    <3> HIDE DEF n, N
    <3>1. N \in Nat /\ N >= n /\ n >= sessions[req[p].session].expected
      BY <1>14, <2>2, <2>3 DEF n, N
    <3>2. QED
      BY <1>3, <2>4, <3>1
  <2>6. QED
    BY <1>14, <2>2, <2>5
<1>20. r.pc = "write" /\ ~f.mixed =>
          ~f.done /\ f.from = r.session /\ f.bytes = Prefix(r.chunks, r.next)
  BY <1>9, <1>10, <1>12, <1>13, <1>18
<1>21. f.done /\ ~f.mixed =>
          /\ f.from \in Sessions /\ sessions[f.from] # NoSession
          /\ Cardinality({j \in Slots : f.bytes[j] # NULL}) >= sessions[f.from].expected
          /\ sessions[f.from].checksum \in {NULL, f.bytes}
  BY <1>12, <1>14, <1>18, <1>19
<1>22. ~f.mixed => \A q \in Requests \ {p} : ~Writing(q, P)
  BY <1>12, <1>18
<1> HIDE DEF P, c, n
<1>23. Become(p, r) /\ disk' = [disk EXCEPT ![P] = f]
  BY <1>7, <1>8
<1>24. QED
  BY <1>2, <1>7, <1>12, <1>13, <1>15, <1>16, <1>17, <1>20, <1>21, <1>22, <1>23, FileChanges

-----------------------------------------------------------------------------
(* Share links.                                                            *)

\* What a step about a link leaves alone, given that what was asked stays asked.
LEMMA LinkChanges ==
    ASSUME Inv, NEW p \in Requests, NEW r \in Request, Become(p, r), r.pc # "write",
           Formed(r), Uploading(r, owner, sessions), InTime(r, asked'),
           UNCHANGED <<clock, owner, sessions, disk, arrived, acked>>, faults' \in Nat,
           links' \in [Tokens -> LinkRow \cup {NULL}],
           asked' \in [Tokens -> SUBSET Nat],
           told' \subseteq Tokens,
           served' \subseteq [token : Tokens, at : Nat, linked : BOOLEAN],
           \A t \in Tokens : asked[t] \subseteq asked'[t],
           LinksAsked', DownloadsInTime'
    PROVE  Inv'
<1>1. /\ req' \in [Requests -> Request] /\ req'[p] = r
      /\ \A q \in Requests \ {p} : req'[q] = req[q]
  BY DEF Become, Inv, TypeOK
<1>2. TypeOK' /\ clock' <= MaxClock
  BY <1>1 DEF Inv, TypeOK
<1>3. ASSUME NEW q \in Requests PROVE InTime(req[q], asked')
  <2>1. Formed(req[q]) /\ InTime(req[q], asked)
    BY RequestKnows
  <2>2. QED
    BY <2>1 DEF Formed, InTime
<1>4. Knowing'
  BY <1>1, <1>3, RequestKnows DEF Knowing
<1>5. WritersAlone'
  BY WritersStay
<1>6. FilesFromUploads' /\ FilesMatchUploads'
  BY DEF Inv, FilesFromUploads, FilesMatchUploads
<1>7. Unfed' /\ AckedChunksKept' /\ OnlyOwnersFeed'
  BY DEF Inv, Unfed, AckedChunksKept, OnlyOwnersFeed, Owns
<1>8. QED
  BY <1>2, <1>4, <1>5, <1>6, <1>7 DEF Inv

LEMMA LinkStepEnds ==
    ASSUME Inv, NEW p \in Requests, Finish(p),
           UNCHANGED <<clock, owner, sessions, disk, arrived, acked, asked>>, faults' \in Nat,
           links' \in [Tokens -> LinkRow \cup {NULL}],
           told' \subseteq Tokens,
           served' \subseteq [token : Tokens, at : Nat, linked : BOOLEAN],
           LinksAsked', DownloadsInTime'
    PROVE  Inv'
<1>1. /\ Idle \in Request /\ Idle.pc # "write" /\ Formed(Idle)
      /\ Uploading(Idle, owner, sessions) /\ InTime(Idle, asked')
  BY IdleKnows
<1>2. Become(p, Idle)
  BY DEF Finish
<1>3. asked' \in [Tokens -> SUBSET Nat] /\ \A t \in Tokens : asked[t] \subseteq asked'[t]
  BY DEF Inv, TypeOK
<1>4. QED
  BY <1>1, <1>2, <1>3, LinkChanges

\* A request that has saved its link, or failed to, is about to answer.
LEMMA AboutToTell ==
    ASSUME Inv, NEW p \in Requests, req[p].pc = "link"
    PROVE  LET r == [req[p] EXCEPT !.pc = "tell"] IN
           /\ r \in Request /\ r.pc # "write" /\ Formed(r)
           /\ Uploading(r, owner, sessions) /\ \A A : InTime(r, A)
<1> DEFINE r == [req[p] EXCEPT !.pc = "tell"]
<1>1. req[p] \in Request /\ Formed(req[p])
  BY RequestKnows
<1>2. /\ r \in Request /\ r.pc = "tell" /\ r.doc = req[p].doc /\ r.exp = req[p].exp
      /\ r.until = req[p].until
  BY <1>1 DEF Request, PC
<1> HIDE DEF r
<1>3. Token(r) = Token(req[p])
  BY <1>2 DEF Token
<1>4. Formed(r) /\ Uploading(r, owner, sessions) /\ \A A : InTime(r, A)
  BY <1>1, <1>2, <1>3 DEF Formed, Uploading, InTime
<1>5. QED
  BY <1>2, <1>4 DEF r

LEMMA ServedStay ==
    ASSUME Inv, served' = served, \A t \in Tokens : asked[t] \subseteq asked'[t]
    PROVE  DownloadsInTime'
<1>1. \A d \in served : d.token \in Tokens
  BY DEF Inv, TypeOK
<1>2. QED
  BY <1>1 DEF Inv, DownloadsInTime

\* The row has an expiry that was asked for before anybody can look for it.
LEMMA SaveShareLinkKnowing == ASSUME Inv, NEW p \in Requests, SaveShareLink(p) PROVE Inv'
<1> DEFINE t == Token(req[p])
           w == req[p].until
           n == IF links[t] = NULL THEN 0 ELSE links[t].count
           row == [expires |-> w, count |-> n]
           r == [req[p] EXCEPT !.pc = "tell"]
<1>1. /\ req[p].pc = "link" /\ Become(p, r)
      /\ UNCHANGED <<clock, owner, sessions, disk, arrived, faults, acked, told, served>>
      /\ \/ asked' = asked /\ links' = links
         \/ asked' = [asked EXCEPT ![t] = @ \cup {w}] /\ links' = [links EXCEPT ![t] = row]
  BY DEF SaveShareLink, SaveShareLinkFor
<1>2. /\ r \in Request /\ r.pc # "write" /\ Formed(r)
      /\ Uploading(r, owner, sessions) /\ InTime(r, asked')
  BY <1>1, AboutToTell
<1>3. t \in Tokens /\ w \in Nat /\ w <= t.exp
  BY <1>1, RequestKnows DEF Formed, Request, Token
<1>4. links \in [Tokens -> LinkRow \cup {NULL}] /\ asked \in [Tokens -> SUBSET Nat]
  BY DEF Inv, TypeOK
<1>5. n \in Nat
  BY <1>3, <1>4 DEF LinkRow
<1> HIDE DEF n
<1>6. row \in LinkRow /\ row.expires = w
  BY <1>3, <1>5 DEF LinkRow
<1> HIDE DEF row, t, w, r
<1>7. /\ asked' \in [Tokens -> SUBSET Nat] /\ (links' = links \/ w \in asked'[t])
      /\ \A y \in Tokens : asked[y] \subseteq asked'[y]
  BY <1>1, <1>3, <1>4
<1>8. /\ links' \in [Tokens -> LinkRow \cup {NULL}]
      /\ \A y \in Tokens :
             links'[y] = links[y] \/ (y = t /\ links'[y] = row /\ w \in asked'[t])
  BY <1>1, <1>3, <1>4, <1>6, <1>7
<1>9. LinksAsked'
  BY <1>3, <1>6, <1>7, <1>8 DEF Inv, LinksAsked
<1>10. DownloadsInTime'
  BY <1>1, <1>7, ServedStay
<1>11. /\ faults' \in Nat /\ told' \subseteq Tokens
       /\ served' \subseteq [token : Tokens, at : Nat, linked : BOOLEAN]
  BY <1>1 DEF Inv, TypeOK
<1>12. QED
  BY <1>1, <1>2, <1>7, <1>8, <1>9, <1>10, <1>11, LinkChanges

LEMMA ShareLinkLostKnowing == ASSUME Inv, NEW p \in Requests, ShareLinkLost(p) PROVE Inv'
<1>1. /\ req[p].pc = "link" /\ Become(p, [req[p] EXCEPT !.pc = "tell"])
      /\ UNCHANGED <<clock, tables, disk, history>> /\ arrived' \in Nat /\ faults' \in Nat
  BY DEF ShareLinkLost, Fault, Inv, TypeOK
<1>2. QED
  BY <1>1, AboutToTell, GoesOn

LEMMA TellShareLinkKnowing == ASSUME Inv, NEW p \in Requests, TellShareLink(p) PROVE Inv'
<1>1. /\ Finish(p) /\ told' = told \cup {Token(req[p])}
      /\ UNCHANGED <<clock, owner, sessions, links, disk, arrived, faults, acked, asked, served>>
  BY DEF TellShareLink, tables
<1>2. Token(req[p]) \in Tokens
  BY RequestKnows DEF TellShareLink, Formed
<1>3. /\ told' \subseteq Tokens /\ faults' \in Nat
      /\ links' \in [Tokens -> LinkRow \cup {NULL}]
      /\ served' \subseteq [token : Tokens, at : Nat, linked : BOOLEAN]
  BY <1>1, <1>2 DEF Inv, TypeOK
<1>4. LinksAsked' /\ DownloadsInTime'
  BY <1>1 DEF Inv, LinksAsked, DownloadsInTime
<1>5. QED
  BY <1>1, <1>3, <1>4, LinkStepEnds

LEMMA Delivers ==
    ASSUME Inv, NEW p \in Requests, Deliver(p)
    PROVE  /\ req[p] \in Request /\ Token(req[p]) \in Tokens /\ Finish(p)
           /\ UNCHANGED <<clock, owner, sessions, disk, arrived, acked, asked, told>>
           /\ served' \subseteq [token : Tokens, at : Nat, linked : BOOLEAN]
           /\ DownloadsInTime'
<1> DEFINE t == Token(req[p])
           x == [token |-> t, at |-> req[p].until, linked |-> req[p].linked]
<1>1. req[p] \in Request /\ Formed(req[p]) /\ InTime(req[p], asked) /\ req[p].pc = "file"
  BY RequestKnows DEF Deliver
<1>2. Finish(p) /\ UNCHANGED <<clock, owner, sessions, disk, arrived, acked, asked, told>>
  BY DEF Deliver
<1>3. served' = served \/ served' = served \cup {x}
  BY DEF Deliver
<1>4. t \in Tokens /\ t.exp = req[p].exp /\ req[p].until <= req[p].exp
  BY <1>1 DEF Formed, Token
<1>5. req[p].linked => \E e \in asked[t] : req[p].until <= e
  BY <1>1 DEF InTime
<1> HIDE DEF t
<1>6. /\ x \in [token : Tokens, at : Nat, linked : BOOLEAN]
      /\ x.token = t /\ x.at = req[p].until /\ x.linked = req[p].linked
  BY <1>1, <1>4 DEF Request
<1> HIDE DEF x
<1>7. x.at <= x.token.exp /\ (x.linked => \E e \in asked[x.token] : x.at <= e)
  BY <1>4, <1>5, <1>6
<1>8. served \subseteq [token : Tokens, at : Nat, linked : BOOLEAN]
  BY DEF Inv, TypeOK
<1>9. served' \subseteq [token : Tokens, at : Nat, linked : BOOLEAN]
  BY <1>3, <1>6, <1>8
<1>10. DownloadsInTime'
  BY <1>2, <1>3, <1>7 DEF Inv, DownloadsInTime
<1>11. QED
  BY <1>1, <1>2, <1>4, <1>9, <1>10 DEF t

LEMMA ServeKnowing == ASSUME Inv, NEW p \in Requests, Serve(p) PROVE Inv'
<1> DEFINE t == Token(req[p])
<1>1. Deliver(p) /\ faults' = faults /\ asked' = asked
  BY DEF Serve, Deliver
<1>2. /\ t \in Tokens /\ Finish(p)
      /\ UNCHANGED <<clock, owner, sessions, disk, arrived, acked, asked, told>>
      /\ served' \subseteq [token : Tokens, at : Nat, linked : BOOLEAN]
      /\ DownloadsInTime'
  BY <1>1, Delivers
<1>3. links' = links \/ (links[t] # NULL /\ links' = [links EXCEPT ![t].count = @ + 1])
  BY DEF Serve
<1>4. links \in [Tokens -> LinkRow \cup {NULL}]
  BY DEF Inv, TypeOK
<1> HIDE DEF t
<1>5. ASSUME NEW row \in LinkRow
      PROVE  LET new == [row EXCEPT !.count = @ + 1]
             IN  new \in LinkRow /\ new.expires = row.expires
  BY DEF LinkRow
<1>6. ASSUME links[t] # NULL, links' = [links EXCEPT ![t].count = @ + 1]
      PROVE  /\ links'[t] = [links[t] EXCEPT !.count = @ + 1]
             /\ \A y \in Tokens \ {t} : links'[y] = links[y]
             /\ links[t] \in LinkRow
             /\ links' = [links EXCEPT ![t] = [links[t] EXCEPT !.count = @ + 1]]
  BY <1>2, <1>4, <1>6
<1>7. /\ links' \in [Tokens -> LinkRow \cup {NULL}]
      /\ \A y \in Tokens : links'[y] # NULL =>
            links[y] # NULL /\ links'[y].expires = links[y].expires
  <2>1. CASE links' = links
    BY <1>4, <2>1
  <2>2. CASE links[t] # NULL /\ links' = [links EXCEPT ![t].count = @ + 1]
    <3> DEFINE new == [links[t] EXCEPT !.count = @ + 1]
    <3>1. /\ links[t] \in LinkRow /\ links'[t] = new
          /\ links' = [links EXCEPT ![t] = new]
          /\ \A y \in Tokens \ {t} : links'[y] = links[y]
      BY <1>6, <2>2
    <3>2. new \in LinkRow /\ new.expires = links[t].expires
      BY <1>5, <3>1
    <3> HIDE DEF new
    <3>3. QED
      BY <1>2, <1>4, <2>2, <3>1, <3>2
  <2>3. QED
    BY <1>3, <2>1, <2>2
<1>8. LinksAsked'
  BY <1>1, <1>7 DEF Inv, LinksAsked
<1>9. faults' \in Nat
  BY <1>1 DEF Inv, TypeOK
<1>10. told' \subseteq Tokens
  BY <1>2 DEF Inv, TypeOK
<1>11. QED
  BY <1>2, <1>7, <1>8, <1>9, <1>10, LinkStepEnds

LEMMA ServeUncountedKnowing == ASSUME Inv, NEW p \in Requests, ServeUncounted(p) PROVE Inv'
<1>1. Deliver(p) /\ faults' \in Nat /\ links' = links
  BY DEF ServeUncounted, Deliver, Fault, Inv, TypeOK
<1>2. /\ Finish(p)
      /\ UNCHANGED <<clock, owner, sessions, disk, arrived, acked, asked, told>>
      /\ served' \subseteq [token : Tokens, at : Nat, linked : BOOLEAN]
      /\ DownloadsInTime'
  BY <1>1, Delivers
<1>3. LinksAsked'
  BY <1>1, <1>2 DEF Inv, LinksAsked
<1>4. links' \in [Tokens -> LinkRow \cup {NULL}] /\ told' \subseteq Tokens
  BY <1>1, <1>2 DEF Inv, TypeOK
<1>5. QED
  BY <1>1, <1>2, <1>3, <1>4, LinkStepEnds

-----------------------------------------------------------------------------
(* Crashes and time.                                                       *)

LEMMA CrashKnowing == ASSUME Inv, Crash PROVE Inv'
<1>1. /\ req' = [p \in Requests |-> Idle] /\ faults' \in Nat
      /\ UNCHANGED <<clock, owner, sessions, links, disk, arrived, acked, asked, told, served>>
  BY DEF Crash, Fault, tables, history, Inv, TypeOK
<1>2. req' \in [Requests -> Request] /\ \A p \in Requests : req'[p] = Idle
  BY <1>1, IdleKnows
<1>3. TypeOK' /\ clock' <= MaxClock
  BY <1>1, <1>2 DEF Inv, TypeOK
<1>4. Knowing' /\ WritersAlone'
  BY <1>2, IdleKnows DEF Knowing, WritersAlone
<1>5. FilesFromUploads' /\ FilesMatchUploads'
  BY <1>1 DEF Inv, FilesFromUploads, FilesMatchUploads
<1>6. Unfed' /\ AckedChunksKept' /\ OnlyOwnersFeed'
  BY <1>1 DEF Inv, Unfed, AckedChunksKept, OnlyOwnersFeed, Owns
<1>7. LinksAsked' /\ DownloadsInTime'
  BY <1>1 DEF Inv, LinksAsked, DownloadsInTime
<1>8. QED
  BY <1>3, <1>4, <1>5, <1>6, <1>7 DEF Inv

LEMMA TickKnowing ==
    ASSUME Inv, Tick \/ UNCHANGED vars
    PROVE  Inv'
<1>1. /\ clock' \in Nat /\ clock' <= MaxClock
      /\ UNCHANGED <<owner, sessions, links, disk, req, arrived, faults>>
      /\ UNCHANGED <<acked, asked, told, served>>
  BY ContentAssumption DEF Tick, tables, history, vars, Inv, TypeOK
<1>2. TypeOK'
  BY <1>1 DEF Inv, TypeOK
<1>3. Knowing' /\ WritersAlone'
  BY <1>1 DEF Inv, Knowing, WritersAlone, Writing
<1>4. FilesFromUploads' /\ FilesMatchUploads'
  BY <1>1 DEF Inv, FilesFromUploads, FilesMatchUploads
<1>5. Unfed' /\ AckedChunksKept' /\ OnlyOwnersFeed'
  BY <1>1 DEF Inv, Unfed, AckedChunksKept, OnlyOwnersFeed, Owns
<1>6. LinksAsked' /\ DownloadsInTime'
  BY <1>1 DEF Inv, LinksAsked, DownloadsInTime
<1>7. QED
  BY <1>1, <1>2, <1>3, <1>4, <1>5, <1>6 DEF Inv

-----------------------------------------------------------------------------
(* The theorems.                                                           *)

LEMMA InitKnowing == Init => Inv
<1> SUFFICES ASSUME Init PROVE Inv
  OBVIOUS
<1>1. \A p \in Requests : req[p] = Idle
  BY DEF Init
<1>2. EmptyFile \in Bytes
  BY DEF EmptyFile, Bytes
<1>3. NoFile \in File /\ ~NoFile.done
  BY <1>2 DEF NoFile, File
<1>4. TypeOK /\ clock <= MaxClock
  BY <1>3, IdleKnows, ContentAssumption DEF Init, TypeOK, NoSession
<1>5. Knowing /\ WritersAlone
  BY <1>1, IdleKnows DEF Knowing, WritersAlone
<1>6. \A path \in Docs \X Names : ~disk[path].done
  BY <1>3 DEF Init
<1>7. FilesFromUploads /\ FilesMatchUploads
  BY <1>6 DEF FilesFromUploads, FilesMatchUploads
<1>8. Unfed /\ AckedChunksKept /\ OnlyOwnersFeed
  BY DEF Init, Unfed, AckedChunksKept, OnlyOwnersFeed
<1>9. LinksAsked /\ DownloadsInTime
  BY DEF Init, LinksAsked, DownloadsInTime
<1>10. QED
  BY <1>4, <1>5, <1>7, <1>8, <1>9 DEF Inv

LEMMA NextKnowing == Inv /\ [Next]_vars => Inv'
<1> SUFFICES ASSUME Inv, [Next]_vars PROVE Inv'
  OBVIOUS
<1>1. ASSUME NEW p \in Requests, BeginStart(p) \/ BeginChunk(p) \/ BeginFinalize(p)
      PROVE  Inv'
  BY <1>1, BeginStartKnowing, BeginChunkKnowing, BeginFinalizeKnowing
<1>2. ASSUME NEW p \in Requests, BeginShare(p) \/ BeginDownload(p) PROVE Inv'
  BY <1>2, BeginShareKnowing, BeginDownloadKnowing
<1>3. ASSUME NEW p \in Requests, Upload(p) PROVE Inv'
  BY <1>3, UpsertContentItemKnowing, InsertSessionKnowing, ReadForChunkKnowing,
     SaveChunkKnowing, ReadForFinalizeKnowing, CreateFileKnowing, WriteChunkKnowing,
     AddDocumentVersionKnowing DEF Upload
<1>4. ASSUME NEW p \in Requests, Share(p) PROVE Inv'
  BY <1>4, SaveShareLinkKnowing, TellShareLinkKnowing, CheckShareLinkKnowing, ServeKnowing
     DEF Share
<1>5. ASSUME NEW p \in Requests,
             Abort(p) \/ ShareLinkLost(p) \/ LookupFails(p) \/ ServeUncounted(p)
      PROVE  Inv'
  BY <1>5, AbortKnowing, ShareLinkLostKnowing, LookupFailsKnowing, ServeUncountedKnowing
<1>6. CASE Crash
  BY <1>6, CrashKnowing
<1>7. CASE Tick \/ UNCHANGED vars
  BY <1>7, TickKnowing
<1>8. QED
  BY <1>1, <1>2, <1>3, <1>4, <1>5, <1>6, <1>7 DEF Next

LEMMA Invariant == Spec => []Inv
BY InitKnowing, NextKnowing, PTL DEF Spec

\* Every table, file and request in flight of content.go keeps its type.
THEOREM TypeCorrect == Spec => []TypeOK
BY Invariant, PTL DEF Inv

\* A chunk AppendChunk acknowledged stays in its session unless a chunk of the
\* same upload was read before it and saved after it.
THEOREM ChunksKept == Spec => []AckedChunksKept
BY Invariant, PTL DEF Inv

\* Who feeds an upload owns its document or is an admin, however long the
\* check of the owner lies behind the save.
THEOREM OwnersFeed == Spec => []OnlyOwnersFeed
BY Invariant, PTL DEF Inv

\* A file FinalizeUpload wrote to the end, with no other request writing it,
\* has the chunks and the checksum its upload declared.
THEOREM FilesRight == Spec => []FilesMatchUploads
BY Invariant, PTL DEF Inv

\* DownloadShared serves nothing it found in time later than the token's expiry
\* nor, if the link has a row, later than every expiry asked for it, whatever fails
\* between saving a row and answering its client.
THEOREM LinksEnd == Spec => []DownloadsInTime
BY Invariant, PTL DEF Inv

-----------------------------------------------------------------------------
(* Requests one at a time.                                                 *)

OneSlot == \A p, q \in Requests : p = q

\* No save was overtaken and no file had two writers.
Untouched ==
    /\ \A s \in Sessions : sessions[s] # NoSession => ~sessions[s].stale
    /\ \A path \in Docs \X Names : ~disk[path].mixed

\* Every acknowledged chunk is in its session, and every finished file has the
\* chunks and the checksum its upload declared.
UploadsExact ==
    /\ \A s \in Sessions : \A a \in acked[s] : sessions[s].chunks[a[1]] # NULL
    /\ \A path \in Docs \X Names : disk[path].done =>
          LET row == sessions[disk[path].from] IN
          /\ Cardinality({k \in Slots : disk[path].bytes[k] # NULL}) >= row.expected
          /\ row.checksum \in {NULL, disk[path].bytes}

LEMMA SessionsUntouched ==
    ASSUME OneSlot, Inv, Untouched, [Next]_vars,
           NEW s \in Sessions, sessions'[s] # NoSession
    PROVE  ~sessions'[s].stale
<1>1. sessions \in [Sessions -> SessionRow \cup {NoSession}]
  BY DEF Inv, TypeOK
<1>2. ASSUME NEW p \in Requests, InsertSession(p) PROVE ~sessions'[s].stale
  <2>1. CASE sessions' = sessions
    BY <2>1 DEF Untouched
  <2>2. CASE sessions' # sessions
    <3>1. PICK t \in Sessions, e \in ChunkCounts, c \in Checksums :
             sessions' = [sessions EXCEPT ![t] =
                [doc |-> req[p].doc, name |-> req[p].name, expected |-> e,
                 checksum |-> c, chunks |-> NoChunks, stale |-> FALSE]]
      BY <1>2, <2>2 DEF InsertSession
    <3>2. CASE s = t
      BY <1>1, <3>1, <3>2
    <3>3. CASE s # t
      BY <1>1, <3>1, <3>3 DEF Untouched
    <3>4. QED
      BY <3>2, <3>3
  <2>3. QED
    BY <2>1, <2>2
<1>3. ASSUME NEW p \in Requests, SaveChunk(p) PROVE ~sessions'[s].stale
  <2> DEFINE t == req[p].session
  <2>1. t \in Sessions /\ sessions[t] # NoSession
    BY <1>3, RequestKnows DEF SaveChunk, Uploading, Formed
  <2>2. ~Overlapped(p)
    BY DEF OneSlot, Overlapped
  <2>3. sessions' = [sessions EXCEPT
          ![t].chunks = [req[p].chunks EXCEPT ![req[p].index] = req[p].datum],
          ![t].stale = @ \/ Overlapped(p)]
    BY <1>3 DEF SaveChunk
  <2>4. sessions[t] \in SessionRow
    BY <1>1, <2>1
  <2>5. CASE s = t
    <3>1. sessions'[s].stale = (sessions[s].stale \/ Overlapped(p))
      BY <1>1, <2>1, <2>3, <2>4, <2>5 DEF SessionRow
    <3>2. QED
      BY <2>1, <2>2, <2>5, <3>1 DEF Untouched
  <2>6. CASE s # t
    BY <1>1, <2>3, <2>6 DEF Untouched
  <2>7. QED
    BY <2>5, <2>6
<1>4. ASSUME sessions' = sessions PROVE ~sessions'[s].stale
  BY <1>4 DEF Untouched
<1>5. ASSUME NEW p \in Requests, Upload(p) PROVE ~sessions'[s].stale
  <2>1. ~(InsertSession(p) \/ SaveChunk(p)) => sessions' = sessions
    BY <1>5
       DEF Upload, UpsertContentItem, ReadForChunk, ReadForFinalize, CreateFile, WriteChunk,
           AddDocumentVersion, tables
  <2>2. QED
    BY <1>2, <1>3, <1>4, <2>1
<1>6. ASSUME NEW p \in Requests,
             \/ BeginStart(p) \/ BeginChunk(p) \/ BeginFinalize(p)
             \/ BeginShare(p) \/ BeginDownload(p)
      PROVE  ~sessions'[s].stale
  BY <1>4, <1>6
     DEF BeginStart, BeginChunk, BeginFinalize, BeginShare, BeginDownload, Arrive, tables
<1>7. ASSUME NEW p \in Requests,
             Share(p) \/ Abort(p) \/ ShareLinkLost(p) \/ LookupFails(p) \/ ServeUncounted(p)
      PROVE  ~sessions'[s].stale
  BY <1>4, <1>7
     DEF Share, SaveShareLink, SaveShareLinkFor, TellShareLink, CheckShareLink, Serve,
         ServeUncounted, Deliver, Abort, ShareLinkLost, LookupFails, tables
<1>8. CASE Crash \/ Tick \/ UNCHANGED vars
  BY <1>4, <1>8 DEF Crash, Tick, vars, tables
<1>9. QED
  BY <1>5, <1>6, <1>7, <1>8 DEF Next

LEMMA FilesUntouched ==
    ASSUME OneSlot, Inv, Untouched, [Next]_vars, NEW path \in Docs \X Names
    PROVE  ~disk'[path].mixed
<1>1. disk \in [Docs \X Names -> File]
  BY DEF Inv, TypeOK
<1>2. ASSUME NEW p \in Requests, CreateFile(p) PROVE ~disk'[path].mixed
  <2> DEFINE at == Path(req[p])
             new == [bytes |-> EmptyFile, from |-> req[p].session, done |-> FALSE,
                     mixed |-> \E q \in Requests \ {p} : Writing(q, Path(req[p]))]
  <2>1. disk' = [disk EXCEPT ![at] = new]
    BY <1>2 DEF CreateFile
  <2>2. ~new.mixed
    BY DEF OneSlot
  <2> HIDE DEF new
  <2>3. CASE path = at
    BY <1>1, <2>1, <2>2, <2>3
  <2>4. CASE path # at
    BY <1>1, <2>1, <2>4 DEF Untouched
  <2>5. QED
    BY <2>3, <2>4
<1>3. ASSUME NEW p \in Requests, WriteChunk(p) PROVE ~disk'[path].mixed
  <2> DEFINE k == req[p].next + 1
             at == Path(req[p])
             last == k = Cardinality(Received(req[p].chunks))
  <2>1. disk' = [disk EXCEPT ![at].bytes[k] = Assembled(req[p].chunks)[k],
                             ![at].done = @ \/ last]
    BY <1>3 DEF WriteChunk
  <2> HIDE DEF k, last
  <2>2. disk[path] \in File
    BY <1>1
  <2>3. disk'[path].mixed = disk[path].mixed
    BY <1>1, <2>1, <2>2 DEF File
  <2>4. QED
    BY <2>3 DEF Untouched
<1>4. ASSUME disk' = disk PROVE ~disk'[path].mixed
  BY <1>4 DEF Untouched
<1>5. ASSUME NEW p \in Requests, Upload(p) PROVE ~disk'[path].mixed
  <2>1. ~(CreateFile(p) \/ WriteChunk(p)) => disk' = disk
    BY <1>5
       DEF Upload, UpsertContentItem, InsertSession, ReadForChunk, SaveChunk, ReadForFinalize,
           AddDocumentVersion
  <2>2. QED
    BY <1>2, <1>3, <1>4, <2>1
<1>6. ASSUME NEW p \in Requests,
             \/ BeginStart(p) \/ BeginChunk(p) \/ BeginFinalize(p)
             \/ BeginShare(p) \/ BeginDownload(p)
      PROVE  ~disk'[path].mixed
  BY <1>4, <1>6
     DEF BeginStart, BeginChunk, BeginFinalize, BeginShare, BeginDownload, Arrive
<1>7. ASSUME NEW p \in Requests,
             Share(p) \/ Abort(p) \/ ShareLinkLost(p) \/ LookupFails(p) \/ ServeUncounted(p)
      PROVE  ~disk'[path].mixed
  BY <1>4, <1>7
     DEF Share, SaveShareLink, SaveShareLinkFor, TellShareLink, CheckShareLink, Serve,
         ServeUncounted, Deliver, Abort, ShareLinkLost, LookupFails
<1>8. CASE Crash \/ Tick \/ UNCHANGED vars
  BY <1>4, <1>8 DEF Crash, Tick, vars
<1>9. QED
  BY <1>5, <1>6, <1>7, <1>8 DEF Next

\* Where requests do not overlap, the two exceptions are never met: no chunk
\* AppendChunk acknowledged is lost and no file FinalizeUpload finished differs
\* from its upload, through errors and crashes at every statement.
THEOREM SerialUploads ==
    ASSUME OneSlot
    PROVE  Spec => []UploadsExact
<1>1. Init => Untouched
  BY DEF Init, Untouched, NoFile
<1>2. Inv /\ Untouched /\ [Next]_vars => Untouched'
  BY SessionsUntouched, FilesUntouched DEF Untouched
<1>3. Inv /\ Untouched => UploadsExact
  BY DEF Inv, Untouched, UploadsExact, Unfed, AckedChunksKept, FilesMatchUploads
<1>4. QED
  BY <1>1, <1>2, <1>3, Invariant, PTL DEF Spec
=============================================================================
