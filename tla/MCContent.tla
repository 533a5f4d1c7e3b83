----------------------------- MODULE MCContent ------------------------------
(* Instances of Content for TLC.                                           *)
EXTENDS Content, TLC

CONSTANTS ann, bob, root, doc, handbook, pdf, exe, s1, s2, x, y

\* The checksum of the chunks x and y, in this order, or none.
DeclaredChecksums == {NULL, [k \in Slots |-> IF k = 1 THEN x ELSE y]}

\* A state that two StartUploads and three chunks of ann lead to: one upload has
\* all its chunks, the other, of the same file, lacks the second chunk and
\* declared a checksum.
Started ==
    LET xy == CHOOSE c \in DeclaredChecksums : c # NULL
        upload(c, second) ==
            [doc |-> doc, name |-> pdf, expected |-> 2, checksum |-> c, stale |-> FALSE,
             chunks |-> [i \in Indices |-> IF i = 0 THEN x ELSE second]]
    IN  /\ clock = 0
        /\ owner = [d \in Docs |-> ann]
        /\ sessions = [s \in Sessions |-> IF s = s1 THEN upload(NULL, y) ELSE upload(xy, NULL)]
        /\ disk = [path \in Docs \X Names |-> NoFile]
        /\ links = [t \in Tokens |-> NULL]
        /\ req = [p \in Requests |-> Idle]
        /\ arrived = 0
        /\ faults = 0
        /\ acked = [s \in Sessions |-> IF s = s1 THEN Indices \X {ann} ELSE {<<0, ann>>}]
        /\ asked = [t \in Tokens |-> {}]
        /\ told = {}
        /\ served = {}

MCSpec == (Init \/ Started) /\ [][Next]_vars

\* Uploads do not read the clock: time passes once there is a link.
TimeMatters == clock > 0 => told # {} \/ \E p \in Requests : req[p].pc = "tell"

Symmetry == Permutations(Requests)
=============================================================================
