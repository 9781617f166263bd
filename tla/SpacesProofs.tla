------------------------------ MODULE SpacesProofs ------------------------------
(***************************************************************************)
(* Proofs about the files, the wiki, the task boards and the calendar of a *)
(* space (SpaceFiles, WikiTree, Boards and Calendar), for every set of     *)
(* people, names, texts and workers, for every limit and every scenario.   *)
(* Files: their types, that every row has its blob and every blob its row, *)
(* that the limit holds, and that the folders are a tree.  Wiki: its       *)
(* types, that a live page can be reached, that the versions of a page     *)
(* have no gap, and that no text is lost.  Boards: their types, that a     *)
(* task lies in a column that is there, and that its activity leads to     *)
(* where it is.  Calendar: its types, with the keys of its tables.         *)
(***************************************************************************)
EXTENDS SpaceFiles, WikiTree, Boards, Calendar, RequestsProofs, WellFoundedInduction

-----------------------------------------------------------------------------
(* The files: what their jobs may be *)

ByOps == {"folder", "upload", "upload init", "version", "version init", "revert", "update",
          "delete", "grant", "ungrant"}
InFolder == {"folder", "upload", "upload init"}
OfFile == {"version", "version init", "revert", "update", "delete", "grant", "ungrant"}

\* The fields of a request, and of the job that serves it.
Fields(r) ==
  /\ "op" \in DOMAIN r
  /\ r.op \in InFolder \cup OfFile \cup {"chunk", "complete"}
  /\ "upload" \in DOMAIN r <=> r.op \in {"chunk", "complete"}
  /\ "upload" \in DOMAIN r => r.upload \in Nat
  /\ "file" \in DOMAIN r <=> r.op \in OfFile
  /\ "file" \in DOMAIN r => r.file \in Nat
  /\ r.op \in InFolder \cup OfFile => "by" \in DOMAIN r /\ r.by \in SpaceMembers
  /\ "parent" \in DOMAIN r <=> r.op \in InFolder \cup {"update"}
  /\ "parent" \in DOMAIN r => r.parent \in Nat
  /\ r.op \in InFolder => "name" \in DOMAIN r /\ r.name \in FileNames
  /\ r.op = "update" => "name" \in DOMAIN r /\ r.name \in FileNames \cup {Keep}
  /\ r.op \in {"upload init", "version init"} => "chunks" \in DOMAIN r /\ r.chunks \in SUBSET Nat
  /\ r.op = "grant" => "level" \in DOMAIN r /\ r.level \in {View, Edit, Own}
  /\ r.op \in {"grant", "ungrant"} => "of" \in DOMAIN r /\ r.of \in SpaceMembers

-----------------------------------------------------------------------------
(* The invariant *)

\* The places of each handler after its check.
Places(op) ==
  CASE op = "folder" -> {"row"}
    [] op = "upload" -> {"put", "row"}
    [] op \in {"upload init", "version init"} -> {"session"}
    [] op = "chunk" -> {"part", "record"}
    [] op = "complete" -> {"assemble", "row", "number", "version", "drop"}
    [] op = "version" -> {"put", "number", "version"}
    [] op = "revert" -> {"number", "version"}
    [] op = "update" -> {"rename", "check move", "move"}
    [] op = "delete" -> {"rows", "blobs"}
    [] OTHER -> {"set"}

\* What is true of a worker that serves j when it goes on to a place, and when
\* it is there.
MayGo(j, place, saw, drawn) ==
  /\ place \in Places(j.op)
  /\ place = "session" /\ j.op = "upload init" => j.parent \in 0 .. Len(files)
  /\ place = "rename" => j.name # Keep
  /\ place = "row" /\ j.op # "folder" => saw \in 1 .. drawn
  /\ place = "number" => saw \in 1 .. drawn
  /\ place = "blobs" => saw \subseteq 0 .. drawn
  /\ place = "version" => saw.blob \in 1 .. drawn /\ saw.number \in Nat \ {0}
  /\ j.op = "complete" /\ place = "row" => uploads[j.upload].file = 0
  /\ j.op = "complete" /\ place \in {"number", "version"} => uploads[j.upload].file # 0
FitsAt(j, place, saw) ==
  /\ "file" \in DOMAIN j => j.file \in DOMAIN files
  /\ "upload" \in DOMAIN j => j.upload \in DOMAIN uploads
  /\ place = "check" \/ MayGo(j, place, saw, minted)
Fits(j) == j # Free => FitsAt(j, j.at, j.saw)

NewFilesNamed == \A u \in DOMAIN uploads : uploads[u].file = 0 => uploads[u].name \in FileNames

Typed ==
  /\ Pool /\ calls.requests \subseteq FileRequests
  /\ FileTypes /\ NewFilesNamed
  /\ \A w \in Threads : Fits(job[w])

\* The file that a version is for.
Target(j) == IF j.op = "complete" THEN uploads[j.upload].file ELSE j.file

\* The blobs that a worker has yet to give a row, ...
Fresh(j) ==
  IF \/ j.op \in {"upload", "complete"} /\ j.at = "row"
     \/ j.op \in {"version", "complete"} /\ j.at = "number"
  THEN {j.saw}
  ELSE IF j.op \in {"version", "complete"} /\ j.at = "version" THEN {j.saw.blob} ELSE {}
\* ... those it has yet to remove, and the one it reverts to.
Doomed(j) == IF j.op = "delete" /\ j.at = "blobs" THEN j.saw ELSE {}
Reverted(j) ==
  IF j.op = "revert" /\ j.at = "number" THEN {j.saw}
  ELSE IF j.op = "revert" /\ j.at = "version" THEN {j.saw.blob} ELSE {}

HasBlob(f, b) == \E v \in versions : v.file = f /\ v.blob = b
\* Versions are numbered without gaps, and only those of one file share a blob.
Numbered ==
  /\ \A f \in DOMAIN files : \E n \in {0} \cup Numbers(f) : Numbers(f) = 1 .. n
  /\ \A v, x \in versions : v.blob = x.blob => v.file = x.file
RowsHaveBlobs ==
  /\ \A v \in versions : There(v.file) /\ v.blob \in blobs
  /\ \A f \in DOMAIN files : There(f) /\ files[f].blob # 0 => HasBlob(f, files[f].blob)
ShowsNewest ==
  \A v \in versions : (\A x \in versions : x.file = v.file => x.number <= v.number)
                        => files[v.file].blob = v.blob
\* What a worker holds is in the storage and in no version, and nobody else's.
Holds(w) ==
  /\ Fresh(job[w]) \subseteq blobs
  /\ \A v \in versions : v.blob \notin Fresh(job[w]) \cup Doomed(job[w])
  /\ \A x \in Threads \ {w} : Fresh(job[w]) \cap (Fresh(job[x]) \cup Doomed(job[x])) = {}
Follows(j) ==
  /\ \A b \in Reverted(j) : There(j.file) => HasBlob(j.file, b)
  /\ j.at = "version" /\ There(Target(j)) => 1 .. (j.saw.number - 1) \subseteq Numbers(Target(j))
BlobsAccounted ==
  \A b \in blobs : \/ b \in spilled
                   \/ \E v \in versions : v.blob = b
                   \/ \E w \in Threads : b \in Fresh(job[w]) \cup Doomed(job[w])

StoreMatches ==
  /\ Numbered /\ RowsHaveBlobs /\ ShowsNewest /\ BlobsAccounted
  /\ \A w \in Threads : Holds(w) /\ Follows(job[w])

\* Who was let in by the limit in one piece, and the uploads in chunks that may still bring a version.
LetIn == {w \in Threads : job[w].op \in {"upload", "version"} /\ job[w].at # "check"}
Brings(w, u) == job[w].op = "complete" /\ job[w].at \in {"row", "number", "version"} /\ job[w].upload = u
Coming == {u \in DOMAIN uploads : uploads[u].staged \/ \E w \in Threads : Brings(w, u)}
OneBrings ==
  \A w \in Threads, u \in DOMAIN uploads :
    Brings(w, u) => ~uploads[u].staged /\ \A x \in Threads \ {w} : ~Brings(x, u)
WithinLimit ==
  /\ OneBrings
  /\ Cardinality(versions) + Cardinality(LetIn) + Cardinality(Coming)
       <= SpaceLimit + calls.atOnce - 1 + again + Len(uploads)

-----------------------------------------------------------------------------
(* A step of one worker *)

LEMMA RequestFields ==
  ASSUME NEW r \in FileRequests
  PROVE  Fields(r) /\ r = [f \in DOMAIN r |-> r[f]] /\ {"at", "saw"} \cap DOMAIN r = {}
<1>1. Fields(r)
  BY DEF FileRequests, Fields, ByOps, InFolder, OfFile
<1>2. r = [f \in DOMAIN r |-> r[f]] /\ {"at", "saw"} \cap DOMAIN r = {}
  BY DEF FileRequests
<1> QED BY <1>1, <1>2

LEMMA JobFields ==
  ASSUME Typed, NEW w \in Threads, job[w] # Free
  PROVE  Fields(job[w]) /\ IsJob(job[w])
<1> DEFINE r == Asked(job[w])
<1>1. r \in FileRequests /\ IsJob(job[w])
  BY DEF Typed, Pool, Engaged
<1>2. Fields(r)
  BY <1>1, RequestFields
<1>3. /\ \A f \in DOMAIN r : job[w][f] = r[f] /\ f \in DOMAIN job[w]
      /\ \A f \in DOMAIN job[w] \ {"at", "saw"} : f \in DOMAIN r
  BY DEF Asked
<1>4. /\ "file" \in DOMAIN r <=> "file" \in DOMAIN job[w]
      /\ "upload" \in DOMAIN r <=> "upload" \in DOMAIN job[w]
      /\ "parent" \in DOMAIN r <=> "parent" \in DOMAIN job[w]
      /\ "op" \in DOMAIN job[w] /\ job[w].op = r.op
  BY <1>2, <1>3 DEF Fields
<1>5. /\ "file" \in DOMAIN r => job[w].file = r.file
      /\ "upload" \in DOMAIN r => job[w].upload = r.upload
      /\ "parent" \in DOMAIN r => job[w].parent = r.parent
      /\ "by" \in DOMAIN r => job[w].by = r.by /\ "by" \in DOMAIN job[w]
      /\ "name" \in DOMAIN r => job[w].name = r.name /\ "name" \in DOMAIN job[w]
      /\ "chunks" \in DOMAIN r => job[w].chunks = r.chunks /\ "chunks" \in DOMAIN job[w]
      /\ "level" \in DOMAIN r => job[w].level = r.level /\ "level" \in DOMAIN job[w]
      /\ "of" \in DOMAIN r => job[w].of = r.of /\ "of" \in DOMAIN job[w]
  BY <1>3
<1> HIDE DEF r
<1> QED BY <1>1, <1>2, <1>4, <1>5 DEF Fields

\* Nothing that has been drawn or numbered disappears.
Grows ==
  /\ Len(files) <= Len(files') /\ minted <= minted'
  /\ \A u \in DOMAIN uploads : u \in DOMAIN uploads' /\ uploads'[u].file = uploads[u].file

LEMMA Lengths ==
  ASSUME FileTypes
  PROVE  /\ DOMAIN files = 1 .. Len(files) /\ Len(files) \in Nat
         /\ DOMAIN uploads = 1 .. Len(uploads) /\ Len(uploads) \in Nat
         /\ minted \in Nat /\ again \in Nat
  BY DEF FileTypes

LEMMA Rows ==
  ASSUME FileTypes
  PROVE  /\ \A f \in DOMAIN files : files[f] \in FileRows
         /\ \A u \in DOMAIN uploads : uploads[u] \in UploadRows
  BY DEF FileTypes

LEMMA StillFits ==
  ASSUME Typed, FileTypes', Grows, NEW v \in Threads, job'[v] = job[v]
  PROVE  Fits(job[v])'
<1>1. SUFFICES ASSUME job[v] # Free PROVE FitsAt(job[v], job[v].at, job[v].saw)'
  BY DEF Fits
<1>2. Fields(job[v]) /\ FitsAt(job[v], job[v].at, job[v].saw)
  BY <1>1, JobFields DEF Typed, Fits
<1>3. /\ DOMAIN files = 1 .. Len(files) /\ Len(files) \in Nat /\ minted \in Nat
      /\ DOMAIN files' = 1 .. Len(files') /\ Len(files') \in Nat /\ minted' \in Nat
  BY Lengths DEF Typed, FileTypes
<1>4. DOMAIN files \subseteq DOMAIN files'
  BY <1>3 DEF Grows
<1>5. /\ 1 .. minted \subseteq 1 .. minted' /\ 0 .. minted \subseteq 0 .. minted'
      /\ 0 .. Len(files) \subseteq 0 .. Len(files')
  BY <1>3 DEF Grows
<1>6. job[v].op = "complete" => job[v].upload \in DOMAIN uploads
  BY <1>2 DEF Fields, FitsAt
<1> QED BY <1>2, <1>4, <1>5, <1>6 DEF FitsAt, MayGo, Grows

\* The types after a step of w, from what it does to w and to the tables.
LEMMA TypesKept ==
  ASSUME Typed, NEW w \in Threads, Moves(w), FileTypes', NewFilesNamed', Grows, Fits(job[w])'
  PROVE  Typed'
<1>1. Pool' /\ \A v \in Threads \ {w} : job'[v] = job[v]
  BY MoveKeepsPool DEF Typed
<1>2. calls' = calls
  BY DEF Moves
<1>3. \A v \in Threads : Fits(job[v])'
  BY <1>1, StillFits
<1> QED BY <1>1, <1>2, <1>3 DEF Typed

LEMMA Serving ==
  ASSUME Typed, NEW w \in Threads, job[w].at # "none"
  PROVE  /\ job[w] # Free /\ Fields(job[w]) /\ IsJob(job[w])
         /\ FitsAt(job[w], job[w].at, job[w].saw)
<1>1. job[w] # Free
  BY DEF Free
<1> QED BY <1>1, JobFields DEF Typed, Fits

\* How the job of w goes on: it keeps the request, and what has become of the
\* tables is for its step to say.
GoesTo(w, place, saw) ==
  /\ job'[w].at = place /\ job'[w].saw = saw /\ DOMAIN job'[w] = DOMAIN job[w]
  /\ \A f \in DOMAIN job[w] \ {"at", "saw"} : job'[w][f] = job[w][f]

LEMMA GoingOn ==
  ASSUME Typed, NEW w \in Threads, job[w].at # "none", NEW place, place # "none"
  PROVE  /\ Proceed(w, place) => Moves(w) /\ GoesTo(w, place, job[w].saw)
         /\ \A saw : Recall(w, place, saw) => Moves(w) /\ GoesTo(w, place, saw)
         /\ Respond(w) => Moves(w) /\ job'[w] = Free
<1>1. job[w] # Free /\ IsJob(job[w]) /\ Pool
  BY Serving DEF Typed
<1>2. ASSUME Proceed(w, place) PROVE Moves(w) /\ GoesTo(w, place, job[w].saw)
  <2>1. /\ Moves(w) /\ job'[w].at = place /\ DOMAIN job'[w] = DOMAIN job[w]
        /\ \A f \in DOMAIN job[w] \ {"at"} : job'[w][f] = job[w][f]
    BY <1>1, <1>2, Proceeding
  <2> QED BY <1>1, <2>1 DEF GoesTo, IsJob
<1>3. ASSUME NEW saw, Recall(w, place, saw) PROVE Moves(w) /\ GoesTo(w, place, saw)
  BY <1>1, <1>3, Recalling DEF GoesTo
<1>4. ASSUME Respond(w) PROVE Moves(w) /\ job'[w] = Free
  BY <1>1, <1>4, Responding
<1> QED BY <1>2, <1>3, <1>4

\* A job that goes on fits where it goes.
LEMMA GoneFits ==
  ASSUME Typed, FileTypes', Grows, NEW w \in Threads, job[w].at # "none",
         NEW place, NEW saw, GoesTo(w, place, saw), MayGo(job[w], place, saw, minted')
  PROVE  Fits(job[w])'
<1> DEFINE j == job[w]
<1> DEFINE k == job'[w]
<1>1. Fields(j) /\ FitsAt(j, j.at, j.saw)
  BY Serving
<1>2. k.op = j.op /\ DOMAIN k = DOMAIN j /\ k.at = place /\ k.saw = saw
  BY <1>1 DEF GoesTo, Fields
<1>3. "file" \in DOMAIN j => k.file = j.file
  BY DEF GoesTo
<1>4. "upload" \in DOMAIN j => k.upload = j.upload
  BY DEF GoesTo
<1>5. j.op = "upload init" => k.parent = j.parent
  BY <1>1 DEF GoesTo, Fields, InFolder
<1>5a. j.op = "update" => k.name = j.name
  BY <1>1 DEF GoesTo, Fields
<1>6. /\ DOMAIN files = 1 .. Len(files) /\ Len(files) \in Nat
      /\ DOMAIN files' = 1 .. Len(files') /\ Len(files') \in Nat
  BY Lengths DEF Typed, FileTypes
<1>7. DOMAIN files \subseteq DOMAIN files' /\ 0 .. Len(files) \subseteq 0 .. Len(files')
  BY <1>6 DEF Grows
<1>8. "file" \in DOMAIN k => k.file \in DOMAIN files'
  BY <1>1, <1>2, <1>3, <1>7 DEF FitsAt
<1>9. "upload" \in DOMAIN k => k.upload \in DOMAIN uploads'
  BY <1>1, <1>2, <1>4 DEF FitsAt, Grows
<1>10. j.op = "complete" => uploads'[k.upload].file = uploads[j.upload].file
  BY <1>1, <1>4 DEF FitsAt, Fields, Grows
<1>11. MayGo(job[w], job[w].at, job[w].saw, minted)'
  BY <1>2, <1>5, <1>7, <1>10, <1>5a DEF MayGo, Places
<1> QED BY <1>8, <1>9, <1>11 DEF Fits, FitsAt

\* A step that writes no row and moves w on, or ends it, keeps the types.
LEMMA ReadKeepsTypes ==
  ASSUME Typed, NEW w \in Threads, job[w].at # "none", Moves(w), UNCHANGED fileTables,
         \/ job'[w] = Free
         \/ \E place, saw : GoesTo(w, place, saw) /\ MayGo(job[w], place, saw, minted)
  PROVE  Typed' /\ Grows
<1>1. FileTypes' /\ NewFilesNamed' /\ Grows /\ minted' = minted
  BY DEF Typed, FileTypes, FileRows, VersionRows, GrantRows, UploadRows, NewFilesNamed, Grows,
         fileTables
<1>2. Fits(job[w])'
  <2>1. CASE job'[w] = Free
    BY <2>1 DEF Fits
  <2>2. CASE \E place, saw : GoesTo(w, place, saw) /\ MayGo(job[w], place, saw, minted)
    BY <1>1, <2>2, GoneFits
  <2> QED BY <2>1, <2>2
<1> QED BY <1>1, <1>2, TypesKept

-----------------------------------------------------------------------------
(* Steps that leave versions and blobs alone *)

\* A worker that owes the store nothing.
Untied(j) == Fresh(j) = {} /\ Doomed(j) = {} /\ Reverted(j) = {} /\ j.at # "version"

\* Rows keep their blobs and stay, and new ones have none.
SameContents ==
  /\ UNCHANGED <<versions, blobs, spilled>>
  /\ \A f \in DOMAIN files : files'[f].here = files[f].here /\ files'[f].blob = files[f].blob
  /\ \A f \in DOMAIN files' \ DOMAIN files : files'[f].blob = 0

\* What a step of w leaves to the others.
Apart(w) == (\A v \in Threads \ {w} : job'[v] = job[v]) /\ calls'.atOnce = calls.atOnce

LEMMA MoveApart ==
  ASSUME Typed, NEW w \in Threads, Moves(w)
  PROVE  Apart(w)
  BY MoveKeepsPool DEF Typed, Moves, Apart

LEMMA FreeUntied == Untied(Free)
  BY DEF Untied, Free, Fresh, Doomed, Reverted

\* A worker that pauses, as far as the store goes.
LEMMA OthersFollow ==
  ASSUME Typed, FileTypes', Grows, NEW v \in Threads, job'[v] = job[v], Follows(job[v]),
         \A f \in DOMAIN files : There(f)' => There(f),
         \A f \in DOMAIN files : There(f)' => VersionsOf(f) \subseteq VersionsOf(f)'
  PROVE  Follows(job[v])'
<1>1. CASE job[v] = Free
  BY <1>1 DEF Free, Follows, Reverted
<1>2. CASE job[v] # Free
  <2> DEFINE j == job[v]
  <2>1. Fields(j) /\ FitsAt(j, j.at, j.saw)
    BY <1>2, JobFields DEF Typed, Fits
  <2>2. /\ DOMAIN files = 1 .. Len(files) /\ Len(files) \in Nat
        /\ DOMAIN files' = 1 .. Len(files') /\ Len(files') \in Nat
    BY Lengths DEF Typed, FileTypes
  <2>3. ASSUME NEW b \in Reverted(j), There(j.file)' PROVE HasBlob(j.file, b)'
    <3>1. j.op = "revert"
      BY <2>3 DEF Reverted
    <3>2. j.file \in DOMAIN files
      BY <2>1, <3>1 DEF Fields, FitsAt, OfFile
    <3>3. HasBlob(j.file, b)
      BY <2>3, <3>2 DEF Follows
    <3> QED BY <2>3, <3>2, <3>3 DEF HasBlob, VersionsOf
  <2>4. ASSUME j.at = "version", There(Target(j))'
        PROVE  1 .. (j.saw.number - 1) \subseteq Numbers(Target(j))'
    <3>1. Target(j)' = Target(j)
      BY <2>1 DEF Target, FitsAt, Fields, Grows
    <3>2. Target(j) \in DOMAIN files
      <4>1. CASE j.op = "complete"
        <5>1. j.upload \in DOMAIN uploads /\ uploads[j.upload].file # 0
          BY <2>1, <2>4, <4>1 DEF FitsAt, MayGo, Fields
        <5>2. uploads[j.upload].file \in 0 .. Len(files)
          BY <5>1, Rows DEF Typed, UploadRows
        <5> QED BY <2>2, <4>1, <5>1, <5>2 DEF Target
      <4>2. CASE j.op # "complete"
        BY <2>1, <2>4, <4>2 DEF FitsAt, MayGo, Fields, Places, OfFile, InFolder, Target
      <4> QED BY <4>1, <4>2
    <3>3. There(Target(j)) /\ VersionsOf(Target(j)) \subseteq VersionsOf(Target(j))'
      BY <2>4, <3>1, <3>2
    <3>4. 1 .. (j.saw.number - 1) \subseteq Numbers(Target(j))
      BY <2>4, <3>3 DEF Follows
    <3> QED BY <3>1, <3>3, <3>4 DEF Numbers
  <2> HIDE DEF j
  <2>5. Reverted(j)' = Reverted(j) /\ j' = j
    BY DEF j, Reverted
  <2> QED BY <2>3, <2>4, <2>5 DEF Follows, j
<1> QED BY <1>1, <1>2

LEMMA ContentsKeepStore ==
  ASSUME Typed, FileTypes', StoreMatches, NEW w \in Threads, Apart(w), Grows, SameContents,
         Untied(job[w]), Untied(job'[w])
  PROVE  StoreMatches'
<1>1. \A v \in Threads \ {w} : job'[v] = job[v]
  BY DEF Apart
<1>2. /\ DOMAIN files = 1 .. Len(files) /\ Len(files) \in Nat
      /\ DOMAIN files' = 1 .. Len(files') /\ Len(files') \in Nat
  BY Lengths DEF Typed, FileTypes
<1>3. DOMAIN files \subseteq DOMAIN files'
  BY <1>2 DEF Grows
<1>4. /\ \A f \in DOMAIN files : There(f)' <=> There(f)
      /\ \A f : VersionsOf(f)' = VersionsOf(f) /\ Numbers(f)' = Numbers(f)
      /\ \A f, b : HasBlob(f, b)' <=> HasBlob(f, b)
      /\ \A v \in versions : v.file \in DOMAIN files
  BY <1>3 DEF SameContents, There, VersionsOf, Numbers, HasBlob, Typed, FileTypes, VersionRows
<1>5. Numbered'
  <2>1. ASSUME NEW f \in DOMAIN files' \ DOMAIN files PROVE Numbers(f)' = 1 .. 0
    BY <1>4 DEF Numbers, VersionsOf
  <2>2. ASSUME NEW f \in DOMAIN files'
        PROVE  \E n \in {0} \cup Numbers(f)' : Numbers(f)' = 1 .. n
    <3>1. CASE f \in DOMAIN files
      BY <1>4, <3>1 DEF StoreMatches, Numbered
    <3>2. CASE f \notin DOMAIN files
      BY <2>1, <3>2
    <3> QED BY <3>1, <3>2
  <2>3. \A v, x \in versions' : v.blob = x.blob => v.file = x.file
    BY DEF SameContents, StoreMatches, Numbered
  <2> QED BY <2>2, <2>3 DEF Numbered
<1>6. RowsHaveBlobs'
  BY <1>3, <1>4 DEF SameContents, StoreMatches, RowsHaveBlobs, There
<1>7. ShowsNewest'
  BY <1>4 DEF SameContents, StoreMatches, ShowsNewest
<1>8. \A v \in Threads : Fresh(job[v])' = Fresh(job[v]) /\ Doomed(job[v])' = Doomed(job[v])
  <2>1. ASSUME NEW v \in Threads \ {w} PROVE Fresh(job[v])' = Fresh(job[v]) /\ Doomed(job[v])' = Doomed(job[v])
    BY <1>1 DEF Fresh, Doomed
  <2>2. Fresh(job[w])' = {} /\ Doomed(job[w])' = {}
    BY DEF Untied, Fresh, Doomed
  <2> QED BY <2>1, <2>2 DEF Untied
<1>9. BlobsAccounted'
  BY <1>8 DEF SameContents, StoreMatches, BlobsAccounted
<1>10. \A v \in Threads : Holds(v)'
  BY <1>8 DEF SameContents, StoreMatches, Holds
<1>11. \A v \in Threads : Follows(job[v])'
  <2>1. ASSUME NEW v \in Threads \ {w} PROVE Follows(job[v])'
    BY <1>1, <1>4, OthersFollow DEF StoreMatches
  <2>2. Follows(job[w])'
    BY DEF Untied, Follows, Reverted
  <2> QED BY <2>1, <2>2
<1> QED BY <1>5, <1>6, <1>7, <1>9, <1>10, <1>11 DEF StoreMatches

-----------------------------------------------------------------------------
(* Steps that bring no version *)

LEMMA LimitCounts ==
  ASSUME Typed
  PROVE  /\ IsFiniteSet(versions) /\ IsFiniteSet(LetIn) /\ IsFiniteSet(Coming)
         /\ Cardinality(versions) \in Nat
         /\ Cardinality(LetIn) \in Nat /\ Cardinality(LetIn) <= calls.atOnce
         /\ Cardinality(Coming) \in Nat /\ Cardinality(Coming) <= Len(uploads)
         /\ Len(uploads) \in Nat /\ again \in Nat /\ SpaceLimit \in Nat /\ calls.atOnce \in Nat
<1>1. LetIn \subseteq Engaged
  BY DEF LetIn, Engaged, Free
<1>2. IsFiniteSet(Engaged) /\ Cardinality(Engaged) <= calls.atOnce /\ calls.atOnce \in Nat
  BY DEF Typed, Pool
<1>3. IsFiniteSet(LetIn) /\ Cardinality(LetIn) <= Cardinality(Engaged)
  BY <1>1, <1>2, FS_Subset
<1>4. Len(uploads) \in Nat /\ DOMAIN uploads = 1 .. Len(uploads) /\ again \in Nat
  BY Lengths DEF Typed
<1>5. IsFiniteSet(1 .. Len(uploads)) /\ Cardinality(1 .. Len(uploads)) = Len(uploads)
  <2>1. Cardinality(1 .. Len(uploads)) = IF 1 > Len(uploads) THEN 0 ELSE Len(uploads) - 1 + 1
    BY <1>4, FS_Interval
  <2>2. IsFiniteSet(1 .. Len(uploads))
    BY <1>4, FS_Interval
  <2> QED BY <1>4, <2>1, <2>2
<1>6. Coming \subseteq 1 .. Len(uploads)
  BY <1>4 DEF Coming
<1>7. IsFiniteSet(Coming) /\ Cardinality(Coming) <= Len(uploads)
  BY <1>5, <1>6, FS_Subset
<1>8. IsFiniteSet(versions)
  BY DEF Typed, FileTypes
<1>9. /\ Cardinality(versions) \in Nat /\ Cardinality(LetIn) \in Nat
      /\ Cardinality(Coming) \in Nat /\ Cardinality(Engaged) \in Nat
  BY <1>2, <1>3, <1>7, <1>8, FS_CardinalityType
<1>10. Cardinality(LetIn) <= calls.atOnce
  BY <1>2, <1>3, <1>9
<1> QED BY <1>2, <1>3, <1>4, <1>7, <1>8, <1>9, <1>10, FileAssumption

Few ==
  /\ Cardinality(LetIn) \in Nat /\ Cardinality(LetIn) <= calls.atOnce
  /\ Cardinality(Coming) \in Nat /\ Cardinality(Coming) <= Len(uploads)

LEMMA FewNext == Typed' => Few'
<1>1. Typed => Few
  BY LimitCounts DEF Few
<1> QED BY <1>1, PTL

RoomFor(v, l, c, limit, n, u) == v + l + c <= limit + n + u

LEMMA SmallerSum ==
  ASSUME NEW a \in Nat, NEW b \in Nat, NEW c \in Nat, NEW limit \in Int, NEW n \in Nat, NEW m \in Nat,
         NEW x \in Nat, NEW y \in Nat, NEW z \in Nat, NEW p \in Nat, NEW q \in Nat,
         RoomFor(a, b, c, limit, n, m), x <= a, y <= b, z <= c, n <= p, m <= q
  PROVE  RoomFor(x, y, z, limit, p, q)
  BY DEF RoomFor

LEMMA OneMoreEach ==
  ASSUME NEW a \in Nat, NEW b \in Nat, NEW c \in Nat, NEW limit \in Int, NEW n \in Nat, NEW m \in Nat,
         NEW y \in Nat, NEW z \in Nat, y <= b, z <= c + 1, a + b + c <= limit + n + m
  PROVE  a + y + z <= limit + n + (m + 1)
  OBVIOUS

LEMMA OneMoreAtMost ==
  ASSUME NEW S, IsFiniteSet(S), NEW e, NEW T \in SUBSET (S \cup {e})
  PROVE  IsFiniteSet(T) /\ Cardinality(T) <= Cardinality(S) + 1
<1>1. IsFiniteSet(S \cup {e}) /\ Cardinality(S \cup {e}) <= Cardinality(S) + 1
  <2>1. CASE e \in S
    <3>1. S \cup {e} = S
      BY <2>1
    <3>2. Cardinality(S) \in Nat
      BY FS_CardinalityType
    <3>3. Cardinality(S) <= Cardinality(S) + 1
      BY <3>2
    <3> QED BY <3>1, <3>3
  <2>2. CASE e \notin S
    <3>1. IsFiniteSet(S \cup {e}) /\ Cardinality(S \cup {e}) = Cardinality(S) + 1
      BY <2>2, FS_AddElement
    <3>2. Cardinality(S) \in Nat
      BY FS_CardinalityType
    <3> QED BY <3>1, <3>2
  <2> QED BY <2>1, <2>2
<1>2. IsFiniteSet(T) /\ Cardinality(T) <= Cardinality(S \cup {e})
  BY <1>1, FS_Subset
<1>3. Cardinality(T) \in Nat /\ Cardinality(S) \in Nat /\ Cardinality(S \cup {e}) \in Nat
  BY <1>1, <1>2, FS_CardinalityType
<1> QED BY <1>1, <1>2, <1>3

\* The sum, when nothing in it grows but what is allowed to.
LEMMA SumKept ==
  ASSUME Typed, Typed', WithinLimit, calls'.atOnce = calls.atOnce, OneBrings',
         versions' \subseteq versions, LetIn' \subseteq LetIn, Coming' \subseteq Coming,
         again <= again', Len(uploads) <= Len(uploads')
  PROVE  WithinLimit'
<1>1. /\ Cardinality(versions') <= Cardinality(versions)
      /\ Cardinality(LetIn') <= Cardinality(LetIn)
      /\ Cardinality(Coming') <= Cardinality(Coming)
  BY LimitCounts, FS_Subset
<1>2. /\ Cardinality(versions) \in Nat /\ Cardinality(LetIn) \in Nat /\ Cardinality(Coming) \in Nat
      /\ Len(uploads) \in Nat /\ again \in Nat /\ SpaceLimit \in Nat /\ calls.atOnce \in Nat
  BY LimitCounts
<1>3. /\ Cardinality(versions') \in Nat /\ Cardinality(LetIn') \in Nat /\ Cardinality(Coming') \in Nat
      /\ Len(uploads') \in Nat /\ again' \in Nat
  <2>1. IsFiniteSet(versions') /\ IsFiniteSet(LetIn') /\ IsFiniteSet(Coming')
    BY LimitCounts, FS_Subset
  <2>2. Len(uploads') \in Nat /\ again' \in Nat
    BY Lengths DEF Typed, FileTypes
  <2> QED BY <2>1, <2>2, FS_CardinalityType
<1>4. SpaceLimit + calls.atOnce - 1 \in Int
  BY <1>2
<1>5. RoomFor(Cardinality(versions), Cardinality(LetIn), Cardinality(Coming),
           SpaceLimit + calls.atOnce - 1, again, Len(uploads))
  BY DEF WithinLimit, RoomFor
<1>6. RoomFor(Cardinality(versions'), Cardinality(LetIn'), Cardinality(Coming'),
           SpaceLimit + calls.atOnce - 1, again', Len(uploads'))
  BY <1>1, <1>2, <1>3, <1>4, <1>5, SmallerSum, ZenonT(60)
<1> QED BY <1>6 DEF WithinLimit, RoomFor

\* No upload begins, and none is found again that was assembled.
SameUploads ==
  /\ DOMAIN uploads' = DOMAIN uploads
  /\ \A u \in DOMAIN uploads : uploads'[u].staged => uploads[u].staged

LEMMA UnbroughtKeepLimit ==
  ASSUME Typed, Typed', WithinLimit, NEW w \in Threads, Apart(w), SameUploads,
         versions' \subseteq versions, again <= again',
         w \in LetIn' => w \in LetIn,
         \A u \in DOMAIN uploads : Brings(w, u)' => Brings(w, u)
  PROVE  WithinLimit'
<1>1. \A v \in Threads \ {w} : job'[v] = job[v]
  BY DEF Apart
<1>2. LetIn' \subseteq LetIn
  BY <1>1 DEF LetIn
<1>3. \A v \in Threads, u \in DOMAIN uploads : Brings(v, u)' => Brings(v, u)
  BY <1>1 DEF Brings
<1>4. Coming' \subseteq Coming
  BY <1>3 DEF Coming, SameUploads
<1>5. OneBrings'
  BY <1>3 DEF OneBrings, SameUploads, WithinLimit
<1>6. /\ Len(uploads) \in Nat /\ DOMAIN uploads = 1 .. Len(uploads)
      /\ Len(uploads') \in Nat /\ DOMAIN uploads' = 1 .. Len(uploads')
  BY Lengths DEF Typed, FileTypes
<1>7. Len(uploads) <= Len(uploads')
  BY <1>6 DEF SameUploads
<1>8. calls'.atOnce = calls.atOnce
  BY DEF Apart
<1> QED BY <1>2, <1>4, <1>5, <1>7, <1>8, SumKept

-----------------------------------------------------------------------------
(* Steps that neither the store nor the limit notices *)

Inv == Typed /\ StoreMatches /\ WithinLimit

\* A place where a worker owes the store nothing and has not been let in.
Light(op, place) ==
  /\ place \notin {"put", "number", "version", "blobs"}
  /\ ~(op \in {"upload", "complete"} /\ place = "row")

LEMMA LightMoves ==
  ASSUME Typed, NEW w \in Threads, job[w].at # "none", Moves(w),
         \/ job'[w] = Free
         \/ \E place, saw : GoesTo(w, place, saw) /\ MayGo(job[w], place, saw, minted')
                              /\ Light(job[w].op, place)
  PROVE  /\ Untied(job'[w])
         /\ w \notin LetIn'
         /\ \A u : ~Brings(w, u)'
<1>1. CASE job'[w] = Free
  BY <1>1, FreeUntied DEF Free, LetIn, Brings
<1>2. CASE job'[w] # Free
  <2>1. PICK place, saw : GoesTo(w, place, saw) /\ MayGo(job[w], place, saw, minted')
                            /\ Light(job[w].op, place)
    BY <1>2
  <2>2. job'[w].at = place /\ job'[w].op = job[w].op
    BY <2>1, Serving DEF GoesTo, Fields
  <2>3. Untied(job'[w])
    BY <2>1, <2>2 DEF Untied, Light, Fresh, Doomed, Reverted
  <2>4. \A u : ~Brings(w, u)'
    BY <2>1, <2>2 DEF Light, Brings
  <2>5. w \notin LetIn'
    BY <2>1, <2>2 DEF Light, LetIn, MayGo, Places
  <2> QED BY <2>3, <2>4, <2>5
<1> QED BY <1>1, <1>2

LEMMA LightStepKept ==
  ASSUME Inv, NEW w \in Threads, job[w].at # "none", Moves(w),
         FileTypes', NewFilesNamed', Grows, SameContents, again' = again, SameUploads,
         Untied(job[w]),
         \/ job'[w] = Free
         \/ \E place, saw : GoesTo(w, place, saw) /\ MayGo(job[w], place, saw, minted')
                              /\ Light(job[w].op, place)
  PROVE  Inv'
<1>1. Fits(job[w])'
  <2>1. CASE job'[w] = Free
    BY <2>1 DEF Fits
  <2>2. CASE job'[w] # Free
    BY <2>2, GoneFits DEF Inv
  <2> QED BY <2>1, <2>2
<1>2. Typed'
  BY <1>1, TypesKept DEF Inv
<1>3. Untied(job'[w]) /\ w \notin LetIn' /\ \A u : ~Brings(w, u)'
  BY LightMoves DEF Inv
<1>4. StoreMatches'
  BY <1>3, MoveApart, ContentsKeepStore DEF Inv
<1>5. versions' \subseteq versions /\ again <= again'
  BY Lengths DEF SameContents, Inv, Typed
<1>6. WithinLimit'
  BY <1>2, <1>3, <1>5, MoveApart, UnbroughtKeepLimit DEF Inv
<1> QED BY <1>2, <1>4, <1>6 DEF Inv

\* A check, or another step that only reads.
LEMMA Checked ==
  ASSUME Inv, NEW w \in Threads, job[w].at # "none", Untied(job[w]),
         NEW refused, NEW place, place # "none", Ask(w, refused, place),
         ~refused => MayGo(job[w], place, job[w].saw, minted) /\ Light(job[w].op, place)
  PROVE  Inv'
<1>1. UNCHANGED fileTables
  BY DEF Ask
<1>2. FileTypes' /\ NewFilesNamed' /\ Grows /\ minted' = minted
  BY <1>1 DEF Inv, Typed, FileTypes, FileRows, VersionRows, GrantRows, UploadRows, NewFilesNamed, Grows,
              fileTables
<1>3. SameContents /\ again' = again /\ SameUploads
  BY <1>1 DEF SameContents, SameUploads, fileTables
<1>4. CASE refused
  <2>1. Moves(w) /\ job'[w] = Free
    BY <1>4, GoingOn DEF Ask, Unless, Inv
  <2> QED BY <1>2, <1>3, <2>1, LightStepKept
<1>5. CASE ~refused
  <2>1. Moves(w) /\ GoesTo(w, place, job[w].saw)
    BY <1>5, GoingOn DEF Ask, Unless, Inv
  <2> QED BY <1>2, <1>3, <1>5, <2>1, LightStepKept
<1> QED BY <1>4, <1>5

\* Nothing is owed where a handler begins.
LEMMA UntiedPlaces ==
  ASSUME NEW j, Light(j.op, j.at) \/ j.at = "put"
  PROVE  Untied(j)
  BY DEF Untied, Light, Fresh, Doomed, Reverted

LEMMA ChecksKept ==
  ASSUME Inv, NEW w \in Threads
  PROVE  CheckFolder(w) \/ CheckUploadInit(w) \/ CheckVersionInit(w)
         \/ CheckChunk(w) \/ CheckVersionChunk(w) \/ PutPart(w)
         \/ CheckComplete(w) \/ CheckCompleteVersion(w)
         \/ CheckMove(w) \/ CheckDelete(w) \/ CheckGrant(w) \/ CheckUngrant(w)
         => Inv'
<1> DEFINE j == job[w]
<1> DEFINE s == job[w].saw
<1> USE DEF At
<1>1. CASE CheckFolder(w)
  <2>1. Ask(w, Unfit(w), "row") /\ j.op = "folder" /\ j.at = "check"
    BY <1>1 DEF CheckFolder
  <2>2. MayGo(j, "row", s, minted) /\ Light(j.op, "row") /\ Light(j.op, j.at)
    BY <2>1 DEF MayGo, Light, Places
  <2> QED BY <2>1, <2>2, UntiedPlaces, Checked
<1>2. CASE CheckUploadInit(w)
  <2>1. Ask(w, Unfit(w) \/ OverLimit, "session") /\ j.op = "upload init" /\ j.at = "check"
    BY <1>2 DEF CheckUploadInit
  <2>2. ~(Unfit(w) \/ OverLimit) => j.parent \in 0 .. Len(files)
    BY Lengths DEF Unfit, IsFolder, There, Root, Inv, Typed
  <2>3. ~(Unfit(w) \/ OverLimit) => MayGo(j, "session", s, minted)
    BY <2>1, <2>2 DEF MayGo, Places
  <2>4. Light(j.op, "session") /\ Light(j.op, j.at)
    BY <2>1 DEF Light
  <2> QED BY <2>1, <2>3, <2>4, UntiedPlaces, Checked
<1>3. CASE CheckVersionInit(w)
  <2> DEFINE refused == Level(j.file, j.by) < Edit \/ ~IsFile(j.file) \/ OverLimit
  <2>1. Ask(w, refused, "session") /\ j.op = "version init" /\ j.at = "check"
    BY <1>3 DEF CheckVersionInit
  <2>2. MayGo(j, "session", s, minted) /\ Light(j.op, "session") /\ Light(j.op, j.at)
    BY <2>1 DEF MayGo, Light, Places
  <2> QED BY <2>1, <2>2, UntiedPlaces, Checked
<1>4. CASE CheckChunk(w) \/ CheckVersionChunk(w)
  <2>1. Ask(w, ~uploads[j.upload].live, "part") /\ j.op = "chunk" /\ j.at = "check"
    BY <1>4 DEF CheckChunk, CheckVersionChunk
  <2>2. MayGo(j, "part", s, minted) /\ Light(j.op, "part") /\ Light(j.op, j.at)
    BY <2>1 DEF MayGo, Light, Places
  <2> QED BY <2>1, <2>2, UntiedPlaces, Checked
<1>5. CASE PutPart(w)
  <2>1. /\ Ask(w, ~uploads[j.upload].live \/ ~uploads[j.upload].staged, "record")
        /\ j.op = "chunk" /\ j.at = "part"
    BY <1>5 DEF PutPart
  <2>2. MayGo(j, "record", s, minted) /\ Light(j.op, "record") /\ Light(j.op, j.at)
    BY <2>1 DEF MayGo, Light, Places
  <2> QED BY <2>1, <2>2, UntiedPlaces, Checked
<1>6. CASE CheckComplete(w) \/ CheckCompleteVersion(w)
  <2>1. PICK place \in {"drop", "assemble"} :
          Ask(w, ~uploads[j.upload].live \/ uploads[j.upload].left # {}, place)
    BY <1>6 DEF CheckComplete, CheckCompleteVersion
  <2>2. j.op = "complete" /\ j.at = "check"
    BY <1>6 DEF CheckComplete, CheckCompleteVersion
  <2>3. MayGo(j, place, s, minted) /\ Light(j.op, place) /\ Light(j.op, j.at)
    BY <2>2 DEF MayGo, Light, Places
  <2> QED BY <2>1, <2>2, <2>3, UntiedPlaces, Checked
<1>7. CASE CheckMove(w)
  <2>1. PICK refused : Ask(w, refused, "move") /\ j.op = "update" /\ j.at = "check move"
    BY <1>7 DEF CheckMove
  <2>2. MayGo(j, "move", s, minted) /\ Light(j.op, "move") /\ Light(j.op, j.at)
    BY <2>1 DEF MayGo, Light, Places
  <2> QED BY <2>1, <2>2, UntiedPlaces, Checked
<1>8. CASE CheckDelete(w)
  <2>1. /\ Ask(w, Level(j.file, j.by) < Own \/ ~There(j.file), "rows")
        /\ j.op = "delete" /\ j.at = "check"
    BY <1>8 DEF CheckDelete
  <2>2. MayGo(j, "rows", s, minted) /\ Light(j.op, "rows") /\ Light(j.op, j.at)
    BY <2>1 DEF MayGo, Light, Places
  <2> QED BY <2>1, <2>2, UntiedPlaces, Checked
<1>9. CASE CheckGrant(w) \/ CheckUngrant(w)
  <2>1. PICK refused : Ask(w, refused, "set")
    BY <1>9 DEF CheckGrant, CheckUngrant
  <2>2. j.op \in {"grant", "ungrant"} /\ j.at = "check"
    BY <1>9 DEF CheckGrant, CheckUngrant
  <2>3. MayGo(j, "set", s, minted) /\ Light(j.op, "set") /\ Light(j.op, j.at)
    BY <2>2 DEF MayGo, Light, Places
  <2> QED BY <2>1, <2>2, <2>3, UntiedPlaces, Checked
<1> QED BY <1>1, <1>2, <1>3, <1>4, <1>5, <1>6, <1>7, <1>8, <1>9

LEMMA TakeKept ==
  ASSUME Inv, NEW w \in Threads, TakeFileRequest(w)
  PROVE  Inv'
<1> DEFINE R == {r \in calls.requests : NamesFiles(r)}
<1>1. Accept(w, R) /\ UNCHANGED fileTables
  BY DEF TakeFileRequest
<1>2. Pool /\ calls.requests \subseteq FileRequests /\ R \subseteq calls.requests
  BY DEF Inv, Typed
<1>3. Plain(calls.requests)
  BY <1>2, RequestFields DEF Plain
<1>4. /\ Pool'
      /\ job[w] = Free /\ IsJob(job'[w]) /\ job'[w].at = "check"
      /\ Asked(job'[w]) \in R
      /\ \A v \in Threads \ {w} : job'[v] = job[v]
      /\ calls'.requests = calls.requests /\ calls'.atOnce = calls.atOnce
  <2> HIDE DEF R
  <2> QED BY <1>1, <1>2, <1>3, AcceptKeepsPool
<1>5. FileTypes' /\ NewFilesNamed' /\ Grows
  BY <1>1 DEF Inv, Typed, FileTypes, FileRows, VersionRows, GrantRows, UploadRows, NewFilesNamed,
              Grows, fileTables
<1>6. SameContents /\ again' = again /\ SameUploads /\ files' = files /\ uploads' = uploads
  BY <1>1 DEF SameContents, SameUploads, fileTables
<1>7. Fits(job[w])'
  <2> DEFINE k == job'[w]
  <2> DEFINE r == Asked(k)
  <2>1. r \in FileRequests /\ NamesFiles(r)
    BY <1>2, <1>4
  <2>2. Fields(r)
    BY <2>1, RequestFields
  <2>3. \A f \in DOMAIN k \ {"at", "saw"} : f \in DOMAIN r /\ k[f] = r[f]
    BY DEF Asked
  <2>4. "file" \in DOMAIN k => k.file \in DOMAIN files
    BY <2>1, <2>3 DEF NamesFiles
  <2>5. "upload" \in DOMAIN k => k.upload \in DOMAIN uploads
    BY <2>1, <2>3 DEF NamesFiles
  <2> HIDE DEF k, r
  <2>6. FitsAt(job[w], job[w].at, job[w].saw)'
    BY <1>4, <1>6, <2>4, <2>5 DEF FitsAt, k
  <2> QED BY <2>6 DEF Fits
<1>8. \A v \in Threads : Fits(job[v])'
  BY <1>4, <1>5, <1>7, StillFits DEF Inv
<1>9. Typed'
  BY <1>2, <1>4, <1>5, <1>8 DEF Typed
<1>10. Untied(job[w]) /\ Untied(job'[w])
  BY <1>4, FreeUntied, UntiedPlaces DEF Light
<1>11. Apart(w)
  BY <1>4 DEF Apart
<1>12. StoreMatches'
  BY <1>5, <1>6, <1>10, <1>11, ContentsKeepStore DEF Inv
<1>13. w \notin LetIn' /\ \A u : ~Brings(w, u)'
  BY <1>4 DEF LetIn, Brings
<1>14. versions' \subseteq versions /\ again <= again'
  BY <1>6, Lengths DEF SameContents, Inv, Typed
<1>15. WithinLimit'
  BY <1>6, <1>9, <1>11, <1>13, <1>14, UnbroughtKeepLimit DEF Inv
<1> QED BY <1>9, <1>12, <1>15 DEF Inv

-----------------------------------------------------------------------------
(* Who is let in *)

LEMMA CheckUploadKept ==
  ASSUME Inv, NEW w \in Threads
  PROVE  CheckUpload(w) \/ CheckVersion(w) => Inv'
<1> SUFFICES ASSUME CheckUpload(w) \/ CheckVersion(w) PROVE Inv'
  OBVIOUS
<1> DEFINE j == job[w]
<1>1. j.op \in {"upload", "version"} /\ j.at = "check"
  BY DEF CheckUpload, CheckVersion, At
<1>2. PICK refused : Ask(w, refused, "put") /\ (~refused => ~OverLimit)
  BY DEF CheckUpload, CheckVersion
<1>3. Untied(job[w])
  BY <1>1, UntiedPlaces DEF Light
<1>4. CASE refused
  BY <1>1, <1>2, <1>3, <1>4, Checked
<1>5. CASE ~refused
  <2>1. UNCHANGED fileTables
    BY <1>2 DEF Ask
  <2>2. Moves(w) /\ GoesTo(w, "put", j.saw)
    BY <1>1, <1>2, <1>5, GoingOn DEF Ask, Unless, Inv
  <2>3. MayGo(j, "put", j.saw, minted)
    BY <1>1 DEF MayGo, Places
  <2>4. Typed' /\ Grows
    BY <1>1, <2>1, <2>2, <2>3, ReadKeepsTypes DEF Inv
  <2>5. Untied(job'[w])
    BY <2>2, UntiedPlaces DEF GoesTo
  <2>6. StoreMatches'
    <3>1. FileTypes' /\ SameContents
      BY <2>1, <2>4 DEF Typed, SameContents, fileTables
    <3> QED BY <1>3, <2>2, <2>4, <2>5, <3>1, MoveApart, ContentsKeepStore DEF Inv
  <2>7. Cardinality(versions) + 1 <= SpaceLimit
    BY <1>2, <1>5, LimitCounts DEF OverLimit, Inv
  <2>8. /\ Cardinality(LetIn') \in Nat /\ Cardinality(LetIn') <= calls'.atOnce
        /\ Cardinality(Coming') \in Nat /\ Cardinality(Coming') <= Len(uploads')
    BY <2>4, FewNext DEF Few
  <2>9. OneBrings'
    <3>1. \A v \in Threads : \A u : Brings(v, u)' => Brings(v, u)
      <4>1. \A u : ~Brings(w, u)'
        BY <2>2 DEF GoesTo, Brings
      <4>2. \A v \in Threads \ {w} : job'[v] = job[v]
        BY <2>2, MoveApart DEF Inv, Apart
      <4> QED BY <4>1, <4>2 DEF Brings
    <3> QED BY <2>1, <3>1 DEF OneBrings, Inv, WithinLimit, fileTables
  <2>10. WithinLimit'
    <3>1. calls' = calls /\ versions' = versions /\ again' = again /\ uploads' = uploads
      BY <2>1, <2>2 DEF Moves, fileTables
    <3>2. /\ Cardinality(versions) \in Nat /\ again \in Nat /\ Len(uploads) \in Nat
          /\ SpaceLimit \in Nat /\ calls.atOnce \in Nat
      BY LimitCounts DEF Inv
    <3>3. Cardinality(versions') + Cardinality(LetIn') + Cardinality(Coming')
            <= SpaceLimit + calls'.atOnce - 1 + again' + Len(uploads')
      <4> DEFINE a == Cardinality(versions)
      <4> DEFINE b == Cardinality(LetIn')
      <4> DEFINE c == Cardinality(Coming')
      <4>1. a \in Nat /\ b \in Nat /\ c \in Nat /\ a + 1 <= SpaceLimit
            /\ b <= calls.atOnce /\ c <= Len(uploads)
        BY <2>7, <2>8, <3>1, <3>2
      <4> HIDE DEF a, b, c
      <4>2. a + b + c <= SpaceLimit + calls.atOnce - 1 + again + Len(uploads)
        BY <3>2, <4>1
      <4> QED BY <3>1, <4>2 DEF a, b, c
    <3> QED BY <2>9, <3>3 DEF WithinLimit
  <2> QED BY <2>4, <2>6, <2>10 DEF Inv
<1> QED BY <1>4, <1>5

-----------------------------------------------------------------------------
(* Steps that write rows without contents *)

\* More rows and more blobs leave every row well formed.
LEMMA WiderRows ==
  ASSUME FileTypes, Len(files) <= Len(files'), minted <= minted',
         Len(files') \in Nat, DOMAIN files' = 1 .. Len(files'), minted' \in Nat
  PROVE  /\ FileRows \subseteq FileRows' /\ VersionRows \subseteq VersionRows'
         /\ GrantRows \subseteq GrantRows' /\ UploadRows \subseteq UploadRows'
         /\ 1 .. minted \subseteq 1 .. minted' /\ DOMAIN files \subseteq DOMAIN files'
<1>1. Len(files) \in Nat /\ DOMAIN files = 1 .. Len(files) /\ minted \in Nat
  BY Lengths
<1>2. /\ 0 .. Len(files) \subseteq 0 .. Len(files') /\ DOMAIN files \subseteq DOMAIN files'
      /\ 1 .. minted \subseteq 1 .. minted' /\ 0 .. minted \subseteq 0 .. minted'
  BY <1>1
<1> QED BY <1>2 DEF FileRows, VersionRows, GrantRows, UploadRows

\* Files rewritten in place.
LEMMA FilesRewritten ==
  ASSUME FileTypes, minted' = minted, files' = [f \in DOMAIN files |-> files'[f]],
         \A f \in DOMAIN files : files'[f] \in FileRows
  PROVE  /\ files' \in Seq(FileRows') /\ Len(files') = Len(files) /\ DOMAIN files' = DOMAIN files
         /\ FileRows' = FileRows /\ VersionRows' = VersionRows
         /\ GrantRows' = GrantRows /\ UploadRows' = UploadRows
<1>1. files' \in Seq(FileRows) /\ Len(files') = Len(files)
  BY Rewritten DEF FileTypes
<1>2. DOMAIN files' = DOMAIN files
  OBVIOUS
<1>3. /\ FileRows' = FileRows /\ VersionRows' = VersionRows
      /\ GrantRows' = GrantRows /\ UploadRows' = UploadRows
  BY <1>1, <1>2 DEF FileRows, VersionRows, GrantRows, UploadRows
<1> QED BY <1>1, <1>2, <1>3

\* Uploads rewritten in place.
LEMMA UploadsRewritten ==
  ASSUME FileTypes, NewFilesNamed, uploads' = [u \in DOMAIN uploads |-> uploads'[u]],
         \A u \in DOMAIN uploads : /\ uploads'[u] \in UploadRows
                                   /\ uploads'[u].file = uploads[u].file
                                   /\ uploads'[u].name = uploads[u].name
  PROVE  /\ uploads' \in Seq(UploadRows) /\ DOMAIN uploads' = DOMAIN uploads
         /\ Len(uploads') = Len(uploads) /\ NewFilesNamed'
<1>1. uploads' \in Seq(UploadRows) /\ Len(uploads') = Len(uploads)
  BY Rewritten DEF FileTypes
<1>2. DOMAIN uploads' = DOMAIN uploads
  OBVIOUS
<1> QED BY <1>1, <1>2 DEF NewFilesNamed

LEMMA UploadChanged ==
  ASSUME NEW u \in UploadRows, NEW index
  PROVE  /\ [u EXCEPT !.live = FALSE, !.staged = FALSE] \in UploadRows
         /\ [u EXCEPT !.live = FALSE, !.staged = FALSE].file = u.file
         /\ [u EXCEPT !.live = FALSE, !.staged = FALSE].name = u.name
         /\ ~[u EXCEPT !.live = FALSE, !.staged = FALSE].staged
         /\ [u EXCEPT !.staged = FALSE] \in UploadRows
         /\ [u EXCEPT !.staged = FALSE].file = u.file
         /\ [u EXCEPT !.staged = FALSE].name = u.name
         /\ ~[u EXCEPT !.staged = FALSE].staged
         /\ [u EXCEPT !.left = @ \ {index}] \in UploadRows
         /\ [u EXCEPT !.left = @ \ {index}].file = u.file
         /\ [u EXCEPT !.left = @ \ {index}].name = u.name
         /\ [u EXCEPT !.left = @ \ {index}].staged = u.staged
<1>1. [u EXCEPT !.live = FALSE, !.staged = FALSE] \in UploadRows
  BY DEF UploadRows
<1>2. [u EXCEPT !.staged = FALSE] \in UploadRows
  BY DEF UploadRows
<1>3. [u EXCEPT !.left = @ \ {index}] \in UploadRows
  BY DEF UploadRows
<1> QED BY <1>1, <1>2, <1>3 DEF UploadRows

LEMMA FileChanged ==
  ASSUME NEW f \in FileRows, NEW name \in FileNames, NEW parent \in 0 .. Len(files),
         NEW blob \in 0 .. minted
  PROVE  /\ [f EXCEPT !.name = name] \in FileRows
         /\ [f EXCEPT !.name = name].here = f.here /\ [f EXCEPT !.name = name].blob = f.blob
         /\ [f EXCEPT !.name = name].folder = f.folder /\ [f EXCEPT !.name = name].parent = f.parent
         /\ [f EXCEPT !.parent = parent] \in FileRows
         /\ [f EXCEPT !.parent = parent].here = f.here /\ [f EXCEPT !.parent = parent].blob = f.blob
         /\ [f EXCEPT !.parent = parent].folder = f.folder
         /\ [f EXCEPT !.blob = blob] \in FileRows
         /\ [f EXCEPT !.blob = blob].here = f.here /\ [f EXCEPT !.blob = blob].parent = f.parent
         /\ [f EXCEPT !.blob = blob].folder = f.folder /\ [f EXCEPT !.blob = blob].blob = blob
         /\ [f EXCEPT !.here = FALSE] \in FileRows
         /\ ~[f EXCEPT !.here = FALSE].here /\ [f EXCEPT !.here = FALSE].blob = f.blob
         /\ [f EXCEPT !.here = FALSE].folder = f.folder /\ [f EXCEPT !.here = FALSE].parent = f.parent
<1>1. [f EXCEPT !.name = name] \in FileRows
  BY DEF FileRows
<1>2. [f EXCEPT !.parent = parent] \in FileRows
  BY DEF FileRows
<1>3. [f EXCEPT !.blob = blob] \in FileRows
  BY DEF FileRows
<1>4. [f EXCEPT !.here = FALSE] \in FileRows
  BY DEF FileRows
<1> QED BY <1>1, <1>2, <1>3, <1>4 DEF FileRows

LEMMA UploadsTouchedKept ==
  ASSUME Inv, NEW w \in Threads
  PROVE  RecordChunk(w) \/ DropSession(w) => Inv'
<1> SUFFICES ASSUME RecordChunk(w) \/ DropSession(w) PROVE Inv'
  OBVIOUS
<1> DEFINE j == job[w]
<1> DEFINE u == job[w].upload
<1>1. j.op \in {"chunk", "complete"} /\ j.at \in {"record", "drop"} /\ Respond(w)
  BY DEF RecordChunk, DropSession, At
<1>2. u \in DOMAIN uploads /\ Moves(w) /\ job'[w] = Free
  BY <1>1, Serving, GoingOn DEF Inv, Fields, FitsAt
<1>3. UNCHANGED <<files, versions, grants, blobs, minted, spilled, again>>
  BY DEF RecordChunk, DropSession
<1>4. FileTypes /\ NewFilesNamed /\ \A x \in DOMAIN uploads : uploads[x] \in UploadRows
  BY Rows DEF Inv, Typed
<1>5. /\ uploads' = [x \in DOMAIN uploads |-> uploads'[x]]
      /\ \A x \in DOMAIN uploads : /\ uploads'[x] \in UploadRows
                                   /\ uploads'[x].file = uploads[x].file
                                   /\ uploads'[x].name = uploads[x].name
                                   /\ uploads'[x].staged => uploads[x].staged
  <2>1. CASE RecordChunk(w)
    <3>1. CASE uploads[u].live
      <4>1. uploads' = [uploads EXCEPT ![u].left = @ \ {j.index}]
        BY <2>1, <3>1 DEF RecordChunk
      <4> DEFINE row == [uploads[u] EXCEPT !.left = @ \ {j.index}]
      <4>2. /\ row \in UploadRows /\ row.file = uploads[u].file /\ row.name = uploads[u].name
            /\ row.staged = uploads[u].staged
        BY <1>2, <1>4, UploadChanged
      <4>3. uploads' = [uploads EXCEPT ![u] = row]
        BY <4>1
      <4> HIDE DEF row
      <4>4. /\ uploads' = [x \in DOMAIN uploads |-> uploads'[x]]
            /\ uploads'[u] = row
            /\ \A x \in DOMAIN uploads \ {u} : uploads'[x] = uploads[x]
        BY <4>3, <1>2, <1>4 DEF FileTypes
      <4> QED BY <1>2, <1>4, <4>2, <4>4
    <3>2. CASE ~uploads[u].live
      <4>1. uploads' = uploads
        BY <2>1, <3>2 DEF RecordChunk
      <4> QED BY <4>1, <1>4 DEF FileTypes
    <3> QED BY <3>1, <3>2
  <2>2. CASE DropSession(w)
    <3>1. uploads' = [uploads EXCEPT ![u].live = FALSE, ![u].staged = FALSE]
      BY <2>2 DEF DropSession
    <3>2. uploads' = [uploads EXCEPT ![u] = [uploads[u] EXCEPT !.live = FALSE, !.staged = FALSE]]
      BY <3>1, <1>2
    <3> DEFINE row == [uploads[u] EXCEPT !.live = FALSE, !.staged = FALSE]
    <3>3. /\ row \in UploadRows /\ row.file = uploads[u].file /\ row.name = uploads[u].name
          /\ ~row.staged
      BY <1>2, <1>4, UploadChanged
    <3> HIDE DEF row
    <3>4. uploads' = [uploads EXCEPT ![u] = row]
      BY <3>2 DEF row
    <3>5. /\ uploads' = [x \in DOMAIN uploads |-> uploads'[x]]
          /\ uploads'[u] = row
          /\ \A x \in DOMAIN uploads \ {u} : uploads'[x] = uploads[x]
      BY <3>4, <1>2, <1>4 DEF FileTypes
    <3> QED BY <1>2, <1>4, <3>3, <3>5
  <2> QED BY <2>1, <2>2
<1>6. /\ uploads' \in Seq(UploadRows) /\ DOMAIN uploads' = DOMAIN uploads
      /\ NewFilesNamed'
  BY <1>4, <1>5, UploadsRewritten
<1>7. FileTypes'
  BY <1>3, <1>4, <1>6 DEF FileTypes, FileRows, VersionRows, GrantRows, UploadRows
<1>8. Grows /\ SameContents /\ again' = again /\ SameUploads
  <2>1. Len(files) \in Nat /\ minted \in Nat
    BY <1>4, Lengths
  <2> QED BY <1>3, <1>5, <1>6, <2>1 DEF Grows, SameContents, SameUploads
<1>9. Untied(j)
  BY <1>1, UntiedPlaces DEF Light
<1> QED BY <1>1, <1>2, <1>6, <1>7, <1>8, <1>9, LightStepKept

LEMMA GrantsKept ==
  ASSUME Inv, NEW w \in Threads
  PROVE  SetGrant(w) \/ RemoveGrant(w) => Inv'
<1> SUFFICES ASSUME SetGrant(w) \/ RemoveGrant(w) PROVE Inv'
  OBVIOUS
<1> DEFINE j == job[w]
<1>1. j.op \in {"grant", "ungrant"} /\ j.at = "set" /\ Respond(w)
  BY DEF SetGrant, RemoveGrant, At
<1>2. Moves(w) /\ job'[w] = Free /\ Fields(j) /\ FitsAt(j, j.at, j.saw)
  BY <1>1, Serving, GoingOn DEF Inv
<1>3. UNCHANGED <<files, versions, uploads, blobs, minted, spilled, again>>
  BY DEF SetGrant, RemoveGrant
<1>4. FileTypes /\ NewFilesNamed
  BY DEF Inv, Typed
<1>5. grants' \subseteq GrantRows
  <2>1. OthersGrants(w) \subseteq GrantRows
    BY <1>4 DEF OthersGrants, FileTypes
  <2>2. CASE SetGrant(w)
    <3>1. [file |-> j.file, of |-> j.of, level |-> j.level] \in GrantRows
      BY <2>2, <1>2 DEF SetGrant, At, Fields, FitsAt, OfFile, GrantRows
    <3> QED BY <2>1, <2>2, <3>1, <1>4 DEF SetGrant, FileTypes
  <2>3. CASE RemoveGrant(w)
    BY <2>1, <2>3 DEF RemoveGrant
  <2> QED BY <2>2, <2>3
<1>6. FileTypes' /\ NewFilesNamed'
  BY <1>3, <1>4, <1>5 DEF FileTypes, FileRows, VersionRows, GrantRows, UploadRows, NewFilesNamed
<1>7. Grows /\ SameContents /\ again' = again /\ SameUploads
  BY <1>3, <1>4, Lengths DEF Grows, SameContents, SameUploads
<1>8. Untied(j)
  BY <1>1, UntiedPlaces DEF Light
<1> QED BY <1>1, <1>2, <1>6, <1>7, <1>8, LightStepKept

LEMMA PlacesKept ==
  ASSUME Inv, NEW w \in Threads
  PROVE  Rename(w) \/ Move(w) => Inv'
<1> SUFFICES ASSUME Rename(w) \/ Move(w) PROVE Inv'
  OBVIOUS
<1> DEFINE j == job[w]
<1> DEFINE f == job[w].file
<1>1. j.op = "update" /\ j.at \in {"rename", "move"}
  BY DEF Rename, Move, At
<1>2. Fields(j) /\ FitsAt(j, j.at, j.saw) /\ f \in DOMAIN files
  BY <1>1, Serving DEF Inv, Fields, FitsAt, OfFile
<1>3. UNCHANGED <<versions, grants, uploads, blobs, minted, spilled, again>>
  BY DEF Rename, Move
<1>4. FileTypes /\ NewFilesNamed /\ \A x \in DOMAIN files : files[x] \in FileRows
  BY Rows DEF Inv, Typed
<1>5. PICK row : /\ files' = [files EXCEPT ![f] = row] /\ row \in FileRows
                 /\ row.here = files[f].here /\ row.blob = files[f].blob
  <2>1. CASE files' = files
    <3>1. files' = [files EXCEPT ![f] = files[f]] /\ files[f] \in FileRows
      BY <2>1, <1>2, <1>4 DEF FileTypes
    <3> QED BY <3>1
  <2>2. CASE Rename(w) /\ files' # files
    <3>1. files' = [files EXCEPT ![f].name = j.name]
      BY <2>2 DEF Rename
    <3>2. files' = [files EXCEPT ![f] = [files[f] EXCEPT !.name = j.name]]
      BY <3>1
    <3>3. j.name \in FileNames
      BY <2>2, <1>2 DEF Rename, At, Fields, FitsAt, MayGo
    <3>4. /\ [files[f] EXCEPT !.name = j.name] \in FileRows
          /\ [files[f] EXCEPT !.name = j.name].here = files[f].here
          /\ [files[f] EXCEPT !.name = j.name].blob = files[f].blob
      BY <3>3, <1>2, <1>4, FileChanged DEF FileRows
    <3> QED BY <3>2, <3>4
  <2>3. CASE Move(w) /\ files' # files
    <3>1. files' = [files EXCEPT ![f].parent = j.parent] /\ IsFolder(j.parent)
      BY <2>3 DEF Move
    <3>2. files' = [files EXCEPT ![f] = [files[f] EXCEPT !.parent = j.parent]]
      BY <3>1
    <3>3. j.parent \in 0 .. Len(files)
      BY <3>1, <1>4, Lengths DEF IsFolder, There, Root
    <3>4. /\ [files[f] EXCEPT !.parent = j.parent] \in FileRows
          /\ [files[f] EXCEPT !.parent = j.parent].here = files[f].here
          /\ [files[f] EXCEPT !.parent = j.parent].blob = files[f].blob
      <4>1. files[f] \in FileRows
        BY <1>2, <1>4
      <4>2. files[f].name \in FileNames /\ files[f].blob \in 0 .. minted
        BY <4>1 DEF FileRows
      <4> QED BY ZenonT(60), <3>3, <4>1, <4>2, FileChanged
    <3> QED BY <3>2, <3>4
  <2> QED BY <2>1, <2>2, <2>3
<1>6. /\ files' = [x \in DOMAIN files |-> files'[x]]
      /\ \A x \in DOMAIN files : /\ files'[x] \in FileRows
                                 /\ files'[x].here = files[x].here
                                 /\ files'[x].blob = files[x].blob
  BY <1>2, <1>4, <1>5 DEF FileTypes
<1>7. /\ files' \in Seq(FileRows') /\ Len(files') = Len(files) /\ DOMAIN files' = DOMAIN files
      /\ FileRows' = FileRows /\ VersionRows' = VersionRows
      /\ GrantRows' = GrantRows /\ UploadRows' = UploadRows
  BY <1>3, <1>4, <1>6, FilesRewritten
<1>8. FileTypes' /\ NewFilesNamed'
  BY <1>3, <1>4, <1>7 DEF FileTypes, NewFilesNamed
<1>9. Grows /\ SameContents /\ again' = again /\ SameUploads
  BY <1>3, <1>4, <1>6, <1>7, Lengths DEF Grows, SameContents, SameUploads
<1>10. Untied(j)
  BY <1>1, UntiedPlaces DEF Light
<1>11. CASE Respond(w)
  <2>1. Moves(w) /\ job'[w] = Free
    BY <1>1, <1>11, GoingOn DEF Inv
  <2> QED BY <1>1, <1>8, <1>9, <1>10, <2>1, LightStepKept
<1>12. CASE ~Respond(w)
  <2>1. Proceed(w, "check move")
    BY <1>12 DEF Rename, Move
  <2>2. Moves(w) /\ GoesTo(w, "check move", j.saw)
    BY <1>1, <2>1, GoingOn DEF Inv
  <2>3. MayGo(j, "check move", j.saw, minted') /\ Light(j.op, "check move")
    BY <1>1 DEF MayGo, Light, Places
  <2> QED BY <1>1, <1>8, <1>9, <1>10, <2>2, <2>3, LightStepKept
<1> QED BY <1>11, <1>12

\* A row at the end of the files.
LEMMA FileAdded ==
  ASSUME FileTypes, NEW parent \in 0 .. Len(files), NEW name \in FileNames, NEW folder \in BOOLEAN,
         NEW by \in SpaceMembers, NEW blob \in 0 .. minted, minted' = minted,
         files' = Append(files, File(parent, name, folder, by, blob))
  PROVE  /\ files' \in Seq(FileRows') /\ Len(files') = Len(files) + 1
         /\ DOMAIN files' = DOMAIN files \cup {Len(files')} /\ Len(files') \notin DOMAIN files
         /\ \A f \in DOMAIN files : files'[f] = files[f]
         /\ files'[Len(files')] = File(parent, name, folder, by, blob)
         /\ FileRows \subseteq FileRows' /\ VersionRows \subseteq VersionRows'
         /\ GrantRows \subseteq GrantRows' /\ UploadRows \subseteq UploadRows'
         /\ uploads' = uploads => uploads' \in Seq(UploadRows')
<1> DEFINE row == File(parent, name, folder, by, blob)
<1>1. row \in FileRows
  BY DEF File, FileRows
<1>2. files \in Seq(FileRows) /\ \A f \in DOMAIN files : files[f] \in FileRows
  BY Rows DEF FileTypes
<1>3. Len(files) \in Nat /\ DOMAIN files = 1 .. Len(files) /\ minted \in Nat
  BY Lengths
<1> HIDE DEF row
<1>4. files' \in Seq(FileRows) /\ Len(files') = Len(files) + 1
  BY <1>1, <1>2, Appended DEF row
<1>5. /\ DOMAIN files' = DOMAIN files \cup {Len(files) + 1} /\ Len(files) + 1 \notin DOMAIN files
      /\ \A f \in DOMAIN files : files'[f] = files[f]
      /\ files'[Len(files) + 1] = row
  BY <1>2, OneMore DEF row
<1>6. Len(files') \in Nat /\ DOMAIN files' = 1 .. Len(files')
  BY <1>4, Elements
<1>7. Len(files) <= Len(files') /\ minted <= minted' /\ minted' \in Nat
  BY <1>3, <1>4
<1>8. /\ FileRows \subseteq FileRows' /\ VersionRows \subseteq VersionRows'
      /\ GrantRows \subseteq GrantRows' /\ UploadRows \subseteq UploadRows'
  BY <1>6, <1>7, WiderRows
<1>9. files' \in Seq(FileRows')
  <2>1. \A f \in DOMAIN files' : files'[f] \in FileRows'
    BY <1>4, <1>8, Elements
  <2> QED BY <1>4, <2>1, Widened
<1>10. uploads \in Seq(UploadRows')
  <2>1. \A u \in DOMAIN uploads : uploads[u] \in UploadRows'
    BY <1>8, Rows
  <2>2. uploads \in Seq(UploadRows)
    BY DEF FileTypes
  <2> QED BY <2>1, <2>2, Widened
<1> QED BY <1>4, <1>5, <1>8, <1>9, <1>10 DEF row

LEMMA CreateFolderKept ==
  ASSUME Inv, NEW w \in Threads, CreateFolder(w)
  PROVE  Inv'
<1> DEFINE j == job[w]
<1>1. j.op = "folder" /\ j.at = "row" /\ Respond(w)
  BY DEF CreateFolder, At
<1>2. Moves(w) /\ job'[w] = Free /\ Fields(j)
  BY <1>1, Serving, GoingOn DEF Inv
<1>3. UNCHANGED <<versions, uploads, blobs, minted, spilled, again>>
  BY DEF CreateFolder
<1>4. FileTypes /\ NewFilesNamed /\ Untied(j)
  BY <1>1, UntiedPlaces DEF Inv, Typed, Light
<1>5. CASE Refused(w)
  <2>1. UNCHANGED fileTables
    BY <1>3, <1>5 DEF CreateFolder, fileTables
  <2>2. FileTypes' /\ NewFilesNamed' /\ Grows
    BY <1>4, <2>1 DEF FileTypes, FileRows, VersionRows, GrantRows, UploadRows, NewFilesNamed, Grows,
                      fileTables
  <2>3. SameContents /\ again' = again /\ SameUploads
    BY <2>1 DEF SameContents, SameUploads, fileTables
  <2> QED BY <1>1, <1>2, <1>4, <2>2, <2>3, LightStepKept
<1>6. CASE ~Refused(w)
  <2>1. /\ files' = Append(files, File(j.parent, j.name, TRUE, j.by, 0))
        /\ grants' = grants \cup {[file |-> Len(files'), of |-> j.by, level |-> Own]}
    BY <1>6 DEF CreateFolder
  <2>2. /\ j.parent \in 0 .. Len(files) /\ j.name \in FileNames /\ j.by \in SpaceMembers
        /\ 0 \in 0 .. minted
    BY <1>1, <1>2, <1>4, <1>6, Lengths DEF Refused, Wanted, IsFolder, There, Root, Fields, InFolder
  <2>3. /\ files' \in Seq(FileRows') /\ Len(files') = Len(files) + 1
        /\ DOMAIN files' = DOMAIN files \cup {Len(files')} /\ Len(files') \notin DOMAIN files
        /\ \A f \in DOMAIN files : files'[f] = files[f]
        /\ files'[Len(files')] = File(j.parent, j.name, TRUE, j.by, 0)
        /\ VersionRows \subseteq VersionRows' /\ GrantRows \subseteq GrantRows'
        /\ uploads' \in Seq(UploadRows')
    BY <1>3, <1>4, <2>1, <2>2, FileAdded
  <2>4. grants' \subseteq GrantRows'
    <3>1. [file |-> Len(files'), of |-> j.by, level |-> Own] \in GrantRows'
      BY <2>2, <2>3 DEF GrantRows
    <3>2. grants \subseteq GrantRows'
      BY <1>4, <2>3 DEF FileTypes
    <3> QED BY <2>1, <3>1, <3>2
  <2>5. FileTypes'
    BY <1>3, <1>4, <2>3, <2>4 DEF FileTypes
  <2>6. Len(files) \in Nat /\ minted \in Nat
    BY <1>4, Lengths
  <2>7. Grows /\ SameUploads /\ NewFilesNamed' /\ again' = again
    BY <1>3, <1>4, <2>3, <2>6 DEF Grows, SameUploads, NewFilesNamed
  <2>8. SameContents
    <3>1. files'[Len(files')].blob = 0
      BY <2>3 DEF File
    <3> QED BY <1>3, <2>3, <3>1 DEF SameContents
  <2> QED BY <1>1, <1>2, <1>4, <2>5, <2>7, <2>8, LightStepKept
<1> QED BY <1>5, <1>6

LEMMA NewUpload ==
  ASSUME NEW by \in SpaceMembers, NEW left \in SUBSET Nat, NEW file \in 0 .. Len(files),
         NEW parent \in 0 .. Len(files), NEW name \in FileNames \cup {Keep}
  PROVE  [by |-> by, live |-> TRUE, staged |-> TRUE, left |-> left,
          file |-> file, parent |-> parent, name |-> name] \in UploadRows
  BY Zenon DEF UploadRows

LEMMA CreateUploadSessionKept ==
  ASSUME Inv, NEW w \in Threads, CreateUploadSession(w)
  PROVE  Inv'
<1> DEFINE j == job[w]
<1> DEFINE row ==
      [by |-> j.by, live |-> TRUE, staged |-> TRUE, left |-> j.chunks,
       file |-> IF j.op = "version init" THEN j.file ELSE 0,
       parent |-> IF j.op = "version init" THEN Root ELSE j.parent,
       name |-> IF j.op = "version init" THEN Keep ELSE j.name]
<1>1. j.at = "session" /\ Respond(w) /\ UNCHANGED <<files, versions, grants, blobs, minted, spilled, again>>
  BY DEF CreateUploadSession
<1>2. Moves(w) /\ job'[w] = Free /\ Fields(j) /\ FitsAt(j, j.at, j.saw)
  BY <1>1, Serving, GoingOn DEF Inv
<1>3. j.op \in {"upload init", "version init"}
  BY <1>1, <1>2 DEF FitsAt, MayGo, Places, Fields, InFolder, OfFile
<1>4. FileTypes /\ NewFilesNamed /\ \A u \in DOMAIN uploads : uploads[u] \in UploadRows
  BY Rows DEF Inv, Typed
<1>5. PICK stale \in SUBSET {u \in DOMAIN uploads : uploads[u].live} :
        uploads' = Append(
          [u \in DOMAIN uploads |->
             IF u \in stale THEN [uploads[u] EXCEPT !.live = FALSE, !.staged = FALSE] ELSE uploads[u]],
          row)
  BY DEF CreateUploadSession
<1> DEFINE reaped == [u \in DOMAIN uploads |->
      IF u \in stale THEN [uploads[u] EXCEPT !.live = FALSE, !.staged = FALSE] ELSE uploads[u]]
<1>6. \A u \in DOMAIN uploads : /\ reaped[u] \in UploadRows
                                /\ reaped[u].file = uploads[u].file
                                /\ reaped[u].name = uploads[u].name
                                /\ reaped[u].staged => uploads[u].staged
  BY <1>4, UploadChanged
<1>7. /\ row \in UploadRows /\ (row.file = 0 => row.name \in FileNames)
  <2>1. CASE j.op = "version init"
    <3>1. j.file \in 1 .. Len(files) /\ Len(files) \in Nat
      BY <1>2, <1>4, <2>1, Lengths DEF Fields, FitsAt, OfFile
    <3>2. j.by \in SpaceMembers /\ j.chunks \in SUBSET Nat
      BY <1>2, <2>1 DEF Fields, OfFile
    <3>3. row = [by |-> j.by, live |-> TRUE, staged |-> TRUE, left |-> j.chunks,
                 file |-> j.file, parent |-> Root, name |-> Keep]
      BY <2>1
    <3>4. row.file = j.file
      BY <2>1
    <3>5. j.file \in 0 .. Len(files) /\ Root \in 0 .. Len(files) /\ j.file # 0
      BY <3>1 DEF Root
    <3>6. Keep \in FileNames \cup {Keep}
      OBVIOUS
    <3> HIDE DEF row, j
    <3>7. row \in UploadRows
      BY Zenon, <3>2, <3>3, <3>5, <3>6, NewUpload
    <3> QED BY <3>4, <3>5, <3>7
  <2>2. CASE j.op = "upload init"
    <3>1. j.parent \in 0 .. Len(files) /\ Len(files) \in Nat
      BY <1>1, <1>2, <1>4, <2>2, Lengths DEF FitsAt, MayGo
    <3>2. j.by \in SpaceMembers /\ j.chunks \in SUBSET Nat /\ j.name \in FileNames
      BY <1>2, <2>2 DEF Fields, InFolder
    <3>3. row = [by |-> j.by, live |-> TRUE, staged |-> TRUE, left |-> j.chunks,
                 file |-> 0, parent |-> j.parent, name |-> j.name]
      BY <2>2
    <3>4. row.name \in FileNames
      BY <3>2, <3>3
    <3>5. 0 \in 0 .. Len(files)
      BY <3>1
    <3>6. j.name \in FileNames \cup {Keep}
      BY <3>2
    <3> HIDE DEF row, j
    <3>7. row \in UploadRows
      BY Zenon, <3>1, <3>2, <3>3, <3>5, <3>6, NewUpload
    <3> QED BY <3>4, <3>7
  <2> QED BY <1>3, <2>1, <2>2
<1>8. uploads \in Seq(UploadRows) /\ reaped = [u \in DOMAIN uploads |-> reaped[u]]
      /\ DOMAIN reaped = DOMAIN uploads
  BY <1>4 DEF FileTypes
<1> HIDE DEF row, reaped
<1>9. uploads' = Append(reaped, row)
  BY <1>5 DEF row, reaped
<1>10. reaped \in Seq(UploadRows) /\ Len(reaped) = Len(uploads)
  BY <1>6, <1>8, Rewritten
<1>11. uploads' \in Seq(UploadRows) /\ Len(uploads') = Len(uploads) + 1
  BY <1>6, <1>7, <1>8, <1>9, <1>10, Appended
<1>12. /\ DOMAIN uploads' = DOMAIN uploads \cup {Len(uploads) + 1}
       /\ \A u \in DOMAIN uploads : uploads'[u] = reaped[u]
       /\ uploads'[Len(uploads) + 1] = row /\ Len(uploads) + 1 \notin DOMAIN uploads
  BY <1>8, <1>9, <1>10, OneMore
<1>13. FileTypes' /\ NewFilesNamed'
  <2>1. FileTypes'
    BY <1>1, <1>4, <1>11 DEF FileTypes, FileRows, VersionRows, GrantRows, UploadRows
  <2>2. NewFilesNamed'
    BY <1>4, <1>6, <1>7, <1>12 DEF NewFilesNamed
  <2> QED BY <2>1, <2>2
<1>14. Grows /\ SameContents
  BY <1>1, <1>4, <1>6, <1>12, Lengths DEF Grows, SameContents
<1>15. Typed'
  BY <1>2, <1>13, <1>14, TypesKept DEF Inv, Fits
<1>16. StoreMatches'
  BY <1>1, <1>2, <1>13, <1>14, FreeUntied, UntiedPlaces, MoveApart, ContentsKeepStore DEF Inv, Light
<1>17. /\ \A v \in Threads : \A u : Brings(v, u)' => Brings(v, u)
       /\ LetIn' \subseteq LetIn
  <2>1. \A u : ~Brings(w, u)'
    BY <1>2 DEF Brings, Free
  <2>2. \A v \in Threads \ {w} : job'[v] = job[v]
    BY <1>2, MoveApart DEF Inv, Apart
  <2>3. w \notin LetIn'
    BY <1>2 DEF LetIn, Free
  <2> QED BY <2>1, <2>2, <2>3 DEF Brings, LetIn
<1>18. \A v \in Threads : ~Brings(v, Len(uploads) + 1)
  <2>1. SUFFICES ASSUME NEW v \in Threads, Brings(v, Len(uploads) + 1) PROVE FALSE
    OBVIOUS
  <2>2. job[v].at # "none" /\ job[v].op = "complete" /\ job[v].upload = Len(uploads) + 1
    BY <2>1 DEF Brings
  <2>3. job[v].upload \in DOMAIN uploads
    BY <2>2, Serving DEF Inv, Fields, FitsAt
  <2> QED BY <1>12, <2>2, <2>3
<1>19. OneBrings'
  BY <1>6, <1>12, <1>17, <1>18 DEF OneBrings, Inv, WithinLimit
<1>20. Coming' \subseteq Coming \cup {Len(uploads) + 1}
  BY <1>6, <1>12, <1>17 DEF Coming
<1>21. /\ Cardinality(Coming') <= Cardinality(Coming) + 1
       /\ Cardinality(Coming') \in Nat
  BY <1>20, LimitCounts, FewNext, <1>15, OneMoreAtMost DEF Inv, Few
<1>22. Cardinality(LetIn') <= Cardinality(LetIn) /\ Cardinality(LetIn') \in Nat
  BY <1>15, <1>17, LimitCounts, FewNext, FS_Subset DEF Inv, Few
<1>23. WithinLimit'
  <2> DEFINE limit == SpaceLimit + calls.atOnce - 1
  <2>1. /\ Cardinality(versions) \in Nat /\ Cardinality(LetIn) \in Nat /\ Cardinality(Coming) \in Nat
        /\ again \in Nat /\ Len(uploads) \in Nat /\ limit \in Int
    BY LimitCounts DEF Inv
  <2>2. Cardinality(versions) + Cardinality(LetIn) + Cardinality(Coming) <= limit + again + Len(uploads)
    BY DEF Inv, WithinLimit
  <2> HIDE DEF limit
  <2>3. Cardinality(versions) + Cardinality(LetIn') + Cardinality(Coming')
          <= limit + again + (Len(uploads) + 1)
    BY <1>21, <1>22, <2>1, <2>2, OneMoreEach
  <2>4. versions' = versions /\ again' = again /\ calls' = calls
    BY <1>1, <1>2 DEF Moves
  <2> QED BY <1>11, <1>19, <2>3, <2>4 DEF WithinLimit, limit
<1> QED BY <1>15, <1>16, <1>23 DEF Inv

-----------------------------------------------------------------------------
(* Steps that change who holds a blob *)

\* What w holds after its step is its own and in the storage.
HoldsAlone(w) ==
  /\ Fresh(job'[w]) \subseteq blobs'
  /\ \A v \in versions : v.blob \notin Fresh(job'[w]) \cup Doomed(job'[w])
  /\ \A x \in Threads \ {w} :
       /\ Fresh(job'[w]) \cap (Fresh(job[x]) \cup Doomed(job[x])) = {}
       /\ Fresh(job[x]) \cap Doomed(job'[w]) = {}
       /\ Fresh(job[x]) \subseteq blobs'

LEMMA OthersClaims ==
  ASSUME NEW w \in Threads, Apart(w)
  PROVE  \A x \in Threads \ {w} : /\ Fresh(job[x])' = Fresh(job[x])
                                  /\ Doomed(job[x])' = Doomed(job[x])
  BY DEF Apart, Fresh, Doomed

LEMMA ClaimsKeepStore ==
  ASSUME Typed, FileTypes', StoreMatches, NEW w \in Threads, Apart(w), Grows,
         files' = files, versions' = versions, \A v \in versions : v.blob \in blobs',
         HoldsAlone(w), Follows(job[w])', BlobsAccounted'
  PROVE  StoreMatches'
<1>1. /\ \A f : There(f)' <=> There(f)
      /\ \A f : VersionsOf(f)' = VersionsOf(f) /\ Numbers(f)' = Numbers(f)
      /\ \A f, b : HasBlob(f, b)' <=> HasBlob(f, b)
  BY DEF There, VersionsOf, Numbers, HasBlob
<1>2. Numbered' /\ RowsHaveBlobs' /\ ShowsNewest'
  BY <1>1 DEF StoreMatches, Numbered, RowsHaveBlobs, ShowsNewest
<1>3. \A x \in Threads \ {w} : Fresh(job[x])' = Fresh(job[x]) /\ Doomed(job[x])' = Doomed(job[x])
  BY OthersClaims
<1>4. Fresh(job[w])' = Fresh(job'[w]) /\ Doomed(job[w])' = Doomed(job'[w])
  BY DEF Fresh, Doomed
<1>5. Holds(w)'
  <2>1. Fresh(job[w])' \subseteq blobs' /\ \A v \in versions' : v.blob \notin Fresh(job[w])' \cup Doomed(job[w])'
    BY <1>4 DEF HoldsAlone
  <2>2. \A x \in Threads \ {w} : Fresh(job[w])' \cap (Fresh(job[x])' \cup Doomed(job[x])') = {}
    BY <1>3, <1>4 DEF HoldsAlone
  <2> QED BY <2>1, <2>2 DEF Holds
<1>6. ASSUME NEW x \in Threads \ {w} PROVE Holds(x)'
  <2>1. Holds(x)
    BY DEF StoreMatches
  <2>2. Fresh(job[x])' \subseteq blobs'
    BY <1>3 DEF HoldsAlone
  <2>3. \A v \in versions' : v.blob \notin Fresh(job[x])' \cup Doomed(job[x])'
    BY <1>3, <2>1 DEF Holds
  <2>4. ASSUME NEW y \in Threads \ {x} PROVE Fresh(job[x])' \cap (Fresh(job[y])' \cup Doomed(job[y])') = {}
    <3>1. CASE y = w
      BY <1>3, <1>4, <3>1 DEF HoldsAlone
    <3>2. CASE y # w
      BY <1>3, <2>1, <3>2 DEF Holds
    <3> QED BY <3>1, <3>2
  <2> QED BY <2>2, <2>3, <2>4 DEF Holds
<1>7. \A x \in Threads \ {w} : Follows(job[x])'
  BY <1>1, OthersFollow DEF StoreMatches, Apart
<1> QED BY <1>2, <1>5, <1>6, <1>7 DEF StoreMatches

\* A fresh key is nobody's.
LEMMA NobodyHolds ==
  ASSUME Typed, StoreMatches, NEW b, b \notin 1 .. minted
  PROVE  /\ b \notin blobs /\ \A v \in versions : v.blob # b
         /\ \A x \in Threads : b \notin Fresh(job[x]) /\ (b # 0 => b \notin Doomed(job[x]))
<1>1. blobs \subseteq 1 .. minted /\ \A v \in versions : v.blob \in 1 .. minted
  BY DEF Typed, FileTypes, VersionRows
<1>2. \A x \in Threads : Fresh(job[x]) \subseteq blobs
  BY DEF StoreMatches, Holds
<1>3. \A x \in Threads : Doomed(job[x]) \subseteq 0 .. minted
  <2>1. SUFFICES ASSUME NEW x \in Threads, job[x].op = "delete", job[x].at = "blobs"
                 PROVE  job[x].saw \subseteq 0 .. minted
    BY DEF Doomed
  <2> QED BY <2>1, Serving DEF FitsAt, MayGo
<1>4. b # 0 => b \notin 0 .. minted
  BY Lengths DEF Typed
<1> QED BY <1>1, <1>2, <1>3, <1>4

\* Blobs drawn one after another.
LEMMA OneMoreBlob ==
  ASSUME FileTypes, minted' = minted + 1, blobs' = blobs \cup {minted'}
  PROVE  /\ minted' \in Nat /\ minted <= minted' /\ minted' \in 1 .. minted' /\ minted' \notin 1 .. minted
         /\ blobs' \subseteq 1 .. minted' /\ 1 .. minted \subseteq 1 .. minted'
<1>1. minted \in Nat /\ blobs \subseteq 1 .. minted
  BY DEF FileTypes
<1> QED BY <1>1

LEMMA PutBlobKept ==
  ASSUME Inv, NEW w \in Threads, PutBlob(w)
  PROVE  Inv'
<1> DEFINE j == job[w]
<1> DEFINE place == IF j.op = "upload" THEN "row" ELSE "number"
<1>1. /\ j.at = "put" /\ minted' = minted + 1 /\ blobs' = blobs \cup {minted'}
      /\ Recall(w, place, minted') /\ UNCHANGED <<files, versions, grants, uploads, spilled, again>>
  BY DEF PutBlob
<1>2. Fields(j) /\ FitsAt(j, j.at, j.saw)
  BY <1>1, Serving DEF Inv
<1>3. j.op \in {"upload", "version"}
  BY <1>1, <1>2 DEF FitsAt, MayGo, Places, Fields, InFolder, OfFile
<1>4. Moves(w) /\ GoesTo(w, place, minted')
  <2>1. place # "none"
    OBVIOUS
  <2> QED BY <1>1, <2>1, GoingOn DEF Inv
<1>5. /\ minted' \in Nat /\ minted <= minted' /\ minted' \in 1 .. minted' /\ minted' \notin 1 .. minted
      /\ blobs' \subseteq 1 .. minted' /\ 1 .. minted \subseteq 1 .. minted'
  BY <1>1, OneMoreBlob DEF Inv, Typed
<1>6. FileTypes' /\ NewFilesNamed' /\ Grows
  <2>1. FileTypes /\ NewFilesNamed /\ Len(files) \in Nat /\ DOMAIN files = 1 .. Len(files)
    BY Lengths DEF Inv, Typed
  <2>2. /\ FileRows \subseteq FileRows' /\ VersionRows \subseteq VersionRows'
        /\ GrantRows \subseteq GrantRows' /\ UploadRows \subseteq UploadRows'
    BY <1>1, <1>5, <2>1, WiderRows
  <2>3. files \in Seq(FileRows') /\ uploads \in Seq(UploadRows')
    BY <2>1, <2>2, Rows, Widened DEF FileTypes
  <2>4. FileTypes'
    BY <1>1, <1>5, <2>1, <2>2, <2>3 DEF FileTypes
  <2> QED BY <1>1, <1>5, <2>1, <2>4 DEF NewFilesNamed, Grows
<1>7. MayGo(j, place, minted', minted')
  BY <1>3, <1>5 DEF MayGo, Places
<1>8. Typed'
  <2>1. Fits(job[w])'
    BY <1>1, <1>4, <1>6, <1>7, GoneFits DEF Inv
  <2> QED BY <1>4, <1>6, <2>1, TypesKept DEF Inv
<1>9. Apart(w)
  BY <1>4, MoveApart DEF Inv
<1>10. job'[w].op = j.op /\ job'[w].at = place /\ job'[w].saw = minted'
  BY <1>2, <1>4 DEF GoesTo, Fields
<1>11. Fresh(job'[w]) = {minted'} /\ Doomed(job'[w]) = {} /\ Reverted(job'[w]) = {}
  BY <1>3, <1>10 DEF Fresh, Doomed, Reverted
<1>12. StoreMatches'
  <2>1. HoldsAlone(w)
    <3>1. \A x \in Threads : Fresh(job[x]) \subseteq blobs
      BY DEF Inv, StoreMatches, Holds
    <3>2. /\ \A v \in versions : v.blob # minted'
          /\ \A x \in Threads : minted' \notin Fresh(job[x]) \cup Doomed(job[x])
      <4>1. minted' # 0
        BY <1>5
      <4> QED BY <1>5, <4>1, NobodyHolds DEF Inv
    <3> QED BY <1>1, <1>11, <3>1, <3>2 DEF HoldsAlone
  <2>2. Follows(job[w])'
    <3>1. Reverted(job[w])' = {} /\ (job[w].at # "version")'
      BY <1>10, <1>11 DEF Reverted
    <3> QED BY <3>1 DEF Follows
  <2>3. BlobsAccounted'
    <3>1. \A x \in Threads \ {w} : Fresh(job[x])' = Fresh(job[x]) /\ Doomed(job[x])' = Doomed(job[x])
      BY <1>9, OthersClaims
    <3>2. Fresh(job[w]) = {} /\ Doomed(job[w]) = {}
      BY <1>1 DEF Fresh, Doomed
    <3>3. minted' \in Fresh(job[w])'
      BY <1>11 DEF Fresh
    <3> QED BY <1>1, <3>1, <3>2, <3>3 DEF BlobsAccounted, Inv, StoreMatches
  <2>4. \A v \in versions : v.blob \in blobs'
    BY <1>1 DEF Inv, StoreMatches, RowsHaveBlobs
  <2> QED BY <1>1, <1>6, <1>9, <2>1, <2>2, <2>3, <2>4, ClaimsKeepStore DEF Inv
<1>13. WithinLimit'
  <2>1. w \in LetIn
    BY <1>1, <1>3 DEF LetIn
  <2>2. \A u : ~Brings(w, u)'
    BY <1>3, <1>10 DEF Brings
  <2>3. SameUploads /\ versions' \subseteq versions /\ again <= again'
    BY <1>1, Lengths DEF SameUploads, Inv, Typed
  <2> QED BY <1>8, <1>9, <2>1, <2>2, <2>3, UnbroughtKeepLimit DEF Inv
<1> QED BY <1>8, <1>12, <1>13 DEF Inv

LEMMA FollowsThen ==
  ASSUME NEW w, UNCHANGED <<files, versions, uploads>>, Follows(job'[w])
  PROVE  Follows(job[w])'
  BY DEF Follows, Reverted, There, HasBlob, Target, Numbers, VersionsOf

LEMMA MaxUpTo ==
  ASSUME NEW n \in Nat
  PROVE  Max({0} \cup 1 .. n) = n
<1> DEFINE S == {0} \cup 1 .. n
<1>1. n \in S /\ \A y \in S : n >= y
  OBVIOUS
<1>2. \A x \in S : (\A y \in S : x >= y) => x = n
  BY <1>1
<1> QED BY <1>1, <1>2 DEF Max

\* The file of a worker that is about to write a version.
LEMMA TargetKnown ==
  ASSUME Typed, NEW w \in Threads, job[w].at \in {"number", "version"}
  PROVE  /\ job[w].op \in {"version", "revert", "complete"}
         /\ Target(job[w]) \in DOMAIN files /\ Wanted(w).file = Target(job[w])
<1> DEFINE j == job[w]
<1>1. Fields(j) /\ FitsAt(j, j.at, j.saw)
  BY Serving
<1>2. j.op \in {"version", "revert", "complete"}
  BY <1>1 DEF FitsAt, MayGo, Places, Fields, InFolder, OfFile
<1>3. Target(j) \in DOMAIN files
  <2>1. CASE j.op = "complete"
    <3>1. j.upload \in DOMAIN uploads /\ uploads[j.upload].file # 0
      BY <1>1, <2>1 DEF FitsAt, MayGo, Fields
    <3>2. uploads[j.upload].file \in 0 .. Len(files)
      BY <3>1, Rows DEF Typed, UploadRows
    <3>3. DOMAIN files = 1 .. Len(files) /\ Len(files) \in Nat
      BY Lengths DEF Typed
    <3> QED BY <2>1, <3>1, <3>2, <3>3 DEF Target
  <2>2. CASE j.op # "complete"
    BY <1>1, <1>2, <2>2 DEF FitsAt, Fields, OfFile, Target
  <2> QED BY <2>1, <2>2
<1> QED BY <1>2, <1>3 DEF Wanted, Target

LEMMA CheckUpdateFileKept ==
  ASSUME Inv, NEW w \in Threads, CheckUpdateFile(w)
  PROVE  Inv'
<1> DEFINE j == job[w]
<1>1. j.op = "update" /\ j.at = "check" /\ UNCHANGED fileTables
  BY DEF CheckUpdateFile, At
<1>2. Untied(j)
  BY <1>1, UntiedPlaces DEF Light
<1>3. FileTypes' /\ NewFilesNamed' /\ Grows /\ SameContents /\ again' = again /\ SameUploads
  BY <1>1 DEF Inv, Typed, FileTypes, FileRows, VersionRows, GrantRows, UploadRows, NewFilesNamed,
              Grows, SameContents, SameUploads, fileTables
<1>4. CASE Respond(w)
  <2>1. Moves(w) /\ job'[w] = Free
    BY <1>1, <1>4, GoingOn DEF Inv
  <2> QED BY <1>1, <1>2, <1>3, <2>1, LightStepKept
<1>5. CASE ~Respond(w)
  <2> DEFINE named == j.name # Keep
  <2>1. PICK place, name : /\ place = (IF named THEN "rename" ELSE "check move")
                           /\ name = (IF named THEN j.name ELSE files[j.file].name)
    OBVIOUS
  <2>2. Recall(w, place, name)
    BY <1>5, <2>1 DEF CheckUpdateFile
  <2>3. place \in {"rename", "check move"} /\ (place = "rename" => j.name # Keep)
    BY <2>1
  <2>4. Moves(w) /\ GoesTo(w, place, name)
    BY <1>1, <2>2, <2>3, GoingOn DEF Inv
  <2>5. MayGo(j, place, name, minted') /\ Light(j.op, place)
    BY <1>1, <2>3 DEF MayGo, Places, Light
  <2>6. j.at # "none"
    BY <1>1
  <2> HIDE DEF j, named
  <2> QED BY <1>2, <1>3, <2>4, <2>5, <2>6, LightStepKept DEF j
<1> QED BY <1>4, <1>5

LEMMA CheckRevertKept ==
  ASSUME Inv, NEW w \in Threads, CheckRevert(w)
  PROVE  Inv'
<1> DEFINE j == job[w]
<1>1. j.op = "revert" /\ j.at = "check" /\ UNCHANGED fileTables
  BY DEF CheckRevert, At
<1>2. Fields(j) /\ FitsAt(j, j.at, j.saw) /\ Untied(j)
  BY <1>1, Serving, UntiedPlaces DEF Inv, Light
<1>3. FileTypes' /\ NewFilesNamed' /\ Grows /\ SameContents /\ again' = again /\ SameUploads
  BY <1>1 DEF Inv, Typed, FileTypes, FileRows, VersionRows, GrantRows, UploadRows, NewFilesNamed,
              Grows, SameContents, SameUploads, fileTables
<1>4. CASE Respond(w)
  <2>1. Moves(w) /\ job'[w] = Free
    BY <1>1, <1>4, GoingOn DEF Inv
  <2> QED BY <1>1, <1>2, <1>3, <2>1, LightStepKept
<1>5. CASE ~Respond(w)
  <2>1. PICK v \in VersionsOf(j.file) : Recall(w, "number", v.blob)
    BY <1>5 DEF CheckRevert
  <2>2. v \in versions /\ v.file = j.file /\ v.blob \in 1 .. minted
    BY <2>1 DEF VersionsOf, Inv, Typed, FileTypes, VersionRows
  <2>3. Moves(w) /\ GoesTo(w, "number", v.blob)
    BY <1>1, <2>1, GoingOn DEF Inv
  <2>4. MayGo(j, "number", v.blob, minted)
    BY <1>1, <2>2 DEF MayGo, Places
  <2>5. Typed' /\ Apart(w)
    BY <1>1, <2>3, <2>4, ReadKeepsTypes, MoveApart DEF Inv
  <2>6. /\ job'[w].op = "revert" /\ job'[w].at = "number" /\ job'[w].saw = v.blob
        /\ job'[w].file = j.file
    BY <1>1, <1>2, <2>3 DEF GoesTo, Fields, OfFile
  <2>7. Fresh(job'[w]) = {} /\ Doomed(job'[w]) = {}
    BY <2>6 DEF Fresh, Doomed
  <2>8. UNCHANGED <<files, versions, blobs, spilled, again, uploads>>
    BY <1>1 DEF fileTables
  <2>9. StoreMatches'
    <3>1. HoldsAlone(w)
      BY <2>7, <2>8 DEF HoldsAlone, Inv, StoreMatches, Holds
    <3>2. Follows(job[w])'
      <4>1. HasBlob(j.file, v.blob)
        BY <2>2 DEF HasBlob
      <4>2. Reverted(job'[w]) = {v.blob}
        BY <2>6 DEF Reverted
      <4>3. Follows(job'[w])
        BY <2>6, <4>1, <4>2 DEF Follows
      <4> QED BY <2>8, <4>3, FollowsThen
    <3>3. BlobsAccounted'
      <4>1. \A x \in Threads \ {w} : Fresh(job[x])' = Fresh(job[x]) /\ Doomed(job[x])' = Doomed(job[x])
        BY <2>5, OthersClaims
      <4> QED BY <1>2, <2>8, <4>1 DEF BlobsAccounted, Inv, StoreMatches, Untied
    <3>4. \A x \in versions : x.blob \in blobs'
      BY <2>8 DEF Inv, StoreMatches, RowsHaveBlobs
    <3> QED BY <1>3, <2>5, <2>8, <3>1, <3>2, <3>3, <3>4, ClaimsKeepStore DEF Inv
  <2>10. WithinLimit'
    <3>1. w \notin LetIn' /\ \A u : ~Brings(w, u)'
      BY <2>6 DEF LetIn, Brings
    <3>2. versions' \subseteq versions /\ again <= again'
      BY <2>8, Lengths DEF Inv, Typed
    <3> QED BY <1>3, <2>5, <3>1, <3>2, UnbroughtKeepLimit DEF Inv
  <2> QED BY <2>5, <2>9, <2>10 DEF Inv
<1> QED BY <1>4, <1>5

LEMMA NumberVersionKept ==
  ASSUME Inv, NEW w \in Threads, NumberVersion(w)
  PROVE  Inv'
<1> DEFINE j == job[w]
<1> DEFINE f == Wanted(w).file
<1> DEFINE next == 1 + Max({0} \cup Numbers(f))
<1> DEFINE seen == [blob |-> j.saw, number |-> next]
<1>1. j.at = "number" /\ Recall(w, "version", seen) /\ UNCHANGED fileTables
  BY DEF NumberVersion
<1>2. Fields(j) /\ FitsAt(j, j.at, j.saw) /\ j.saw \in 1 .. minted
  BY <1>1, Serving DEF Inv, FitsAt, MayGo
<1>3. j.op \in {"version", "revert", "complete"} /\ f \in DOMAIN files /\ f = Target(j)
  BY <1>1, TargetKnown DEF Inv
<1>4. PICK n \in Nat : Numbers(f) = 1 .. n
  <2>1. \A x \in Numbers(f) : x \in Nat
    BY DEF Numbers, VersionsOf, Inv, Typed, FileTypes, VersionRows
  <2>2. \E n \in {0} \cup Numbers(f) : Numbers(f) = 1 .. n
    BY <1>3 DEF Inv, StoreMatches, Numbered
  <2> QED BY <2>1, <2>2
<1>5. next = n + 1
  <2>1. Max({0} \cup Numbers(f)) = n
    BY <1>4, MaxUpTo
  <2> QED BY <2>1
<1> DEFINE number == seen.number
<1>6. seen.blob = j.saw /\ seen.number = n + 1
  BY <1>5
<1> HIDE DEF next, seen
<1>7. Moves(w) /\ GoesTo(w, "version", seen)
  BY <1>1, GoingOn DEF Inv
<1>8. MayGo(j, "version", seen, minted)
  <2>1. seen.blob \in 1 .. minted /\ seen.number \in Nat \ {0}
    BY <1>2, <1>6
  <2>2. "version" \in Places(j.op)
    BY <1>3 DEF Places
  <2>3. j.op = "complete" => uploads[j.upload].file # 0
    BY <1>1, <1>2 DEF FitsAt, MayGo
  <2> QED BY <2>1, <2>2, <2>3 DEF MayGo
<1>9. Typed' /\ Grows /\ Apart(w)
  BY <1>1, <1>7, <1>8, ReadKeepsTypes, MoveApart DEF Inv
<1>10. /\ job'[w].op = j.op /\ job'[w].at = "version" /\ job'[w].saw = seen
       /\ "file" \in DOMAIN j => job'[w].file = j.file
       /\ "upload" \in DOMAIN j => job'[w].upload = j.upload
  BY <1>2, <1>7 DEF GoesTo, Fields
<1>11. UNCHANGED <<files, versions, blobs, spilled, again, uploads>>
  BY <1>1 DEF fileTables
<1>12. /\ Fresh(job'[w]) = Fresh(j) /\ Doomed(job'[w]) = {} /\ Doomed(j) = {}
       /\ Reverted(job'[w]) = Reverted(j)
  BY <1>1, <1>3, <1>6, <1>10 DEF Fresh, Doomed, Reverted
<1>13. StoreMatches'
  <2>1. HoldsAlone(w)
    BY <1>11, <1>12 DEF HoldsAlone, Inv, StoreMatches, Holds
  <2>2. Follows(job[w])'
    <3> DEFINE k == job'[w]
    <3>1. ASSUME NEW b \in Reverted(k), There(k.file) PROVE HasBlob(k.file, b)
      <4>1. b \in Reverted(j) /\ j.op = "revert"
        BY <1>12, <3>1 DEF Reverted
      <4>2. k.file = j.file
        BY <1>2, <1>10, <4>1 DEF Fields, OfFile
      <4>3. There(j.file)
        BY <3>1, <4>2
      <4>4. HasBlob(j.file, b)
        BY <4>1, <4>3 DEF Inv, StoreMatches, Follows
      <4> QED BY <4>2, <4>4
    <3>2. Target(k) = f
      BY <1>2, <1>3, <1>10 DEF Target, Fields, OfFile
    <3>3. 1 .. (seen.number - 1) \subseteq Numbers(f)
      BY <1>4, <1>6
    <3>4. 1 .. (k.saw.number - 1) \subseteq Numbers(Target(k))
      BY <1>10, <3>2, <3>3
    <3>5. Follows(k)
      BY <3>1, <3>4 DEF Follows
    <3> QED BY <1>11, <3>5, FollowsThen
  <2>3. BlobsAccounted'
    <3>1. \A x \in Threads \ {w} : Fresh(job[x])' = Fresh(job[x]) /\ Doomed(job[x])' = Doomed(job[x])
      BY <1>9, OthersClaims
    <3>2. Fresh(job[w])' = Fresh(j)
      BY <1>12 DEF Fresh
    <3> QED BY <1>11, <1>12, <3>1, <3>2 DEF BlobsAccounted, Inv, StoreMatches
  <2>4. \A x \in versions : x.blob \in blobs'
    BY <1>11 DEF Inv, StoreMatches, RowsHaveBlobs
  <2>5. FileTypes' /\ files' = files /\ versions' = versions
    BY <1>9, <1>11 DEF Typed
  <2> QED BY <1>9, <2>1, <2>2, <2>3, <2>4, <2>5, ClaimsKeepStore DEF Inv
<1>14. WithinLimit'
  <2>1. w \in LetIn' => w \in LetIn
    BY <1>1, <1>10 DEF LetIn
  <2>2. \A u \in DOMAIN uploads : Brings(w, u)' => Brings(w, u)
    BY <1>1, <1>2, <1>10 DEF Brings, Fields
  <2>3. SameUploads /\ versions' \subseteq versions /\ again <= again'
    BY <1>11, Lengths DEF SameUploads, Inv, Typed
  <2> QED BY <1>9, <2>1, <2>2, <2>3, UnbroughtKeepLimit DEF Inv
<1> QED BY <1>9, <1>13, <1>14 DEF Inv

\* Tables of blobs and uploads change; rows do not.
LEMMA TypesDrawn ==
  ASSUME FileTypes, UNCHANGED <<files, versions, grants>>, minted <= minted', minted' \in Nat,
         uploads' \in Seq(UploadRows), blobs' \subseteq 1 .. minted', spilled' \subseteq 1 .. minted',
         again' \in Nat
  PROVE  FileTypes'
<1>1. /\ FileRows \subseteq FileRows' /\ VersionRows \subseteq VersionRows'
      /\ GrantRows \subseteq GrantRows' /\ UploadRows \subseteq UploadRows'
  BY Lengths, WiderRows
<1>2. files \in Seq(FileRows')
  BY <1>1, Rows, Widened DEF FileTypes
<1>3. uploads' \in Seq(UploadRows')
  BY <1>1, Elements, Widened
<1> QED BY <1>1, <1>2, <1>3 DEF FileTypes

\* A worker gives up its blobs: they go, or are written down as spilled.
LEMMA GivenUpKept ==
  ASSUME Inv, NEW w \in Threads, job[w].at # "none", Moves(w),
         UNCHANGED <<files, versions, grants, uploads, minted, again>>,
         spilled \subseteq spilled', spilled' \subseteq 1 .. minted,
         blobs' \subseteq blobs, blobs \ blobs' \subseteq Fresh(job[w]) \cup Doomed(job[w]),
         (Fresh(job[w]) \cup Doomed(job[w])) \cap blobs' \subseteq spilled',
         \/ job'[w] = Free
         \/ \E place, saw : GoesTo(w, place, saw) /\ MayGo(job[w], place, saw, minted')
                              /\ Light(job[w].op, place)
  PROVE  Inv'
<1> DEFINE j == job[w]
<1>1. Apart(w) /\ Untied(job'[w]) /\ w \notin LetIn' /\ \A u : ~Brings(w, u)'
  BY LightMoves, MoveApart DEF Inv
<1>2. FileTypes' /\ NewFilesNamed' /\ Grows
  <2> DEFINE keys == 1 .. minted
  <2>1. FileTypes /\ NewFilesNamed /\ Len(files) \in Nat /\ minted \in Nat
    BY Lengths DEF Inv, Typed
  <2>2. blobs \subseteq keys /\ uploads \in Seq(UploadRows) /\ again \in Nat
    BY <2>1 DEF FileTypes
  <2>3. 1 .. minted' = keys /\ minted <= minted' /\ minted' \in Nat
    BY <2>1
  <2> HIDE DEF keys
  <2>4. /\ minted <= minted' /\ minted' \in Nat /\ uploads' \in Seq(UploadRows) /\ again' \in Nat
        /\ blobs' \subseteq 1 .. minted' /\ spilled' \subseteq 1 .. minted'
    BY <2>2, <2>3
  <2>5. FileTypes'
    BY <2>1, <2>4, TypesDrawn
  <2> QED BY <2>1, <2>5 DEF NewFilesNamed, Grows
<1>3. Fits(job[w])'
  <2>1. CASE job'[w] = Free
    BY <2>1 DEF Fits
  <2>2. CASE job'[w] # Free
    BY <1>2, <2>2, GoneFits DEF Inv
  <2> QED BY <2>1, <2>2
<1>4. Typed'
  BY <1>2, <1>3, TypesKept DEF Inv
<1>5. \A v \in versions : v.blob \in blobs'
  BY DEF Inv, StoreMatches, Holds, RowsHaveBlobs
<1>6. HoldsAlone(w)
  <2>1. \A x \in Threads \ {w} : /\ Fresh(job[x]) \subseteq blobs
                                 /\ Fresh(job[x]) \cap (Fresh(j) \cup Doomed(j)) = {}
    BY DEF Inv, StoreMatches, Holds
  <2>2. \A x \in Threads \ {w} : Fresh(job[x]) \subseteq blobs'
    BY <2>1
  <2> QED BY <1>1, <2>2 DEF HoldsAlone, Untied
<1>7. Follows(job[w])'
  <2>1. Follows(job'[w])
    BY <1>1 DEF Follows, Untied
  <2> QED BY <2>1, FollowsThen
<1>8. BlobsAccounted'
  <2>1. \A x \in Threads \ {w} : Fresh(job[x])' = Fresh(job[x]) /\ Doomed(job[x])' = Doomed(job[x])
    BY <1>1, OthersClaims
  <2> QED BY <2>1 DEF BlobsAccounted, Inv, StoreMatches
<1>9. StoreMatches'
  BY <1>1, <1>2, <1>5, <1>6, <1>7, <1>8, ClaimsKeepStore DEF Inv
<1>10. WithinLimit'
  <2>1. SameUploads /\ versions' \subseteq versions /\ again <= again'
    BY Lengths DEF SameUploads, Inv, Typed
  <2> QED BY <1>1, <1>4, <2>1, UnbroughtKeepLimit DEF Inv
<1> QED BY <1>4, <1>9, <1>10 DEF Inv

LEMMA RemoveBlobsKept ==
  ASSUME Inv, NEW w \in Threads, RemoveBlobs(w)
  PROVE  Inv'
<1> DEFINE j == job[w]
<1>1. /\ j.op = "delete" /\ j.at = "blobs" /\ Respond(w) /\ blobs' = blobs \ j.saw
      /\ UNCHANGED <<files, versions, grants, uploads, minted, spilled, again>>
  BY DEF RemoveBlobs, At
<1>2. Moves(w) /\ job'[w] = Free
  BY <1>1, GoingOn DEF Inv
<1>3. Doomed(j) = j.saw /\ Fresh(j) = {}
  BY <1>1 DEF Doomed, Fresh
<1>4. spilled \subseteq 1 .. minted
  BY DEF Inv, Typed, FileTypes
<1> QED BY <1>1, <1>2, <1>3, <1>4, GivenUpKept

LEMMA AssembleKept ==
  ASSUME Inv, NEW w \in Threads, Assemble(w)
  PROVE  Inv'
<1> DEFINE j == job[w]
<1> DEFINE u == job[w].upload
<1> DEFINE place == IF uploads[u].file = 0 THEN "row" ELSE "number"
<1>1. j.op = "complete" /\ j.at = "assemble" /\ UNCHANGED <<files, versions, grants, spilled, again>>
  BY DEF Assemble, At
<1>2. Fields(j) /\ FitsAt(j, j.at, j.saw) /\ u \in DOMAIN uploads /\ Untied(j)
  BY <1>1, Serving, UntiedPlaces DEF Inv, Fields, FitsAt, Light
<1>3. FileTypes /\ NewFilesNamed /\ \A x \in DOMAIN uploads : uploads[x] \in UploadRows
  BY Rows DEF Inv, Typed
<1>4. CASE ~(uploads[u].live /\ uploads[u].staged)
  <2>1. Proceed(w, "drop") /\ UNCHANGED fileTables
    BY <1>1, <1>4 DEF Assemble, fileTables
  <2>2. FileTypes' /\ NewFilesNamed' /\ Grows /\ SameContents /\ again' = again /\ SameUploads
    BY <1>3, <2>1 DEF FileTypes, FileRows, VersionRows, GrantRows, UploadRows, NewFilesNamed,
                      Grows, SameContents, SameUploads, fileTables
  <2>3. Moves(w) /\ GoesTo(w, "drop", j.saw)
    BY <1>1, <2>1, GoingOn DEF Inv
  <2>4. MayGo(j, "drop", j.saw, minted') /\ Light(j.op, "drop")
    BY <1>1 DEF MayGo, Light, Places
  <2> QED BY <1>1, <1>2, <2>2, <2>3, <2>4, LightStepKept
<1>5. CASE uploads[u].live /\ uploads[u].staged
  <2> DEFINE row == [uploads[u] EXCEPT !.staged = FALSE]
  <2>1. /\ minted' = minted + 1 /\ blobs' = blobs \cup {minted'}
        /\ Recall(w, place, minted')
        /\ uploads' = [uploads EXCEPT ![u] = row]
    BY <1>5 DEF Assemble
  <2>2. /\ row \in UploadRows /\ row.file = uploads[u].file /\ row.name = uploads[u].name
        /\ ~row.staged
    BY <1>2, <1>3, UploadChanged
  <2> HIDE DEF row
  <2>3. /\ uploads' = [x \in DOMAIN uploads |-> uploads'[x]]
        /\ uploads'[u] = row /\ \A x \in DOMAIN uploads \ {u} : uploads'[x] = uploads[x]
    BY <1>2, <1>3, <2>1 DEF FileTypes
  <2>4. \A x \in DOMAIN uploads : /\ uploads'[x] \in UploadRows
                                  /\ uploads'[x].file = uploads[x].file
                                  /\ uploads'[x].name = uploads[x].name
                                  /\ uploads'[x].staged => uploads[x].staged
    BY <1>3, <2>2, <2>3
  <2>5. uploads' \in Seq(UploadRows) /\ DOMAIN uploads' = DOMAIN uploads /\ NewFilesNamed'
    BY <1>3, <2>3, <2>4, UploadsRewritten
  <2>6. /\ minted' \in Nat /\ minted <= minted' /\ minted' \in 1 .. minted' /\ minted' \notin 1 .. minted
        /\ blobs' \subseteq 1 .. minted' /\ 1 .. minted \subseteq 1 .. minted'
    BY <1>3, <2>1, OneMoreBlob
  <2>7. FileTypes' /\ Grows
    <3>1. spilled' \subseteq 1 .. minted' /\ again' \in Nat
      BY <1>1, <1>3, <2>6 DEF FileTypes
    <3>2. FileTypes'
      BY <1>1, <1>3, <2>5, <2>6, <3>1, TypesDrawn
    <3> QED BY <1>1, <1>3, <2>4, <2>5, <2>6, <3>2, Lengths DEF Grows
  <2>8. Moves(w) /\ GoesTo(w, place, minted') /\ Apart(w)
    <3>1. place # "none"
      OBVIOUS
    <3> QED BY <1>1, <2>1, <3>1, GoingOn, MoveApart DEF Inv
  <2>9. MayGo(j, place, minted', minted')
    BY <1>1, <2>6 DEF MayGo, Places
  <2>10. Typed'
    <3>1. Fits(job[w])'
      BY <1>1, <2>7, <2>8, <2>9, GoneFits DEF Inv
    <3> QED BY <2>5, <2>7, <2>8, <3>1, TypesKept DEF Inv
  <2>11. /\ job'[w].op = "complete" /\ job'[w].at = place /\ job'[w].saw = minted'
         /\ job'[w].upload = u
    BY <1>1, <1>2, <2>8 DEF GoesTo, Fields
  <2>12. Fresh(job'[w]) = {minted'} /\ Doomed(job'[w]) = {} /\ Reverted(job'[w]) = {}
    BY <2>11 DEF Fresh, Doomed, Reverted
  <2>13. StoreMatches'
    <3>1. HoldsAlone(w)
      <4>1. \A x \in Threads : Fresh(job[x]) \subseteq blobs
        BY DEF Inv, StoreMatches, Holds
      <4>2. /\ \A v \in versions : v.blob # minted'
            /\ \A x \in Threads : minted' \notin Fresh(job[x]) \cup Doomed(job[x])
        <5>1. minted' # 0
          BY <2>6
        <5> QED BY <2>6, <5>1, NobodyHolds DEF Inv
      <4> QED BY <2>1, <2>12, <4>1, <4>2 DEF HoldsAlone
    <3>2. Follows(job[w])'
      <4>1. Reverted(job[w])' = {} /\ (job[w].at # "version")'
        BY <2>11, <2>12 DEF Reverted
      <4> QED BY <4>1 DEF Follows
    <3>3. BlobsAccounted'
      <4>1. \A x \in Threads \ {w} : Fresh(job[x])' = Fresh(job[x]) /\ Doomed(job[x])' = Doomed(job[x])
        BY <2>8, OthersClaims
      <4>2. minted' \in Fresh(job[w])'
        BY <2>12 DEF Fresh
      <4>3. Fresh(j) = {} /\ Doomed(j) = {}
        BY <1>2 DEF Untied
      <4> QED BY <1>1, <2>1, <4>1, <4>2, <4>3 DEF BlobsAccounted, Inv, StoreMatches
    <3>4. \A v \in versions : v.blob \in blobs'
      BY <2>1 DEF Inv, StoreMatches, RowsHaveBlobs
    <3> QED BY <1>1, <2>7, <2>8, <3>1, <3>2, <3>3, <3>4, ClaimsKeepStore DEF Inv
  <2>14. WithinLimit'
    <3>1. \A v \in Threads \ {w} : job'[v] = job[v]
      BY <2>8 DEF Apart
    <3>2. \A x : Brings(w, x)' <=> x = u
      BY <2>11 DEF Brings
    <3>3. \A v \in Threads \ {w} : \A x : Brings(v, x)' <=> Brings(v, x)
      BY <3>1 DEF Brings
    <3>4. \A v \in Threads : ~Brings(v, u)
      BY <1>2, <1>5 DEF Inv, WithinLimit, OneBrings
    <3>5. Coming' \subseteq Coming
      BY <1>2, <1>5, <2>4, <2>5, <3>2, <3>3 DEF Coming
    <3>6. ~uploads'[u].staged
      BY <2>2, <2>3
    <3>7. OneBrings'
      <4>1. ASSUME NEW v \in Threads, NEW x \in DOMAIN uploads, Brings(v, x)'
            PROVE  ~uploads'[x].staged /\ \A y \in Threads \ {v} : ~Brings(y, x)'
        <5>1. CASE x = u
          <6>1. v = w
            BY <3>3, <3>4, <4>1, <5>1
          <6> QED BY <3>3, <3>4, <3>6, <5>1, <6>1
        <5>2. CASE x # u
          <6>1. v # w /\ Brings(v, x)
            BY <3>2, <3>3, <4>1, <5>2
          <6>2. ~uploads[x].staged /\ \A y \in Threads \ {v} : ~Brings(y, x)
            BY <6>1 DEF Inv, WithinLimit, OneBrings
          <6> QED BY <2>4, <3>2, <3>3, <5>2, <6>2
        <5> QED BY <5>1, <5>2
      <4> QED BY <2>5, <4>1 DEF OneBrings
    <3>8. LetIn' \subseteq LetIn
      BY <2>11, <3>1 DEF LetIn
    <3>9. calls'.atOnce = calls.atOnce /\ versions' \subseteq versions /\ again <= again'
          /\ Len(uploads) <= Len(uploads')
      <4>1. Len(uploads') = Len(uploads)
        BY <1>3, <2>3, <2>4, UploadsRewritten
      <4> QED BY <1>1, <1>3, <2>8, <4>1, Lengths DEF Apart
    <3> QED BY <2>10, <3>5, <3>7, <3>8, <3>9, SumKept DEF Inv
  <2> QED BY <2>10, <2>13, <2>14 DEF Inv
<1> QED BY <1>4, <1>5

-----------------------------------------------------------------------------
(* A version is added *)

\* A version of a file that is there, or of a new one, with a blob that w held
\* or that the file has already.
AddsVersion(w, v) ==
  /\ versions' = versions \cup {v} /\ UNCHANGED <<blobs, spilled>>
  /\ DOMAIN files' = DOMAIN files \cup {v.file}
  /\ \A g \in DOMAIN files \ {v.file} : files'[g] = files[g]
  /\ v.file \in DOMAIN files => There(v.file)
  /\ files'[v.file].here /\ files'[v.file].blob = v.blob
  /\ v.number \in Nat \ {0} /\ Numbers(v.file) = 1 .. (v.number - 1)
  /\ Fresh(job[w]) \subseteq {v.blob} /\ Doomed(job[w]) = {}
  /\ v.blob \in Fresh(job[w]) \/ HasBlob(v.file, v.blob)

LEMMA UpToNext ==
  ASSUME NEW n \in Nat \ {0}
  PROVE  1 .. (n - 1) \cup {n} = 1 .. n /\ \A m \in 1 .. (n - 1) : m < n /\ m \in Nat
  OBVIOUS

LEMMA VersionAdded ==
  ASSUME Typed, FileTypes', StoreMatches, NEW w \in Threads, Apart(w), Grows, Untied(job'[w]),
         NEW v, AddsVersion(w, v)
  PROVE  StoreMatches'
<1> DEFINE f == v.file
<1> DEFINE b == v.blob
<1> DEFINE n == v.number
<1>1. /\ versions' = versions \cup {v} /\ UNCHANGED <<blobs, spilled>>
      /\ DOMAIN files' = DOMAIN files \cup {f}
      /\ \A g \in DOMAIN files \ {f} : files'[g] = files[g]
      /\ f \in DOMAIN files => There(f)
      /\ files'[f].here /\ files'[f].blob = b
      /\ n \in Nat \ {0} /\ Numbers(f) = 1 .. (n - 1)
      /\ Fresh(job[w]) \subseteq {b} /\ Doomed(job[w]) = {}
      /\ b \in Fresh(job[w]) \/ HasBlob(f, b)
  BY DEF AddsVersion
<1> HIDE DEF f, b, n
<1>2. v.file = f /\ v.blob = b /\ v.number = n
  BY DEF f, b, n
<1>3. /\ There(f)'
      /\ \A g \in DOMAIN files : There(g)' <=> There(g)
  BY <1>1 DEF There
<1>4. /\ VersionsOf(f)' = VersionsOf(f) \cup {v}
      /\ \A g : g # f => VersionsOf(g)' = VersionsOf(g)
  BY <1>1, <1>2 DEF VersionsOf
<1>5. /\ Numbers(f)' = Numbers(f) \cup {n}
      /\ \A g : g # f => Numbers(g)' = Numbers(g)
  BY <1>2, <1>4 DEF Numbers
<1>6. \A x \in versions : /\ x.file \in DOMAIN files /\ There(x.file) /\ x.blob \in blobs
                          /\ x.blob = b => x.file = f
  <2>1. \A x \in versions : x.file \in DOMAIN files /\ There(x.file) /\ x.blob \in blobs
    BY DEF StoreMatches, RowsHaveBlobs, There
  <2>2. CASE b \in Fresh(job[w])
    BY <2>1, <2>2 DEF StoreMatches, Holds
  <2>3. CASE HasBlob(f, b)
    BY <2>1, <2>3 DEF StoreMatches, Numbered, HasBlob
  <2> QED BY <1>1, <2>1, <2>2, <2>3
<1>7. b \in blobs /\ \A x \in Threads \ {w} : b \notin Fresh(job[x]) \cup Doomed(job[x])
  <2>1. CASE b \in Fresh(job[w])
    BY <2>1 DEF StoreMatches, Holds
  <2>2. CASE HasBlob(f, b)
    BY <2>2, <1>6 DEF StoreMatches, Holds, HasBlob
  <2> QED BY <1>1, <2>1, <2>2
<1>8. Numbered'
  <2>1. Numbers(f)' = 1 .. n /\ n \in Numbers(f)'
    BY <1>1, <1>5, UpToNext
  <2>2. ASSUME NEW g \in DOMAIN files' PROVE \E m \in {0} \cup Numbers(g)' : Numbers(g)' = 1 .. m
    <3>1. CASE g = f
      BY <2>1, <3>1
    <3>2. CASE g # f
      BY <1>1, <1>5, <3>2 DEF StoreMatches, Numbered
    <3> QED BY <3>1, <3>2
  <2>3. \A x, y \in versions' : x.blob = y.blob => x.file = y.file
    <3>1. \A x, y \in versions : x.blob = y.blob => x.file = y.file
      BY DEF StoreMatches, Numbered
    <3> QED BY <1>1, <1>2, <1>6, <3>1
  <2> QED BY <2>2, <2>3 DEF Numbered
<1>9. RowsHaveBlobs'
  <2>1. \A x \in versions' : There(x.file)' /\ x.blob \in blobs'
    BY <1>1, <1>2, <1>3, <1>6, <1>7
  <2>2. ASSUME NEW g \in DOMAIN files', There(g)', files'[g].blob # 0
        PROVE  HasBlob(g, files[g].blob)'
    <3>1. CASE g = f
      BY <1>1, <1>2, <3>1 DEF HasBlob
    <3>2. CASE g # f
      <4>1. g \in DOMAIN files /\ files'[g] = files[g] /\ There(g)
        BY <1>1, <1>3, <2>2, <3>2
      <4>2. HasBlob(g, files[g].blob)
        BY <4>1, <2>2 DEF StoreMatches, RowsHaveBlobs
      <4> QED BY <1>1, <4>1, <4>2 DEF HasBlob
    <3> QED BY <3>1, <3>2
  <2> QED BY <2>1, <2>2 DEF RowsHaveBlobs
<1>10. ShowsNewest'
  <2>1. ASSUME NEW x \in versions', \A y \in versions' : y.file = x.file => y.number <= x.number
        PROVE  files'[x.file].blob = x.blob
    <3>1. CASE x.file = f
      <4>1. x = v
        <5>1. SUFFICES ASSUME x \in versions PROVE FALSE
          BY <1>1
        <5>2. x.number \in 1 .. (n - 1)
          BY <1>1, <3>1, <5>1 DEF Numbers, VersionsOf
        <5>3. n <= x.number
          BY <1>1, <1>2, <2>1, <3>1
        <5> QED BY <1>1, <5>2, <5>3, UpToNext
      <4> QED BY <1>1, <1>2, <4>1
    <3>2. CASE x.file # f
      <4>1. x \in versions /\ x.file \in DOMAIN files \ {f}
        BY <1>1, <1>2, <1>6, <3>2
      <4>2. files[x.file].blob = x.blob
        BY <1>1, <2>1, <4>1 DEF StoreMatches, ShowsNewest
      <4> QED BY <1>1, <4>1, <4>2
    <3> QED BY <3>1, <3>2
  <2> QED BY <2>1 DEF ShowsNewest
<1>11. \A x \in Threads \ {w} : Fresh(job[x])' = Fresh(job[x]) /\ Doomed(job[x])' = Doomed(job[x])
  BY OthersClaims
<1>12. Fresh(job[w])' = {} /\ Doomed(job[w])' = {}
  BY DEF Untied, Fresh, Doomed
<1>13. \A x \in Threads : Holds(x)'
  <2>1. ASSUME NEW x \in Threads \ {w} PROVE Holds(x)'
    <3>1. Holds(x)
      BY DEF StoreMatches
    <3>2. Fresh(job[x])' \subseteq blobs' /\ \A y \in versions' : y.blob \notin Fresh(job[x])' \cup Doomed(job[x])'
      BY <1>1, <1>2, <1>7, <1>11, <3>1 DEF Holds
    <3>3. ASSUME NEW y \in Threads \ {x} PROVE Fresh(job[x])' \cap (Fresh(job[y])' \cup Doomed(job[y])') = {}
      <4>1. CASE y = w
        BY <1>12, <4>1
      <4>2. CASE y # w
        BY <1>11, <3>1, <4>2 DEF Holds
      <4> QED BY <4>1, <4>2
    <3> QED BY <3>2, <3>3 DEF Holds
  <2>2. Holds(w)'
    BY <1>12 DEF Holds
  <2> QED BY <2>1, <2>2
<1>14. \A x \in Threads : Follows(job[x])'
  <2>1. ASSUME NEW x \in Threads \ {w} PROVE Follows(job[x])'
    <3>1. \A g \in DOMAIN files : VersionsOf(g) \subseteq VersionsOf(g)'
      BY <1>4
    <3> QED BY <1>3, <3>1, OthersFollow DEF Apart, StoreMatches
  <2>2. Follows(job[w])'
    BY DEF Untied, Follows, Reverted
  <2> QED BY <2>1, <2>2
<1>15. BlobsAccounted'
  <2>1. ASSUME NEW x \in blobs'
        PROVE  \/ x \in spilled' \/ \E y \in versions' : y.blob = x
               \/ \E y \in Threads : x \in Fresh(job[y])' \cup Doomed(job[y])'
    <3>1. CASE x = b
      BY <1>1, <1>2, <3>1
    <3>2. CASE x # b
      BY <1>1, <1>11, <3>2 DEF StoreMatches, BlobsAccounted
    <3> QED BY <3>1, <3>2
  <2> QED BY <2>1 DEF BlobsAccounted
<1> QED BY <1>8, <1>9, <1>10, <1>13, <1>14, <1>15 DEF StoreMatches

LEMMA OneVersionMore ==
  ASSUME NEW a \in Nat, NEW b \in Nat, NEW c \in Nat, NEW limit \in Int, NEW n \in Nat, NEW m \in Nat,
         NEW x \in Nat, NEW y \in Nat, NEW z \in Nat, NEW p \in Nat,
         x <= a + 1, y <= b, z <= c, p >= n,
         y + 1 <= b \/ z + 1 <= c \/ n + 1 <= p, a + b + c <= limit + n + m
  PROVE  x + y + z <= limit + p + m
  OBVIOUS

LEMMA OneLess ==
  ASSUME NEW S, IsFiniteSet(S), NEW e \in S, NEW T \in SUBSET S, e \notin T
  PROVE  Cardinality(T) + 1 <= Cardinality(S) /\ Cardinality(T) \in Nat
<1>1. T \subseteq S \ {e} /\ IsFiniteSet(S \ {e}) /\ Cardinality(S \ {e}) = Cardinality(S) - 1
  BY FS_RemoveElement
<1>2. IsFiniteSet(T) /\ Cardinality(T) <= Cardinality(S \ {e})
  BY <1>1, FS_Subset
<1>3. Cardinality(T) \in Nat /\ Cardinality(S) \in Nat
  BY <1>2, FS_CardinalityType
<1> QED BY <1>1, <1>2, <1>3

\* A version more takes the place of an upload that was let in or was coming,
\* or is counted as a revert.
LEMMA BroughtKeepsLimit ==
  ASSUME Typed, Typed', WithinLimit, NEW w \in Threads, Apart(w), uploads' = uploads,
         NEW v, versions' \subseteq versions \cup {v},
         w \notin LetIn', \A u : ~Brings(w, u)', again <= again',
         \/ w \in LetIn
         \/ \E u \in DOMAIN uploads : Brings(w, u)
         \/ again' = again + 1
  PROVE  WithinLimit'
<1>1. \A x \in Threads \ {w} : job'[x] = job[x]
  BY DEF Apart
<1>2. LetIn' \subseteq LetIn
  BY <1>1 DEF LetIn
<1>3. \A x \in Threads, u \in DOMAIN uploads : Brings(x, u)' => Brings(x, u) /\ x # w
  BY <1>1 DEF Brings
<1>4. Coming' \subseteq Coming
  BY <1>3 DEF Coming
<1>5. OneBrings'
  BY <1>3 DEF OneBrings, WithinLimit
<1>6. \A u \in DOMAIN uploads : Brings(w, u) => u \in Coming /\ u \notin Coming'
  BY <1>3 DEF Coming, OneBrings, WithinLimit
<1>7. /\ IsFiniteSet(versions) /\ IsFiniteSet(LetIn) /\ IsFiniteSet(Coming)
      /\ Cardinality(versions) \in Nat /\ Cardinality(LetIn) \in Nat /\ Cardinality(Coming) \in Nat
      /\ Len(uploads) \in Nat /\ again \in Nat /\ SpaceLimit \in Nat /\ calls.atOnce \in Nat
  BY LimitCounts
<1>8. Cardinality(versions') <= Cardinality(versions) + 1 /\ Cardinality(versions') \in Nat
  BY <1>7, OneMoreAtMost, FS_CardinalityType
<1>9. /\ Cardinality(LetIn') <= Cardinality(LetIn) /\ Cardinality(LetIn') \in Nat
      /\ Cardinality(Coming') <= Cardinality(Coming) /\ Cardinality(Coming') \in Nat
  BY <1>2, <1>4, <1>7, FewNext, FS_Subset DEF Few
<1>10. \/ Cardinality(LetIn') + 1 <= Cardinality(LetIn)
       \/ Cardinality(Coming') + 1 <= Cardinality(Coming)
       \/ again + 1 <= again'
  <2>1. CASE w \in LetIn
    BY <1>2, <1>7, <2>1, OneLess
  <2>2. CASE \E u \in DOMAIN uploads : Brings(w, u)
    BY <1>4, <1>6, <1>7, <2>2, OneLess
  <2>3. CASE again' = again + 1
    BY <1>7, <2>3
  <2> QED BY <2>1, <2>2, <2>3
<1>11. again' \in Nat
  BY Lengths DEF Typed, FileTypes
<1>12. calls'.atOnce = calls.atOnce
  BY DEF Apart
<1> DEFINE limit == SpaceLimit + calls.atOnce - 1
<1>13. /\ limit \in Int
       /\ Cardinality(versions) + Cardinality(LetIn) + Cardinality(Coming) <= limit + again + Len(uploads)
  BY <1>7 DEF WithinLimit
<1> HIDE DEF limit
<1>14. Cardinality(versions') + Cardinality(LetIn') + Cardinality(Coming') <= limit + again' + Len(uploads)
  BY SMTT(60), <1>7, <1>8, <1>9, <1>10, <1>11, <1>13, OneVersionMore
<1> QED BY <1>5, <1>12, <1>14 DEF WithinLimit, limit

\* The types after a row of a version is written.
LEMMA VersionTyped ==
  ASSUME FileTypes, UNCHANGED <<blobs, minted, spilled, uploads>>, again' \in Nat,
         files' \in Seq(FileRows'), Len(files) <= Len(files'),
         NEW v, versions' = versions \cup {v}, v \in VersionRows', grants' \subseteq GrantRows'
  PROVE  FileTypes'
<1>1. Len(files') \in Nat /\ DOMAIN files' = 1 .. Len(files') /\ minted \in Nat
  BY Lengths, Elements
<1>2. VersionRows \subseteq VersionRows' /\ UploadRows \subseteq UploadRows'
  BY <1>1, WiderRows
<1>3. versions' \subseteq VersionRows' /\ IsFiniteSet(versions')
  BY <1>2, FS_AddElement DEF FileTypes
<1>4. uploads \in Seq(UploadRows')
  BY <1>2, Rows, Widened DEF FileTypes
<1> QED BY <1>3, <1>4 DEF FileTypes

LEMMA FileInserted ==
  ASSUME Inv, NEW w \in Threads, job[w].at = "row", job[w].op \in {"upload", "complete"},
         ~Refused(w), InsertFile(w), Moves(w),
         UNCHANGED <<blobs, minted, spilled, uploads, again>>,
         \/ job'[w] = Free
         \/ \E place, saw : GoesTo(w, place, saw) /\ MayGo(job[w], place, saw, minted')
                              /\ Light(job[w].op, place)
  PROVE  Inv'
<1> DEFINE j == job[w]
<1> DEFINE a == Wanted(w)
<1> DEFINE id == Len(files) + 1
<1> DEFINE v == [file |-> id, number |-> 1, blob |-> j.saw]
<1> DEFINE g == [file |-> id, of |-> a.by, level |-> Own]
<1>1. Fields(j) /\ FitsAt(j, j.at, j.saw) /\ j.saw \in 1 .. minted
  BY Serving DEF Inv, FitsAt, MayGo
<1>2. FileTypes /\ NewFilesNamed /\ Len(files) \in Nat /\ DOMAIN files = 1 .. Len(files) /\ minted \in Nat
  BY Lengths DEF Inv, Typed
<1>3. a.parent \in 0 .. Len(files) /\ a.name \in FileNames /\ a.by \in SpaceMembers
  <2>1. a.parent \in 0 .. Len(files)
    BY <1>2 DEF Refused, IsFolder, There, Root
  <2>2. CASE j.op = "upload"
    BY <1>1, <2>1, <2>2 DEF Wanted, Fields, InFolder
  <2>3. CASE j.op = "complete"
    <3>1. j.upload \in DOMAIN uploads /\ uploads[j.upload].file = 0
      BY <1>1, <2>3 DEF FitsAt, MayGo, Fields
    <3>2. uploads[j.upload] \in UploadRows /\ uploads[j.upload].name \in FileNames
      BY <1>2, <3>1, Rows DEF NewFilesNamed
    <3> QED BY <2>1, <2>3, <3>2 DEF Wanted, UploadRows
  <2> QED BY <2>2, <2>3
<1>4. /\ files' = Append(files, File(a.parent, a.name, FALSE, a.by, j.saw))
      /\ versions' = versions \cup {v} /\ grants' = grants \cup {g}
  BY DEF InsertFile
<1>5. j.saw \in 0 .. minted
  BY <1>1
<1> HIDE DEF a
<1>6. /\ files' \in Seq(FileRows') /\ Len(files') = id
      /\ DOMAIN files' = DOMAIN files \cup {id} /\ id \notin DOMAIN files
      /\ \A f \in DOMAIN files : files'[f] = files[f]
      /\ files'[id] = File(a.parent, a.name, FALSE, a.by, j.saw)
      /\ GrantRows \subseteq GrantRows'
  <2>1. /\ files' \in Seq(FileRows') /\ Len(files') = Len(files) + 1
        /\ DOMAIN files' = DOMAIN files \cup {Len(files')} /\ Len(files') \notin DOMAIN files
        /\ \A f \in DOMAIN files : files'[f] = files[f]
        /\ files'[Len(files')] = File(a.parent, a.name, FALSE, a.by, j.saw)
        /\ GrantRows \subseteq GrantRows'
    BY ZenonT(60), <1>2, <1>3, <1>4, <1>5, FileAdded, FALSE \in BOOLEAN
  <2> QED BY Zenon, <2>1
<1>7. v \in VersionRows' /\ grants' \subseteq GrantRows'
  <2>1. id \in DOMAIN files' /\ 1 \in Nat \ {0} /\ j.saw \in 1 .. minted'
    BY <1>1, <1>6
  <2>2. v \in VersionRows'
    BY <2>1 DEF VersionRows
  <2>3. g \in GrantRows'
    BY <1>3, <2>1 DEF GrantRows
  <2>4. grants \subseteq GrantRows
    BY <1>2 DEF FileTypes
  <2> QED BY <1>4, <1>6, <2>2, <2>3, <2>4
<1>8. v.file = id /\ v.number = 1 /\ v.blob = j.saw
  OBVIOUS
<1> HIDE DEF v, g
<1>9. FileTypes' /\ Grows /\ NewFilesNamed'
  <2>1. again' \in Nat /\ Len(files) <= Len(files')
    BY <1>2, <1>6 DEF FileTypes
  <2>2. FileTypes'
    BY <1>2, <1>4, <1>6, <1>7, <2>1, VersionTyped
  <2> QED BY <1>2, <2>1, <2>2 DEF Grows, NewFilesNamed
<1>10. Untied(job'[w]) /\ Apart(w) /\ w \notin LetIn' /\ \A u : ~Brings(w, u)'
  BY LightMoves, MoveApart DEF Inv
<1>11. Typed'
  <2>1. Fits(job[w])'
    <3>1. CASE job'[w] = Free
      BY <3>1 DEF Fits
    <3>2. CASE job'[w] # Free
      BY <1>9, <3>2, GoneFits DEF Inv
    <3> QED BY <3>1, <3>2
  <2> QED BY <1>9, <2>1, TypesKept DEF Inv
<1>12. AddsVersion(w, v)
  <2>1. Numbers(id) = 1 .. 0
    <3>1. \A x \in versions : x.file \in DOMAIN files
      BY <1>2 DEF FileTypes, VersionRows
    <3> QED BY <1>6, <3>1 DEF Numbers, VersionsOf
  <2>2. Numbers(id) = 1 .. (1 - 1)
    BY <2>1
  <2>3. Fresh(j) = {j.saw} /\ Doomed(j) = {}
    BY DEF Fresh, Doomed
  <2>4. files'[id].here /\ files'[id].blob = j.saw
    BY <1>6 DEF File
  <2> HIDE DEF id
  <2>5. DOMAIN files' = DOMAIN files \cup {v.file} /\ v.file \notin DOMAIN files
        /\ \A f \in DOMAIN files \ {v.file} : files'[f] = files[f]
    BY <1>6, <1>8
  <2>6. v.number \in Nat \ {0} /\ Numbers(v.file) = 1 .. (v.number - 1)
    BY <1>8, <2>2
  <2> QED BY <1>4, <1>8, <2>3, <2>4, <2>5, <2>6 DEF AddsVersion
<1>13. StoreMatches'
  BY <1>9, <1>10, <1>12, VersionAdded DEF Inv
<1>14. WithinLimit'
  <2>1. w \in LetIn \/ \E u \in DOMAIN uploads : Brings(w, u)
    <3>1. CASE j.op = "upload"
      BY <3>1 DEF LetIn
    <3>2. CASE j.op = "complete"
      BY <1>1, <3>2 DEF Brings, FitsAt, Fields
    <3> QED BY <3>1, <3>2
  <2>2. again <= again'
    BY <1>2, Lengths
  <2>3. versions' \subseteq versions \cup {v} /\ uploads' = uploads
    BY <1>4
  <2> QED BY <1>10, <1>11, <2>1, <2>2, <2>3, BroughtKeepsLimit DEF Inv
<1> QED BY <1>11, <1>13, <1>14 DEF Inv

LEMMA CreateFileKept ==
  ASSUME Inv, NEW w \in Threads, CreateFile(w)
  PROVE  Inv'
<1> DEFINE j == job[w]
<1>1. j.op = "upload" /\ j.at = "row" /\ Respond(w) /\ UNCHANGED <<uploads, minted, spilled, again>>
  BY DEF CreateFile, At
<1>2. Moves(w) /\ job'[w] = Free
  BY <1>1, GoingOn DEF Inv
<1>3. CASE Refused(w)
  <2>1. blobs' = blobs \ {j.saw} /\ UNCHANGED <<files, versions, grants>>
    BY <1>3 DEF CreateFile
  <2>2. Fresh(j) = {j.saw} /\ Doomed(j) = {}
    BY <1>1 DEF Fresh, Doomed
  <2>3. spilled \subseteq 1 .. minted
    BY DEF Inv, Typed, FileTypes
  <2> QED BY <1>1, <1>2, <2>1, <2>2, <2>3, GivenUpKept
<1>4. CASE ~Refused(w)
  <2>1. InsertFile(w) /\ blobs' = blobs
    BY <1>4 DEF CreateFile
  <2> QED BY <1>1, <1>2, <1>4, <2>1, FileInserted
<1> QED BY <1>3, <1>4

LEMMA CompleteFileKept ==
  ASSUME Inv, NEW w \in Threads, CompleteFile(w)
  PROVE  Inv'
<1> DEFINE j == job[w]
<1>1. j.op = "complete" /\ j.at = "row" /\ Proceed(w, "drop") /\ UNCHANGED <<uploads, blobs, minted, again>>
  BY DEF CompleteFile, At
<1>2. Moves(w) /\ GoesTo(w, "drop", j.saw)
  BY <1>1, GoingOn DEF Inv
<1>3. MayGo(j, "drop", j.saw, minted') /\ Light(j.op, "drop")
  BY <1>1 DEF MayGo, Light, Places
<1>4. CASE Refused(w)
  <2>1. spilled' = spilled \cup {j.saw} /\ UNCHANGED <<files, versions, grants>>
    BY <1>4 DEF CompleteFile
  <2>2. Fresh(j) = {j.saw} /\ Doomed(j) = {}
    BY <1>1 DEF Fresh, Doomed
  <2>3. spilled \subseteq 1 .. minted /\ j.saw \in 1 .. minted
    BY <1>1, Serving DEF Inv, Typed, FileTypes, FitsAt, MayGo
  <2> QED BY <1>1, <1>2, <1>3, <2>1, <2>2, <2>3, GivenUpKept
<1>5. CASE ~Refused(w)
  <2>1. InsertFile(w) /\ spilled' = spilled
    BY <1>5 DEF CompleteFile
  <2> QED BY <1>1, <1>2, <1>3, <1>5, <2>1, FileInserted
<1> QED BY <1>4, <1>5

LEMMA NextNumber ==
  ASSUME NEW n \in Nat, NEW m \in Nat \ {0}, 1 .. (m - 1) \subseteq 1 .. n, m \notin 1 .. n
  PROVE  1 .. n = 1 .. (m - 1)
<1>1. m > n
  OBVIOUS
<1>2. m = n + 1
  <2>1. SUFFICES ASSUME m > n + 1 PROVE FALSE
    BY <1>1
  <2>2. n + 1 \in 1 .. (m - 1)
    BY <2>1
  <2> QED BY <2>2
<1> QED BY <1>2

LEMMA InsertVersionKept ==
  ASSUME Inv, NEW w \in Threads, InsertVersion(w)
  PROVE  Inv'
<1> DEFINE j == job[w]
<1> DEFINE f == Wanted(w).file
<1> DEFINE v == [file |-> f, number |-> j.saw.number, blob |-> j.saw.blob]
<1>1. /\ j.at = "version" /\ UNCHANGED <<grants, uploads, blobs, minted>>
      /\ IF There(f) /\ v.number \notin Numbers(f)
         THEN /\ versions' = versions \cup {v}
              /\ files' = [files EXCEPT ![f].blob = v.blob]
              /\ again' = again + (IF j.op = "revert" THEN 1 ELSE 0)
              /\ UNCHANGED spilled
         ELSE /\ spilled' = spilled \cup (IF j.op = "revert" THEN {} ELSE {v.blob})
              /\ UNCHANGED <<versions, files, again>>
      /\ IF j.op = "complete" THEN Proceed(w, "drop") ELSE Respond(w)
  BY DEF InsertVersion
<1>2. /\ Fields(j) /\ FitsAt(j, j.at, j.saw)
      /\ j.saw.blob \in 1 .. minted /\ j.saw.number \in Nat \ {0}
  BY <1>1, Serving DEF Inv, FitsAt, MayGo
<1>3. j.op \in {"version", "revert", "complete"} /\ f \in DOMAIN files /\ f = Target(j)
  BY <1>1, TargetKnown DEF Inv
<1>4. /\ Moves(w)
      /\ \/ job'[w] = Free
         \/ GoesTo(w, "drop", j.saw) /\ MayGo(j, "drop", j.saw, minted') /\ Light(j.op, "drop")
  <2>1. CASE j.op = "complete"
    <3>1. Moves(w) /\ GoesTo(w, "drop", j.saw)
      BY <1>1, <2>1, GoingOn DEF Inv
    <3>2. MayGo(j, "drop", j.saw, minted') /\ Light(j.op, "drop")
      BY <2>1 DEF MayGo, Light, Places
    <3> QED BY <3>1, <3>2
  <2>2. CASE j.op # "complete"
    BY <1>1, <2>2, GoingOn DEF Inv
  <2> QED BY <2>1, <2>2
<1>5. v.file = f /\ v.number = j.saw.number /\ v.blob = j.saw.blob
  OBVIOUS
<1>6. FileTypes /\ NewFilesNamed /\ Len(files) \in Nat /\ DOMAIN files = 1 .. Len(files)
      /\ minted \in Nat /\ again \in Nat
  BY Lengths DEF Inv, Typed
<1> DEFINE spill == IF j.op = "revert" THEN {} ELSE {v.blob}
<1>7. /\ Fresh(j) = spill /\ Doomed(j) = {}
      /\ Reverted(j) = IF j.op = "revert" THEN {v.blob} ELSE {}
  BY <1>1, <1>3 DEF Fresh, Doomed, Reverted
<1> HIDE DEF v, f
<1>8. CASE ~(There(f) /\ v.number \notin Numbers(f))
  <2>1. spilled' = spilled \cup spill /\ UNCHANGED <<versions, files, again>>
    BY <1>1, <1>8
  <2>2. spilled \subseteq 1 .. minted /\ spill \subseteq 1 .. minted
    BY <1>2, <1>5, <1>6 DEF FileTypes
  <2> HIDE DEF spill
  <2>3. spilled \subseteq spilled' /\ spilled' \subseteq 1 .. minted /\ blobs' = blobs
    BY <1>1, <2>1, <2>2
  <2>4. (Fresh(j) \cup Doomed(j)) \cap blobs' \subseteq spilled'
    BY <1>7, <2>1
  <2> QED BY <1>1, <1>4, <2>1, <2>3, <2>4, GivenUpKept
<1>9. CASE There(f) /\ v.number \notin Numbers(f)
  <2>1. /\ versions' = versions \cup {v} /\ spilled' = spilled
        /\ files' = [files EXCEPT ![f].blob = v.blob]
        /\ again' = again + (IF j.op = "revert" THEN 1 ELSE 0)
    BY <1>1, <1>9
  <2>2. again' \in Nat /\ again <= again' /\ (j.op = "revert" => again' = again + 1)
    BY <1>6, <2>1
  <2> DEFINE row == [files[f] EXCEPT !.blob = v.blob]
  <2>3. files[f] \in FileRows /\ v.blob \in 0 .. minted
    BY <1>2, <1>3, <1>5, <1>6, Rows
  <2>4. row \in FileRows /\ row.here = files[f].here /\ row.blob = v.blob
    <3>1. files[f].name \in FileNames /\ files[f].parent \in 0 .. Len(files)
      BY <2>3 DEF FileRows
    <3> QED BY ZenonT(60), <2>3, <3>1, FileChanged
  <2>5. files' = [files EXCEPT ![f] = row]
    BY <2>1
  <2> HIDE DEF row
  <2>6. /\ files' = [x \in DOMAIN files |-> files'[x]]
        /\ files'[f] = row /\ \A x \in DOMAIN files \ {f} : files'[x] = files[x]
    BY <1>3, <1>6, <2>5 DEF FileTypes
  <2>7. /\ files' \in Seq(FileRows') /\ Len(files') = Len(files) /\ DOMAIN files' = DOMAIN files
        /\ VersionRows' = VersionRows /\ GrantRows' = GrantRows
    <3>1. \A x \in DOMAIN files : files'[x] \in FileRows
      BY <1>6, <2>4, <2>6, Rows
    <3> QED BY <1>1, <1>6, <2>6, <3>1, FilesRewritten
  <2>8. v \in VersionRows'
    <3>1. v \in VersionRows
      BY <1>2, <1>3 DEF VersionRows, v
    <3> QED BY <2>7, <3>1
  <2>9. FileTypes' /\ Grows /\ NewFilesNamed'
    <3>1. grants' \subseteq GrantRows' /\ Len(files) <= Len(files')
      BY <1>1, <1>6, <2>7 DEF FileTypes
    <3>2. FileTypes'
      BY <1>1, <1>6, <2>1, <2>2, <2>7, <2>8, <3>1, VersionTyped
    <3> QED BY <1>1, <1>6, <3>1, <3>2 DEF Grows, NewFilesNamed
  <2>10. Untied(job'[w]) /\ Apart(w) /\ w \notin LetIn' /\ \A u : ~Brings(w, u)'
    BY <1>1, <1>4, LightMoves, MoveApart DEF Inv
  <2>11. Typed'
    <3>1. Fits(job[w])'
      <4>1. CASE job'[w] = Free
        BY <4>1 DEF Fits
      <4>2. CASE job'[w] # Free
        BY <1>1, <1>4, <2>9, <4>2, GoneFits DEF Inv
      <4> QED BY <4>1, <4>2
    <3> QED BY <1>4, <2>9, <3>1, TypesKept DEF Inv
  <2>12. v.number \in Nat \ {0} /\ Numbers(f) = 1 .. (v.number - 1)
    <3>1. 1 .. (v.number - 1) \subseteq Numbers(f)
      BY <1>1, <1>3, <1>5, <1>9 DEF Inv, StoreMatches, Follows
    <3>2. PICK n \in {0} \cup Numbers(f) : Numbers(f) = 1 .. n
      BY <1>3 DEF Inv, StoreMatches, Numbered
    <3>3. n \in Nat
      BY <1>6, <3>2 DEF Numbers, VersionsOf, FileTypes, VersionRows
    <3> QED BY <1>2, <1>5, <1>9, <3>1, <3>2, <3>3, NextNumber
  <2>13. AddsVersion(w, v)
    <3>1. files[f].here
      BY <1>9 DEF There
    <3>2. files'[f].here /\ files'[f].blob = v.blob
      BY <2>4, <2>6, <3>1
    <3>3. v.blob \in Fresh(j) \/ HasBlob(f, v.blob)
      <4>1. CASE j.op = "revert"
        <5>1. v.blob \in Reverted(j) /\ j.file = f
          BY <1>3, <1>7, <4>1 DEF Target
        <5> QED BY <1>9, <5>1 DEF Inv, StoreMatches, Follows
      <4>2. CASE j.op # "revert"
        BY <1>7, <4>2
      <4> QED BY <4>1, <4>2
    <3>4. Fresh(j) \subseteq {v.blob} /\ Doomed(j) = {}
      BY <1>7
    <3>5. DOMAIN files' = DOMAIN files \cup {f}
      BY <1>3, <2>7
    <3> HIDE DEF spill
    <3> QED BY <1>1, <1>5, <1>9, <2>1, <2>6, <2>12, <3>2, <3>3, <3>4, <3>5 DEF AddsVersion
  <2>14. StoreMatches'
    BY <2>9, <2>10, <2>13, VersionAdded DEF Inv
  <2>15. \/ w \in LetIn
         \/ \E u \in DOMAIN uploads : Brings(w, u)
         \/ again' = again + 1
    <3>1. CASE j.op = "version"
      BY <1>1, <3>1 DEF LetIn
    <3>2. CASE j.op = "complete"
      BY <1>1, <1>2, <3>2 DEF Brings, FitsAt, Fields
    <3>3. CASE j.op = "revert"
      BY <2>2, <3>3
    <3> QED BY <1>3, <3>1, <3>2, <3>3
  <2>16. WithinLimit'
    <3>1. versions' \subseteq versions \cup {v} /\ uploads' = uploads
      BY <1>1, <2>1
    <3> QED BY <2>2, <2>10, <2>11, <2>15, <3>1, BroughtKeepsLimit DEF Inv
  <2> QED BY <2>11, <2>14, <2>16 DEF Inv
<1> QED BY <1>8, <1>9

-----------------------------------------------------------------------------
(* Rows are deleted *)

\* What w takes along when it deletes the rows of gone.
BlobsOf(gone) ==
  {v.blob : v \in {x \in versions : x.file \in gone}} \cup {files[f].blob : f \in gone}
Deletes(gone) ==
  /\ \A g \in gone : There(g)
  /\ DOMAIN files' = DOMAIN files
  /\ \A f \in DOMAIN files : /\ f \in gone => ~files'[f].here
                             /\ f \notin gone => files'[f] = files[f]
  /\ versions' = {v \in versions : v.file \notin gone}
  /\ UNCHANGED <<blobs, spilled>>

LEMMA RowsDeleted ==
  ASSUME Typed, FileTypes', StoreMatches, NEW w \in Threads, Apart(w), Grows,
         NEW gone, Deletes(gone), Fresh(job[w]) = {}, Doomed(job[w]) = {},
         Fresh(job'[w]) = {}, Doomed(job'[w]) = BlobsOf(gone), Follows(job[w])'
  PROVE  StoreMatches'
<1>1. /\ \A g \in gone : There(g) /\ g \in DOMAIN files
      /\ DOMAIN files' = DOMAIN files
      /\ \A f \in DOMAIN files : /\ f \in gone => ~files'[f].here
                                 /\ f \notin gone => files'[f] = files[f]
      /\ versions' = {v \in versions : v.file \notin gone}
      /\ UNCHANGED <<blobs, spilled>>
  BY DEF Deletes, There
<1>2. /\ \A f \in DOMAIN files : There(f)' <=> There(f) /\ f \notin gone
      /\ \A v \in versions : v.file \in DOMAIN files /\ There(v.file) /\ v.blob \in blobs
  BY <1>1 DEF There, StoreMatches, RowsHaveBlobs
<1>3. /\ \A f : f \notin gone => VersionsOf(f)' = VersionsOf(f) /\ Numbers(f)' = Numbers(f)
      /\ \A f \in gone : Numbers(f)' = {}
  BY <1>1 DEF VersionsOf, Numbers
<1>4. 0 \notin blobs
  BY DEF Typed, FileTypes
<1>5. \A b \in BlobsOf(gone) : b = 0 \/ \E v \in versions : v.file \in gone /\ v.blob = b
  <2>1. \A g \in gone : files[g].blob # 0 => HasBlob(g, files[g].blob)
    BY <1>1 DEF StoreMatches, RowsHaveBlobs
  <2> QED BY <2>1 DEF BlobsOf, HasBlob
<1>6. Numbered'
  <2>1. ASSUME NEW f \in DOMAIN files' PROVE \E n \in {0} \cup Numbers(f)' : Numbers(f)' = 1 .. n
    <3>1. CASE f \in gone
      <4>1. Numbers(f)' = 1 .. 0
        BY <1>3, <3>1
      <4> QED BY <4>1
    <3>2. CASE f \notin gone
      BY <1>1, <1>3, <3>2 DEF StoreMatches, Numbered
    <3> QED BY <3>1, <3>2
  <2>2. \A v, x \in versions' : v.blob = x.blob => v.file = x.file
    BY <1>1 DEF StoreMatches, Numbered
  <2> QED BY <2>1, <2>2 DEF Numbered
<1>7. RowsHaveBlobs'
  <2>1. \A v \in versions' : There(v.file)' /\ v.blob \in blobs'
    BY <1>1, <1>2
  <2>2. ASSUME NEW f \in DOMAIN files', There(f)', files'[f].blob # 0
        PROVE  HasBlob(f, files[f].blob)'
    <3>1. f \notin gone /\ There(f) /\ files'[f] = files[f]
      BY <1>1, <1>2, <2>2
    <3>2. HasBlob(f, files[f].blob)
      BY <1>1, <2>2, <3>1 DEF StoreMatches, RowsHaveBlobs
    <3> QED BY <1>1, <3>1, <3>2 DEF HasBlob
  <2> QED BY <2>1, <2>2 DEF RowsHaveBlobs
<1>8. ShowsNewest'
  <2>1. ASSUME NEW v \in versions', \A x \in versions' : x.file = v.file => x.number <= v.number
        PROVE  files'[v.file].blob = v.blob
    <3>1. v \in versions /\ v.file \notin gone /\ files'[v.file] = files[v.file]
      BY <1>1, <1>2
    <3>2. \A x \in versions : x.file = v.file => x.number <= v.number
      BY <1>1, <2>1, <3>1
    <3> QED BY <3>1, <3>2 DEF StoreMatches, ShowsNewest
  <2> QED BY <2>1 DEF ShowsNewest
<1>9. \A x \in Threads \ {w} : Fresh(job[x])' = Fresh(job[x]) /\ Doomed(job[x])' = Doomed(job[x])
  BY OthersClaims
<1>10. Fresh(job[w])' = {} /\ Doomed(job[w])' = BlobsOf(gone)
  BY DEF Fresh, Doomed
<1>11. Holds(w)'
  <2>1. ASSUME NEW v \in versions' PROVE v.blob \notin BlobsOf(gone)
    <3>1. v \in versions /\ v.file \notin gone /\ v.blob # 0
      BY <1>1, <1>2, <1>4
    <3> QED BY <1>5, <3>1 DEF StoreMatches, Numbered
  <2> QED BY <1>10, <2>1 DEF Holds
<1>12. ASSUME NEW x \in Threads \ {w} PROVE Holds(x)'
  <2>1. Holds(x)
    BY DEF StoreMatches
  <2>2. Fresh(job[x])' \subseteq blobs' /\ \A v \in versions' : v.blob \notin Fresh(job[x])' \cup Doomed(job[x])'
    BY <1>1, <1>9, <2>1 DEF Holds
  <2>3. Fresh(job[x]) \cap BlobsOf(gone) = {}
    BY <1>4, <1>5, <2>1 DEF Holds
  <2>4. ASSUME NEW y \in Threads \ {x} PROVE Fresh(job[x])' \cap (Fresh(job[y])' \cup Doomed(job[y])') = {}
    <3>1. CASE y = w
      BY <1>9, <1>10, <2>3, <3>1
    <3>2. CASE y # w
      BY <1>9, <2>1, <3>2 DEF Holds
    <3> QED BY <3>1, <3>2
  <2> QED BY <2>2, <2>4 DEF Holds
<1>13. \A x \in Threads \ {w} : Follows(job[x])'
  BY <1>2, <1>3, OthersFollow DEF StoreMatches, Apart
<1>14. BlobsAccounted'
  <2>1. ASSUME NEW b \in blobs'
        PROVE  \/ b \in spilled' \/ \E v \in versions' : v.blob = b
               \/ \E x \in Threads : b \in Fresh(job[x])' \cup Doomed(job[x])'
    <3>1. CASE \E v \in versions : v.blob = b
      <4>1. PICK v \in versions : v.blob = b
        BY <3>1
      <4>2. CASE v.file \in gone
        <5>1. b \in BlobsOf(gone)
          BY <4>1, <4>2 DEF BlobsOf
        <5> QED BY <1>10, <5>1
      <4>3. CASE v.file \notin gone
        BY <1>1, <4>1, <4>3
      <4> QED BY <4>2, <4>3
    <3>2. CASE ~\E v \in versions : v.blob = b
      BY <1>1, <1>9, <3>2 DEF StoreMatches, BlobsAccounted
    <3> QED BY <3>1, <3>2
  <2> QED BY <2>1 DEF BlobsAccounted
<1> QED BY <1>6, <1>7, <1>8, <1>11, <1>12, <1>13, <1>14 DEF StoreMatches

LEMMA HardDeleteKept ==
  ASSUME Inv, NEW w \in Threads, HardDelete(w)
  PROVE  Inv'
<1> DEFINE j == job[w]
<1> DEFINE gone == Below(j.file)
<1>1. /\ j.op = "delete" /\ j.at = "rows" /\ Recall(w, "blobs", BlobsOf(gone))
      /\ files' = [f \in DOMAIN files |->
            IF f \in gone THEN [files[f] EXCEPT !.here = FALSE] ELSE files[f]]
      /\ versions' = {v \in versions : v.file \notin gone}
      /\ grants' = {g \in grants : g.file \notin gone}
      /\ UNCHANGED <<uploads, blobs, minted, spilled, again>>
  BY DEF HardDelete, At, BlobsOf
<1>2. \A g \in gone : g \in DOMAIN files /\ There(g)
  BY DEF Below
<1>3. FileTypes /\ NewFilesNamed /\ \A f \in DOMAIN files : files[f] \in FileRows
  BY Rows DEF Inv, Typed
<1> HIDE DEF gone
<1>4. Moves(w) /\ GoesTo(w, "blobs", BlobsOf(gone)) /\ Apart(w)
  BY <1>1, GoingOn, MoveApart DEF Inv
<1>5. \A f \in DOMAIN files : /\ files'[f] \in FileRows
                              /\ f \in gone => ~files'[f].here
                              /\ f \notin gone => files'[f] = files[f]
  <2>1. ASSUME NEW f \in DOMAIN files, f \in gone PROVE files'[f] \in FileRows /\ ~files'[f].here
    <3>1. files'[f] = [files[f] EXCEPT !.here = FALSE]
      BY <1>1, <2>1
    <3>2. /\ files[f] \in FileRows /\ files[f].name \in FileNames
          /\ files[f].parent \in 0 .. Len(files) /\ files[f].blob \in 0 .. minted
      BY <1>3 DEF FileRows
    <3>3. [files[f] EXCEPT !.here = FALSE] \in FileRows /\ ~[files[f] EXCEPT !.here = FALSE].here
      BY <3>2, FileChanged
    <3> QED BY <3>1, <3>3
  <2>2. ASSUME NEW f \in DOMAIN files, f \notin gone PROVE files'[f] = files[f]
    BY <1>1, <2>2
  <2> QED BY <1>3, <2>1, <2>2
<1>6. /\ files' \in Seq(FileRows') /\ Len(files') = Len(files) /\ DOMAIN files' = DOMAIN files
      /\ VersionRows' = VersionRows /\ GrantRows' = GrantRows /\ UploadRows' = UploadRows
  <2>1. files' = [f \in DOMAIN files |-> files'[f]]
    BY <1>1
  <2> QED BY <1>1, <1>3, <1>5, <2>1, FilesRewritten
<1>7. FileTypes' /\ NewFilesNamed' /\ Grows
  <2>1. versions' \subseteq versions /\ grants' \subseteq grants
    BY <1>1
  <2>2. versions' \subseteq VersionRows' /\ IsFiniteSet(versions') /\ grants' \subseteq GrantRows'
    BY <1>3, <1>6, <2>1, FS_Subset DEF FileTypes
  <2>3. FileTypes'
    BY <1>1, <1>3, <1>6, <2>2 DEF FileTypes
  <2>4. Len(files) \in Nat /\ minted \in Nat
    BY <1>3, Lengths
  <2> QED BY <1>1, <1>3, <1>6, <2>3, <2>4 DEF NewFilesNamed, Grows
<1>8. Typed'
  <2>1. BlobsOf(gone) \subseteq 0 .. minted
    <3>1. \A v \in versions : v.blob \in 1 .. minted
      BY <1>3 DEF FileTypes, VersionRows
    <3>2. \A f \in gone : files[f].blob \in 0 .. minted
      BY <1>2, <1>3 DEF FileRows
    <3>3. 1 .. minted \subseteq 0 .. minted
      BY <1>3, Lengths
    <3> QED BY <3>1, <3>2, <3>3 DEF BlobsOf
  <2>2. MayGo(j, "blobs", BlobsOf(gone), minted')
    BY <1>1, <2>1 DEF MayGo, Places
  <2>3. Fits(job[w])'
    BY <1>1, <1>4, <1>7, <2>2, GoneFits DEF Inv
  <2> QED BY <1>4, <1>7, <2>3, TypesKept DEF Inv
<1>9. job'[w].op = "delete" /\ job'[w].at = "blobs" /\ job'[w].saw = BlobsOf(gone)
  BY <1>1, <1>4, Serving DEF GoesTo, Fields, Inv
<1>10. /\ Fresh(j) = {} /\ Doomed(j) = {}
       /\ Fresh(job'[w]) = {} /\ Doomed(job'[w]) = BlobsOf(gone) /\ Reverted(job'[w]) = {}
  BY <1>1, <1>9 DEF Fresh, Doomed, Reverted
<1>11. StoreMatches'
  <2>1. Deletes(gone)
    BY <1>1, <1>2, <1>5, <1>6 DEF Deletes
  <2>2. Follows(job[w])'
    <3>1. Reverted(job[w])' = {} /\ (job[w].at # "version")'
      BY <1>9, <1>10 DEF Reverted
    <3> QED BY <3>1 DEF Follows
  <2> QED BY <1>4, <1>7, <1>10, <2>1, <2>2, RowsDeleted DEF Inv
<1>12. WithinLimit'
  <2>1. w \notin LetIn' /\ \A u : ~Brings(w, u)'
    BY <1>9 DEF LetIn, Brings
  <2>2. SameUploads /\ versions' \subseteq versions /\ again <= again'
    BY <1>1, Lengths DEF SameUploads, Inv, Typed
  <2> QED BY <1>4, <1>8, <2>1, <2>2, UnbroughtKeepLimit DEF Inv
<1> QED BY <1>8, <1>11, <1>12 DEF Inv

-----------------------------------------------------------------------------
(* The invariant holds *)

LEMMA InvStarts == InitFiles => Inv
<1> SUFFICES ASSUME InitFiles PROVE Inv
  OBVIOUS
<1>1. PICK s \in FileScenarios : FileTables(s) /\ Listening(s)
  BY DEF InitFiles
<1>2. /\ s.files \in Seq([parent : Nat, name : FileNames, folder : {TRUE}, by : SpaceMembers,
                          blob : {0}, here : {TRUE}])
      /\ \A f \in DOMAIN s.files : s.files[f].parent < f
      /\ s.grants \subseteq [file : DOMAIN s.files, of : SpaceMembers, level : {View, Edit, Own}]
      /\ s.requests \subseteq FileRequests /\ s.atOnce \in Nat \ {0} /\ SpaceLimit \in Nat
  BY FileAssumption
<1>3. /\ files = s.files /\ grants = s.grants
      /\ versions = {} /\ uploads = <<>> /\ blobs = {} /\ minted = 0 /\ spilled = {} /\ again = 0
  BY <1>1 DEF FileTables
<1>4. Pool /\ calls.requests = s.requests /\ calls.atOnce = s.atOnce
  BY <1>1, <1>2, PoolStarts
<1>5. \A w \in Threads : job[w] = Free
  BY <1>1 DEF Listening
<1>6. FileTypes
  <2>1. \A f \in DOMAIN files : files[f] \in FileRows
    <3> SUFFICES ASSUME NEW f \in DOMAIN files PROVE files[f] \in FileRows
      OBVIOUS
    <3> DEFINE Starting == [parent : Nat, name : FileNames, folder : {TRUE}, by : SpaceMembers,
                            blob : {0}, here : {TRUE}]
    <3> HIDE DEF Starting
    <3>1. files \in Seq(Starting) /\ files[f].parent < f
      BY <1>2, <1>3 DEF Starting
    <3>2. files[f] \in Starting /\ f \in 1 .. Len(files) /\ Len(files) \in Nat
      BY <3>1, Elements
    <3>3. files[f].parent \in Nat
      BY <3>2 DEF Starting
    <3>4. files[f].parent \in 0 .. Len(files) /\ 0 \in 0 .. minted
      BY <1>3, <3>1, <3>2, <3>3
    <3> QED BY <3>2, <3>4 DEF FileRows, Starting
  <2>2. files \in Seq(FileRows)
    BY <1>2, <1>3, <2>1, Widened
  <2>3. grants \subseteq GrantRows
    BY <1>2, <1>3 DEF GrantRows
  <2> QED BY <1>3, <2>2, <2>3, FS_EmptySet DEF FileTypes
<1>7. Typed
  BY <1>2, <1>3, <1>4, <1>5, <1>6 DEF Typed, NewFilesNamed, Fits
<1>8. StoreMatches
  <2>1. \A f : Numbers(f) = 1 .. 0
    BY <1>3 DEF Numbers, VersionsOf
  <2>2. Numbered
    BY <1>3, <2>1 DEF Numbered
  <2>3. \A f \in DOMAIN files : files[f].blob = 0
    BY <1>3, <1>6, Rows DEF FileRows
  <2>4. RowsHaveBlobs /\ ShowsNewest /\ BlobsAccounted
    BY <1>3, <2>3 DEF RowsHaveBlobs, ShowsNewest, BlobsAccounted
  <2>5. \A w \in Threads : Holds(w) /\ Follows(job[w])
    BY <1>5, FreeUntied DEF Untied, Holds, Follows
  <2> QED BY <2>2, <2>4, <2>5 DEF StoreMatches
<1>9. WithinLimit
  <2>1. LetIn = {} /\ Coming = {} /\ OneBrings
    BY <1>3, <1>5 DEF LetIn, Coming, OneBrings, Brings, Free
  <2>2. Cardinality(LetIn) = 0 /\ Cardinality(Coming) = 0 /\ Cardinality(versions) = 0
    BY <1>3, <2>1, FS_EmptySet
  <2>3. Len(uploads) = 0
    BY <1>3
  <2>4. 0 + 0 + 0 <= SpaceLimit + calls.atOnce - 1 + 0 + 0
    BY <1>2, <1>4
  <2> QED BY <1>3, <2>1, <2>2, <2>3, <2>4 DEF WithinLimit
<1> QED BY <1>7, <1>8, <1>9 DEF Inv

LEMMA InvStutters == Inv /\ UNCHANGED fileVars => Inv'
<1> SUFFICES ASSUME Inv, UNCHANGED fileVars PROVE Inv'
  OBVIOUS
<1>1. UNCHANGED <<files, versions, grants, uploads, blobs, minted, spilled, again, job, calls>>
  BY DEF fileVars, fileTables, serving
<1>2. Typed'
  BY <1>1 DEF Inv, Typed, Pool, Engaged, FileTypes, FileRows, VersionRows, GrantRows, UploadRows,
              NewFilesNamed, Fits, FitsAt, MayGo
<1>3. StoreMatches'
  <2>1. \A w : Fresh(job[w])' = Fresh(job[w]) /\ Doomed(job[w])' = Doomed(job[w])
    BY <1>1 DEF Fresh, Doomed
  <2>2. Numbered' /\ RowsHaveBlobs' /\ ShowsNewest'
    BY <1>1 DEF Inv, StoreMatches, Numbered, RowsHaveBlobs, ShowsNewest,
                Numbers, VersionsOf, HasBlob, There
  <2>3. BlobsAccounted' /\ \A w \in Threads : Holds(w)'
    BY <1>1, <2>1 DEF Inv, StoreMatches, BlobsAccounted, Holds
  <2>4. \A w \in Threads : Follows(job[w])'
    <3>1. \A w \in Threads : Follows(job'[w])
      BY <1>1 DEF Inv, StoreMatches
    <3> QED BY <1>1, <3>1, FollowsThen
  <2> QED BY <2>2, <2>3, <2>4 DEF StoreMatches
<1>4. WithinLimit'
  BY <1>1 DEF Inv, WithinLimit, OneBrings, Brings, LetIn, Coming
<1> QED BY <1>2, <1>3, <1>4 DEF Inv

LEMMA NextKept == Inv /\ NextFiles => Inv'
<1> SUFFICES ASSUME Inv, NEW w \in Threads,
      \/ TakeFileRequest(w)
      \/ CheckFolder(w) \/ CreateFolder(w)
      \/ CheckUpload(w) \/ PutBlob(w) \/ CreateFile(w)
      \/ CheckUploadInit(w) \/ CheckVersionInit(w) \/ CreateUploadSession(w)
      \/ CheckChunk(w) \/ CheckVersionChunk(w) \/ PutPart(w) \/ RecordChunk(w)
      \/ CheckComplete(w) \/ CheckCompleteVersion(w) \/ Assemble(w) \/ CompleteFile(w) \/ DropSession(w)
      \/ CheckVersion(w) \/ CheckRevert(w) \/ NumberVersion(w) \/ InsertVersion(w)
      \/ CheckUpdateFile(w) \/ Rename(w) \/ CheckMove(w) \/ Move(w)
      \/ CheckDelete(w) \/ HardDelete(w) \/ RemoveBlobs(w)
      \/ CheckGrant(w) \/ SetGrant(w) \/ CheckUngrant(w) \/ RemoveGrant(w)
    PROVE Inv'
  BY Zenon DEF NextFiles
<1> QED BY Zenon, TakeKept, ChecksKept, CheckUploadKept, CreateFolderKept, PutBlobKept, CreateFileKept,
           CreateUploadSessionKept, UploadsTouchedKept, AssembleKept, CompleteFileKept,
           CheckRevertKept, CheckUpdateFileKept, NumberVersionKept, InsertVersionKept, PlacesKept, HardDeleteKept,
           RemoveBlobsKept, GrantsKept

LEMMA InvAlways == FilesSpec => []Inv
<1>1. InitFiles => Inv
  BY InvStarts
<1>2. Inv /\ [NextFiles]_fileVars => Inv'
  BY NextKept, InvStutters
<1> QED BY <1>1, <1>2, PTL DEF FilesSpec

LEMMA MaxTo ==
  ASSUME NEW n \in Nat \ {0}
  PROVE  Max(1 .. n) = n
<1>1. n \in 1 .. n /\ \A y \in 1 .. n : n >= y
  OBVIOUS
<1>2. \A x \in 1 .. n : (\A y \in 1 .. n : x >= y) => x = n
  BY <1>1
<1> QED BY <1>1, <1>2 DEF Max

-----------------------------------------------------------------------------

\* The rows of files, versions, grants and uploads and the keys of the storage
\* are always well formed: a version belongs to a row that exists, and a blob
\* has a key that was drawn.
THEOREM FilesTyped == FilesSpec => []FileTypes
<1>1. Inv => FileTypes
  BY DEF Inv, Typed
<1> QED BY <1>1, InvAlways, PTL

\* Whatever uploads, versions, reverts, refusals and deletions overlap, a row
\* that is there has its blobs, it shows its newest version, and at rest a blob
\* without a row is one whose row was refused (space_file_handler.cpp:918,
\* :2438).
THEOREM BlobsAlwaysMatchFiles == FilesSpec => []BlobsMatchFiles
<1>1. Inv => BlobsMatchFiles
  <2> SUFFICES ASSUME Inv PROVE BlobsMatchFiles
    OBVIOUS
  <2>1. ASSUME NEW v \in versions
        PROVE  /\ There(v.file) /\ v.blob \in blobs
               /\ v.number = Max(Numbers(v.file)) => files[v.file].blob = v.blob
    <3>1. There(v.file) /\ v.blob \in blobs
      BY DEF Inv, StoreMatches, RowsHaveBlobs
    <3>2. PICK n \in {0} \cup Numbers(v.file) : Numbers(v.file) = 1 .. n
      BY <3>1 DEF Inv, StoreMatches, Numbered, There
    <3>3. v.number \in Numbers(v.file)
      BY DEF Numbers, VersionsOf
    <3>4. \A x \in Numbers(v.file) : x \in Nat \ {0}
      BY DEF Numbers, VersionsOf, Inv, Typed, FileTypes, VersionRows
    <3>5. n \in Nat \ {0}
      BY <3>2, <3>3, <3>4
    <3>6. Max(Numbers(v.file)) = n
      BY <3>2, <3>5, MaxTo
    <3>7. ASSUME v.number = n PROVE files[v.file].blob = v.blob
      <4>1. \A x \in versions : x.file = v.file => x.number \in Numbers(v.file)
        BY DEF Numbers, VersionsOf
      <4>2. \A x \in versions : x.file = v.file => x.number <= v.number
        BY <3>2, <3>5, <3>7, <4>1
      <4> QED BY <4>2 DEF Inv, StoreMatches, ShowsNewest
    <3> QED BY <3>1, <3>6, <3>7
  <2>2. ASSUME AtRest, NEW b \in blobs PROVE b \in spilled \/ \E v \in versions : v.blob = b
    <3>1. \A w \in Threads : job[w] = Free
      BY <2>2 DEF AtRest, Engaged
    <3>2. \A w \in Threads : Fresh(job[w]) = {} /\ Doomed(job[w]) = {}
      BY <3>1, FreeUntied DEF Untied
    <3> QED BY <2>2, <3>2 DEF Inv, StoreMatches, BlobsAccounted
  <2> QED BY <2>1, <2>2 DEF BlobsMatchFiles
<1> QED BY <1>1, InvAlways, PTL

LEMMA LessThanAll ==
  ASSUME NEW a \in Nat, NEW b \in Nat, NEW c \in Nat, NEW limit \in Int, a + b + c <= limit
  PROVE  a <= limit
  OBVIOUS

\* However many uploads pass the check of the limit before one of them writes
\* its row, the space exceeds it by no more than those that overlapped, the
\* uploads in chunks and the reverts (space_file_handler.cpp:905).
THEOREM LimitAlwaysHolds == FilesSpec => []LimitHolds
<1>1. Inv => LimitHolds
  <2> SUFFICES ASSUME Inv PROVE LimitHolds
    OBVIOUS
  <2> DEFINE limit == SpaceLimit + calls.atOnce - 1 + again + Len(uploads)
  <2>1. /\ Cardinality(versions) \in Nat /\ Cardinality(LetIn) \in Nat /\ Cardinality(Coming) \in Nat
        /\ limit \in Int
    BY LimitCounts DEF Inv
  <2>2. Cardinality(versions) + Cardinality(LetIn) + Cardinality(Coming) <= limit
    BY DEF Inv, WithinLimit
  <2> HIDE DEF limit
  <2>3. Cardinality(versions) <= limit
    BY <2>1, <2>2, LessThanAll
  <2> QED BY <2>3 DEF LimitHolds, limit
<1> QED BY <1>1, InvAlways, PTL

-----------------------------------------------------------------------------
(* Climbing *)

LEMMA Least ==
  ASSUME NEW S \in SUBSET Nat, S # {}
  PROVE  \E m \in S : \A n \in S : m <= n
<1> DEFINE R == {p \in Nat \X Nat : p[1] < p[2]}
<1>1. IsWellFoundedOn(R, Nat)
  BY NatLessThanWellFounded DEF OpToRel
<1>2. \A x, y \in Nat : x < y => <<x, y>> \in R
  OBVIOUS
<1> HIDE DEF R
<1>3. PICK m \in S : \A n \in S : ~(<<n, m>> \in R)
  BY <1>1, WFMin
<1>4. \A n \in S : m <= n
  <2>1. SUFFICES ASSUME NEW n \in S, ~(m <= n) PROVE FALSE
    OBVIOUS
  <2>2. n \in Nat /\ m \in Nat
    OBVIOUS
  <2>3. n < m
    BY <2>1, <2>2
  <2> QED BY <1>2, <1>3, <2>2, <2>3
<1> QED BY <1>4

\* What a set of numbers up to n must hold when it holds 0 and each successor.
LEMMA UpTo ==
  ASSUME NEW n \in Nat, NEW S, 0 \in S,
         \A k \in 0 .. n : k # 0 /\ k - 1 \in S => k \in S
  PROVE  0 .. n \subseteq S
<1> DEFINE missing == (0 .. n) \ S
<1>1. SUFFICES ASSUME missing # {} PROVE FALSE
  OBVIOUS
<1>2. missing \in SUBSET Nat
  OBVIOUS
<1> HIDE DEF missing
<1>3. PICK m \in missing : \A k \in missing : m <= k
  BY <1>1, <1>2, Least
<1>4. m \in 0 .. n /\ m \notin S /\ m # 0
  BY <1>3 DEF missing
<1>5. m - 1 \in S
  <2>1. SUFFICES ASSUME m - 1 \notin S PROVE FALSE
    OBVIOUS
  <2>2. m - 1 \in 0 .. n /\ m \in Nat /\ m - 1 \in Nat
    BY <1>4
  <2>3. m <= m - 1
    BY <1>3, <2>1, <2>2 DEF missing
  <2> QED BY <2>2, <2>3
<1> QED BY <1>4, <1>5

LEMMA Climbing ==
  ASSUME NEW f, Len(files) \in Nat
  PROVE  /\ Climb(f)[0] = {f}
         /\ \A k \in 1 .. Len(files) : Climb(f)[k] = Climb(f)[k - 1] \cup Parents(Climb(f)[k - 1])
<1> DEFINE n == Len(files)
<1> DEFINE Climbs(c, m) ==
      c = [k \in 0 .. m |-> IF k = 0 THEN {f} ELSE c[k - 1] \cup Parents(c[k - 1])]
<1> DEFINE S == {m \in 0 .. n : \E c : Climbs(c, m)}
<1>1. 0 \in S
  <2> DEFINE c == [k \in 0 .. 0 |-> {f}]
  <2>1. Climbs(c, 0)
    OBVIOUS
  <2> HIDE DEF c, Climbs
  <2> QED BY <2>1
<1>2. ASSUME NEW m \in 0 .. n, m # 0, m - 1 \in S PROVE m \in S
  <2>1. PICK c : Climbs(c, m - 1)
    BY <1>2
  <2> DEFINE d == [k \in 0 .. m |-> IF k = m THEN c[m - 1] \cup Parents(c[m - 1]) ELSE c[k]]
  <2>2. m \in Nat /\ m - 1 \in Nat
    BY <1>2
  <2>3. \A k \in 0 .. (m - 1) : /\ k \in 0 .. m /\ k # m
                                /\ c[k] = IF k = 0 THEN {f} ELSE c[k - 1] \cup Parents(c[k - 1])
    BY <2>1, <2>2
  <2>4. ASSUME NEW k \in 0 .. m
        PROVE  d[k] = IF k = 0 THEN {f} ELSE d[k - 1] \cup Parents(d[k - 1])
    <3>1. CASE k = m
      BY <1>2, <2>2, <3>1
    <3>2. CASE k # m
      <4>1. k \in 0 .. (m - 1) /\ (k # 0 => k - 1 \in 0 .. (m - 1))
        BY <2>2, <3>2
      <4> QED BY <2>3, <3>2, <4>1
    <3> QED BY <3>1, <3>2
  <2>5. Climbs(d, m)
    BY <2>4
  <2> QED BY <2>5
<1>3. n \in S
  <2> HIDE DEF S
  <2>1. 0 .. n \subseteq S
    BY <1>1, <1>2, UpTo
  <2> QED BY <2>1
<1>6. \A c : Climbs(c, n) =>
        \A k \in 0 .. n : c[k] = IF k = 0 THEN {f} ELSE c[k - 1] \cup Parents(c[k - 1])
  OBVIOUS
<1>4. PICK c : Climbs(c, n)
  BY <1>3
<1>5. Climbs(Climb(f), n)
  BY <1>4 DEF Climb
<1> HIDE DEF Climbs
<1>7. \A k \in 0 .. n :
        Climb(f)[k] = IF k = 0 THEN {f} ELSE Climb(f)[k - 1] \cup Parents(Climb(f)[k - 1])
  BY <1>5, <1>6
<1>8. 0 \in 0 .. n /\ \A k \in 1 .. n : k \in 0 .. n /\ k # 0
  OBVIOUS
<1> QED BY Zenon, <1>7, <1>8

LEMMA Climbed ==
  ASSUME FileTypes, NEW f \in 0 .. Len(files)
  PROVE  /\ Len(files) \in Nat
         /\ \A rows \in SUBSET (0 .. Len(files)) : Parents(rows) \subseteq 0 .. Len(files)
         /\ \A k \in 0 .. Len(files) : Climb(f)[k] \in SUBSET (0 .. Len(files)) /\ f \in Climb(f)[k]
<1> DEFINE n == Len(files)
<1> DEFINE c == Climb(f)
<1>1. n \in Nat /\ DOMAIN files = 1 .. n
  BY Lengths
<1>2. \A rows \in SUBSET (0 .. n) : Parents(rows) \subseteq 0 .. n
  <2>1. SUFFICES ASSUME NEW rows \in SUBSET (0 .. n), NEW g \in rows \ {Root}
                 PROVE  files[g].parent \in 0 .. n
    BY DEF Parents
  <2>2. g \in DOMAIN files
    BY <1>1 DEF Root
  <2> QED BY <2>2, Rows DEF FileRows
<1> DEFINE S == {k \in 0 .. n : c[k] \in SUBSET (0 .. n) /\ f \in c[k]}
<1>3. c[0] = {f} /\ \A k \in 1 .. n : c[k] = c[k - 1] \cup Parents(c[k - 1])
  BY <1>1, Climbing
<1>4. 0 \in S
  BY <1>1, <1>3
<1>5. ASSUME NEW k \in 0 .. n, k # 0, k - 1 \in S PROVE k \in S
  <2>1. k \in 1 .. n
    BY <1>1, <1>5
  <2>2. c[k - 1] \in SUBSET (0 .. n) /\ f \in c[k - 1]
    BY <1>5
  <2>3. c[k] \in SUBSET (0 .. n) /\ f \in c[k]
    BY <1>2, <1>3, <2>1, <2>2
  <2> QED BY <2>3
<1>6. 0 .. n \subseteq S
  <2> HIDE DEF S
  <2> QED BY <1>1, <1>4, <1>5, UpTo
<1> QED BY <1>1, <1>2, <1>6

\* Once a step of the climb adds nothing, none does.
LEMMA ClimbEnds ==
  ASSUME FileTypes, NEW f \in 0 .. Len(files), NEW k \in 0 .. Len(files),
         Parents(Climb(f)[k]) \subseteq Climb(f)[k]
  PROVE  Above(f) = Climb(f)[k]
<1> DEFINE n == Len(files)
<1> DEFINE c == Climb(f)
<1> DEFINE S == {m \in 0 .. n : m < k \/ c[m] = c[k]}
<1>1. n \in Nat
  BY Climbed
<1>2. c[0] = {f} /\ \A m \in 1 .. n : c[m] = c[m - 1] \cup Parents(c[m - 1])
  BY <1>1, Climbing
<1>3. 0 \in S
  BY <1>1
<1>4. ASSUME NEW m \in 0 .. n, m # 0, m - 1 \in S PROVE m \in S
  <2>1. m \in 1 .. n /\ m - 1 \in 0 .. n
    BY <1>1, <1>4
  <2>2. CASE m < k
    BY <2>2
  <2>3. CASE m = k
    BY <2>3
  <2>4. CASE m > k
    <3>1. ~(m - 1 < k)
      BY <1>1, <2>1, <2>4
    <3>2. c[m - 1] = c[k]
      BY <1>4, <3>1
    <3>3. c[m] = c[k] \cup Parents(c[k])
      BY <1>2, <2>1, <3>2
    <3> QED BY <3>3
  <2> QED BY <1>1, <2>2, <2>3, <2>4
<1>5. 0 .. n \subseteq S
  <2> HIDE DEF S
  <2> QED BY <1>1, <1>3, <1>4, UpTo
<1>6. n \in S /\ ~(n < k)
  BY <1>1, <1>5
<1> QED BY <1>6 DEF Above

\* A set of rows that holds the parents of its own.
Closed(rows) == \A g \in rows \ {Root} : files[g].parent \in rows

\* What is above a row is the least such set, since as many steps as there are
\* rows reach them all.
Ascends ==
  \A f \in 0 .. Len(files) :
    /\ f \in Above(f) /\ Above(f) \subseteq 0 .. Len(files) /\ Closed(Above(f))
    /\ \A rows \in SUBSET (0 .. Len(files)) : f \in rows /\ Closed(rows) => Above(f) \subseteq rows

LEMMA ClosedParents ==
  ASSUME NEW rows
  PROVE  Closed(rows) <=> Parents(rows) \subseteq rows
  BY DEF Closed, Parents

LEMMA Ascent == FileTypes => Ascends
<1> SUFFICES ASSUME FileTypes, NEW f \in 0 .. Len(files)
             PROVE  /\ f \in Above(f) /\ Above(f) \subseteq 0 .. Len(files) /\ Closed(Above(f))
                    /\ \A rows \in SUBSET (0 .. Len(files)) :
                         f \in rows /\ Closed(rows) => Above(f) \subseteq rows
  BY DEF Ascends
<1> DEFINE n == Len(files)
<1> DEFINE c == Climb(f)
<1>1. /\ n \in Nat
      /\ \A rows \in SUBSET (0 .. n) : Parents(rows) \subseteq 0 .. n
      /\ \A k \in 0 .. n : c[k] \in SUBSET (0 .. n) /\ f \in c[k]
  BY Climbed
<1>2. c[0] = {f} /\ \A k \in 1 .. n : c[k] = c[k - 1] \cup Parents(c[k - 1])
  BY <1>1, Climbing
<1>3. f \in Above(f) /\ Above(f) \subseteq 0 .. n
  <2>1. n \in 0 .. n
    BY <1>1
  <2> QED BY <1>1, <2>1 DEF Above
<1>4. ASSUME NEW rows \in SUBSET (0 .. n), f \in rows, Closed(rows) PROVE Above(f) \subseteq rows
  <2> DEFINE S == {k \in 0 .. n : c[k] \subseteq rows}
  <2>1. 0 \in S
    BY <1>1, <1>2, <1>4
  <2>2. ASSUME NEW k \in 0 .. n, k # 0, k - 1 \in S PROVE k \in S
    <3>1. k \in 1 .. n /\ c[k - 1] \subseteq rows
      BY <1>1, <2>2
    <3>2. Parents(c[k - 1]) \subseteq rows
      BY <1>4, <3>1 DEF Parents, Closed
    <3>3. c[k] \subseteq rows
      BY <1>2, <3>1, <3>2
    <3> QED BY <3>3
  <2>3. 0 .. n \subseteq S
    <3> HIDE DEF S
    <3> QED BY <1>1, <2>1, <2>2, UpTo
  <2>4. n \in S
    BY <1>1, <2>3
  <2> QED BY <2>4 DEF Above
<1>5. Closed(Above(f))
  <2>1. SUFFICES ASSUME ~Closed(Above(f)) PROVE FALSE
    OBVIOUS
  <2>2. \A k \in 0 .. n : ~(Parents(c[k]) \subseteq c[k])
    BY <2>1, ClimbEnds, ClosedParents
  <2>3. IsFiniteSet(0 .. n) /\ Cardinality(0 .. n) = n + 1
    <3>1. IsFiniteSet(0 .. n)
      BY <1>1, FS_Interval
    <3>2. Cardinality(0 .. n) = IF 0 > n THEN 0 ELSE n - 0 + 1
      BY <1>1, FS_Interval
    <3> QED BY <1>1, <3>1, <3>2
  <2>4. \A k \in 0 .. n : IsFiniteSet(c[k]) /\ Cardinality(c[k]) \in Nat
    BY <1>1, <2>3, FS_Subset, FS_CardinalityType
  <2> DEFINE S == {k \in 0 .. n : Cardinality(c[k]) >= k + 1}
  <2>5. 0 \in S
    <3>1. Cardinality(c[0]) = 1
      BY <1>2, FS_Singleton
    <3> QED BY <1>1, <3>1
  <2>6. ASSUME NEW k \in 0 .. n, k # 0, k - 1 \in S PROVE k \in S
    <3>1. k \in 1 .. n /\ k - 1 \in 0 .. n /\ Cardinality(c[k - 1]) >= k
      BY <1>1, <2>6
    <3>2. c[k - 1] \subseteq c[k] /\ c[k - 1] # c[k]
      BY <1>2, <2>2, <3>1
    <3>3. Cardinality(c[k - 1]) <= Cardinality(c[k]) /\ Cardinality(c[k - 1]) # Cardinality(c[k])
      BY <2>4, <3>2, FS_Subset
    <3>4. Cardinality(c[k - 1]) \in Nat /\ Cardinality(c[k]) \in Nat /\ k \in Nat
      BY <1>1, <2>4, <3>1
    <3>5. Cardinality(c[k]) >= k + 1
      BY <3>1, <3>3, <3>4
    <3> QED BY <3>5
  <2>7. 0 .. n \subseteq S
    <3> HIDE DEF S
    <3> QED BY <1>1, <2>5, <2>6, UpTo
  <2>8. n \in 0 .. n /\ Cardinality(c[n]) >= n + 1
    BY <1>1, <2>7
  <2>9. c[n] = 0 .. n
    <3>1. c[n] \subseteq 0 .. n /\ Cardinality(c[n]) \in Nat
      BY <1>1, <2>4, <2>8
    <3>2. Cardinality(c[n]) <= n + 1
      BY <2>3, <3>1, FS_Subset
    <3>3. Cardinality(c[n]) = Cardinality(0 .. n)
      BY <1>1, <2>3, <2>8, <3>1, <3>2
    <3> QED BY <2>3, <3>1, <3>3, FS_Subset
  <2>10. Parents(c[n]) \subseteq c[n]
    BY <1>1, <2>9
  <2> QED BY <2>2, <2>8, <2>10
<1> QED BY <1>3, <1>4, <1>5

LEMMA AscentNext == FileTypes' => Ascends'
  BY Ascent, PTL

-----------------------------------------------------------------------------
(* The tree *)

InFolders == \A f \in DOMAIN files : There(f) => IsFolder(files[f].parent)
AllRooted == \A f \in DOMAIN files : There(f) => Root \in Above(f)
\* A folder about to be moved is not above where it goes.
MovesApart(j) ==
  j.op = "update" /\ j.at = "move" /\ files[j.file].folder /\ j.parent \in DOMAIN files
    => j.file \notin Above(j.parent)
Tree ==
  /\ InFolders
  /\ OneAtATime => AllRooted /\ \A w \in Threads : MovesApart(job[w])

\* Rows that keep their parents keep all that is above them.
LEMMA SameAbove ==
  ASSUME FileTypes, FileTypes', Len(files) <= Len(files'),
         \A g \in DOMAIN files : files'[g].parent = files[g].parent,
         NEW f \in 0 .. Len(files)
  PROVE  Above(f)' = Above(f) /\ f \in 0 .. Len(files')
<1> DEFINE n == Len(files)
<1> DEFINE m == Len(files')
<1> DEFINE A == Above(f)
<1> DEFINE B == Above(f)'
<1>1. n \in Nat /\ m \in Nat /\ DOMAIN files = 1 .. n /\ DOMAIN files' = 1 .. m
  BY Lengths, Elements DEF FileTypes
<1>2. 0 .. n \subseteq 0 .. m /\ \A g \in 0 .. n : g # Root => files'[g].parent = files[g].parent
  BY <1>1 DEF Root
<1>3. /\ f \in A /\ A \subseteq 0 .. n /\ \A g \in A \ {Root} : files[g].parent \in A
      /\ \A rows \in SUBSET (0 .. n) :
           f \in rows /\ (\A g \in rows \ {Root} : files[g].parent \in rows) => A \subseteq rows
  BY Ascent DEF Ascends, Closed
<1>4. Ascends' /\ f \in 0 .. m
  BY <1>2, AscentNext
<1>5. /\ f \in B /\ B \subseteq 0 .. m /\ \A g \in B \ {Root} : files'[g].parent \in B
      /\ \A rows \in SUBSET (0 .. m) :
           f \in rows /\ (\A g \in rows \ {Root} : files'[g].parent \in rows) => B \subseteq rows
  BY <1>4 DEF Ascends, Closed
<1> HIDE DEF A, B, n, m
<1>6. B \subseteq A
  BY <1>2, <1>3, <1>5
<1>7. A \subseteq B
  BY <1>2, <1>3, <1>5, <1>6
<1> QED BY <1>4, <1>6, <1>7 DEF A, B, m

\* Above a row is the row and what is above its parent.
LEMMA AboveParent ==
  ASSUME FileTypes, NEW f \in DOMAIN files
  PROVE  /\ files[f].parent \in Above(f) /\ Above(files[f].parent) \subseteq Above(f)
         /\ files[f].parent \in 0 .. Len(files)
<1>1. f \in 1 .. Len(files) /\ Len(files) \in Nat
  BY Lengths
<1>2. f \in 0 .. Len(files) /\ f # Root
  BY <1>1 DEF Root
<1>3. /\ f \in Above(f) /\ Above(f) \in SUBSET (0 .. Len(files)) /\ Closed(Above(f))
  BY <1>2, Ascent DEF Ascends
<1>4. files[f].parent \in Above(f)
  BY <1>2, <1>3 DEF Closed
<1> QED BY <1>3, <1>4, Ascent DEF Ascends

RowsUnder == \A f \in DOMAIN files : /\ files[f].parent \in Above(f)
                                     /\ Above(files[f].parent) \subseteq Above(f)
                                     /\ files[f].parent \in 0 .. Len(files)
LEMMA RowsUnderNext == FileTypes' => RowsUnder'
<1>1. FileTypes => RowsUnder
  BY AboveParent DEF RowsUnder
<1> QED BY <1>1, PTL

\* Rows keep their place, and new ones are put in folders.
LEMMA PlacesStay ==
  ASSUME FileTypes, FileTypes', InFolders, Len(files) <= Len(files'),
         \A g \in DOMAIN files : /\ files'[g].parent = files[g].parent
                                 /\ files'[g].folder = files[g].folder
                                 /\ files'[g].here => files[g].here,
         \A g \in DOMAIN files :
           There(g) /\ files'[g].here /\ There(files[g].parent) => files'[files[g].parent].here,
         \A g \in DOMAIN files' \ DOMAIN files :
           IsFolder(files'[g].parent) /\ \A f \in DOMAIN files : files'[f].here = files[f].here
  PROVE  InFolders' /\ (AllRooted => AllRooted')
<1>1. /\ DOMAIN files = 1 .. Len(files) /\ Len(files) \in Nat
      /\ DOMAIN files' = 1 .. Len(files') /\ Len(files') \in Nat
  BY Lengths, Elements DEF FileTypes
<1>2. DOMAIN files \subseteq DOMAIN files' /\ \A g \in DOMAIN files : g \in 0 .. Len(files)
  BY <1>1
<1>3. \A g \in DOMAIN files : There(g)' => There(g)
  BY DEF There
<1>4. InFolders'
  <2>1. SUFFICES ASSUME NEW g \in DOMAIN files', There(g)' PROVE IsFolder(files[g].parent)'
    BY DEF InFolders
  <2>2. PICK p : p = files'[g].parent
    OBVIOUS
  <2>3. IsFolder(p)' => IsFolder(files[g].parent)'
    BY <2>2 DEF IsFolder, There
  <2>4. CASE g \in DOMAIN files
    <3>1. There(g) /\ IsFolder(files[g].parent) /\ p = files[g].parent /\ files'[g].here
      BY <1>3, <2>1, <2>2, <2>4 DEF InFolders, There
    <3>2. CASE p = Root
      BY <2>3, <3>2 DEF IsFolder, Root
    <3>3. CASE p # Root
      <4>1. There(p) /\ files[p].folder /\ p \in DOMAIN files
        BY <3>1, <3>3 DEF IsFolder, There
      <4>2. files'[p].here /\ files'[p].folder = files[p].folder
        BY <2>4, <3>1, <4>1
      <4> QED BY <1>2, <2>3, <4>1, <4>2 DEF IsFolder, There
    <3> QED BY <3>2, <3>3
  <2>5. CASE g \notin DOMAIN files
    <3>1. IsFolder(p) /\ \A f \in DOMAIN files : files'[f].here = files[f].here
      BY <2>2, <2>5
    <3> QED BY <1>2, <2>3, <3>1 DEF IsFolder, There, Root
  <2> QED BY <2>4, <2>5
<1>5. ASSUME AllRooted, NEW g \in DOMAIN files', There(g)' PROVE Root \in Above(g)'
  <2>1. \A f \in 0 .. Len(files) : Above(f)' = Above(f)
    BY SameAbove
  <2>2. CASE g \in DOMAIN files
    BY <1>2, <1>3, <1>5, <2>1, <2>2 DEF AllRooted
  <2>3. CASE g \notin DOMAIN files
    <3>1. PICK p : p = files'[g].parent
      OBVIOUS
    <3>2. Above(files[g].parent)' = Above(p)'
      BY <3>1 DEF Above, Climb
    <3>3. p \in Above(g)' /\ Above(p)' \subseteq Above(g)'
      BY <3>1, <3>2, RowsUnderNext DEF RowsUnder
    <3>4. CASE p = Root
      BY <3>3, <3>4
    <3>5. CASE p # Root
      <4>1. There(p) /\ p \in DOMAIN files
        BY <2>3, <3>1, <3>5 DEF IsFolder, There
      <4>2. Root \in Above(p) /\ Above(p)' = Above(p)
        BY <1>2, <1>5, <2>1, <4>1 DEF AllRooted
      <4> QED BY <3>3, <4>2
    <3> QED BY <3>4, <3>5
  <2> QED BY <2>2, <2>3
<1> QED BY <1>4, <1>5 DEF AllRooted

\* Where a handler goes, except to move a row.
Elsewhere ==
  {"row", "put", "session", "part", "record", "assemble", "drop", "number", "version",
   "rename", "check move", "rows", "blobs", "set"}
Settles(w) ==
  /\ job[w].at # "none"
  /\ \/ Respond(w)
     \/ \E place \in Elsewhere : Proceed(w, place) \/ \E saw : Recall(w, place, saw)

LEMMA Settled ==
  ASSUME Typed, NEW w \in Threads, Settles(w)
  PROVE  /\ job[w] # Free /\ job'[w].at # "move"
         /\ \A v \in Threads \ {w} : job'[v] = job[v]
         /\ calls' = calls
<1>1. job[w].at # "none" /\ job[w] # Free
  BY DEF Settles, Free
<1>2. Moves(w) /\ job'[w].at # "move"
  <2>1. CASE Respond(w)
    <3>1. Moves(w) /\ job'[w] = Free
      BY <1>1, <2>1, GoingOn, "row" # "none"
    <3> QED BY <3>1 DEF Free
  <2>2. ASSUME NEW place \in Elsewhere, Proceed(w, place) \/ \E saw : Recall(w, place, saw)
        PROVE  Moves(w) /\ job'[w].at # "move"
    <3>1. place # "none" /\ place # "move"
      BY DEF Elsewhere
    <3>2. Moves(w) /\ job'[w].at = place
      BY <1>1, <2>2, <3>1, GoingOn DEF GoesTo
    <3> QED BY <3>1, <3>2
  <2> QED BY <2>1, <2>2 DEF Settles
<1> QED BY <1>1, <1>2, MoveKeepsPool DEF Typed, Moves

\* A step after which w has no move before it, from what it does to the rows.
LEMMA TreeKept ==
  ASSUME Typed, Tree, NEW w \in Threads, Settles(w),
         InFolders', OneAtATime /\ AllRooted => AllRooted'
  PROVE  Tree'
<1>1. /\ job[w] # Free /\ job'[w].at # "move" /\ Pool
      /\ \A v \in Threads \ {w} : job'[v] = job[v]
      /\ calls' = calls
  BY Settled DEF Typed
<1>2. SUFFICES ASSUME OneAtATime' PROVE AllRooted' /\ \A v \in Threads : MovesApart(job[v])'
  BY DEF Tree
<1>3. OneAtATime
  BY <1>1, <1>2 DEF OneAtATime
<1>4. \A v \in Threads : job'[v].at # "move"
  <2>1. \A v \in Threads \ {w} : job'[v] = Free
    BY <1>1, <1>3, Alone
  <2> QED BY <1>1, <2>1 DEF Free
<1> QED BY <1>3, <1>4 DEF Tree, MovesApart

LEMMA SameRows ==
  ASSUME UNCHANGED files
  PROVE  /\ \A f : Above(f)' = Above(f) /\ There(f)' = There(f) /\ IsFolder(f)' = IsFolder(f)
         /\ InFolders => InFolders'
         /\ AllRooted => AllRooted'
<1>1. \A f : Above(f)' = Above(f)
  BY DEF Above, Climb, Parents
<1>2. \A f : There(f)' = There(f) /\ IsFolder(f)' = IsFolder(f)
  BY DEF There, IsFolder
<1> QED BY <1>1, <1>2 DEF InFolders, AllRooted, There, IsFolder

LEMMA RowsUntouchedKeepTree ==
  ASSUME Typed, Tree, NEW w \in Threads, Settles(w), UNCHANGED files
  PROVE  Tree'
<1>1. InFolders' /\ (AllRooted => AllRooted')
  BY SameRows DEF Tree
<1> QED BY <1>1, TreeKept

LEMMA ReadersKeepTree ==
  ASSUME Typed, Tree, NEW w \in Threads
  PROVE  \/ CheckFolder(w) \/ CheckUpload(w) \/ PutBlob(w)
         \/ CheckUploadInit(w) \/ CheckVersionInit(w) \/ CreateUploadSession(w)
         \/ CheckChunk(w) \/ CheckVersionChunk(w) \/ PutPart(w) \/ RecordChunk(w)
         \/ CheckComplete(w) \/ CheckCompleteVersion(w) \/ Assemble(w) \/ DropSession(w)
         \/ CheckVersion(w) \/ CheckRevert(w) \/ NumberVersion(w)
         \/ CheckUpdateFile(w) \/ CheckDelete(w) \/ RemoveBlobs(w)
         \/ CheckGrant(w) \/ SetGrant(w) \/ CheckUngrant(w) \/ RemoveGrant(w)
         => Tree'
<1>1. CASE CheckFolder(w) \/ CheckUpload(w) \/ CheckUploadInit(w) \/ CheckVersionInit(w)
        \/ CheckChunk(w) \/ CheckVersionChunk(w) \/ PutPart(w)
        \/ CheckComplete(w) \/ CheckCompleteVersion(w)
        \/ CheckVersion(w) \/ CheckDelete(w) \/ CheckGrant(w) \/ CheckUngrant(w)
  <2>1. job[w].at # "none" /\ \E place \in Elsewhere : \E refused : Ask(w, refused, place)
    <3>1. CASE CheckFolder(w) \/ CheckUpload(w) \/ CheckUploadInit(w) \/ CheckVersionInit(w)
      BY <3>1 DEF CheckFolder, CheckUpload, CheckUploadInit, CheckVersionInit, At, Elsewhere
    <3>2. CASE CheckChunk(w) \/ CheckVersionChunk(w) \/ PutPart(w)
      BY <3>2 DEF CheckChunk, CheckVersionChunk, PutPart, At, Elsewhere
    <3>3. CASE CheckComplete(w) \/ CheckCompleteVersion(w)
      BY <3>3 DEF CheckComplete, CheckCompleteVersion, At, Elsewhere
    <3>4. CASE CheckVersion(w) \/ CheckDelete(w)
      BY <3>4 DEF CheckVersion, CheckDelete, At, Elsewhere
    <3>5. CASE CheckGrant(w) \/ CheckUngrant(w)
      BY <3>5 DEF CheckGrant, CheckUngrant, At, Elsewhere
    <3> QED BY <1>1, <3>1, <3>2, <3>3, <3>4, <3>5
  <2>2. Settles(w) /\ UNCHANGED files
    BY <2>1 DEF Ask, Unless, Settles, fileTables
  <2> QED BY <2>2, RowsUntouchedKeepTree
<1>2. CASE PutBlob(w) \/ CheckRevert(w) \/ CheckUpdateFile(w) \/ NumberVersion(w)
  <2>1. /\ job[w].at # "none" /\ UNCHANGED files
        /\ Respond(w) \/ \E place \in Elsewhere : \E saw : Recall(w, place, saw)
    BY <1>2 DEF PutBlob, CheckRevert, CheckUpdateFile, NumberVersion, At, Elsewhere, fileTables
  <2>2. Settles(w)
    BY <2>1 DEF Settles
  <2> QED BY <2>1, <2>2, RowsUntouchedKeepTree
<1>3. CASE Assemble(w)
  <2>1. job[w].at # "none" /\ UNCHANGED files
    BY <1>3 DEF Assemble, At
  <2>2. \/ Proceed(w, "drop")
        \/ Recall(w, "row", minted') \/ Recall(w, "number", minted')
    BY <1>3 DEF Assemble
  <2>3. Settles(w)
    BY <2>1, <2>2 DEF Settles, Elsewhere
  <2> QED BY <2>1, <2>3, RowsUntouchedKeepTree
<1>4. CASE CreateUploadSession(w) \/ RecordChunk(w) \/ DropSession(w) \/ RemoveBlobs(w)
        \/ SetGrant(w) \/ RemoveGrant(w)
  <2>1. job[w].at # "none" /\ UNCHANGED files /\ Respond(w)
    BY <1>4 DEF CreateUploadSession, RecordChunk, DropSession, RemoveBlobs, SetGrant, RemoveGrant, At
  <2> QED BY <2>1, RowsUntouchedKeepTree DEF Settles
<1> QED BY <1>1, <1>2, <1>3, <1>4

LEMMA TakeKeepsTree ==
  ASSUME Inv, Tree, NEW w \in Threads, TakeFileRequest(w)
  PROVE  Tree'
<1> DEFINE R == {r \in calls.requests : NamesFiles(r)}
<1>1. Accept(w, R) /\ UNCHANGED files
  BY DEF TakeFileRequest, fileTables
<1>2. Pool /\ calls.requests \subseteq FileRequests /\ R \subseteq calls.requests
  BY DEF Inv, Typed
<1>3. Plain(calls.requests)
  BY <1>2, RequestFields DEF Plain
<1>4. /\ job'[w].at = "check" /\ \A v \in Threads \ {w} : job'[v] = job[v]
      /\ calls'.atOnce = calls.atOnce
  BY <1>1, <1>2, <1>3, AcceptKeepsPool
<1>5. \A v \in Threads : MovesApart(job[v]) => MovesApart(job[v])'
  BY <1>1, <1>4, SameRows DEF MovesApart
<1> QED BY <1>1, <1>4, <1>5, SameRows DEF Tree, OneAtATime

\* The check of a move: nothing is moved below itself.
LEMMA CheckMoveKeepsTree ==
  ASSUME Inv, Tree, NEW w \in Threads, CheckMove(w)
  PROVE  Tree'
<1> DEFINE j == job[w]
<1> DEFINE refused == \/ j.parent = j.file \/ ~IsFolder(j.parent)
                      \/ files[j.file].folder /\ j.parent # Root /\ j.file \in Above(j.parent)
                      \/ NameTaken(j.parent, j.saw, j.file)
<1>1. Ask(w, refused, "move") /\ j.op = "update" /\ j.at = "check move"
  BY DEF CheckMove, At
<1>2. UNCHANGED files
  BY <1>1 DEF Ask, fileTables
<1>3. CASE refused
  <2>1. Settles(w)
    BY <1>1, <1>3 DEF Ask, Unless, Settles
  <2> QED BY <1>2, <2>1, RowsUntouchedKeepTree DEF Inv
<1>4. CASE ~refused
  <2>1. Moves(w) /\ GoesTo(w, "move", j.saw)
    BY <1>1, <1>4, GoingOn DEF Ask, Unless, Inv
  <2>2. /\ \A v \in Threads \ {w} : job'[v] = job[v]
        /\ calls' = calls
    BY <2>1, MoveKeepsPool DEF Inv, Typed, Moves
  <2>3. Fields(j)
    BY <1>1, Serving DEF Inv
  <2>4. job'[w].file = j.file /\ job'[w].parent = j.parent
    BY <1>1, <2>1, <2>3 DEF GoesTo, Fields, OfFile
  <2>5. Root \notin DOMAIN files
    BY Lengths DEF Inv, Typed, Root
  <2>6. MovesApart(job[w])'
    BY <1>2, <1>4, <2>4, <2>5, SameRows DEF MovesApart
  <2>7. \A v \in Threads \ {w} : MovesApart(job[v]) => MovesApart(job[v])'
    BY <1>2, <2>2, SameRows DEF MovesApart
  <2> QED BY <1>2, <2>2, <2>6, <2>7, SameRows DEF Tree, OneAtATime
<1> QED BY <1>3, <1>4

-----------------------------------------------------------------------------
(* Rows come, change and go *)

LEMMA RowAdded ==
  ASSUME FileTypes, FileTypes', InFolders, NEW row, files' = Append(files, row), IsFolder(row.parent)
  PROVE  InFolders' /\ (AllRooted => AllRooted')
<1>1. files \in Seq(FileRows) /\ Len(files) \in Nat
  BY Lengths DEF FileTypes
<1>2. /\ DOMAIN files' = DOMAIN files \cup {Len(files) + 1}
      /\ \A f \in DOMAIN files : files'[f] = files[f]
      /\ files'[Len(files) + 1] = row
  BY <1>1, OneMore
<1>3. Len(files) <= Len(files')
  <2>1. Len(files') \in Nat /\ DOMAIN files' = 1 .. Len(files')
    BY Lengths DEF FileTypes
  <2>2. Len(files) + 1 \in 1 .. Len(files')
    BY <1>2, <2>1
  <2> QED BY <1>1, <2>1, <2>2
<1>4. \A g \in DOMAIN files : There(files[g].parent) => files'[files[g].parent].here
  BY <1>2 DEF There
<1>5. \A g \in DOMAIN files' \ DOMAIN files : IsFolder(files'[g].parent)
  BY <1>2
<1> QED BY <1>2, <1>3, <1>4, <1>5, PlacesStay

LEMMA CreatorsKeepTree ==
  ASSUME Inv, Inv', Tree, NEW w \in Threads
  PROVE  CreateFolder(w) \/ CreateFile(w) \/ CompleteFile(w) => Tree'
<1>1. SUFFICES ASSUME CreateFolder(w) \/ CreateFile(w) \/ CompleteFile(w) PROVE Tree'
  OBVIOUS
<1>2. Settles(w)
  BY <1>1 DEF CreateFolder, CreateFile, CompleteFile, Settles, At, Elsewhere
<1>3. CASE UNCHANGED files
  BY <1>2, <1>3, RowsUntouchedKeepTree DEF Inv
<1>4. CASE ~UNCHANGED files
  <2>1. \E row : files' = Append(files, row) /\ IsFolder(row.parent)
    <3>1. CASE CreateFolder(w)
      BY <1>4, <3>1 DEF CreateFolder, Refused, Wanted, File, At
    <3>2. CASE CreateFile(w) \/ CompleteFile(w)
      BY <1>4, <3>2 DEF CreateFile, CompleteFile, Refused, InsertFile, File
    <3> QED BY <1>1, <3>1, <3>2
  <2>2. InFolders' /\ (AllRooted => AllRooted')
    BY <2>1, RowAdded DEF Inv, Typed, Tree
  <2> QED BY <1>2, <2>2, TreeKept DEF Inv
<1> QED BY <1>3, <1>4

\* A row that is renamed or shows another version stays where it is.
LEMMA ChangesKeepTree ==
  ASSUME Inv, Inv', Tree, NEW w \in Threads
  PROVE  Rename(w) \/ InsertVersion(w) => Tree'
<1>1. SUFFICES ASSUME Rename(w) \/ InsertVersion(w) PROVE Tree'
  OBVIOUS
<1>2. Settles(w)
  BY <1>1 DEF Rename, InsertVersion, Settles, At, Elsewhere
<1>3. \/ UNCHANGED files
      \/ \E f, name : files' = [files EXCEPT ![f].name = name]
      \/ \E f, blob : files' = [files EXCEPT ![f].blob = blob]
  BY <1>1 DEF Rename, InsertVersion
<1>4. CASE UNCHANGED files
  BY <1>2, <1>4, RowsUntouchedKeepTree DEF Inv
<1>5. CASE ~UNCHANGED files
  <2>1. \A g \in DOMAIN files : files[g] \in FileRows
    BY Rows DEF Inv, Typed
  <2>2. /\ DOMAIN files' = DOMAIN files
        /\ \A g \in DOMAIN files : /\ files'[g].parent = files[g].parent
                                   /\ files'[g].folder = files[g].folder
                                   /\ files'[g].here = files[g].here
    BY <1>3, <1>5, <2>1 DEF FileRows
  <2>3. Len(files) <= Len(files')
    BY <2>2, Lengths, Elements DEF Inv, Typed, FileTypes
  <2>4. InFolders' /\ (AllRooted => AllRooted')
    BY <2>2, <2>3, PlacesStay DEF Inv, Typed, Tree, There
  <2> QED BY <1>2, <2>4, TreeKept DEF Inv
<1> QED BY <1>4, <1>5

\* Who deletes a row takes along what is below it.
LEMMA HardDeleteKeepsTree ==
  ASSUME Inv, Inv', Tree, NEW w \in Threads, HardDelete(w)
  PROVE  Tree'
<1> DEFINE top == job[w].file
<1>1. Settles(w)
  BY DEF HardDelete, Settles, At, Elsewhere
<1>2. files' = [f \in DOMAIN files |->
          IF f \in Below(top) THEN [files[f] EXCEPT !.here = FALSE] ELSE files[f]]
  BY DEF HardDelete
<1>3. \A g \in DOMAIN files : files[g] \in FileRows
  BY Rows DEF Inv, Typed
<1>4. /\ DOMAIN files' = DOMAIN files
      /\ \A g \in DOMAIN files : /\ files'[g].parent = files[g].parent
                                 /\ files'[g].folder = files[g].folder
                                 /\ files'[g].here <=> files[g].here /\ g \notin Below(top)
  BY <1>2, <1>3 DEF FileRows
<1>5. Len(files) <= Len(files')
  BY <1>4, Lengths, Elements DEF Inv, Typed, FileTypes
<1>6. ASSUME NEW g \in DOMAIN files, There(g), files'[g].here, There(files[g].parent)
      PROVE  files'[files[g].parent].here
  <2>1. top \notin Above(g)
    BY <1>4, <1>6 DEF Below
  <2>2. top \notin Above(files[g].parent)
    BY <2>1, AboveParent DEF Inv, Typed
  <2> QED BY <1>4, <1>6, <2>2 DEF Below, There
<1>7. InFolders' /\ (AllRooted => AllRooted')
  BY <1>4, <1>5, <1>6, PlacesStay DEF Inv, Typed, Tree
<1> QED BY <1>1, <1>7, TreeKept DEF Inv

LEMMA RowMoved ==
  ASSUME FileTypes, FileTypes', InFolders, NEW f \in DOMAIN files, There(f),
         NEW p, IsFolder(p), files' = [files EXCEPT ![f].parent = p]
  PROVE  InFolders' /\ (AllRooted /\ f \notin Above(p) => AllRooted')
<1>1. /\ DOMAIN files = 1 .. Len(files) /\ Len(files) \in Nat
      /\ DOMAIN files' = DOMAIN files
      /\ \A g \in DOMAIN files : files[g] \in FileRows
  BY Lengths, Rows
<1>2. \A g \in DOMAIN files : /\ files'[g].parent = IF g = f THEN p ELSE files[g].parent
                              /\ files'[g].here = files[g].here
                              /\ files'[g].folder = files[g].folder
  BY <1>1 DEF FileRows
<1>3. Len(files') = Len(files)
  BY <1>1, Elements DEF FileTypes
<1>4. InFolders'
  <2>1. \A g : IsFolder(g)' <=> IsFolder(g)
    BY <1>1, <1>2 DEF IsFolder, There
  <2>2. ASSUME NEW g \in DOMAIN files', There(g)' PROVE IsFolder(files[g].parent)'
    <3>1. PICK q : q = files'[g].parent
      OBVIOUS
    <3>2. IsFolder(q)
      BY <1>1, <1>2, <2>2, <3>1 DEF InFolders, There
    <3>3. IsFolder(q)'
      BY <2>1, <3>2
    <3> QED BY <3>1, <3>3 DEF IsFolder, There
  <2> QED BY <2>2 DEF InFolders
<1>5. ASSUME AllRooted, f \notin Above(p), NEW g \in DOMAIN files, There(g)
      PROVE  Root \in Above(g)'
  <2> DEFINE C == Above(g)'
  <2>1. /\ g \in C /\ C \subseteq 0 .. Len(files)
        /\ \A h \in C \ {Root} : files'[h].parent \in C
    <3>1. g \in (0 .. Len(files))' /\ Ascends'
      BY <1>1, <1>3, AscentNext
    <3> QED BY <1>3, <3>1 DEF Ascends, Closed
  <2> HIDE DEF C
  <2>2. \A h \in C \ {Root} : h \in DOMAIN files
    BY <1>1, <2>1 DEF Root
  <2>3. CASE f \notin C
    <3>1. Closed(C)
      BY <1>2, <2>1, <2>2, <2>3 DEF Closed
    <3>2. Above(g) \subseteq C
      BY <1>1, <2>1, <3>1, Ascent DEF Ascends
    <3> QED BY <1>5, <3>2 DEF AllRooted, C
  <2>4. CASE f \in C
    <3>1. p \in C
      BY <1>1, <1>2, <2>1, <2>4 DEF Root
    <3>2. CASE p = Root
      BY <3>1, <3>2 DEF C
    <3>3. CASE p # Root
      <4>1. There(p) /\ p \in DOMAIN files /\ p \in 0 .. Len(files)
        BY <1>1, <3>3 DEF IsFolder, There
      <4>2. p \in Above(p) /\ Closed(Above(p)) /\ Root \in Above(p)
        BY <1>5, <4>1, Ascent DEF Ascends, AllRooted
      <4> DEFINE D == C \cap Above(p)
      <4>3. Closed(D)
        <5>1. SUFFICES ASSUME NEW h \in D \ {Root} PROVE files[h].parent \in D
          BY DEF Closed
        <5>2. h \in DOMAIN files /\ h # f /\ files'[h].parent \in C /\ files[h].parent \in Above(p)
          BY <1>5, <2>1, <2>2, <4>2 DEF Closed
        <5> QED BY <1>2, <5>2
      <4>4. p \in D /\ D \subseteq 0 .. Len(files)
        BY <2>1, <3>1, <4>2
      <4> HIDE DEF D
      <4>5. Above(p) \subseteq D
        BY <4>1, <4>3, <4>4, Ascent DEF Ascends
      <4> QED BY <4>2, <4>5 DEF D, C
    <3> QED BY <3>2, <3>3
  <2> QED BY <2>3, <2>4
<1>6. ASSUME AllRooted, f \notin Above(p) PROVE AllRooted'
  BY <1>1, <1>2, <1>5, <1>6 DEF AllRooted, There
<1> QED BY <1>4, <1>6

\* A row is never moved below itself: what is above a folder are folders, and
\* of a folder the check has said so.
LEMMA MoveKeepsTree ==
  ASSUME Inv, Inv', Tree, NEW w \in Threads, Move(w)
  PROVE  Tree'
<1> DEFINE f == job[w].file
<1> DEFINE p == job[w].parent
<1>1. Settles(w) /\ job[w].op = "update" /\ job[w].at = "move"
  BY DEF Move, Settles, At
<1>2. CASE UNCHANGED files
  BY <1>1, <1>2, RowsUntouchedKeepTree DEF Inv
<1>3. CASE ~UNCHANGED files
  <2>1. There(f) /\ IsFolder(p) /\ files' = [files EXCEPT ![f].parent = p]
    BY <1>3 DEF Move
  <2>2. InFolders' /\ (AllRooted /\ f \notin Above(p) => AllRooted')
    <3>1. f \in DOMAIN files /\ FileTypes /\ FileTypes' /\ InFolders
      BY <2>1 DEF There, Inv, Typed, Tree
    <3> HIDE DEF f, p
    <3> QED BY <2>1, <3>1, RowMoved
  <2>3. f \in DOMAIN files /\ DOMAIN files = 1 .. Len(files) /\ Len(files) \in Nat
    BY <2>1, Lengths DEF There, Inv, Typed
  <2>4. p \in 0 .. Len(files)
    BY <2>1, <2>3 DEF IsFolder, There, Root
  <2>5. \A rows \in SUBSET (0 .. Len(files)) : p \in rows /\ Closed(rows) => Above(p) \subseteq rows
    BY <2>4, Ascent DEF Ascends, Inv, Typed
  <2>6. ASSUME OneAtATime PROVE f \notin Above(p)
    <3>1. CASE p = Root
      <4>1. Closed({Root}) /\ {Root} \subseteq 0 .. Len(files)
        BY <2>3 DEF Closed, Root
      <4> QED BY <2>3, <2>5, <3>1, <4>1 DEF Root
    <3>2. CASE p # Root /\ files[f].folder
      BY <1>1, <2>1, <2>6, <3>2 DEF Tree, MovesApart, IsFolder, There
    <3>3. CASE ~files[f].folder
      <4> DEFINE folders == {Root} \cup {g \in DOMAIN files : There(g) /\ files[g].folder}
      <4>1. p \in folders /\ f \notin folders /\ folders \subseteq 0 .. Len(files)
        BY <2>1, <2>3, <3>3 DEF IsFolder, There, Root
      <4>2. Closed(folders)
        BY DEF Closed, Tree, InFolders, IsFolder, There
      <4> HIDE DEF folders
      <4> QED BY <2>5, <4>1, <4>2
    <3> QED BY <3>1, <3>2, <3>3
  <2>7. InFolders' /\ (OneAtATime /\ AllRooted => AllRooted')
    BY <2>2, <2>6
  <2> QED BY <1>1, <2>7, TreeKept DEF Inv
<1> QED BY <1>2, <1>3

-----------------------------------------------------------------------------
(* The tree holds *)

\* A scenario's parents are older than their rows, so whoever is oldest above a
\* row is the root.
LEMMA TreeStarts == InitFiles => Tree
<1> SUFFICES ASSUME InitFiles PROVE Tree
  OBVIOUS
<1>1. FileTypes
  BY InvStarts DEF Inv, Typed
<1>2. PICK s \in FileScenarios : FileTables(s) /\ Listening(s)
  BY DEF InitFiles
<1>3. files = s.files /\ \A w \in Threads : job[w] = Free
  BY <1>2 DEF FileTables, Listening
<1>4. \A f \in DOMAIN files : files[f].parent < f /\ files[f].folder /\ files[f].here
  <2> DEFINE Starting == [parent : Nat, name : FileNames, folder : {TRUE}, by : SpaceMembers,
                          blob : {0}, here : {TRUE}]
  <2>1. files \in Seq(Starting) /\ \A f \in DOMAIN files : files[f].parent < f
    BY <1>3, FileAssumption
  <2> HIDE DEF Starting
  <2>2. \A f \in DOMAIN files : files[f] \in Starting
    BY <2>1, Elements
  <2> QED BY <2>1, <2>2 DEF Starting
<1>5. DOMAIN files = 1 .. Len(files) /\ Len(files) \in Nat
  BY <1>1, Lengths
<1>6. InFolders
  <2>1. ASSUME NEW f \in DOMAIN files PROVE IsFolder(files[f].parent)
    <3>1. files[f].parent \in 0 .. Len(files)
      BY <1>1, AboveParent
    <3> QED BY <1>4, <1>5, <3>1 DEF IsFolder, There, Root
  <2> QED BY <2>1 DEF InFolders
<1>7. AllRooted
  <2>1. ASSUME NEW f \in DOMAIN files PROVE Root \in Above(f)
    <3>1. f \in Above(f) /\ Above(f) \subseteq 0 .. Len(files) /\ Closed(Above(f))
      BY <1>1, <1>5, Ascent DEF Ascends
    <3>2. PICK m \in Above(f) : \A n \in Above(f) : m <= n
      <4>1. Above(f) \in SUBSET Nat /\ Above(f) # {}
        BY <1>5, <3>1
      <4> QED BY <4>1, Least
    <3>3. SUFFICES ASSUME m # Root PROVE FALSE
      BY <3>2
    <3>4. m \in DOMAIN files /\ m \in Nat
      BY <1>5, <3>1, <3>2, <3>3 DEF Root
    <3>5. files[m].parent \in Above(f) /\ files[m].parent \in Nat
      BY <1>5, <3>1, <3>2, <3>3 DEF Closed
    <3>6. files[m].parent < m /\ m <= files[m].parent
      BY <1>4, <3>2, <3>4, <3>5
    <3> QED BY <3>4, <3>5, <3>6
  <2> QED BY <2>1 DEF AllRooted
<1> QED BY <1>3, <1>6, <1>7 DEF Tree, MovesApart, Free

LEMMA TreeStutters ==
  ASSUME Tree, UNCHANGED fileVars
  PROVE  Tree'
<1>1. UNCHANGED files /\ UNCHANGED job /\ UNCHANGED calls
  BY DEF fileVars, fileTables, serving
<1>2. \A w \in Threads : MovesApart(job[w])' <=> MovesApart(job[w])
  BY <1>1, SameRows DEF MovesApart
<1> QED BY <1>1, <1>2, SameRows DEF Tree, OneAtATime

LEMMA TreeStepKept == Inv /\ Inv' /\ Tree /\ NextFiles => Tree'
<1> SUFFICES ASSUME Inv, Inv', Tree, NEW w \in Threads,
      \/ TakeFileRequest(w)
      \/ CheckFolder(w) \/ CreateFolder(w)
      \/ CheckUpload(w) \/ PutBlob(w) \/ CreateFile(w)
      \/ CheckUploadInit(w) \/ CheckVersionInit(w) \/ CreateUploadSession(w)
      \/ CheckChunk(w) \/ CheckVersionChunk(w) \/ PutPart(w) \/ RecordChunk(w)
      \/ CheckComplete(w) \/ CheckCompleteVersion(w) \/ Assemble(w) \/ CompleteFile(w) \/ DropSession(w)
      \/ CheckVersion(w) \/ CheckRevert(w) \/ NumberVersion(w) \/ InsertVersion(w)
      \/ CheckUpdateFile(w) \/ Rename(w) \/ CheckMove(w) \/ Move(w)
      \/ CheckDelete(w) \/ HardDelete(w) \/ RemoveBlobs(w)
      \/ CheckGrant(w) \/ SetGrant(w) \/ CheckUngrant(w) \/ RemoveGrant(w)
    PROVE Tree'
  BY Zenon DEF NextFiles
<1>1. Typed
  BY DEF Inv
<1> QED BY Zenon, <1>1, TakeKeepsTree, ReadersKeepTree, CheckMoveKeepsTree, CreatorsKeepTree,
           ChangesKeepTree, HardDeleteKeepsTree, MoveKeepsTree

\* Of requests served in turn no creation, renaming, move or deletion leaves a
\* row under a folder that has gone or inside itself; and even overlapping ones
\* leave none under a folder that has gone.
THEOREM FoldersAlwaysATree == FilesSpec => []FoldersAreATree
<1>1. InitFiles => Inv /\ Tree
  BY InvStarts, TreeStarts
<1>2. Inv /\ Tree /\ [NextFiles]_fileVars => (Inv /\ Tree)'
  BY NextKept, InvStutters, TreeStepKept, TreeStutters
<1>3. Tree => FoldersAreATree
  BY DEF Tree, InFolders, AllRooted, FoldersAreATree, Ends
<1> QED BY <1>1, <1>2, <1>3, PTL DEF FilesSpec

-----------------------------------------------------------------------------
(* The wiki: what its jobs may be *)

OfPage == {"save", "revert", "move", "delete", "page grant", "page ungrant"}
WikiOps == OfPage \cup {"page", "wiki grant", "wiki ungrant"}

WikiFields(r) ==
  /\ "op" \in DOMAIN r /\ r.op \in WikiOps
  /\ "by" \in DOMAIN r /\ r.by \in Writers
  /\ "page" \in DOMAIN r <=> r.op \in OfPage
  /\ "parent" \in DOMAIN r <=> r.op \in {"page", "move"}
  /\ r.op = "page" => /\ "title" \in DOMAIN r /\ r.title \in Titles
                      /\ "text" \in DOMAIN r /\ r.text \in Texts
  /\ r.op = "save" => /\ "title" \in DOMAIN r /\ r.title \in Titles \cup {Same}
                      /\ "text" \in DOMAIN r /\ r.text \in Texts \cup {Same}
                      /\ "keep" \in DOMAIN r
  /\ r.op \in {"page grant", "page ungrant", "wiki grant", "wiki ungrant"} =>
       "of" \in DOMAIN r /\ r.of \in Writers
  /\ r.op = "page grant" => "level" \in DOMAIN r /\ r.level \in {0, 1, 2}
  /\ r.op = "wiki grant" => "level" \in DOMAIN r /\ r.level \in DOMAIN May

PageRows ==
  [parent : Nat, slug : Titles \X Nat, title : Titles, text : Texts, by : Writers, here : BOOLEAN]
PageTypes ==
  /\ pages \in Seq(PageRows)
  /\ \A p \in DOMAIN pages : pages[p].parent \in 0 .. Len(pages)
  /\ pageVersions \subseteq [page : DOMAIN pages, number : Nat \ {0}, title : Titles, text : Texts]
  /\ pageGrants \subseteq [page : DOMAIN pages, of : Writers, level : {0, 1, 2}]
  /\ wikiGrants \in [Writers -> DOMAIN May]

\* The places of each handler after its check, and what it remembers there: of
\* a page to be, its slug; of one that is, what it is and what it becomes.
WikiPlaces(op) ==
  CASE op = "page" -> {"insert", "number", "version"}
    [] op = "save" -> {"compare", "number", "version", "update"}
    [] op = "revert" -> {"number", "version", "update"}
    [] OTHER -> {"write"}
Remembers(op, s) ==
  IF op = "page"
  THEN s \in [page : DOMAIN pages, number : Nat, title : Titles, text : Texts]
  ELSE s \in [page : DOMAIN pages, number : Nat, title : Titles, text : Texts,
              newTitle : Titles, slug : Titles \X Nat, newText : Texts]
PageNumbers(p) == {v.number : v \in PageVersionsOf(p)}
\* A number that has been drawn follows those there are.
NumberFits(s) == s.number # 0 /\ s.number - 1 \in {0} \cup PageNumbers(s.page)

GoesWell(op, place, s) ==
  /\ place \in WikiPlaces(op)
  /\ place = "insert" => s \in Titles \X Nat
  /\ place \in {"compare", "number", "version", "update"} => Remembers(op, s)
  /\ place = "version" => NumberFits(s)
WikiFitsAt(j, place, s) ==
  /\ "page" \in DOMAIN j => j.page \in DOMAIN pages
  /\ "parent" \in DOMAIN j => j.parent \in 0 .. Len(pages)
  /\ place = "check" \/ GoesWell(j.op, place, s)
WikiFits(j) == j # Free => WikiFitsAt(j, j.at, j.saw)

WikiTyped ==
  /\ Pool /\ calls.requests \subseteq WikiRequests
  /\ PageTypes
  /\ \A w \in Threads : WikiFits(job[w])

LEMMA WikiRequestFields ==
  ASSUME NEW r \in WikiRequests
  PROVE  WikiFields(r) /\ r = [f \in DOMAIN r |-> r[f]] /\ {"at", "saw"} \cap DOMAIN r = {}
<1>1. WikiFields(r)
  BY DEF WikiRequests, WikiFields, WikiOps, OfPage
<1>2. r = [f \in DOMAIN r |-> r[f]] /\ {"at", "saw"} \cap DOMAIN r = {}
  BY DEF WikiRequests
<1> QED BY <1>1, <1>2

LEMMA WikiJobFields ==
  ASSUME WikiTyped, NEW w \in Threads, job[w] # Free
  PROVE  WikiFields(job[w]) /\ IsJob(job[w])
<1> DEFINE r == Asked(job[w])
<1>1. r \in WikiRequests /\ IsJob(job[w])
  BY DEF WikiTyped, Pool, Engaged
<1>2. WikiFields(r)
  BY <1>1, WikiRequestFields
<1>3. /\ \A f \in DOMAIN r : job[w][f] = r[f] /\ f \in DOMAIN job[w]
      /\ \A f \in DOMAIN job[w] \ {"at", "saw"} : f \in DOMAIN r
  BY DEF Asked
<1>4. /\ "page" \in DOMAIN r <=> "page" \in DOMAIN job[w]
      /\ "parent" \in DOMAIN r <=> "parent" \in DOMAIN job[w]
      /\ "op" \in DOMAIN job[w] /\ job[w].op = r.op
      /\ "by" \in DOMAIN job[w] /\ job[w].by = r.by
  BY <1>2, <1>3 DEF WikiFields
<1>5. /\ "title" \in DOMAIN r => job[w].title = r.title /\ "title" \in DOMAIN job[w]
      /\ "text" \in DOMAIN r => job[w].text = r.text /\ "text" \in DOMAIN job[w]
      /\ "keep" \in DOMAIN r => "keep" \in DOMAIN job[w]
      /\ "level" \in DOMAIN r => job[w].level = r.level /\ "level" \in DOMAIN job[w]
      /\ "of" \in DOMAIN r => job[w].of = r.of /\ "of" \in DOMAIN job[w]
  BY <1>3
<1> HIDE DEF r
<1> QED BY <1>1, <1>2, <1>4, <1>5 DEF WikiFields

-----------------------------------------------------------------------------
(* The wiki: a step of one worker *)

\* No page disappears, and no version.
PagesGrow == Len(pages) <= Len(pages') /\ pageVersions \subseteq pageVersions'

LEMMA PageCount ==
  ASSUME PageTypes
  PROVE  /\ DOMAIN pages = 1 .. Len(pages) /\ Len(pages) \in Nat
         /\ \A p \in DOMAIN pages : pages[p] \in PageRows
         /\ pages = [p \in DOMAIN pages |-> pages[p]]
  BY Elements DEF PageTypes

LEMMA PagesRemain ==
  ASSUME PageTypes, PageTypes', PagesGrow
  PROVE  /\ DOMAIN pages \subseteq DOMAIN pages' /\ 0 .. Len(pages) \subseteq 0 .. Len(pages')
         /\ \A p : PageVersionsOf(p) \subseteq PageVersionsOf(p)' /\ PageNumbers(p) \subseteq PageNumbers(p)'
<1>1. /\ DOMAIN pages = 1 .. Len(pages) /\ Len(pages) \in Nat
      /\ DOMAIN pages' = 1 .. Len(pages') /\ Len(pages') \in Nat
  BY PageCount, Elements DEF PageTypes
<1>2. DOMAIN pages \subseteq DOMAIN pages' /\ 0 .. Len(pages) \subseteq 0 .. Len(pages')
  BY <1>1 DEF PagesGrow
<1>3. \A p : PageVersionsOf(p) \subseteq PageVersionsOf(p)'
  BY DEF PagesGrow, PageVersionsOf
<1>4. \A p : PageNumbers(p) \subseteq PageNumbers(p)'
  BY <1>3 DEF PageNumbers
<1> QED BY <1>2, <1>3, <1>4

LEMMA StillGoesWell ==
  ASSUME PageTypes, PageTypes', PagesGrow, NEW op, NEW place, NEW s, GoesWell(op, place, s)
  PROVE  GoesWell(op, place, s)'
<1>1. /\ DOMAIN pages \subseteq DOMAIN pages'
      /\ PageNumbers(s.page) \subseteq PageNumbers(s.page)'
  BY PagesRemain
<1>2. Remembers(op, s) => Remembers(op, s)'
  BY <1>1 DEF Remembers
<1>3. NumberFits(s) => NumberFits(s)'
  BY <1>1 DEF NumberFits
<1> QED BY <1>2, <1>3 DEF GoesWell

LEMMA StillFitsWiki ==
  ASSUME WikiTyped, PageTypes', PagesGrow, NEW v \in Threads, job'[v] = job[v]
  PROVE  WikiFits(job[v])'
<1>1. SUFFICES ASSUME job[v] # Free PROVE WikiFitsAt(job[v], job[v].at, job[v].saw)'
  BY DEF WikiFits
<1>2. PICK j : j = job[v]
  OBVIOUS
<1>3. job'[v] = j /\ WikiFitsAt(j, j.at, j.saw) /\ PageTypes
  BY <1>1, <1>2 DEF WikiTyped, WikiFits
<1>4. DOMAIN pages \subseteq DOMAIN pages' /\ 0 .. Len(pages) \subseteq 0 .. Len(pages')
  BY <1>3, PagesRemain
<1>5. GoesWell(j.op, j.at, j.saw) => GoesWell(j.op, j.at, j.saw)'
  BY <1>3, StillGoesWell
<1> QED BY <1>3, <1>4, <1>5 DEF WikiFitsAt

\* The types after a step of w, from what it does to w and to the tables.
LEMMA WikiTypesKept ==
  ASSUME WikiTyped, NEW w \in Threads, Moves(w), PageTypes', PagesGrow, WikiFits(job[w])'
  PROVE  WikiTyped'
<1>1. Pool' /\ \A v \in Threads \ {w} : job'[v] = job[v]
  BY MoveKeepsPool DEF WikiTyped
<1>2. calls' = calls
  BY DEF Moves
<1>3. \A v \in Threads : WikiFits(job[v])'
  BY <1>1, StillFitsWiki
<1> QED BY <1>1, <1>2, <1>3 DEF WikiTyped

LEMMA WikiServing ==
  ASSUME WikiTyped, NEW w \in Threads, job[w].at # "none"
  PROVE  /\ job[w] # Free /\ WikiFields(job[w]) /\ IsJob(job[w])
         /\ WikiFitsAt(job[w], job[w].at, job[w].saw)
<1>1. job[w] # Free
  BY DEF Free
<1> QED BY <1>1, WikiJobFields DEF WikiTyped, WikiFits

LEMMA WikiGoingOn ==
  ASSUME WikiTyped, NEW w \in Threads, job[w].at # "none", NEW place, place # "none"
  PROVE  /\ Proceed(w, place) => Moves(w) /\ GoesTo(w, place, job[w].saw)
         /\ \A saw : Recall(w, place, saw) => Moves(w) /\ GoesTo(w, place, saw)
         /\ Respond(w) => Moves(w) /\ job'[w] = Free
<1>1. job[w] # Free /\ IsJob(job[w]) /\ Pool
  BY WikiServing DEF WikiTyped
<1>2. ASSUME Proceed(w, place) PROVE Moves(w) /\ GoesTo(w, place, job[w].saw)
  <2>1. /\ Moves(w) /\ job'[w].at = place /\ DOMAIN job'[w] = DOMAIN job[w]
        /\ \A f \in DOMAIN job[w] \ {"at"} : job'[w][f] = job[w][f]
    BY <1>1, <1>2, Proceeding
  <2> QED BY <1>1, <2>1 DEF GoesTo, IsJob
<1>3. ASSUME NEW saw, Recall(w, place, saw) PROVE Moves(w) /\ GoesTo(w, place, saw)
  BY <1>1, <1>3, Recalling DEF GoesTo
<1>4. ASSUME Respond(w) PROVE Moves(w) /\ job'[w] = Free
  BY <1>1, <1>4, Responding
<1> QED BY <1>2, <1>3, <1>4

\* A job that goes on fits where it goes.
LEMMA GoneFitsWiki ==
  ASSUME WikiTyped, PageTypes', PagesGrow, NEW w \in Threads, job[w].at # "none",
         NEW op, NEW place, NEW saw, op = job[w].op, GoesTo(w, place, saw), GoesWell(op, place, saw)'
  PROVE  WikiFits(job[w])'
<1>1. WikiFields(job[w]) /\ WikiFitsAt(job[w], job[w].at, job[w].saw) /\ PageTypes
  BY WikiServing DEF WikiTyped
<1>2. job'[w].op = op /\ DOMAIN job'[w] = DOMAIN job[w] /\ job'[w].at = place /\ job'[w].saw = saw
  BY <1>1 DEF GoesTo, WikiFields
<1>3. /\ "page" \in DOMAIN job[w] => job'[w].page = job[w].page
      /\ "parent" \in DOMAIN job[w] => job'[w].parent = job[w].parent
  BY DEF GoesTo
<1>4. DOMAIN pages \subseteq DOMAIN pages' /\ 0 .. Len(pages) \subseteq 0 .. Len(pages')
  BY <1>1, PagesRemain
<1> QED BY <1>1, <1>2, <1>3, <1>4 DEF WikiFits, WikiFitsAt

\* A step that writes neither page nor version, and moves w on or ends it.
LEMMA WikiReadKeepsTypes ==
  ASSUME WikiTyped, NEW w \in Threads, job[w].at # "none", Moves(w), PageTypes',
         UNCHANGED <<pages, pageVersions>>,
         \/ job'[w] = Free
         \/ \E place, saw : GoesTo(w, place, saw) /\ GoesWell(job[w].op, place, saw)
  PROVE  WikiTyped' /\ PagesGrow
<1>1. PagesGrow /\ PageTypes
  <2>1. Len(pages) \in Nat
    BY PageCount DEF WikiTyped
  <2> QED BY <2>1 DEF PagesGrow, WikiTyped
<1>2. WikiFits(job[w])'
  <2>1. CASE job'[w] = Free
    BY <2>1 DEF WikiFits
  <2>2. CASE \E place, saw : GoesTo(w, place, saw) /\ GoesWell(job[w].op, place, saw)
    <3>1. PICK place, saw : GoesTo(w, place, saw) /\ GoesWell(job[w].op, place, saw)
      BY <2>2
    <3>2. PICK op : op = job[w].op
      OBVIOUS
    <3>3. GoesWell(op, place, saw)
      BY <3>1, <3>2
    <3>4. GoesWell(op, place, saw)'
      BY <1>1, <3>3, StillGoesWell
    <3> QED BY <1>1, <3>1, <3>2, <3>4, GoneFitsWiki
  <2> QED BY <2>1, <2>2
<1> QED BY <1>1, <1>2, WikiTypesKept

-----------------------------------------------------------------------------
(* The wiki: a free slug, and the tree below a page *)

\* More numbers than pages: one of them nobody has.
LEMMA FreeSlugTyped ==
  ASSUME PageTypes, NEW parent, NEW title \in Titles, NEW p
  PROVE  FreeSlug(parent, title, p) \in Titles \X Nat
<1> DEFINE n == Len(pages)
<1> DEFINE free == {k \in 1 .. n + 1 : ~SlugTaken(parent, <<title, k>>, p)}
<1>1. n \in Nat /\ DOMAIN pages = 1 .. n
  BY PageCount
<1>2. free # {}
  <2>1. SUFFICES ASSUME free = {} PROVE FALSE
    OBVIOUS
  <2>2. \A k \in 1 .. n + 1 : \E q \in 1 .. n : pages[q].slug = <<title, k>>
    BY <1>1, <2>1 DEF SlugTaken
  <2> DEFINE f == [k \in 1 .. n + 1 |-> CHOOSE q \in 1 .. n : pages[q].slug = <<title, k>>]
  <2>3. \A k \in 1 .. n + 1 : f[k] \in 1 .. n /\ pages[f[k]].slug = <<title, k>>
    BY <2>2
  <2>4. f \in [1 .. n + 1 -> 1 .. n]
    BY <2>3
  <2>5. /\ IsFiniteSet(1 .. n) /\ Cardinality(1 .. n) = n
        /\ IsFiniteSet(1 .. n + 1) /\ Cardinality(1 .. n + 1) = n + 1
    <3>1. /\ IsFiniteSet(1 .. n) /\ Cardinality(1 .. n) = IF 1 > n THEN 0 ELSE n - 1 + 1
      BY <1>1, FS_Interval
    <3>2. /\ IsFiniteSet(1 .. n + 1)
          /\ Cardinality(1 .. n + 1) = IF 1 > n + 1 THEN 0 ELSE n + 1 - 1 + 1
      BY <1>1, FS_Interval
    <3> QED BY <1>1, <3>1, <3>2
  <2> HIDE DEF f
  <2>6. PICK k, m \in 1 .. n + 1 : k # m /\ f[k] = f[m]
    <3>1. Cardinality(1 .. n) < Cardinality(1 .. n + 1)
      BY <1>1, <2>5
    <3> QED BY <2>4, <2>5, <3>1, FS_PigeonHole
  <2>7. <<title, k>> = <<title, m>>
    BY <2>3, <2>6
  <2> QED BY <2>6, <2>7
<1>3. free \in SUBSET Nat
  BY <1>1
<1>4. FreeSlug(parent, title, p) = <<title, Min(free)>>
  BY Zenon DEF FreeSlug
<1> HIDE DEF free
<1>5. PICK m \in free : \A k \in free : m <= k
  BY <1>2, <1>3, Least
<1>6. \A x \in free : (\A k \in free : x <= k) => x = m
  BY <1>3, <1>5
<1>7. Min(free) = m
  BY <1>5, <1>6 DEF Min
<1> QED BY <1>3, <1>5, <1>4, <1>7

LEMMA Descending ==
  ASSUME NEW p, Len(pages) \in Nat
  PROVE  /\ Descend(p)[0] = {p}
         /\ \A k \in 1 .. Len(pages) :
              Descend(p)[k] = Descend(p)[k - 1] \cup LiveUnder(Descend(p)[k - 1])
<1> DEFINE n == Len(pages)
<1> DEFINE Descends(c, m) ==
      c = [k \in 0 .. m |-> IF k = 0 THEN {p} ELSE c[k - 1] \cup LiveUnder(c[k - 1])]
<1> DEFINE S == {m \in 0 .. n : \E c : Descends(c, m)}
<1>1. 0 \in S
  <2> DEFINE c == [k \in 0 .. 0 |-> {p}]
  <2>1. Descends(c, 0)
    OBVIOUS
  <2> HIDE DEF c, Descends
  <2> QED BY <2>1
<1>2. ASSUME NEW m \in 0 .. n, m # 0, m - 1 \in S PROVE m \in S
  <2>1. PICK c : Descends(c, m - 1)
    BY <1>2
  <2> DEFINE d == [k \in 0 .. m |-> IF k = m THEN c[m - 1] \cup LiveUnder(c[m - 1]) ELSE c[k]]
  <2>2. m \in Nat /\ m - 1 \in Nat
    BY <1>2
  <2>3. \A k \in 0 .. (m - 1) : /\ k \in 0 .. m /\ k # m
                                /\ c[k] = IF k = 0 THEN {p} ELSE c[k - 1] \cup LiveUnder(c[k - 1])
    BY <2>1, <2>2
  <2>4. ASSUME NEW k \in 0 .. m
        PROVE  d[k] = IF k = 0 THEN {p} ELSE d[k - 1] \cup LiveUnder(d[k - 1])
    <3>1. CASE k = m
      BY <1>2, <2>2, <3>1
    <3>2. CASE k # m
      <4>1. k \in 0 .. (m - 1) /\ (k # 0 => k - 1 \in 0 .. (m - 1))
        BY <2>2, <3>2
      <4> QED BY <2>3, <3>2, <4>1
    <3> QED BY <3>1, <3>2
  <2>5. Descends(d, m)
    BY <2>4
  <2> QED BY <2>5
<1>3. n \in S
  <2> HIDE DEF S
  <2>1. 0 .. n \subseteq S
    BY <1>1, <1>2, UpTo
  <2> QED BY <2>1
<1>6. \A c : Descends(c, n) =>
        \A k \in 0 .. n : c[k] = IF k = 0 THEN {p} ELSE c[k - 1] \cup LiveUnder(c[k - 1])
  OBVIOUS
<1>4. PICK c : Descends(c, n)
  BY <1>3
<1>5. Descends(Descend(p), n)
  BY <1>4 DEF Descend
<1> HIDE DEF Descends
<1>7. \A k \in 0 .. n :
        Descend(p)[k] = IF k = 0 THEN {p} ELSE Descend(p)[k - 1] \cup LiveUnder(Descend(p)[k - 1])
  BY <1>5, <1>6
<1>8. 0 \in 0 .. n /\ \A k \in 1 .. n : k \in 0 .. n /\ k # 0
  OBVIOUS
<1> QED BY Zenon, <1>7, <1>8

\* What is under a page that goes, goes with it: as many steps as there are
\* pages reach all of it.
LEMMA DescendantsClosed ==
  ASSUME PageTypes, NEW p \in DOMAIN pages
  PROVE  LiveUnder(Descendants(p)) \subseteq Descendants(p)
<1> DEFINE n == Len(pages)
<1> DEFINE c == Descend(p)
<1>1. n \in Nat /\ DOMAIN pages = 1 .. n
  BY PageCount
<1>2. c[0] = {p} /\ \A k \in 1 .. n : c[k] = c[k - 1] \cup LiveUnder(c[k - 1])
  BY <1>1, Descending
<1>3. \A rows : LiveUnder(rows) \subseteq 1 .. n
  BY <1>1 DEF LiveUnder
<1> HIDE DEF c
<1>4. \A k \in 0 .. n : c[k] \subseteq 1 .. n
  <2> DEFINE S == {k \in 0 .. n : c[k] \subseteq 1 .. n}
  <2>1. 0 \in S
    BY <1>1, <1>2
  <2>2. ASSUME NEW k \in 0 .. n, k # 0, k - 1 \in S PROVE k \in S
    <3>1. k \in 1 .. n /\ c[k - 1] \subseteq 1 .. n
      BY <1>1, <2>2
    <3>2. c[k] \subseteq 1 .. n
      BY <1>2, <1>3, <3>1
    <3> QED BY <3>2
  <2> HIDE DEF S
  <2>3. 0 .. n \subseteq S
    BY <1>1, <2>1, <2>2, UpTo
  <2> QED BY <2>3 DEF S
<1>5. ASSUME NEW k \in 0 .. n, LiveUnder(c[k]) \subseteq c[k] PROVE c[n] = c[k]
  <2> DEFINE S == {m \in 0 .. n : m < k \/ c[m] = c[k]}
  <2>1. 0 \in S
    BY <1>1
  <2>2. ASSUME NEW m \in 0 .. n, m # 0, m - 1 \in S PROVE m \in S
    <3>1. m \in 1 .. n /\ m - 1 \in 0 .. n
      BY <1>1, <2>2
    <3>2. CASE m < k
      BY <3>2
    <3>3. CASE m = k
      BY <3>3
    <3>4. CASE m > k
      <4>1. ~(m - 1 < k)
        BY <1>1, <3>1, <3>4
      <4>2. c[m - 1] = c[k]
        BY <2>2, <4>1
      <4>3. c[m] = c[k] \cup LiveUnder(c[k])
        BY <1>2, <3>1, <4>2
      <4> QED BY <1>5, <4>3
    <3> QED BY <1>1, <3>2, <3>3, <3>4
  <2>3. 0 .. n \subseteq S
    <3> HIDE DEF S
    <3> QED BY <1>1, <2>1, <2>2, UpTo
  <2>4. n \in S /\ ~(n < k)
    BY <1>1, <2>3
  <2> QED BY <2>4
<1>6. SUFFICES ASSUME \A k \in 0 .. n : ~(LiveUnder(c[k]) \subseteq c[k]) PROVE FALSE
  <2>1. ASSUME NEW k \in 0 .. n, LiveUnder(c[k]) \subseteq c[k]
        PROVE  LiveUnder(c[n]) \subseteq c[n]
    BY <1>5, <2>1
  <2> QED BY <2>1 DEF Descendants, c
<1>7. IsFiniteSet(1 .. n) /\ Cardinality(1 .. n) = n
  <2>1. IsFiniteSet(1 .. n) /\ Cardinality(1 .. n) = IF 1 > n THEN 0 ELSE n - 1 + 1
    BY <1>1, FS_Interval
  <2> QED BY <1>1, <2>1
<1>8. \A k \in 0 .. n : IsFiniteSet(c[k]) /\ Cardinality(c[k]) \in Nat
  BY <1>4, <1>7, FS_Subset, FS_CardinalityType
<1> DEFINE S == {k \in 0 .. n : Cardinality(c[k]) >= k + 1}
<1>9. 0 \in S
  <2>1. Cardinality(c[0]) = 1
    BY <1>2, FS_Singleton
  <2> QED BY <1>1, <2>1
<1>10. ASSUME NEW k \in 0 .. n, k # 0, k - 1 \in S PROVE k \in S
  <2>1. k \in 1 .. n /\ k - 1 \in 0 .. n /\ Cardinality(c[k - 1]) >= k
    BY <1>1, <1>10
  <2>2. c[k - 1] \subseteq c[k] /\ c[k - 1] # c[k]
    BY <1>2, <1>6, <2>1
  <2>3. Cardinality(c[k - 1]) <= Cardinality(c[k]) /\ Cardinality(c[k - 1]) # Cardinality(c[k])
    BY <1>8, <2>2, FS_Subset
  <2>4. Cardinality(c[k - 1]) \in Nat /\ Cardinality(c[k]) \in Nat /\ k \in Nat
    BY <1>1, <1>8, <2>1
  <2>5. Cardinality(c[k]) >= k + 1
    BY <2>1, <2>3, <2>4
  <2> QED BY <2>5
<1>11. 0 .. n \subseteq S
  <2> HIDE DEF S
  <2> QED BY <1>1, <1>9, <1>10, UpTo
<1>12. n \in 0 .. n /\ Cardinality(c[n]) >= n + 1
  BY <1>1, <1>11
<1>13. Cardinality(c[n]) <= n /\ Cardinality(c[n]) \in Nat
  BY <1>4, <1>7, <1>8, <1>12, FS_Subset
<1> QED BY <1>1, <1>12, <1>13

-----------------------------------------------------------------------------
(* The wiki: types, step by step *)

VersionsCounted ==
  \A p \in DOMAIN pages :
    /\ IsFiniteSet(PageVersionsOf(p))
    /\ PageNumbers(p) = 1 .. Cardinality(PageVersionsOf(p))

\* What a worker has read of a page is what the page still says, and a version
\* says it when the page is about to change.
Stands(s) ==
  /\ s.page \in DOMAIN pages
  /\ s.title = pages[s.page].title /\ s.text = pages[s.page].text
Written(old) == \E v \in PageVersionsOf(old.page) : v.title = old.title /\ v.text = old.text
ReadStands(j) ==
  j.op \in {"save", "revert"} /\ j.at \in {"compare", "number", "version", "update"} =>
    /\ Stands(j.saw)
    /\ j.at = "update" /\ (j.op = "revert" \/ j.keep) => Written(j.saw)

LEMMA FreeStands ==
  ASSUME NEW w, job'[w] = Free
  PROVE  ReadStands(job[w])'
  BY DEF Free, ReadStands

LEMMA WikiTakes ==
  ASSUME WikiTyped, NEW w \in Threads, TakeWikiRequest(w)
  PROVE  /\ WikiTyped' /\ PagesGrow /\ job[w] = Free /\ job'[w].at = "check"
         /\ \A v \in Threads \ {w} : job'[v] = job[v]
         /\ calls'.atOnce = calls.atOnce
<1> DEFINE R == {r \in calls.requests : NamesPages(r)}
<1>1. UNCHANGED wikiTables /\ Accept(w, R)
  BY DEF TakeWikiRequest
<1>2. Plain(calls.requests)
  BY WikiRequestFields DEF WikiTyped, Plain
<1>3. /\ Pool' /\ job[w] = Free /\ IsJob(job'[w]) /\ job'[w].at = "check" /\ Asked(job'[w]) \in R
      /\ \A v \in Threads \ {w} : job'[v] = job[v]
      /\ calls'.requests = calls.requests /\ calls'.atOnce = calls.atOnce
  BY <1>1, <1>2, AcceptKeepsPool DEF WikiTyped
<1>4. PageTypes' /\ PagesGrow
  <2>1. Len(pages) \in Nat
    BY PageCount DEF WikiTyped
  <2> QED BY <1>1, <2>1 DEF WikiTyped, PageTypes, wikiTables, PagesGrow
<1>5. WikiFits(job[w])'
  <2> DEFINE r == Asked(job'[w])
  <2>1. r \in WikiRequests /\ NamesPages(r)
    BY <1>3 DEF WikiTyped
  <2>2. /\ "page" \in DOMAIN job'[w] => "page" \in DOMAIN r /\ job'[w].page = r.page
        /\ "parent" \in DOMAIN job'[w] => "parent" \in DOMAIN r /\ job'[w].parent = r.parent
    BY DEF Asked
  <2>3. DOMAIN pages = 1 .. Len(pages) /\ Len(pages) \in Nat
    BY PageCount DEF WikiTyped
  <2>4. {Top} \cup DOMAIN pages = 0 .. Len(pages)
    BY <2>3 DEF Top
  <2> HIDE DEF r
  <2> QED BY <1>1, <1>3, <2>1, <2>2, <2>4 DEF NamesPages, WikiFits, WikiFitsAt, wikiTables
<1>6. \A v \in Threads : WikiFits(job[v])'
  BY <1>3, <1>4, <1>5, StillFitsWiki
<1> QED BY <1>3, <1>4, <1>6 DEF WikiTyped

\* What a step leaves behind that only reads.
LEMMA WikiReads ==
  ASSUME WikiTyped, NEW w \in Threads, job[w].at # "none", UNCHANGED wikiTables,
         NEW place, place # "none", NEW saw,
         \/ Respond(w)
         \/ Recall(w, place, saw) /\ GoesWell(job[w].op, place, saw)
         \/ Proceed(w, place) /\ GoesWell(job[w].op, place, job[w].saw)
  PROVE  WikiTyped' /\ PagesGrow /\ Moves(w)
<1>1. PageTypes' /\ UNCHANGED <<pages, pageVersions>>
  BY DEF WikiTyped, PageTypes, wikiTables
<1>2. CASE Respond(w)
  <2>1. Moves(w) /\ job'[w] = Free
    BY <1>2, WikiGoingOn
  <2> QED BY <1>1, <2>1, WikiReadKeepsTypes
<1>3. CASE Recall(w, place, saw) /\ GoesWell(job[w].op, place, saw)
  <2>1. Moves(w) /\ GoesTo(w, place, saw)
    BY <1>3, WikiGoingOn
  <2> QED BY <1>1, <1>3, <2>1, WikiReadKeepsTypes
<1>4. CASE Proceed(w, place) /\ GoesWell(job[w].op, place, job[w].saw)
  <2>1. Moves(w) /\ GoesTo(w, place, job[w].saw)
    BY <1>4, WikiGoingOn
  <2> QED BY <1>1, <1>4, <2>1, WikiReadKeepsTypes
<1> QED BY <1>2, <1>3, <1>4

LEMMA CheckPageTyped ==
  ASSUME WikiTyped, NEW w \in Threads, CheckPage(w)
  PROVE  WikiTyped' /\ PagesGrow /\ Moves(w)
<1> DEFINE j == job[w]
<1> DEFINE slug == FreeSlug(j.parent, j.title, 0)
<1>1. j.op = "page" /\ j.at = "check" /\ UNCHANGED wikiTables /\ (Respond(w) \/ Recall(w, "insert", slug))
  BY DEF CheckPage, At
<1>2. j.title \in Titles
  BY <1>1, WikiServing DEF WikiFields
<1>3. slug \in Titles \X Nat
  BY <1>2, FreeSlugTyped DEF WikiTyped
<1>4. GoesWell(j.op, "insert", slug)
  BY <1>1, <1>3 DEF GoesWell, WikiPlaces
<1> HIDE DEF slug
<1> QED BY <1>1, <1>4, WikiReads

LEMMA CheckSaveTyped ==
  ASSUME WikiTyped, NEW w \in Threads, CheckSave(w)
  PROVE  WikiTyped' /\ PagesGrow /\ Moves(w) /\ ReadStands(job[w])'
<1> DEFINE j == job[w]
<1> DEFINE old == pages[j.page]
<1> DEFINE title == IF j.title = Same THEN old.title ELSE j.title
<1> DEFINE slug == IF title = old.title THEN old.slug ELSE FreeSlug(old.parent, title, j.page)
<1> DEFINE text == IF j.text = Same THEN old.text ELSE j.text
<1> DEFINE saw == [page |-> j.page, number |-> 0, title |-> old.title, text |-> old.text,
                   newTitle |-> title, slug |-> slug, newText |-> text]
<1> DEFINE place == IF j.keep THEN "compare" ELSE "update"
<1>1. /\ j.op = "save" /\ j.at = "check" /\ UNCHANGED wikiTables
      /\ Respond(w) \/ Recall(w, place, saw)
  BY DEF CheckSave, At
<1>2. /\ j.page \in DOMAIN pages /\ j.title \in Titles \cup {Same} /\ j.text \in Texts \cup {Same}
  BY <1>1, WikiServing DEF WikiFields, WikiFitsAt, OfPage
<1>3. old \in PageRows
  BY <1>2, PageCount DEF WikiTyped
<1>4. title \in Titles /\ text \in Texts
  BY <1>2, <1>3 DEF PageRows
<1>5. FreeSlug(old.parent, title, j.page) \in Titles \X Nat
  <2> HIDE DEF title
  <2> QED BY <1>4, FreeSlugTyped DEF WikiTyped
<1>6. slug \in Titles \X Nat
  BY <1>3, <1>5 DEF PageRows
<1>7. Remembers("save", saw)
  <2> HIDE DEF title, slug, text, old
  <2>1. old.title \in Titles /\ old.text \in Texts
    BY <1>3 DEF PageRows
  <2> QED BY <1>2, <1>4, <1>6, <2>1 DEF Remembers
<1>8. saw.page = j.page /\ saw.title = old.title /\ saw.text = old.text
  OBVIOUS
<1> HIDE DEF saw
<1>9. place # "none" /\ GoesWell(j.op, place, saw)
  BY <1>1, <1>7 DEF GoesWell, WikiPlaces
<1>10. WikiTyped' /\ PagesGrow /\ Moves(w)
  BY <1>1, <1>9, WikiReads
<1>11. Respond(w) => job'[w] = Free
  BY <1>1, WikiGoingOn
<1>12. Recall(w, place, saw) => GoesTo(w, place, saw)
  BY <1>1, <1>9, WikiGoingOn
<1>13. ASSUME GoesTo(w, place, saw) PROVE ReadStands(job[w])'
  <2>1. /\ job'[w].op = "save" /\ job'[w].at = place /\ job'[w].saw = saw
        /\ job'[w].keep = j.keep
    BY <1>1, <1>13, WikiServing DEF GoesTo, WikiFields
  <2> QED BY <1>1, <1>2, <1>8, <2>1 DEF ReadStands, Stands, wikiTables
<1> QED BY <1>1, <1>10, <1>11, <1>12, <1>13, FreeStands

\* The newest version of a page that has one is one of its versions.
LEMMA NewestIsOne ==
  ASSUME VersionsCounted, NEW p \in DOMAIN pages, PageVersionsOf(p) # {}
  PROVE  NewestPageVersion(p) \in PageVersionsOf(p)
<1> DEFINE n == Cardinality(PageVersionsOf(p))
<1>1. PageNumbers(p) = 1 .. n /\ n \in Nat
  BY FS_CardinalityType DEF VersionsCounted
<1>2. n \in 1 .. n
  <2>1. PICK v \in PageVersionsOf(p) : TRUE
    OBVIOUS
  <2>2. v.number \in 1 .. n
    BY <1>1 DEF PageNumbers
  <2> QED BY <1>1, <2>2
<1> HIDE DEF n
<1>3. PICK v \in PageVersionsOf(p) : v.number = n
  BY <1>1, <1>2 DEF PageNumbers
<1>4. \A u \in PageVersionsOf(p) : u.number <= v.number
  BY <1>1, <1>3 DEF PageNumbers
<1> QED BY <1>4, Zenon DEF NewestPageVersion

LEMMA CompareTyped ==
  ASSUME WikiTyped, NEW w \in Threads, CompareVersion(w)
  PROVE  /\ WikiTyped' /\ PagesGrow /\ Moves(w)
         /\ VersionsCounted /\ ReadStands(job[w]) => ReadStands(job[w])'
<1> DEFINE j == job[w]
<1> DEFINE same == /\ PageVersionsOf(j.saw.page) # {}
                   /\ NewestPageVersion(j.saw.page).title = j.saw.title
                   /\ NewestPageVersion(j.saw.page).text = j.saw.text
<1> DEFINE place == IF same THEN "update" ELSE "number"
<1>1. j.op = "save" /\ j.at = "compare" /\ UNCHANGED wikiTables /\ Proceed(w, place)
  BY DEF CompareVersion, At
<1> HIDE DEF same
<1>2. Remembers(j.op, j.saw)
  BY <1>1, WikiServing DEF WikiFitsAt, GoesWell
<1>3. place # "none" /\ GoesWell(j.op, place, j.saw)
  BY <1>1, <1>2 DEF GoesWell, WikiPlaces
<1>4. WikiTyped' /\ PagesGrow /\ Moves(w)
  BY <1>1, <1>3, WikiReads
<1>5. GoesTo(w, place, j.saw)
  BY <1>1, <1>3, WikiGoingOn
<1>6. ASSUME VersionsCounted, ReadStands(j) PROVE ReadStands(job[w])'
  <2>1. job'[w].op = "save" /\ job'[w].at = place /\ job'[w].saw = j.saw
    BY <1>1, <1>5, WikiServing DEF GoesTo, WikiFields
  <2>2. Stands(j.saw)
    BY <1>1, <1>6 DEF ReadStands
  <2>3. ASSUME same PROVE Written(j.saw)
    <3>1. NewestPageVersion(j.saw.page) \in PageVersionsOf(j.saw.page)
      BY <1>6, <2>2, <2>3, NewestIsOne DEF Stands, same
    <3> QED BY <2>3, <3>1 DEF same, Written
  <2>4. Stands(job[w].saw)'
    BY <1>1, <2>1, <2>2 DEF Stands, wikiTables
  <2>5. same => Written(job[w].saw)'
    BY <1>1, <2>1, <2>3 DEF Written, PageVersionsOf, wikiTables
  <2> QED BY <2>1, <2>4, <2>5 DEF ReadStands
<1> QED BY <1>4, <1>6

LEMMA CheckRevertTyped ==
  ASSUME WikiTyped, NEW w \in Threads, CheckRevertPage(w)
  PROVE  WikiTyped' /\ PagesGrow /\ Moves(w) /\ ReadStands(job[w])'
<1> DEFINE j == job[w]
<1> DEFINE old == pages[j.page]
<1> DEFINE Saw(v) == [page |-> j.page, number |-> 0, title |-> old.title, text |-> old.text,
                      newTitle |-> v.title, slug |-> old.slug, newText |-> v.text]
<1>1. /\ j.op = "revert" /\ j.at = "check" /\ UNCHANGED wikiTables
      /\ \/ Respond(w)
         \/ \E v \in PageVersionsOf(j.page) : Recall(w, "number", Saw(v))
  BY DEF CheckRevertPage, At
<1>2. j.page \in DOMAIN pages
  BY <1>1, WikiServing DEF WikiFields, WikiFitsAt, OfPage
<1>3. old \in PageRows
  BY <1>2, PageCount DEF WikiTyped
<1>4. CASE Respond(w)
  <2>1. WikiTyped' /\ PagesGrow /\ Moves(w)
    BY <1>1, <1>4, WikiReads
  <2>2. job'[w] = Free
    BY <1>1, <1>4, WikiGoingOn
  <2> QED BY <2>1, <2>2, FreeStands
<1>5. ASSUME NEW v \in PageVersionsOf(j.page), Recall(w, "number", Saw(v))
      PROVE  WikiTyped' /\ PagesGrow /\ Moves(w) /\ ReadStands(job[w])'
  <2>1. v.title \in Titles /\ v.text \in Texts
    BY DEF PageVersionsOf, WikiTyped, PageTypes
  <2>2. Remembers("revert", Saw(v))
    BY <1>2, <1>3, <2>1 DEF Remembers, PageRows
  <2> DEFINE saw == Saw(v)
  <2>3. saw.page = j.page /\ saw.title = old.title /\ saw.text = old.text
    OBVIOUS
  <2> HIDE DEF saw
  <2>4. GoesWell(j.op, "number", saw)
    BY <1>1, <2>2 DEF GoesWell, WikiPlaces, saw
  <2>5. Recall(w, "number", saw)
    BY <1>5 DEF saw
  <2>6. WikiTyped' /\ PagesGrow /\ Moves(w)
    BY <1>1, <2>4, <2>5, WikiReads
  <2>7. GoesTo(w, "number", saw)
    BY <1>1, <2>5, WikiGoingOn
  <2>8. job'[w].at = "number" /\ job'[w].saw = saw
    BY <2>7 DEF GoesTo
  <2>9. Stands(job[w].saw)'
    BY <1>1, <1>2, <2>3, <2>8 DEF Stands, wikiTables
  <2> QED BY <2>6, <2>8, <2>9 DEF ReadStands
<1> QED BY <1>1, <1>4, <1>5

\* The number read is that after the last.
LEMMA NumberTyped ==
  ASSUME WikiTyped, VersionsCounted, NEW w \in Threads, NumberPageVersion(w)
  PROVE  /\ WikiTyped' /\ PagesGrow /\ Moves(w)
         /\ ReadStands(job[w]) => ReadStands(job[w])'
<1> DEFINE j == job[w]
<1> DEFINE p == j.saw.page
<1> DEFINE next == 1 + Max({0} \cup PageNumbers(p))
<1> DEFINE saw == [j.saw EXCEPT !.number = next]
<1>1. /\ j.op \in {"page", "save", "revert"} /\ j.at = "number" /\ UNCHANGED wikiTables
      /\ Recall(w, "version", saw)
  BY DEF NumberPageVersion, PageNumbers
<1>2. Remembers(j.op, j.saw)
  BY <1>1, WikiServing DEF WikiFitsAt, GoesWell
<1>3. p \in DOMAIN pages
  BY <1>2 DEF Remembers
<1>4. PICK n \in Nat : n = Cardinality(PageVersionsOf(p)) /\ PageNumbers(p) = 1 .. n
  BY <1>3, FS_CardinalityType DEF VersionsCounted
<1>5. next = 1 + n
  BY <1>4, MaxUpTo
<1> HIDE DEF next
<1>6. /\ Remembers(j.op, saw) /\ saw.page = p /\ saw.number = next
      /\ saw.title = j.saw.title /\ saw.text = j.saw.text
  <2>1. next \in Nat
    BY <1>5
  <2>2. CASE j.op = "page"
    BY <1>2, <2>1, <2>2 DEF Remembers
  <2>3. CASE j.op # "page"
    BY <1>2, <2>1, <2>3 DEF Remembers
  <2> QED BY <2>2, <2>3
<1> HIDE DEF saw
<1>7. NumberFits(saw)
  BY <1>4, <1>5, <1>6 DEF NumberFits
<1>8. GoesWell(j.op, "version", saw)
  BY <1>1, <1>6, <1>7 DEF GoesWell, WikiPlaces
<1>9. WikiTyped' /\ PagesGrow /\ Moves(w)
  BY <1>1, <1>8, WikiReads
<1>10. GoesTo(w, "version", saw)
  BY <1>1, WikiGoingOn
<1>11. ASSUME ReadStands(j) PROVE ReadStands(job[w])'
  <2>1. job'[w].op = j.op /\ job'[w].at = "version" /\ job'[w].saw = saw
    BY <1>1, <1>10, WikiServing DEF GoesTo, WikiFields
  <2>2. j.op # "page" => Stands(j.saw)
    BY <1>1, <1>11 DEF ReadStands
  <2>3. j.op # "page" => Stands(job[w].saw)'
    BY <1>1, <1>6, <2>1, <2>2 DEF Stands, wikiTables
  <2> QED BY <2>1, <2>3 DEF ReadStands
<1> QED BY <1>9, <1>11

LEMMA OthersStand ==
  ASSUME WikiTyped, NEW w \in Threads, Moves(w), job[w].op \notin {"save", "revert"}
  PROVE  ReadStands(job[w])'
<1>1. CASE job'[w] = Free
  BY <1>1, FreeStands
<1>2. CASE job'[w] # Free
  <2>1. "op" \in DOMAIN job[w] /\ Asked(job'[w]) = Asked(job[w])
    BY <1>2, WikiJobFields DEF Moves, WikiFields
  <2>2. job'[w].op = job[w].op
    BY <2>1, SameAsked
  <2> QED BY <2>2 DEF ReadStands
<1> QED BY <1>1, <1>2

\* The checks of the handlers that then write once.
LEMMA CheckedTyped ==
  ASSUME WikiTyped, NEW w \in Threads, job[w].at = "check",
         job[w].op \in WikiOps \ {"page", "save", "revert"}, UNCHANGED wikiTables,
         Respond(w) \/ Proceed(w, "write")
  PROVE  WikiTyped' /\ PagesGrow /\ Moves(w)
<1>1. GoesWell(job[w].op, "write", job[w].saw)
  BY DEF GoesWell, WikiPlaces, WikiOps, OfPage
<1> QED BY <1>1, WikiReads

\* A step that ends w and rewrites rows of pages.
LEMMA RowsRewritten ==
  ASSUME WikiTyped, NEW w \in Threads, job[w].at # "none", Respond(w),
         UNCHANGED <<pageVersions, pageGrants, wikiGrants>>,
         pages' = [p \in DOMAIN pages |-> pages'[p]],
         \A p \in DOMAIN pages : pages'[p] \in PageRows /\ pages'[p].parent \in 0 .. Len(pages)
  PROVE  /\ WikiTyped' /\ PagesGrow /\ Moves(w) /\ job'[w] = Free
         /\ DOMAIN pages' = DOMAIN pages
<1>1. PageTypes
  BY DEF WikiTyped
<1>2. pages' \in Seq(PageRows) /\ Len(pages') = Len(pages) /\ DOMAIN pages' = DOMAIN pages
  <2>1. pages \in Seq(PageRows)
    BY <1>1 DEF PageTypes
  <2> QED BY <2>1, Rewritten
<1>3. Len(pages) \in Nat
  BY <1>1, PageCount
<1>4. PageTypes' /\ PagesGrow
  BY <1>1, <1>2, <1>3 DEF PageTypes, PagesGrow
<1>5. Moves(w) /\ job'[w] = Free
  BY WikiGoingOn
<1>6. WikiFits(job[w])'
  BY <1>5 DEF WikiFits
<1> QED BY <1>2, <1>4, <1>5, <1>6, WikiTypesKept

LEMMA UpdateTyped ==
  ASSUME WikiTyped, NEW w \in Threads, UpdatePage(w)
  PROVE  /\ WikiTyped' /\ PagesGrow /\ Moves(w) /\ job'[w] = Free
         /\ DOMAIN pages' = DOMAIN pages /\ UNCHANGED <<pageVersions, astray>>
         /\ \A p \in DOMAIN pages : pages'[p].parent = pages[p].parent /\ pages'[p].here = pages[p].here
<1> DEFINE s == job[w].saw
<1>1. /\ job[w].op \in {"save", "revert"} /\ job[w].at = "update" /\ Respond(w)
      /\ UNCHANGED <<pageVersions, pageGrants, wikiGrants, astray>>
      /\ \/ pages' = pages
         \/ pages' = [pages EXCEPT ![s.page].title = s.newTitle, ![s.page].slug = s.slug,
                                   ![s.page].text = s.newText]
  BY DEF UpdatePage
<1>2. Remembers(job[w].op, s)
  BY <1>1, WikiServing DEF WikiFitsAt, GoesWell
<1>3. /\ s.page \in DOMAIN pages /\ s.newTitle \in Titles /\ s.slug \in Titles \X Nat
      /\ s.newText \in Texts
  BY <1>1, <1>2 DEF Remembers
<1>4. PageTypes /\ \A p \in DOMAIN pages : pages[p] \in PageRows
  BY PageCount DEF WikiTyped
<1>5. pages = [p \in DOMAIN pages |-> pages[p]]
  BY <1>4, PageCount
<1>6. pages' = [p \in DOMAIN pages |-> pages'[p]]
  BY <1>1, <1>5
<1> HIDE DEF s
<1>7. ASSUME NEW p \in DOMAIN pages
      PROVE  /\ pages'[p] \in PageRows /\ pages'[p].parent = pages[p].parent
             /\ pages'[p].here = pages[p].here
  <2>1. CASE pages'[p] = pages[p]
    BY <1>4, <2>1
  <2>2. CASE pages'[p] = [pages[p] EXCEPT !.title = s.newTitle, !.slug = s.slug, !.text = s.newText]
    BY <1>3, <1>4, <2>2 DEF PageRows
  <2> QED BY <1>1, <1>5, <2>1, <2>2
<1>8. \A p \in DOMAIN pages : pages'[p].parent \in 0 .. Len(pages)
  BY <1>4, <1>7 DEF PageTypes
<1> QED BY <1>1, <1>6, <1>7, <1>8, RowsRewritten

LEMMA MoveTyped ==
  ASSUME WikiTyped, NEW w \in Threads, MovePage(w)
  PROVE  /\ WikiTyped' /\ PagesGrow /\ Moves(w) /\ job'[w] = Free
         /\ DOMAIN pages' = DOMAIN pages /\ UNCHANGED pageVersions
         /\ \A p \in DOMAIN pages : pages'[p].here = pages[p].here
         /\ \/ UNCHANGED <<pages, astray>>
            \/ /\ PutUnder(job[w].page, job[w].parent)
               /\ pages'[job[w].page].parent = job[w].parent
               /\ \A p \in DOMAIN pages \ {job[w].page} : pages'[p].parent = pages[p].parent
<1> DEFINE q == job[w].page
<1>1. /\ job[w].op = "move" /\ job[w].at = "write" /\ Respond(w)
      /\ UNCHANGED <<pageVersions, pageGrants, wikiGrants>>
      /\ \/ UNCHANGED <<pages, astray>>
         \/ pages' = [pages EXCEPT ![q].parent = job[w].parent] /\ PutUnder(q, job[w].parent)
  BY DEF MovePage, At
<1>2. q \in DOMAIN pages /\ job[w].parent \in 0 .. Len(pages)
  BY <1>1, WikiServing DEF WikiFields, WikiFitsAt, OfPage
<1>3. PageTypes /\ \A p \in DOMAIN pages : pages[p] \in PageRows
  BY PageCount DEF WikiTyped
<1>4. pages = [p \in DOMAIN pages |-> pages[p]] /\ Len(pages) \in Nat
  BY <1>3, PageCount
<1>5. pages' = [p \in DOMAIN pages |-> pages'[p]]
  BY <1>1, <1>4
<1> HIDE DEF q
<1>6. ASSUME NEW p \in DOMAIN pages
      PROVE  /\ pages'[p] \in PageRows /\ pages'[p].here = pages[p].here
             /\ pages'[p].parent = pages[p].parent \/ pages'[p].parent = job[w].parent
  <2>1. CASE pages'[p] = pages[p]
    BY <1>3, <2>1
  <2>2. CASE pages'[p] = [pages[p] EXCEPT !.parent = job[w].parent]
    <3>1. pages[p] \in PageRows /\ job[w].parent \in Nat
      BY <1>2, <1>3, <1>4
    <3> QED BY <2>2, <3>1 DEF PageRows
  <2> QED BY <1>1, <1>4, <2>1, <2>2
<1>7. \A p \in DOMAIN pages : pages'[p].parent \in 0 .. Len(pages)
  BY <1>2, <1>3, <1>6 DEF PageTypes
<1>8. /\ WikiTyped' /\ PagesGrow /\ Moves(w) /\ job'[w] = Free
      /\ DOMAIN pages' = DOMAIN pages
  BY <1>1, <1>5, <1>6, <1>7, RowsRewritten
<1>9. pages' = [pages EXCEPT ![q].parent = job[w].parent] =>
        /\ pages'[q].parent = job[w].parent
        /\ \A p \in DOMAIN pages \ {q} : pages'[p].parent = pages[p].parent
  <2>1. "parent" \in DOMAIN pages[q]
    BY <1>2, <1>3 DEF PageRows
  <2> QED BY <1>2, <1>4, <2>1
<1> QED BY <1>1, <1>6, <1>8, <1>9 DEF q

LEMMA DeleteTyped ==
  ASSUME WikiTyped, NEW w \in Threads, DeletePage(w)
  PROVE  /\ WikiTyped' /\ PagesGrow /\ Moves(w) /\ job'[w] = Free
         /\ DOMAIN pages' = DOMAIN pages /\ UNCHANGED <<pageVersions, astray>>
         /\ job[w].page \in DOMAIN pages
         /\ \A p \in DOMAIN pages :
              /\ pages'[p].parent = pages[p].parent
              /\ pages'[p].here = (pages[p].here /\ p \notin Descendants(job[w].page))
<1> DEFINE gone == Descendants(job[w].page)
<1>1. /\ job[w].op = "delete" /\ job[w].at = "write" /\ Respond(w)
      /\ UNCHANGED <<pageVersions, pageGrants, wikiGrants, replaced, astray>>
      /\ pages' = [p \in DOMAIN pages |->
                     IF p \in gone THEN [pages[p] EXCEPT !.here = FALSE] ELSE pages[p]]
  BY DEF DeletePage, At
<1>2. job[w].page \in DOMAIN pages
  BY <1>1, WikiServing DEF WikiFields, WikiFitsAt, OfPage
<1>3. PageTypes /\ \A p \in DOMAIN pages : pages[p] \in PageRows
  BY PageCount DEF WikiTyped
<1> HIDE DEF gone
<1>4. pages' = [p \in DOMAIN pages |-> pages'[p]]
  BY <1>1
<1>5. ASSUME NEW p \in DOMAIN pages
      PROVE  /\ pages'[p] \in PageRows /\ pages'[p].parent = pages[p].parent
             /\ pages'[p].here = (pages[p].here /\ p \notin gone)
  <2>1. pages[p] \in PageRows
    BY <1>3
  <2>2. CASE p \in gone
    <3>1. pages'[p] = [pages[p] EXCEPT !.here = FALSE]
      BY <1>1, <2>2
    <3> QED BY <2>1, <2>2, <3>1 DEF PageRows
  <2>3. CASE p \notin gone
    <3>1. pages'[p] = pages[p] /\ pages[p].here \in BOOLEAN
      BY <1>1, <2>1, <2>3 DEF PageRows
    <3> QED BY <2>1, <2>3, <3>1
  <2> QED BY <2>2, <2>3
<1>6. \A p \in DOMAIN pages : pages'[p].parent \in 0 .. Len(pages)
  BY <1>3, <1>5 DEF PageTypes
<1> QED BY <1>1, <1>2, <1>4, <1>5, <1>6, RowsRewritten DEF gone

LEMMA InsertPageTyped ==
  ASSUME WikiTyped, NEW w \in Threads, InsertPage(w)
  PROVE  /\ WikiTyped' /\ PagesGrow /\ Moves(w) /\ UNCHANGED <<pageVersions, replaced>>
         /\ \/ UNCHANGED <<pages, astray>>
            \/ /\ PutUnder(Len(pages) + 1, job[w].parent)
               /\ job[w].parent \in 0 .. Len(pages)
               /\ pages'[Len(pages) + 1].parent = job[w].parent
               /\ DOMAIN pages' = DOMAIN pages \cup {Len(pages) + 1}
               /\ Len(pages) + 1 \notin DOMAIN pages
               /\ \A p \in DOMAIN pages : pages'[p] = pages[p]
<1> DEFINE r == job[w]
<1> DEFINE new == Len(pages) + 1
<1> DEFINE row == [parent |-> r.parent, slug |-> r.saw, title |-> r.title, text |-> r.text,
                   by |-> r.by, here |-> TRUE]
<1> DEFINE made == [page |-> new, number |-> 0, title |-> r.title, text |-> r.text]
<1>1. /\ r.op = "page" /\ r.at = "insert" /\ UNCHANGED <<pageVersions, wikiGrants, replaced>>
      /\ \/ Respond(w) /\ UNCHANGED <<pages, pageGrants, astray>>
         \/ /\ pages' = Append(pages, row)
            /\ pageGrants' = pageGrants \cup {[page |-> new, of |-> r.by, level |-> May.owner]}
            /\ PutUnder(new, r.parent)
            /\ Recall(w, "number", made)
  BY DEF InsertPage, At
<1>2. CASE Respond(w) /\ UNCHANGED <<pages, pageGrants, astray>>
  <2>1. UNCHANGED wikiTables
    BY <1>1, <1>2 DEF wikiTables
  <2> QED BY <1>1, <1>2, <2>1, WikiReads
<1>3. CASE /\ pages' = Append(pages, row) /\ PutUnder(new, r.parent) /\ Recall(w, "number", made)
           /\ pageGrants' = pageGrants \cup {[page |-> new, of |-> r.by, level |-> May.owner]}
  <2>1. /\ r.parent \in 0 .. Len(pages) /\ r.saw \in Titles \X Nat /\ r.title \in Titles
        /\ r.text \in Texts /\ r.by \in Writers
    BY <1>1, WikiServing DEF WikiFields, WikiFitsAt, GoesWell
  <2>2. PageTypes /\ pages \in Seq(PageRows) /\ Len(pages) \in Nat
    BY PageCount DEF WikiTyped, PageTypes
  <2>3. row \in PageRows
    BY <2>1, <2>2 DEF PageRows
  <2>4. row.parent = r.parent
    OBVIOUS
  <2> HIDE DEF row
  <2>5. /\ DOMAIN pages' = DOMAIN pages \cup {new} /\ new \notin DOMAIN pages
        /\ \A p \in DOMAIN pages : pages'[p] = pages[p]
        /\ pages'[new] = row
    BY <1>3, <2>2, OneMore
  <2>6. pages' \in Seq(PageRows) /\ Len(pages') = new
    BY <1>3, <2>2, <2>3, Appended, Elements
  <2>7. 0 .. Len(pages) \subseteq 0 .. Len(pages')
    BY <2>2, <2>6
  <2>8. \A p \in DOMAIN pages' : pages'[p].parent \in 0 .. Len(pages')
    BY <2>1, <2>2, <2>4, <2>5, <2>7 DEF PageTypes
  <2>9. pageVersions' \subseteq [page : DOMAIN pages', number : Nat \ {0}, title : Titles, text : Texts]
    BY <1>1, <2>2, <2>5 DEF PageTypes
  <2>10. pageGrants' \subseteq [page : DOMAIN pages', of : Writers, level : {0, 1, 2}]
    <3>1. [page |-> new, of |-> r.by, level |-> May.owner] \in
             [page : DOMAIN pages', of : Writers, level : {0, 1, 2}]
      BY <2>1, <2>5 DEF May
    <3>2. pageGrants \subseteq [page : DOMAIN pages', of : Writers, level : {0, 1, 2}]
      BY <2>2, <2>5 DEF PageTypes
    <3> QED BY <1>3, <3>1, <3>2
  <2>11. PageTypes' /\ PagesGrow
    <3>1. wikiGrants' \in [Writers -> DOMAIN May]
      BY <1>1, <2>2 DEF PageTypes
    <3> QED BY <1>1, <2>2, <2>6, <2>8, <2>9, <2>10, <3>1 DEF PageTypes, PagesGrow
  <2>12. Moves(w) /\ GoesTo(w, "number", made)
    BY <1>1, <1>3, WikiGoingOn
  <2>13. PICK op, saw : op = r.op /\ saw = made
    OBVIOUS
  <2>14. Remembers(op, saw)'
    BY <1>1, <2>1, <2>5, <2>13 DEF Remembers
  <2>15. GoesWell(op, "number", saw)'
    BY <1>1, <2>13, <2>14 DEF GoesWell, WikiPlaces
  <2>16. WikiFits(job[w])'
    BY <1>1, <2>11, <2>12, <2>13, <2>15, GoneFitsWiki
  <2>17. WikiTyped'
    BY <2>11, <2>12, <2>16, WikiTypesKept
  <2> QED BY <1>1, <1>3, <2>1, <2>4, <2>5, <2>11, <2>12, <2>17
<1> QED BY <1>1, <1>2, <1>3

LEMMA InsertVersionTyped ==
  ASSUME WikiTyped, NEW w \in Threads, InsertPageVersion(w)
  PROVE  /\ WikiTyped' /\ PagesGrow /\ Moves(w) /\ UNCHANGED <<pages, replaced, astray>>
         /\ \/ UNCHANGED pageVersions /\ job'[w] = Free
            \/ \E v : /\ pageVersions' = pageVersions \cup {v}
                      /\ v.page = job[w].saw.page /\ v.number = job[w].saw.number
                      /\ v.title = job[w].saw.title /\ v.text = job[w].saw.text
                      /\ v.number \in Nat \ {0} /\ v.number - 1 \in {0} \cup PageNumbers(v.page)
                      /\ v.number \notin PageNumbers(v.page) /\ v.page \in DOMAIN pages
         /\ job[w].op # "page" =>
              \/ job'[w] = Free
              \/ /\ job'[w].op = job[w].op /\ job'[w].at = "update" /\ job'[w].saw = job[w].saw
                 /\ \E v \in pageVersions' : /\ v.page = job[w].saw.page
                                             /\ v.title = job[w].saw.title /\ v.text = job[w].saw.text
<1> DEFINE j == job[w]
<1> DEFINE s == j.saw
<1> DEFINE v == [page |-> s.page, number |-> s.number, title |-> s.title, text |-> s.text]
<1>1. /\ j.op \in {"page", "save", "revert"} /\ j.at = "version"
      /\ UNCHANGED <<pages, pageGrants, wikiGrants, replaced, astray>>
      /\ \/ Respond(w) /\ UNCHANGED pageVersions
         \/ /\ ~(\E x \in PageVersionsOf(s.page) : x.number = s.number)
            /\ pageVersions' = pageVersions \cup {v}
            /\ IF j.op = "page" THEN Respond(w) ELSE Proceed(w, "update")
  BY DEF InsertPageVersion
<1>2. Remembers(j.op, s) /\ NumberFits(s)
  BY <1>1, WikiServing DEF WikiFitsAt, GoesWell
<1>3. /\ s.page \in DOMAIN pages /\ s.number \in Nat \ {0} /\ s.title \in Titles /\ s.text \in Texts
  BY <1>2 DEF Remembers, NumberFits
<1>4. CASE Respond(w) /\ UNCHANGED pageVersions
  <2>1. UNCHANGED wikiTables
    BY <1>1, <1>4 DEF wikiTables
  <2>2. job'[w] = Free
    BY <1>1, <1>4, WikiGoingOn
  <2> QED BY <1>1, <1>4, <2>1, <2>2, WikiReads
<1>5. CASE /\ ~(\E x \in PageVersionsOf(s.page) : x.number = s.number)
           /\ pageVersions' = pageVersions \cup {v}
           /\ IF j.op = "page" THEN Respond(w) ELSE Proceed(w, "update")
  <2>1. PageTypes' /\ PagesGrow
    <3>1. PageTypes /\ Len(pages) \in Nat
      BY PageCount DEF WikiTyped
    <3>2. v \in [page : DOMAIN pages, number : Nat \ {0}, title : Titles, text : Texts]
      BY <1>3
    <3> HIDE DEF v
    <3> QED BY <1>1, <1>5, <3>1, <3>2 DEF PageTypes, PagesGrow
  <2>2. /\ v.page = s.page /\ v.number = s.number /\ v.title = s.title /\ v.text = s.text
    OBVIOUS
  <2> HIDE DEF v
  <2>3. v.number \notin PageNumbers(v.page) /\ v.number - 1 \in {0} \cup PageNumbers(v.page)
    BY <1>2, <1>5, <2>2 DEF PageNumbers, NumberFits
  <2>4. CASE j.op = "page"
    <3>1. Moves(w) /\ job'[w] = Free
      BY <1>1, <1>5, <2>4, WikiGoingOn
    <3>2. WikiTyped'
      BY <2>1, <3>1, WikiTypesKept DEF WikiFits
    <3> QED BY <1>1, <1>3, <1>5, <2>1, <2>2, <2>3, <2>4, <3>1, <3>2
  <2>5. CASE j.op # "page"
    <3>1. Moves(w) /\ GoesTo(w, "update", s)
      BY <1>1, <1>5, <2>5, WikiGoingOn
    <3>2. PICK op, saw : op = j.op /\ saw = s
      OBVIOUS
    <3>3. GoesWell(op, "update", saw)
      BY <1>1, <1>2, <2>5, <3>2 DEF GoesWell, WikiPlaces
    <3>4. GoesWell(op, "update", saw)'
      BY <2>1, <3>3, StillGoesWell DEF WikiTyped
    <3>5. WikiTyped'
      BY <1>1, <2>1, <3>1, <3>2, <3>4, GoneFitsWiki, WikiTypesKept
    <3>6. job'[w].op = j.op /\ job'[w].at = "update" /\ job'[w].saw = s
      BY <1>1, <3>1, WikiServing DEF GoesTo, WikiFields
    <3>7. v \in pageVersions'
      BY <1>5
    <3> QED BY <1>1, <1>3, <1>5, <2>1, <2>2, <2>3, <3>1, <3>5, <3>6, <3>7
  <2> QED BY <2>4, <2>5
<1> QED BY <1>1, <1>4, <1>5

LEMMA GrantsTyped ==
  ASSUME WikiTyped, NEW w \in Threads,
         SetPageGrant(w) \/ RemovePageGrant(w) \/ SetWikiGrant(w) \/ RemoveWikiGrant(w)
  PROVE  /\ WikiTyped' /\ PagesGrow /\ Moves(w) /\ job'[w] = Free
         /\ UNCHANGED <<pages, pageVersions, replaced, astray>>
<1>1. /\ job[w].at = "write" /\ Respond(w) /\ UNCHANGED <<pages, pageVersions, replaced, astray>>
  BY DEF SetPageGrant, RemovePageGrant, SetWikiGrant, RemoveWikiGrant, At
<1>2. Moves(w) /\ job'[w] = Free
  BY <1>1, WikiGoingOn
<1>3. PageTypes /\ OtherGrants(w) \subseteq pageGrants
  BY DEF WikiTyped, OtherGrants
<1>4. /\ pageGrants' \subseteq [page : DOMAIN pages, of : Writers, level : {0, 1, 2}]
      /\ wikiGrants' \in [Writers -> DOMAIN May]
  <2>1. CASE SetPageGrant(w)
    <3>1. job[w].page \in DOMAIN pages /\ job[w].of \in Writers /\ job[w].level \in {0, 1, 2}
      <4>1. job[w].op = "page grant" /\ WikiFields(job[w]) /\ WikiFitsAt(job[w], job[w].at, job[w].saw)
        BY <1>1, <2>1, WikiServing DEF SetPageGrant, At
      <4>2. job[w].of \in Writers
        BY <4>1 DEF WikiFields
      <4>3. job[w].level \in {0, 1, 2}
        BY <4>1 DEF WikiFields
      <4>4. job[w].page \in DOMAIN pages
        BY <4>1 DEF WikiFields, WikiFitsAt, OfPage
      <4> QED BY <4>2, <4>3, <4>4
    <3> DEFINE g == [page |-> job[w].page, of |-> job[w].of, level |-> job[w].level]
    <3>2. g \in [page : DOMAIN pages, of : Writers, level : {0, 1, 2}]
      BY <3>1
    <3>3. pageGrants' = OtherGrants(w) \cup {g} /\ UNCHANGED wikiGrants
      BY <2>1 DEF SetPageGrant
    <3> HIDE DEF g
    <3> QED BY <1>3, <3>2, <3>3 DEF PageTypes
  <2>2. CASE RemovePageGrant(w)
    BY <1>3, <2>2 DEF RemovePageGrant, PageTypes
  <2>3. CASE SetWikiGrant(w)
    <3>1. job[w].level \in DOMAIN May
      BY <2>3, WikiServing DEF SetWikiGrant, At, WikiFields
    <3> QED BY <1>3, <2>3, <3>1 DEF SetWikiGrant, PageTypes
  <2>4. CASE RemoveWikiGrant(w)
    BY <1>3, <2>4 DEF RemoveWikiGrant, PageTypes, May
  <2> QED BY <2>1, <2>2, <2>3, <2>4
<1>5. PageTypes'
  BY <1>1, <1>3, <1>4 DEF PageTypes
<1> QED BY <1>1, <1>2, <1>5, WikiReadKeepsTypes

-----------------------------------------------------------------------------
(* The wiki: no page and no text is lost *)

\* A live page lies under a live one unless it was put where none is.
UnderLive ==
  \A p \in DOMAIN pages :
    LivePage(p) => pages[p].parent = Top \/ LivePage(pages[p].parent) \/ p \in astray
ReplacedKept == \A old \in replaced : Written(old)

WikiInv ==
  /\ WikiTyped /\ VersionsCounted /\ UnderLive
  /\ OneAtATime => ReplacedKept /\ \A w \in Threads : ReadStands(job[w])

LEMMA CountsStay ==
  ASSUME PageTypes, PageTypes', PagesGrow, VersionsCounted, UNCHANGED pageVersions
  PROVE  VersionsCounted'
<1>1. ASSUME NEW p \in DOMAIN pages'
      PROVE  /\ IsFiniteSet(PageVersionsOf(p))
             /\ PageNumbers(p) = 1 .. Cardinality(PageVersionsOf(p))
  <2>1. CASE p \in DOMAIN pages
    BY <2>1 DEF VersionsCounted
  <2>2. CASE p \notin DOMAIN pages
    <3>1. PageVersionsOf(p) = {} /\ PageNumbers(p) = {}
      BY <2>2 DEF PageVersionsOf, PageNumbers, PageTypes
    <3>2. IsFiniteSet({}) /\ Cardinality({}) = 0
      BY FS_EmptySet
    <3> QED BY <3>1, <3>2
  <2> QED BY <2>1, <2>2
<1>2. \A p : PageVersionsOf(p)' = PageVersionsOf(p) /\ PageNumbers(p)' = PageNumbers(p)
  BY DEF PageVersionsOf, PageNumbers
<1> QED BY <1>1, <1>2 DEF VersionsCounted

LEMMA NumbersStayWithoutGap ==
  ASSUME WikiTyped, VersionsCounted, NEW w \in Threads, InsertPageVersion(w)
  PROVE  VersionsCounted'
<1>1. PageTypes /\ PageTypes' /\ PagesGrow /\ UNCHANGED pages
  BY InsertVersionTyped DEF WikiTyped
<1>2. CASE UNCHANGED pageVersions
  BY <1>1, <1>2, CountsStay
<1>3. ASSUME NEW v, pageVersions' = pageVersions \cup {v},
             v.number \in Nat \ {0}, v.number - 1 \in {0} \cup PageNumbers(v.page),
             v.number \notin PageNumbers(v.page), v.page \in DOMAIN pages
      PROVE  VersionsCounted'
  <2> SUFFICES ASSUME NEW p \in DOMAIN pages
               PROVE  /\ IsFiniteSet(PageVersionsOf(p)')
                      /\ PageNumbers(p)' = 1 .. Cardinality(PageVersionsOf(p)')
    BY <1>1 DEF VersionsCounted
  <2>1. CASE p # v.page
    <3>1. PageVersionsOf(p)' = PageVersionsOf(p)
      BY <1>3, <2>1 DEF PageVersionsOf
    <3>2. PageNumbers(p)' = PageNumbers(p)
      BY <3>1 DEF PageNumbers
    <3> QED BY <3>1, <3>2 DEF VersionsCounted
  <2>2. CASE p = v.page
    <3>1. PageVersionsOf(p)' = PageVersionsOf(p) \cup {v}
      BY <1>3, <2>2 DEF PageVersionsOf
    <3>2. PageNumbers(p)' = PageNumbers(p) \cup {v.number}
      BY <3>1 DEF PageNumbers
    <3>3. v \notin PageVersionsOf(p)
      BY <1>3, <2>2 DEF PageNumbers
    <3>4. PICK n \in Nat : n = Cardinality(PageVersionsOf(p)) /\ PageNumbers(p) = 1 .. n
      BY FS_CardinalityType DEF VersionsCounted
    <3>5. IsFiniteSet(PageVersionsOf(p)') /\ Cardinality(PageVersionsOf(p)') = n + 1
      BY <3>1, <3>3, <3>4, FS_AddElement DEF VersionsCounted
    <3>6. PICK m \in Nat \ {0} : m = v.number
      BY <1>3
    <3>7. m - 1 \in {0} \cup 1 .. n /\ m \notin 1 .. n
      BY <1>3, <2>2, <3>4, <3>6
    <3>8. m = n + 1
      BY <3>7
    <3>9. (1 .. n) \cup {n + 1} = 1 .. n + 1
      OBVIOUS
    <3> QED BY <3>2, <3>4, <3>5, <3>6, <3>8, <3>9
  <2> QED BY <2>1, <2>2
<1> QED BY <1>2, <1>3, InsertVersionTyped

LEMMA UnderLiveStays ==
  ASSUME UnderLive, DOMAIN pages' = DOMAIN pages, UNCHANGED astray,
         \A p \in DOMAIN pages : pages'[p].parent = pages[p].parent /\ pages'[p].here = pages[p].here
  PROVE  UnderLive'
<1>1. \A p : LivePage(p)' <=> LivePage(p)
  BY DEF LivePage
<1> QED BY <1>1 DEF UnderLive

LEMMA MoveKeepsUnderLive ==
  ASSUME WikiTyped, UnderLive, NEW w \in Threads, MovePage(w)
  PROVE  UnderLive'
<1> DEFINE q == job[w].page
<1>1. /\ DOMAIN pages' = DOMAIN pages
      /\ \A p \in DOMAIN pages : pages'[p].here = pages[p].here
      /\ \/ UNCHANGED <<pages, astray>>
         \/ /\ PutUnder(q, job[w].parent) /\ pages'[q].parent = job[w].parent
            /\ \A p \in DOMAIN pages \ {q} : pages'[p].parent = pages[p].parent
  BY MoveTyped
<1>2. \A p : LivePage(p)' <=> LivePage(p)
  BY <1>1 DEF LivePage
<1>3. CASE UNCHANGED <<pages, astray>>
  BY <1>3, UnderLiveStays
<1>4. CASE /\ PutUnder(q, job[w].parent) /\ pages'[q].parent = job[w].parent
           /\ \A p \in DOMAIN pages \ {q} : pages'[p].parent = pages[p].parent
  <2> SUFFICES ASSUME NEW p \in DOMAIN pages, LivePage(p)
               PROVE  pages'[p].parent = Top \/ LivePage(pages'[p].parent) \/ p \in astray'
    BY <1>1, <1>2 DEF UnderLive
  <2>1. CASE p = q
    BY <1>4, <2>1 DEF PutUnder
  <2>2. CASE p # q
    <3>1. p \in astray => p \in astray'
      BY <1>4, <2>2 DEF PutUnder
    <3> QED BY <1>4, <2>2, <3>1 DEF UnderLive
  <2> QED BY <2>1, <2>2
<1> QED BY <1>1, <1>3, <1>4

\* A page that stays is not under one that goes, because all that is under it goes too.
LEMMA DeleteKeepsUnderLive ==
  ASSUME WikiTyped, UnderLive, NEW w \in Threads, DeletePage(w)
  PROVE  UnderLive'
<1> DEFINE gone == Descendants(job[w].page)
<1>1. /\ DOMAIN pages' = DOMAIN pages /\ UNCHANGED astray /\ job[w].page \in DOMAIN pages
      /\ \A p \in DOMAIN pages : /\ pages'[p].parent = pages[p].parent
                                 /\ pages'[p].here = (pages[p].here /\ p \notin gone)
  BY DeleteTyped
<1>2. LiveUnder(gone) \subseteq gone
  BY <1>1, DescendantsClosed DEF WikiTyped
<1> HIDE DEF gone
<1>3. \A p : LivePage(p)' <=> LivePage(p) /\ p \notin gone
  BY <1>1 DEF LivePage
<1> SUFFICES ASSUME NEW p \in DOMAIN pages, LivePage(p), p \notin gone
             PROVE  \/ pages[p].parent = Top \/ p \in astray
                    \/ LivePage(pages[p].parent) /\ pages[p].parent \notin gone
  BY <1>1, <1>3 DEF UnderLive
<1>4. pages[p].parent \notin gone
  BY <1>2 DEF LiveUnder
<1> QED BY <1>4 DEF UnderLive

LEMMA InsertKeepsUnderLive ==
  ASSUME WikiTyped, UnderLive, NEW w \in Threads, InsertPage(w)
  PROVE  UnderLive'
<1> DEFINE new == Len(pages) + 1
<1> DEFINE under == job[w].parent
<1>1. CASE UNCHANGED <<pages, astray>>
  BY <1>1, UnderLiveStays
<1>2. CASE /\ PutUnder(new, under) /\ under \in 0 .. Len(pages) /\ pages'[new].parent = under
           /\ DOMAIN pages' = DOMAIN pages \cup {new} /\ new \notin DOMAIN pages
           /\ \A p \in DOMAIN pages : pages'[p] = pages[p]
  <2> HIDE DEF new, under
  <2>1. \A p \in DOMAIN pages : LivePage(p)' <=> LivePage(p)
    BY <1>2 DEF LivePage
  <2>2. \A p : LivePage(p) => p \in DOMAIN pages
    BY DEF LivePage
  <2> SUFFICES ASSUME NEW p \in DOMAIN pages', LivePage(p)'
               PROVE  (pages[p].parent = Top \/ LivePage(pages[p].parent) \/ p \in astray)'
    BY DEF UnderLive
  <2>3. CASE p = new
    <3>1. under = Top \/ LivePage(under) \/ new \in astray'
      BY <1>2 DEF PutUnder
    <3>2. PICK u : u = under
      OBVIOUS
    <3>3. LivePage(u) => LivePage(u)'
      BY <2>1, <2>2
    <3> QED BY <1>2, <2>3, <3>1, <3>2, <3>3
  <2>4. CASE p # new
    <3>1. p \in DOMAIN pages /\ LivePage(p) /\ pages'[p] = pages[p]
      BY <1>2, <2>1, <2>4
    <3>2. p \in astray => p \in astray'
      BY <1>2, <2>4 DEF PutUnder
    <3>3. PICK u : u = pages[p].parent
      OBVIOUS
    <3>4. LivePage(u) => LivePage(u)'
      BY <2>1, <2>2
    <3> QED BY <3>1, <3>2, <3>3, <3>4 DEF UnderLive
  <2> QED BY <2>3, <2>4
<1> QED BY <1>1, <1>2, InsertPageTyped

LEMMA WrittenStays ==
  ASSUME PagesGrow, NEW old, Written(old)
  PROVE  Written(old)'
  BY DEF PagesGrow, Written, PageVersionsOf

\* A step of w that leaves the history of what was replaced.
LEMMA StepKeepsInTurn ==
  ASSUME WikiInv, NEW w \in Threads, Moves(w), PagesGrow, WikiTyped', VersionsCounted', UnderLive',
         OneAtATime => /\ \A old \in replaced' : old \in replaced \/ Written(old)'
                       /\ ReadStands(job[w])'
  PROVE  WikiInv'
<1>1. ASSUME OneAtATime'
      PROVE  ReplacedKept' /\ \A v \in Threads : ReadStands(job[v])'
  <2>1. OneAtATime /\ job[w] # Free
    BY <1>1 DEF OneAtATime, Moves
  <2>2. Pool /\ ReplacedKept
    BY <2>1 DEF WikiInv, WikiTyped
  <2>3. ReplacedKept'
    BY <2>1, <2>2, WrittenStays DEF ReplacedKept
  <2>4. ASSUME NEW v \in Threads PROVE ReadStands(job[v])'
    <3>1. CASE v = w
      BY <2>1, <3>1
    <3>2. CASE v # w
      <4>1. job[v] = Free
        BY <2>1, <2>2, <3>2, Alone
      <4>2. job'[v] = job[v]
        BY <2>2, <3>2, MoveKeepsPool
      <4> QED BY <4>1, <4>2, FreeStands
    <3> QED BY <3>1, <3>2
  <2> QED BY <2>3, <2>4
<1> QED BY <1>1 DEF WikiInv

\* The text that is replaced in turn is what was read, which a version says.
LEMMA UpdateInTurn ==
  ASSUME WikiTyped, NEW w \in Threads, UpdatePage(w), ReadStands(job[w])
  PROVE  \A old \in replaced' : old \in replaced \/ Written(old)'
<1> DEFINE s == job[w].saw
<1> DEFINE lost == [page |-> s.page, title |-> pages[s.page].title, text |-> pages[s.page].text]
<1>1. /\ job[w].op \in {"save", "revert"} /\ job[w].at = "update"
      /\ \/ replaced' = replaced
         \/ replaced' = IF job[w].op = "revert" \/ job[w].keep THEN replaced \cup {lost} ELSE replaced
  BY DEF UpdatePage
<1>2. CASE replaced' = replaced
  BY <1>2
<1>3. CASE (job[w].op = "revert" \/ job[w].keep) /\ replaced' = replaced \cup {lost}
  <2>1. Stands(s) /\ Written(s)
    BY <1>1, <1>3 DEF ReadStands
  <2>2. lost.page = s.page /\ lost.title = s.title /\ lost.text = s.text
    BY <2>1 DEF Stands
  <2>3. PagesGrow
    BY UpdateTyped
  <2> HIDE DEF lost
  <2>4. PICK old : old = lost
    OBVIOUS
  <2>5. Written(old)
    BY <2>1, <2>2, <2>4 DEF Written
  <2>6. Written(old)'
    BY <2>3, <2>5, WrittenStays
  <2> QED BY <1>3, <2>4, <2>6
<1> QED BY <1>1, <1>2, <1>3

LEMMA InsertVersionInTurn ==
  ASSUME WikiTyped, NEW w \in Threads, InsertPageVersion(w), ReadStands(job[w])
  PROVE  ReadStands(job[w])'
<1>1. CASE job[w].op = "page"
  BY <1>1, InsertVersionTyped, OthersStand
<1>2. CASE job'[w] = Free
  BY <1>2, FreeStands
<1>3. CASE /\ job[w].op # "page" /\ job'[w].op = job[w].op /\ job'[w].at = "update"
           /\ job'[w].saw = job[w].saw
           /\ \E v \in pageVersions' : /\ v.page = job[w].saw.page
                                       /\ v.title = job[w].saw.title /\ v.text = job[w].saw.text
  <2>1. job[w].op \in {"save", "revert"} /\ job[w].at = "version" /\ UNCHANGED pages
    BY <1>3 DEF InsertPageVersion
  <2>2. Stands(job[w].saw)
    BY <2>1 DEF ReadStands
  <2>3. Stands(job[w].saw)' /\ Written(job[w].saw)'
    BY <1>3, <2>1, <2>2 DEF Stands, Written, PageVersionsOf
  <2> QED BY <2>3 DEF ReadStands
<1> QED BY <1>1, <1>2, <1>3, InsertVersionTyped

LEMMA WikiStep ==
  ASSUME WikiInv, NEW w \in Threads
  PROVE  /\ TakeWikiRequest(w) => WikiInv'
         /\ CheckPage(w) \/ InsertPage(w) => WikiInv'
         /\ CheckSave(w) \/ CompareVersion(w) \/ CheckRevertPage(w) \/ NumberPageVersion(w) => WikiInv'
         /\ InsertPageVersion(w) => WikiInv'
         /\ UpdatePage(w) => WikiInv'
         /\ MovePage(w) \/ DeletePage(w) => WikiInv'
         /\ CheckMovePage(w) \/ CheckDeletePage(w) \/ CheckPageGrant(w) \/ CheckPageUngrant(w)
              \/ CheckWikiGrant(w) \/ CheckWikiUngrant(w) => WikiInv'
         /\ SetPageGrant(w) \/ RemovePageGrant(w) \/ SetWikiGrant(w) \/ RemoveWikiGrant(w) => WikiInv'
<1>1. WikiTyped /\ PageTypes /\ VersionsCounted /\ UnderLive
  BY DEF WikiInv, WikiTyped
<1>2. OneAtATime => ReadStands(job[w]) /\ \A old \in replaced : Written(old)
  BY DEF WikiInv, ReplacedKept
<1>3. ASSUME WikiTyped', PagesGrow, UNCHANGED <<pages, pageVersions, astray>>
      PROVE  VersionsCounted' /\ UnderLive'
  BY <1>1, <1>3, CountsStay, UnderLiveStays DEF WikiTyped
<1>4. ASSUME Moves(w), WikiTyped', PagesGrow, UNCHANGED wikiTables,
             OneAtATime => ReadStands(job[w])'
      PROVE  WikiInv'
  <2>1. UNCHANGED <<pages, pageVersions, astray, replaced>>
    BY <1>4 DEF wikiTables
  <2>2. VersionsCounted' /\ UnderLive'
    BY <1>3, <1>4, <2>1
  <2> QED BY <1>4, <2>1, <2>2, StepKeepsInTurn
<1>5. ASSUME TakeWikiRequest(w) PROVE WikiInv'
  <2>1. /\ WikiTyped' /\ PagesGrow /\ job[w] = Free /\ job'[w].at = "check"
        /\ \A v \in Threads \ {w} : job'[v] = job[v]
        /\ calls'.atOnce = calls.atOnce
    BY <1>1, <1>5, WikiTakes
  <2>2. UNCHANGED <<pages, pageVersions, astray, replaced>>
    BY <1>5 DEF TakeWikiRequest, wikiTables
  <2>3. VersionsCounted' /\ UnderLive'
    BY <1>3, <2>1, <2>2
  <2>4. ASSUME OneAtATime' PROVE ReplacedKept' /\ \A v \in Threads : ReadStands(job[v])'
    <3>1. OneAtATime
      BY <2>1, <2>4 DEF OneAtATime
    <3>2. ReplacedKept'
      BY <1>2, <2>1, <2>2, <3>1, WrittenStays DEF ReplacedKept
    <3>3. ASSUME NEW v \in Threads PROVE ReadStands(job[v])'
      <4>1. CASE v = w
        BY <2>1, <4>1 DEF ReadStands
      <4>2. CASE v # w
        <5>1. ReadStands(job[v]) /\ job'[v] = job[v]
          BY <2>1, <3>1, <4>2 DEF WikiInv
        <5> QED BY <2>2, <5>1 DEF ReadStands, Stands, Written, PageVersionsOf
      <4> QED BY <4>1, <4>2
    <3> QED BY <3>2, <3>3
  <2> QED BY <2>1, <2>3, <2>4 DEF WikiInv
<1>6. ASSUME CheckPage(w) PROVE WikiInv'
  <2>1. WikiTyped' /\ PagesGrow /\ Moves(w)
    BY <1>1, <1>6, CheckPageTyped
  <2>2. job[w].op = "page" /\ UNCHANGED wikiTables
    BY <1>6 DEF CheckPage, At
  <2>3. ReadStands(job[w])'
    BY <1>1, <2>1, <2>2, OthersStand
  <2> QED BY <1>4, <2>1, <2>2, <2>3
<1>7. ASSUME InsertPage(w) PROVE WikiInv'
  <2>1. WikiTyped' /\ PagesGrow /\ Moves(w) /\ UNCHANGED <<pageVersions, replaced>>
    BY <1>1, <1>7, InsertPageTyped
  <2>2. VersionsCounted' /\ UnderLive'
    BY <1>1, <1>7, <2>1, CountsStay, InsertKeepsUnderLive DEF WikiTyped
  <2>3. job[w].op = "page"
    BY <1>7 DEF InsertPage, At
  <2>4. ReadStands(job[w])'
    BY <1>1, <2>1, <2>3, OthersStand
  <2> QED BY <2>1, <2>2, <2>4, StepKeepsInTurn
<1>8. ASSUME CheckSave(w) PROVE WikiInv'
  <2>1. UNCHANGED wikiTables
    BY <1>8 DEF CheckSave
  <2> QED BY <1>1, <1>4, <1>8, <2>1, CheckSaveTyped
<1>9. ASSUME CompareVersion(w) PROVE WikiInv'
  <2>1. UNCHANGED wikiTables
    BY <1>9 DEF CompareVersion
  <2> QED BY <1>1, <1>2, <1>4, <1>9, <2>1, CompareTyped
<1>10. ASSUME CheckRevertPage(w) PROVE WikiInv'
  <2>1. UNCHANGED wikiTables
    BY <1>10 DEF CheckRevertPage
  <2> QED BY <1>1, <1>4, <1>10, <2>1, CheckRevertTyped
<1>11. ASSUME NumberPageVersion(w) PROVE WikiInv'
  <2>1. UNCHANGED wikiTables
    BY <1>11 DEF NumberPageVersion
  <2> QED BY <1>1, <1>2, <1>4, <1>11, <2>1, NumberTyped
<1>12. ASSUME InsertPageVersion(w) PROVE WikiInv'
  <2>1. WikiTyped' /\ PagesGrow /\ Moves(w) /\ UNCHANGED <<pages, replaced, astray>>
    BY <1>1, <1>12, InsertVersionTyped
  <2>2. VersionsCounted' /\ UnderLive'
    BY <1>1, <1>12, <2>1, NumbersStayWithoutGap, UnderLiveStays
  <2>3. OneAtATime => ReadStands(job[w])'
    BY <1>1, <1>2, <1>12, InsertVersionInTurn
  <2> QED BY <2>1, <2>2, <2>3, StepKeepsInTurn
<1>13. ASSUME UpdatePage(w) PROVE WikiInv'
  <2>1. /\ WikiTyped' /\ PagesGrow /\ Moves(w) /\ job'[w] = Free
        /\ DOMAIN pages' = DOMAIN pages /\ UNCHANGED <<pageVersions, astray>>
        /\ \A p \in DOMAIN pages : pages'[p].parent = pages[p].parent /\ pages'[p].here = pages[p].here
    BY <1>1, <1>13, UpdateTyped
  <2>2. VersionsCounted' /\ UnderLive'
    BY <1>1, <2>1, CountsStay, UnderLiveStays DEF WikiTyped
  <2>3. OneAtATime => \A old \in replaced' : old \in replaced \/ Written(old)'
    BY <1>1, <1>2, <1>13, UpdateInTurn
  <2> QED BY <2>1, <2>2, <2>3, FreeStands, StepKeepsInTurn
<1>14. ASSUME MovePage(w) PROVE WikiInv'
  <2>1. WikiTyped' /\ PagesGrow /\ Moves(w) /\ job'[w] = Free /\ UNCHANGED pageVersions
    BY <1>1, <1>14, MoveTyped
  <2>2. VersionsCounted' /\ UnderLive' /\ UNCHANGED replaced
    BY <1>1, <1>14, <2>1, CountsStay, MoveKeepsUnderLive DEF WikiTyped, MovePage
  <2> QED BY <2>1, <2>2, FreeStands, StepKeepsInTurn
<1>15. ASSUME DeletePage(w) PROVE WikiInv'
  <2>1. WikiTyped' /\ PagesGrow /\ Moves(w) /\ job'[w] = Free /\ UNCHANGED pageVersions
    BY <1>1, <1>15, DeleteTyped
  <2>2. VersionsCounted' /\ UnderLive' /\ UNCHANGED replaced
    BY <1>1, <1>15, <2>1, CountsStay, DeleteKeepsUnderLive DEF WikiTyped, DeletePage
  <2> QED BY <2>1, <2>2, FreeStands, StepKeepsInTurn
<1>16. ASSUME CheckMovePage(w) \/ CheckDeletePage(w) \/ CheckPageGrant(w) \/ CheckPageUngrant(w)
                \/ CheckWikiGrant(w) \/ CheckWikiUngrant(w)
       PROVE  WikiInv'
  <2>1. /\ job[w].at = "check" /\ UNCHANGED wikiTables
        /\ Respond(w) \/ Proceed(w, "write")
    BY <1>16 DEF CheckMovePage, CheckDeletePage, CheckPageGrant, CheckPageUngrant, CheckWikiGrant,
                 CheckWikiUngrant, At, Unless
  <2>2. job[w].op \in WikiOps \ {"page", "save", "revert"}
    BY <1>16 DEF WikiOps, OfPage, CheckMovePage, CheckDeletePage, CheckPageGrant, CheckPageUngrant,
                 CheckWikiGrant, CheckWikiUngrant, At
  <2>3. WikiTyped' /\ PagesGrow /\ Moves(w)
    BY <1>1, <2>1, <2>2, CheckedTyped
  <2>4. ReadStands(job[w])'
    BY <1>1, <2>2, <2>3, OthersStand
  <2> QED BY <1>4, <2>1, <2>3, <2>4
<1>17. ASSUME SetPageGrant(w) \/ RemovePageGrant(w) \/ SetWikiGrant(w) \/ RemoveWikiGrant(w)
       PROVE  WikiInv'
  <2>1. /\ WikiTyped' /\ PagesGrow /\ Moves(w) /\ job'[w] = Free
        /\ UNCHANGED <<pages, pageVersions, replaced, astray>>
    BY <1>1, <1>17, GrantsTyped
  <2> QED BY <1>3, <2>1, FreeStands, StepKeepsInTurn
<1> QED BY <1>5, <1>6, <1>7, <1>8, <1>9, <1>10, <1>11, <1>12, <1>13, <1>14, <1>15, <1>16, <1>17

LEMMA WikiStarts == InitWiki => WikiInv
<1> SUFFICES ASSUME NEW s \in WikiScenarios, WikiTables(s), Listening(s) PROVE WikiInv
  BY DEF InitWiki
<1>1. /\ s.pages \in Seq([parent : Nat, slug : Titles \X Nat, title : Titles, text : Texts,
                          by : Writers, here : {TRUE}])
      /\ \A p \in DOMAIN s.pages : s.pages[p].parent < p
      /\ s.wikiGrants \in [Writers -> DOMAIN May]
      /\ s.requests \subseteq WikiRequests
      /\ s.atOnce \in Nat \ {0}
  BY WikiAssumption
<1>2. Pool /\ calls.requests = s.requests
  BY <1>1, PoolStarts
<1>3. /\ pages = s.pages /\ wikiGrants = s.wikiGrants /\ replaced = {} /\ astray = {}
      /\ pageVersions = {[page |-> p, number |-> 1, title |-> pages[p].title, text |-> pages[p].text] :
                           p \in DOMAIN pages}
      /\ pageGrants = {[page |-> p, of |-> pages[p].by, level |-> May.owner] : p \in DOMAIN pages}
  BY DEF WikiTables
<1>4. /\ DOMAIN pages = 1 .. Len(pages) /\ Len(pages) \in Nat
      /\ \A p \in DOMAIN pages : pages[p] \in PageRows /\ pages[p].here = TRUE
  <2> DEFINE LiveRows == [parent : Nat, slug : Titles \X Nat, title : Titles, text : Texts,
                          by : Writers, here : {TRUE}]
  <2>1. \A row \in LiveRows : row \in PageRows /\ row.here = TRUE
    BY DEF PageRows
  <2>2. s.pages \in Seq(LiveRows)
    BY <1>1
  <2> HIDE DEF LiveRows
  <2>3. pages \in Seq(LiveRows)
    BY <1>3, <2>2
  <2>4. /\ DOMAIN pages = 1 .. Len(pages) /\ Len(pages) \in Nat
        /\ \A p \in DOMAIN pages : pages[p] \in LiveRows
    BY <2>3
  <2> QED BY <2>1, <2>4
<1>5. pages \in Seq(PageRows)
  BY <1>1, <1>3, <1>4, Widened
<1>6. \A p \in DOMAIN pages : pages[p].parent \in 0 .. Len(pages)
  <2> SUFFICES ASSUME NEW p \in DOMAIN pages PROVE pages[p].parent \in 0 .. Len(pages)
    OBVIOUS
  <2>1. pages[p].parent \in Nat /\ pages[p].parent < p
    BY <1>1, <1>3, <1>4 DEF PageRows
  <2> QED BY <1>4, <2>1
<1>7. /\ pageVersions \subseteq [page : DOMAIN pages, number : Nat \ {0}, title : Titles, text : Texts]
      /\ pageGrants \subseteq [page : DOMAIN pages, of : Writers, level : {0, 1, 2}]
  BY <1>3, <1>4 DEF PageRows, May
<1>8. PageTypes
  BY <1>1, <1>3, <1>5, <1>6, <1>7 DEF PageTypes
<1>9. \A w \in Threads : job[w] = Free
  BY DEF Listening
<1>10. WikiTyped
  BY <1>1, <1>2, <1>8, <1>9 DEF WikiTyped, WikiFits
<1>11. VersionsCounted
  <2> SUFFICES ASSUME NEW p \in DOMAIN pages
               PROVE  /\ IsFiniteSet(PageVersionsOf(p))
                      /\ PageNumbers(p) = 1 .. Cardinality(PageVersionsOf(p))
    BY DEF VersionsCounted
  <2> DEFINE v == [page |-> p, number |-> 1, title |-> pages[p].title, text |-> pages[p].text]
  <2>1. PageVersionsOf(p) = {v}
    BY <1>3 DEF PageVersionsOf
  <2>2. PageNumbers(p) = {1}
    BY <2>1 DEF PageNumbers
  <2>3. IsFiniteSet({v}) /\ Cardinality({v}) = 1
    BY FS_Singleton
  <2> HIDE DEF v
  <2>4. 1 .. 1 = {1}
    OBVIOUS
  <2> QED BY <2>1, <2>2, <2>3, <2>4
<1>12. UnderLive
  <2> SUFFICES ASSUME NEW p \in DOMAIN pages
               PROVE  pages[p].parent = Top \/ LivePage(pages[p].parent)
    BY DEF UnderLive
  <2>1. pages[p].parent = 0 \/ pages[p].parent \in DOMAIN pages
    BY <1>4, <1>6
  <2> QED BY <1>4, <2>1 DEF LivePage, Top
<1>13. ReplacedKept /\ \A w \in Threads : ReadStands(job[w])
  BY <1>3, <1>9 DEF ReplacedKept, ReadStands, Free
<1> QED BY <1>10, <1>11, <1>12, <1>13 DEF WikiInv

LEMMA WikiStands == ASSUME WikiInv, UNCHANGED wikiVars PROVE WikiInv'
<1>1. UNCHANGED <<pages, pageVersions, pageGrants, wikiGrants, replaced, astray, job, calls>>
  BY DEF wikiVars, wikiTables, serving
<1>2. Pool' /\ PageTypes'
  BY <1>1 DEF WikiInv, WikiTyped, Pool, Engaged, PageTypes
<1>3. Len(pages) \in Nat
  BY PageCount DEF WikiInv, WikiTyped
<1>4. PagesGrow
  BY <1>1, <1>3 DEF PagesGrow
<1>5. \A w \in Threads : WikiFits(job[w])'
  BY <1>1, <1>2, <1>4, StillFitsWiki DEF WikiInv
<1>6. WikiTyped'
  BY <1>1, <1>2, <1>5 DEF WikiInv, WikiTyped
<1>7. VersionsCounted' /\ UnderLive'
  BY <1>1, <1>2, <1>4, CountsStay, UnderLiveStays DEF WikiInv, WikiTyped
<1>8. OneAtATime' => ReplacedKept' /\ \A w \in Threads : ReadStands(job[w])'
  BY <1>1 DEF WikiInv, OneAtATime, ReplacedKept, Written, PageVersionsOf, ReadStands, Stands
<1> QED BY <1>6, <1>7, <1>8 DEF WikiInv

LEMMA WikiAlways == WikiSpec => []WikiInv
<1>1. WikiInv /\ [NextWiki]_wikiVars => WikiInv'
  BY WikiStep, WikiStands DEF NextWiki
<1> QED BY <1>1, WikiStarts, PTL DEF WikiSpec

\* The rows of pages, versions and grants are always well formed: a version and
\* a grant belong to a page that exists, and a slug is one of its title.
THEOREM PagesTyped == WikiSpec => []WikiTypes
<1>1. WikiInv => WikiTypes
  BY PageCount DEF WikiInv, WikiTyped, PageTypes, PageRows, WikiTypes
<1> QED BY <1>1, WikiAlways, PTL

\* A live page lies under a live one wherever a request has not put it under one
\* that was deleted; versions have no gap, however many are written at once
\* (database.cpp:6277); and in turn, what a kept save or a revert has replaced is
\* among the versions of its page (wiki_handler.cpp:479 and :963).
THEOREM PagesAndTextsAlwaysKept == WikiSpec => []PagesAndTextsKept
<1>1. WikiInv => PagesAndTextsKept
  <2> SUFFICES ASSUME WikiInv PROVE PagesAndTextsKept
    OBVIOUS
  <2>1. \A p \in DOMAIN pages :
          /\ LivePage(p) => pages[p].parent = Top \/ LivePage(pages[p].parent) \/ p \in astray
          /\ {v.number : v \in PageVersionsOf(p)} = 1 .. Cardinality(PageVersionsOf(p))
    BY DEF WikiInv, UnderLive, VersionsCounted, PageNumbers
  <2>2. OneAtATime => \A old \in replaced : Written(old)
    BY DEF WikiInv, ReplacedKept
  <2> QED BY <2>1, <2>2 DEF PagesAndTextsKept, Written
<1> QED BY <1>1, WikiAlways, PTL

-----------------------------------------------------------------------------
(* The boards: what their jobs may be *)

BoardFields(r) ==
  /\ "op" \in DOMAIN r /\ "by" \in DOMAIN r /\ r.by \in Staff
  /\ r.op \in {"task", "edit"} => "title" \in DOMAIN r /\ r.title \in STRING
  /\ r.op \in {"task", "delete column"} => "board" \in DOMAIN r /\ "column" \in DOMAIN r
  /\ r.op = "depend" => "task" \in DOMAIN r /\ "on" \in DOMAIN r
  /\ r.op \in {"grant", "ungrant"} => "of" \in DOMAIN r /\ r.of \in Staff
  /\ r.op = "grant" => "level" \in DOMAIN r /\ r.level \in DOMAIN Grades
  /\ r.op = "update item" => "checked" \in DOMAIN r /\ r.checked \in BOOLEAN

BoardRows == [by : Staff, here : BOOLEAN]
ColumnRows == [board : Nat, here : BOOLEAN]
TaskRows == [board : Nat, column : Nat, title : STRING, by : Staff, here : BOOLEAN]
LogRows == [task : Nat, by : Staff, from : Nat, to : Nat]

GrantsOnBoards == boardGrants \in [Staff -> DOMAIN Grades]
LinksOnBoards ==
  /\ links \subseteq (DOMAIN tasks) \X (DOMAIN tasks)
  /\ \A p \in links : tasks[p[1]].board = tasks[p[2]].board
RowsOnBoards ==
  /\ boards \in Seq(BoardRows) /\ columns \in Seq(ColumnRows)
  /\ tasks \in Seq(TaskRows) /\ log \in Seq(LogRows)
  /\ \A c \in DOMAIN columns : columns[c].board \in DOMAIN boards
  /\ \A t \in DOMAIN tasks :
       tasks[t].column \in DOMAIN columns /\ columns[tasks[t].column].board = tasks[t].board
  /\ \A i \in DOMAIN log : log[i].task \in DOMAIN tasks
BoardRowTypes == GrantsOnBoards /\ LinksOnBoards /\ RowsOnBoards

\* A handler is about to change a task, or has changed one and is to tell it.
Changing(op, place) ==
  \/ op = "edit" /\ place = "update"
  \/ op = "reorder" /\ place = "move"
Telling(op, place) ==
  \/ op \in {"task", "edit"} /\ place \in {"unassign", "assign", "untag", "tag", "log"}
  \/ op = "reorder" /\ place = "log"
\* What it has read fits.
ChangeFits(s) ==
  /\ {"task", "from", "to", "title"} \subseteq DOMAIN s
  /\ s.task \in DOMAIN tasks /\ s.to \in DOMAIN columns /\ s.from \in Nat /\ s.title \in STRING
  /\ columns[s.to].board = tasks[s.task].board
ChangeTold(op, s) ==
  /\ {"task", "from", "to"} \subseteq DOMAIN s
  /\ s.task \in DOMAIN tasks /\ s.from \in Nat /\ s.to \in Nat
  /\ op = "task" => s.from = s.to

BoardFitsAt(j, place, s) ==
  /\ j.op = "task" /\ place = "insert" =>
       j.column \in DOMAIN columns /\ columns[j.column].board = j.board
  /\ j.op = "depend" /\ place = "write" =>
       j.task \in DOMAIN tasks /\ j.on \in DOMAIN tasks /\ tasks[j.task].board = tasks[j.on].board
  /\ Changing(j.op, place) => ChangeFits(s)
  /\ Telling(j.op, place) => ChangeTold(j.op, s)
BoardFits(j) == BoardFitsAt(j, j.at, j.saw)

BoardsTyped ==
  /\ Pool /\ calls.requests \subseteq BoardRequests
  /\ BoardRowTypes
  /\ \A w \in Threads : BoardFits(job[w])

LEMMA BoardRequestFields ==
  ASSUME NEW r \in BoardRequests
  PROVE  BoardFields(r) /\ r = [f \in DOMAIN r |-> r[f]] /\ {"at", "saw"} \cap DOMAIN r = {}
<1>1. BoardFields(r)
  BY DEF BoardRequests, BoardFields
<1>2. r = [f \in DOMAIN r |-> r[f]] /\ {"at", "saw"} \cap DOMAIN r = {}
  BY DEF BoardRequests
<1> QED BY <1>1, <1>2

LEMMA BoardJobFields ==
  ASSUME BoardsTyped, NEW w \in Threads, job[w] # Free
  PROVE  BoardFields(job[w]) /\ IsJob(job[w])
<1> DEFINE r == Asked(job[w])
<1>1. r \in BoardRequests /\ IsJob(job[w])
  BY DEF BoardsTyped, Pool, Engaged
<1>2. BoardFields(r)
  BY <1>1, BoardRequestFields
<1>3. \A f \in DOMAIN r : job[w][f] = r[f] /\ f \in DOMAIN job[w]
  BY DEF Asked
<1>4. /\ "op" \in DOMAIN job[w] /\ job[w].op = r.op
      /\ "by" \in DOMAIN job[w] /\ job[w].by = r.by
  BY <1>2, <1>3 DEF BoardFields
<1>5. /\ "title" \in DOMAIN r => job[w].title = r.title /\ "title" \in DOMAIN job[w]
      /\ "board" \in DOMAIN r => "board" \in DOMAIN job[w]
      /\ "column" \in DOMAIN r => "column" \in DOMAIN job[w]
      /\ "task" \in DOMAIN r => "task" \in DOMAIN job[w]
      /\ "on" \in DOMAIN r => "on" \in DOMAIN job[w]
      /\ "level" \in DOMAIN r => job[w].level = r.level /\ "level" \in DOMAIN job[w]
      /\ "of" \in DOMAIN r => job[w].of = r.of /\ "of" \in DOMAIN job[w]
      /\ "checked" \in DOMAIN r => job[w].checked = r.checked /\ "checked" \in DOMAIN job[w]
  BY <1>3
<1> HIDE DEF r
<1> QED BY <1>1, <1>2, <1>4, <1>5 DEF BoardFields

-----------------------------------------------------------------------------
(* The boards: a step of one worker *)

\* No row disappears, and none changes its board.
BoardRowsRemain ==
  /\ DOMAIN columns \subseteq DOMAIN columns' /\ DOMAIN tasks \subseteq DOMAIN tasks'
  /\ \A c \in DOMAIN columns : columns'[c].board = columns[c].board
  /\ \A t \in DOMAIN tasks : tasks'[t].board = tasks[t].board

LEMMA StillFitsAt ==
  ASSUME BoardRowTypes, BoardRowsRemain, NEW j, NEW place, NEW s, BoardFitsAt(j, place, s)
  PROVE  BoardFitsAt(j, place, s)'
<1>1. ChangeFits(s) => ChangeFits(s)'
  BY DEF ChangeFits, BoardRowsRemain
<1>2. ChangeTold(j.op, s) => ChangeTold(j.op, s)'
  BY DEF ChangeTold, BoardRowsRemain
<1>3. j.column \in DOMAIN columns /\ columns[j.column].board = j.board =>
        j.column \in DOMAIN columns' /\ columns'[j.column].board = j.board
  BY DEF BoardRowsRemain
<1>4. j.task \in DOMAIN tasks /\ j.on \in DOMAIN tasks /\ tasks[j.task].board = tasks[j.on].board =>
        /\ j.task \in DOMAIN tasks' /\ j.on \in DOMAIN tasks'
        /\ tasks'[j.task].board = tasks'[j.on].board
  BY DEF BoardRowsRemain
<1> QED BY <1>1, <1>2, <1>3, <1>4 DEF BoardFitsAt, Changing, Telling

LEMMA BoardStepTyped ==
  ASSUME BoardsTyped, NEW w \in Threads, Moves(w), BoardRowTypes', BoardRowsRemain,
         NEW j, j = job[w], NEW place, NEW saw,
         job'[w] = Free \/ (GoesTo(w, place, saw) /\ BoardFitsAt(j, place, saw)')
  PROVE  BoardsTyped'
<1>1. Pool' /\ \A v \in Threads \ {w} : job'[v] = job[v]
  BY MoveKeepsPool DEF BoardsTyped
<1>2. calls' = calls
  BY DEF Moves
<1>3. BoardFits(job[w])'
  <2>1. CASE job'[w] = Free
    BY <2>1 DEF BoardFits, BoardFitsAt, Free, Changing, Telling
  <2>2. CASE GoesTo(w, place, saw) /\ BoardFitsAt(j, place, saw)'
    <3>1. BoardFields(j)
      BY BoardJobFields DEF Moves
    <3>2. PICK k : k = job'[w]
      OBVIOUS
    <3>3. /\ k.op = j.op /\ k.at = place /\ k.saw = saw
          /\ \A f \in DOMAIN j \ {"at", "saw"} : k[f] = j[f]
      BY <2>2, <3>1, <3>2 DEF GoesTo, BoardFields
    <3>4. /\ j.op = "task" => k.column = j.column /\ k.board = j.board
          /\ j.op = "depend" => k.task = j.task /\ k.on = j.on
      BY <3>1, <3>3 DEF BoardFields
    <3>5. BoardFitsAt(k, k.at, k.saw)'
      BY <2>2, <3>3, <3>4 DEF BoardFitsAt
    <3> QED BY <3>2, <3>5 DEF BoardFits
  <2> QED BY <2>1, <2>2
<1>4. ASSUME NEW v \in Threads \ {w} PROVE BoardFits(job[v])'
  <2>1. PICK k : k = job[v]
    OBVIOUS
  <2>2. BoardFitsAt(k, k.at, k.saw) /\ job'[v] = k
    BY <1>1, <2>1 DEF BoardsTyped, BoardFits
  <2>3. BoardFitsAt(k, k.at, k.saw)'
    BY <2>2, StillFitsAt DEF BoardsTyped
  <2> QED BY <2>2, <2>3 DEF BoardFits
<1> QED BY <1>1, <1>2, <1>3, <1>4 DEF BoardsTyped

LEMMA BoardServing ==
  ASSUME BoardsTyped, NEW w \in Threads, job[w].at # "none"
  PROVE  job[w] # Free /\ BoardFields(job[w]) /\ IsJob(job[w]) /\ BoardFits(job[w])
<1>1. job[w] # Free
  BY DEF Free
<1> QED BY <1>1, BoardJobFields DEF BoardsTyped

LEMMA BoardGoingOn ==
  ASSUME BoardsTyped, NEW w \in Threads, job[w].at # "none", NEW place, place # "none"
  PROVE  /\ Proceed(w, place) => Moves(w) /\ GoesTo(w, place, job[w].saw)
         /\ \A saw : Recall(w, place, saw) => Moves(w) /\ GoesTo(w, place, saw)
         /\ Respond(w) => Moves(w) /\ job'[w] = Free
<1>1. job[w] # Free /\ IsJob(job[w]) /\ Pool
  BY BoardServing DEF BoardsTyped
<1>2. ASSUME Proceed(w, place) PROVE Moves(w) /\ GoesTo(w, place, job[w].saw)
  <2>1. /\ Moves(w) /\ job'[w].at = place /\ DOMAIN job'[w] = DOMAIN job[w]
        /\ \A f \in DOMAIN job[w] \ {"at"} : job'[w][f] = job[w][f]
    BY <1>1, <1>2, Proceeding
  <2> QED BY <1>1, <2>1 DEF GoesTo, IsJob
<1>3. ASSUME NEW saw, Recall(w, place, saw) PROVE Moves(w) /\ GoesTo(w, place, saw)
  BY <1>1, <1>3, Recalling DEF GoesTo
<1>4. ASSUME Respond(w) PROVE Moves(w) /\ job'[w] = Free
  BY <1>1, <1>4, Responding
<1> QED BY <1>2, <1>3, <1>4

-----------------------------------------------------------------------------
(* The boards: what holds of requests in turn *)

\* What has been told of a task ends at c.
ToldUpTo(t, c) == \A i \in MovesOf(t) : LastMove(t, i) => log[i].to = c
Housed ==
  \A t \in DOMAIN tasks :
    tasks[t].here /\ BoardThere(tasks[t].board) => ColumnThere(tasks[t].column)
\* Each move begins where the last one ended.
Linked(t) == \A i, j \in MovesOf(t) : NextMove(t, i, j) => log[j].from = log[i].to
Chained == \A t \in DOMAIN tasks \ halted : Linked(t)

\* A worker has moved a task and is to tell it.
Telltale(j, t) == j.op # "task" /\ Telling(j.op, j.at) /\ j.saw.task = t
ToldSoFar ==
  \A t \in DOMAIN tasks \ halted :
    (\A w \in Threads : ~Telltale(job[w], t)) => ToldUpTo(t, tasks[t].column)

\* What a worker has read still stands.
Stays(j) ==
  /\ j.op = "delete column" /\ j.at = "write" => InColumn(j.column) = {}
  /\ Changing(j.op, j.at) => j.saw.from = tasks[j.saw.task].column
  /\ j.op # "task" /\ Telling(j.op, j.at) =>
       /\ TaskThere(j.saw.task) /\ j.saw.to = tasks[j.saw.task].column
       /\ j.saw.task \notin halted => ToldUpTo(j.saw.task, j.saw.from)

BoardInv ==
  /\ BoardsTyped
  /\ OneAtATime => Housed /\ Chained /\ ToldSoFar /\ \A w \in Threads : Stays(job[w])

LEMMA FreeStays ==
  ASSUME NEW w, job'[w] = Free
  PROVE  Stays(job[w])' /\ \A t : ~Telltale(job[w], t)'
  BY DEF Free, Stays, Changing, Telling, Telltale

\* The log is read to mean the same of each task.
SaysTheSameOf(t) == MovesOf(t)' = MovesOf(t) /\ \A i \in MovesOf(t) : log'[i] = log[i]
SaysTheSame == \A t \in DOMAIN tasks' : SaysTheSameOf(t)

LEMMA LogStays ==
  ASSUME log' = log
  PROVE  SaysTheSame
  BY DEF SaysTheSame, SaysTheSameOf, MovesOf

\* An entry about something else than a move.
LEMMA LogNotes ==
  ASSUME BoardRowTypes, NEW e, log' = Append(log, e), e.from = e.to
  PROVE  SaysTheSame
<1>1. /\ DOMAIN log' = DOMAIN log \cup {Len(log) + 1} /\ Len(log) + 1 \notin DOMAIN log
      /\ \A i \in DOMAIN log : log'[i] = log[i]
      /\ log'[Len(log) + 1] = e
  BY OneMore DEF BoardRowTypes, RowsOnBoards
<1>2. ASSUME NEW t PROVE MovesOf(t)' = MovesOf(t) /\ \A i \in MovesOf(t) : log'[i] = log[i]
  BY <1>1 DEF MovesOf
<1> QED BY <1>2 DEF SaysTheSame, SaysTheSameOf

LEMMA SameToldUpTo ==
  ASSUME NEW t, SaysTheSameOf(t), NEW c
  PROVE  /\ ToldUpTo(t, c)' <=> ToldUpTo(t, c)
         /\ \A i, j \in MovesOf(t)' : NextMove(t, i, j)' <=> NextMove(t, i, j)
<1>1. MovesOf(t)' = MovesOf(t) /\ \A i \in MovesOf(t) : log'[i] = log[i]
  BY DEF SaysTheSameOf
<1>2. \A i : LastMove(t, i)' <=> LastMove(t, i)
  BY <1>1 DEF LastMove
<1>3. \A i, j : NextMove(t, i, j)' <=> NextMove(t, i, j)
  BY <1>1 DEF NextMove
<1> QED BY <1>1, <1>2, <1>3 DEF ToldUpTo

LEMMA SameLinked ==
  ASSUME NEW t, SaysTheSameOf(t), Linked(t)
  PROVE  Linked(t)'
<1> SUFFICES ASSUME NEW i \in MovesOf(t)', NEW j \in MovesOf(t)', NextMove(t, i, j)'
             PROVE  log'[j].from = log'[i].to
  BY DEF Linked
<1>1. i \in MovesOf(t) /\ j \in MovesOf(t) /\ log'[i] = log[i] /\ log'[j] = log[j]
  BY DEF SaysTheSameOf
<1>2. NextMove(t, i, j)
  BY SameToldUpTo
<1> QED BY <1>1, <1>2 DEF Linked

\* A step after which the log says the same: it halts what it likes, moves no
\* task, and goes on to tell what it was to tell.
LEMMA QuietStep ==
  ASSUME BoardInv, NEW w \in Threads, Moves(w), BoardsTyped', SaysTheSame,
         halted \subseteq halted',
         \A t \in DOMAIN tasks : t \in DOMAIN tasks' /\ tasks'[t].column = tasks[t].column,
         OneAtATime => /\ Housed' /\ Stays(job[w])'
                       /\ \A t \in DOMAIN tasks' \ halted' : Telltale(job[w], t) => Telltale(job[w], t)'
  PROVE  BoardInv'
<1>1. SUFFICES ASSUME OneAtATime'
               PROVE  Chained' /\ ToldSoFar' /\ \A v \in Threads : Stays(job[v])'
  BY DEF BoardInv, OneAtATime, Moves
<1>2. /\ OneAtATime /\ job[w] # Free /\ Pool
      /\ Chained /\ ToldSoFar
  BY <1>1 DEF OneAtATime, Moves, BoardInv, BoardsTyped
<1>3. ASSUME NEW v \in Threads, v # w PROVE job[v] = Free /\ job'[v] = Free
  BY <1>2, <1>3, Alone, MoveKeepsPool
<1>4. \A v \in Threads : Stays(job[v])'
  <2>1. ASSUME NEW v \in Threads PROVE Stays(job[v])'
    <3>1. CASE v = w
      BY <1>2, <3>1
    <3>2. CASE v # w
      BY <1>3, <3>2, FreeStays
    <3> QED BY <3>1, <3>2
  <2> QED BY <2>1
<1>5. ASSUME NEW t \in DOMAIN tasks' \ DOMAIN tasks PROVE MovesOf(t)' = {}
  <2>1. \A i \in DOMAIN log : log[i].task \in DOMAIN tasks
    BY DEF BoardInv, BoardsTyped, BoardRowTypes, RowsOnBoards
  <2>2. MovesOf(t) = {}
    BY <1>5, <2>1 DEF MovesOf
  <2> QED BY <1>5, <2>2 DEF SaysTheSame, SaysTheSameOf
<1>6. Chained'
  <2> SUFFICES ASSUME NEW t \in DOMAIN tasks' \ halted' PROVE Linked(t)'
    BY DEF Chained
  <2>1. CASE t \in DOMAIN tasks
    <3>1. Linked(t)
      BY <1>2, <2>1 DEF Chained
    <3> QED BY <3>1, SameLinked DEF SaysTheSame
  <2>2. CASE t \notin DOMAIN tasks
    BY <1>5, <2>2 DEF Linked
  <2> QED BY <2>1, <2>2
<1>7. ToldSoFar'
  <2> SUFFICES ASSUME NEW t \in DOMAIN tasks' \ halted', ~Telltale(job[w], t)'
               PROVE  ToldUpTo(t, tasks[t].column)'
    BY DEF ToldSoFar
  <2>1. CASE t \notin DOMAIN tasks
    BY <1>5, <2>1 DEF ToldUpTo
  <2>2. CASE t \in DOMAIN tasks
    <3>1. \A v \in Threads : ~Telltale(job[v], t)
      <4>1. ~Telltale(job[w], t)
        BY <1>2
      <4>2. ASSUME NEW v \in Threads, v # w PROVE ~Telltale(job[v], t)
        BY <1>3, <4>2 DEF Telltale, Telling, Free
      <4> QED BY <4>1, <4>2
    <3>2. PICK c : c = tasks[t].column /\ c = tasks'[t].column
      BY <2>2
    <3>3. ToldUpTo(t, c)
      BY <1>2, <2>2, <3>1, <3>2 DEF ToldSoFar
    <3>4. ToldUpTo(t, c)'
      BY <2>2, <3>3, SameToldUpTo DEF SaysTheSame
    <3> QED BY <3>2, <3>4
  <2> QED BY <2>1, <2>2
<1> QED BY <1>4, <1>6, <1>7

\* A place where nothing is remembered of the rows.
Unbound(op, place) ==
  /\ ~(op = "task" /\ place = "insert") /\ ~(op = "depend" /\ place = "write")
  /\ ~(op = "delete column" /\ place = "write")
  /\ ~Changing(op, place) /\ ~Telling(op, place)

LEMMA UnboundFits ==
  ASSUME NEW j, NEW place, Unbound(j.op, place)
  PROVE  (\A s : BoardFitsAt(j, place, s)) /\ (\A s : BoardFitsAt(j, place, s)')
  BY DEF Unbound, BoardFitsAt

LEMMA UnboundStays ==
  ASSUME NEW w, Unbound(job'[w].op, job'[w].at)
  PROVE  Stays(job[w])'
<1>1. PICK k : k = job'[w]
  OBVIOUS
<1>2. Stays(k)'
  BY <1>1 DEF Stays, Unbound
<1> QED BY <1>1, <1>2

\* A step that leaves the log alone and every task in its column.
LEMMA RowStep ==
  ASSUME BoardInv, NEW w \in Threads, Moves(w), ~Telling(job[w].op, job[w].at),
         UNCHANGED <<log, halted>>, BoardRowTypes', BoardRowsRemain,
         \A t \in DOMAIN tasks : tasks'[t].column = tasks[t].column,
         NEW j, j = job[w], NEW place, NEW saw,
         job'[w] = Free \/ (GoesTo(w, place, saw) /\ BoardFitsAt(j, place, saw)'),
         OneAtATime => Housed' /\ Stays(job[w])'
  PROVE  BoardInv'
<1>1. BoardsTyped'
  BY BoardStepTyped DEF BoardInv
<1>2. \A t : ~Telltale(job[w], t)
  BY DEF Telltale
<1>3. \A t \in DOMAIN tasks : t \in DOMAIN tasks' /\ tasks'[t].column = tasks[t].column
  BY DEF BoardRowsRemain
<1> QED BY <1>1, <1>2, <1>3, LogStays, QuietStep

\* A step that only reads.
LEMMA ReadStep ==
  ASSUME BoardInv, NEW w \in Threads, Moves(w), ~Telling(job[w].op, job[w].at),
         UNCHANGED boardTables,
         NEW j, j = job[w], NEW place, NEW saw,
         job'[w] = Free \/ (GoesTo(w, place, saw) /\ BoardFitsAt(j, place, saw)),
         OneAtATime => Stays(job[w])'
  PROVE  BoardInv'
<1>1. BoardRowTypes' /\ BoardRowsRemain /\ BoardRowTypes
  BY DEF BoardInv, BoardsTyped, BoardRowTypes, GrantsOnBoards, LinksOnBoards, RowsOnBoards,
         BoardRowsRemain, boardTables
<1>2. BoardFitsAt(j, place, saw) => BoardFitsAt(j, place, saw)'
  BY <1>1, StillFitsAt
<1>3. OneAtATime => Housed'
  BY DEF BoardInv, Housed, BoardThere, ColumnThere, boardTables
<1> QED BY <1>1, <1>2, <1>3, RowStep DEF boardTables

\* A step that goes where nothing is remembered, or ends.
LEMMA FreeStep ==
  ASSUME BoardInv, NEW w \in Threads, job[w].at # "none", ~Telling(job[w].op, job[w].at),
         UNCHANGED <<log, halted>>, BoardRowTypes', BoardRowsRemain,
         \A t \in DOMAIN tasks : tasks'[t].column = tasks[t].column,
         OneAtATime => Housed',
         NEW place, place # "none", Unbound(job[w].op, place), NEW saw,
         Respond(w) \/ Proceed(w, place) \/ Recall(w, place, saw)
  PROVE  BoardInv'
<1>1. PICK j : j = job[w]
  OBVIOUS
<1>2. BoardsTyped /\ BoardFields(j)
  BY <1>1, BoardServing DEF BoardInv
<1>3. /\ Moves(w)
      /\ \/ job'[w] = Free
         \/ GoesTo(w, place, j.saw)
         \/ GoesTo(w, place, saw)
  BY <1>1, <1>2, BoardGoingOn
<1>4. \A s : BoardFitsAt(j, place, s)'
  BY <1>1, UnboundFits
<1>5. Stays(job[w])'
  <2>1. CASE job'[w] = Free
    BY <2>1, FreeStays
  <2>2. CASE job'[w].at = place /\ job'[w].op = j.op
    BY <1>1, <2>2, UnboundStays
  <2> QED BY <1>1, <1>2, <1>3, <2>1, <2>2 DEF GoesTo, BoardFields
<1> QED BY <1>1, <1>3, <1>4, <1>5, RowStep

\* A step that leaves alone what the theorem is about.
boardCore == <<boards, columns, tasks, log, halted>>
LEMMA PlainStep ==
  ASSUME BoardInv, NEW w \in Threads, job[w].at # "none", ~Telling(job[w].op, job[w].at),
         UNCHANGED boardCore, GrantsOnBoards', LinksOnBoards',
         NEW place, place # "none", Unbound(job[w].op, place), NEW saw,
         Respond(w) \/ Proceed(w, place) \/ Recall(w, place, saw)
  PROVE  BoardInv'
<1>1. BoardRowTypes' /\ BoardRowsRemain /\ \A t \in DOMAIN tasks : tasks'[t].column = tasks[t].column
  BY DEF BoardInv, BoardsTyped, BoardRowTypes, RowsOnBoards, BoardRowsRemain, boardCore
<1>2. OneAtATime => Housed'
  BY DEF BoardInv, Housed, BoardThere, ColumnThere, boardCore
<1> QED BY <1>1, <1>2, FreeStep DEF boardCore

LEMMA AsideStep ==
  ASSUME BoardInv, NEW w \in Threads, job[w].at # "none", ~Telling(job[w].op, job[w].at),
         UNCHANGED <<boardCore, links, boardGrants>>,
         NEW place, place # "none", Unbound(job[w].op, place), NEW saw,
         Respond(w) \/ Proceed(w, place) \/ Recall(w, place, saw)
  PROVE  BoardInv'
<1>1. GrantsOnBoards' /\ LinksOnBoards'
  BY DEF BoardInv, BoardsTyped, BoardRowTypes, GrantsOnBoards, LinksOnBoards, boardCore
<1> QED BY <1>1, PlainStep

-----------------------------------------------------------------------------
(* The boards: step by step *)

LEMMA TakeBoardStep ==
  ASSUME BoardInv, NEW w \in Threads, TakeBoardRequest(w)
  PROVE  BoardInv'
<1> DEFINE R == {r \in calls.requests : NamesBoardRows(r)}
<1>1. UNCHANGED boardTables /\ Accept(w, R)
  BY DEF TakeBoardRequest
<1>2. Plain(calls.requests) /\ BoardsTyped
  BY BoardRequestFields DEF BoardInv, BoardsTyped, Plain
<1>3. /\ Pool' /\ job[w] = Free /\ job'[w].at = "check"
      /\ \A v \in Threads \ {w} : job'[v] = job[v]
      /\ calls'.requests = calls.requests /\ calls'.atOnce = calls.atOnce
  BY <1>1, <1>2, AcceptKeepsPool DEF BoardsTyped
<1>4. BoardRowTypes' /\ BoardRowsRemain
  BY <1>1, <1>2 DEF BoardsTyped, BoardRowTypes, GrantsOnBoards, LinksOnBoards, RowsOnBoards,
                    BoardRowsRemain, boardTables
<1>5. ~Changing(job'[w].op, "check") /\ ~Telling(job'[w].op, "check")
  BY DEF Changing, Telling
<1>6. ASSUME NEW v \in Threads PROVE BoardFits(job[v])'
  <2>1. PICK k : k = job'[v]
    OBVIOUS
  <2>2. CASE v = w
    BY <1>3, <1>5, <2>1, <2>2 DEF BoardFits, BoardFitsAt
  <2>3. CASE v # w
    <3>1. BoardFitsAt(k, k.at, k.saw)
      BY <1>2, <1>3, <2>1, <2>3 DEF BoardsTyped, BoardFits
    <3>2. BoardFitsAt(k, k.at, k.saw)'
      BY <1>2, <1>4, <3>1, StillFitsAt DEF BoardsTyped
    <3> QED BY <2>1, <3>2 DEF BoardFits
  <2> QED BY <2>2, <2>3
<1>7. BoardsTyped'
  BY <1>2, <1>3, <1>4, <1>6 DEF BoardsTyped
<1>8. ASSUME OneAtATime' PROVE Housed' /\ Chained' /\ ToldSoFar' /\ \A v \in Threads : Stays(job[v])'
  <2>1. Housed /\ Chained /\ ToldSoFar /\ \A v \in Threads : Stays(job[v])
    BY <1>3, <1>8 DEF OneAtATime, BoardInv
  <2>2. Housed'
    BY <1>1, <2>1 DEF Housed, BoardThere, ColumnThere, boardTables
  <2>3. SaysTheSame /\ UNCHANGED <<tasks, halted>>
    BY <1>1, LogStays DEF boardTables
  <2>4. Chained'
    BY <1>1, <2>1 DEF Chained, Linked, NextMove, MovesOf, boardTables
  <2>5. \A t : ~Telltale(job[w], t) /\ ~Telltale(job[w], t)'
    BY <1>3, <1>5 DEF Telltale, Telling, Free
  <2>6. \A v \in Threads : \A t : Telltale(job[v], t)' <=> Telltale(job[v], t)
    BY <1>3, <2>5 DEF Telltale
  <2>7. ToldSoFar'
    BY <1>1, <2>1, <2>6 DEF ToldSoFar, ToldUpTo, LastMove, MovesOf, boardTables
  <2>8. Stays(job[w])'
    BY <1>3, <1>5, UnboundStays DEF Unbound
  <2>9. ASSUME NEW v \in Threads \ {w} PROVE Stays(job[v])'
    <3>1. PICK k : k = job[v] /\ k = job'[v]
      BY <1>3
    <3>2. Stays(k)
      BY <2>1, <3>1
    <3>3. UNCHANGED <<boards, columns, tasks, log, halted>>
      BY <1>1 DEF boardTables
    <3>4. Stays(k)'
      BY <3>2, <3>3 DEF Stays, InColumn, TaskThere, ColumnThere, BoardThere, ToldUpTo, LastMove, MovesOf
    <3> QED BY <3>1, <3>4
  <2> QED BY <2>2, <2>4, <2>7, <2>8, <2>9
<1> QED BY <1>7, <1>8 DEF BoardInv

LEMMA BoardRowCount ==
  ASSUME BoardRowTypes
  PROVE  /\ DOMAIN boards = 1 .. Len(boards) /\ DOMAIN columns = 1 .. Len(columns)
         /\ DOMAIN tasks = 1 .. Len(tasks) /\ DOMAIN log = 1 .. Len(log)
         /\ Len(boards) \in Nat /\ Len(columns) \in Nat /\ Len(tasks) \in Nat /\ Len(log) \in Nat
         /\ \A b \in DOMAIN boards : boards[b] \in BoardRows
         /\ \A c \in DOMAIN columns : columns[c] \in ColumnRows
         /\ \A t \in DOMAIN tasks : tasks[t] \in TaskRows
         /\ boards = [b \in DOMAIN boards |-> boards[b]]
         /\ columns = [c \in DOMAIN columns |-> columns[c]]
         /\ tasks = [t \in DOMAIN tasks |-> tasks[t]]
<1>1. /\ boards \in Seq(BoardRows) /\ columns \in Seq(ColumnRows)
      /\ tasks \in Seq(TaskRows) /\ log \in Seq(LogRows)
  BY DEF BoardRowTypes, RowsOnBoards
<1>2. /\ DOMAIN boards = 1 .. Len(boards) /\ Len(boards) \in Nat
      /\ \A b \in DOMAIN boards : boards[b] \in BoardRows
      /\ boards = [b \in DOMAIN boards |-> boards[b]]
  BY <1>1, Elements
<1>3. /\ DOMAIN columns = 1 .. Len(columns) /\ Len(columns) \in Nat
      /\ \A c \in DOMAIN columns : columns[c] \in ColumnRows
      /\ columns = [c \in DOMAIN columns |-> columns[c]]
  BY <1>1, Elements
<1>4. /\ DOMAIN tasks = 1 .. Len(tasks) /\ Len(tasks) \in Nat
      /\ \A t \in DOMAIN tasks : tasks[t] \in TaskRows
      /\ tasks = [t \in DOMAIN tasks |-> tasks[t]]
  BY <1>1, Elements
<1>5. DOMAIN log = 1 .. Len(log) /\ Len(log) \in Nat
  BY <1>1, Elements
<1> QED BY <1>2, <1>3, <1>4, <1>5

\* More boards and columns: where a task lies is still there.
LEMMA HousedAmongMore ==
  ASSUME BoardRowTypes, UNCHANGED tasks, Housed,
         \A b \in DOMAIN boards : b \in DOMAIN boards' /\ boards'[b] = boards[b],
         \A c \in DOMAIN columns : c \in DOMAIN columns' /\ columns'[c] = columns[c]
  PROVE  Housed'
<1> SUFFICES ASSUME NEW t \in DOMAIN tasks, tasks[t].here, BoardThere(tasks[t].board)'
             PROVE  ColumnThere(tasks[t].column)'
  BY DEF Housed
<1> DEFINE c == tasks[t].column
<1>1. /\ c \in DOMAIN columns /\ columns[c].board = tasks[t].board
      /\ tasks[t].board \in DOMAIN boards
  BY DEF BoardRowTypes, RowsOnBoards
<1>2. BoardThere(tasks[t].board)
  BY <1>1 DEF BoardThere
<1>3. ColumnThere(c)
  BY <1>2 DEF Housed
<1> QED BY <1>1, <1>2, <1>3 DEF ColumnThere, BoardThere

LEMMA CreateBoardStep ==
  ASSUME BoardInv, NEW w \in Threads, CreateBoard(w)
  PROVE  BoardInv'
<1> DEFINE row == [by |-> job[w].by, here |-> TRUE]
<1> DEFINE saw == [board |-> Len(boards) + 1, left |-> 3]
<1>1. /\ job[w].op = "board" /\ job[w].at = "write"
      /\ boards' = Append(boards, row) /\ Recall(w, "columns", saw)
      /\ UNCHANGED <<columns, tasks, links, boardGrants, log, halted>>
  BY DEF CreateBoard, At
<1>2. BoardsTyped /\ BoardRowTypes /\ BoardFields(job[w])
  BY <1>1, BoardServing DEF BoardInv, BoardsTyped
<1>3. row \in BoardRows
  BY <1>2 DEF BoardFields, BoardRows
<1> HIDE DEF row, saw
<1>4. /\ boards' \in Seq(BoardRows)
      /\ \A b \in DOMAIN boards : b \in DOMAIN boards' /\ boards'[b] = boards[b]
  <2>1. boards \in Seq(BoardRows)
    BY <1>2 DEF BoardRowTypes, RowsOnBoards
  <2> QED BY <1>1, <1>3, <2>1, OneMore
<1>5. BoardRowTypes' /\ BoardRowsRemain
  BY <1>1, <1>2, <1>4 DEF BoardRowTypes, GrantsOnBoards, LinksOnBoards, RowsOnBoards, BoardRowsRemain
<1>6. OneAtATime => Housed'
  BY <1>1, <1>2, <1>4, HousedAmongMore DEF BoardInv
<1>7. Unbound(job[w].op, "columns") /\ ~Telling(job[w].op, job[w].at)
  BY <1>1 DEF Unbound, Changing, Telling
<1> QED BY <1>1, <1>5, <1>6, <1>7, FreeStep

LEMMA AnotherColumn ==
  ASSUME BoardRowTypes, NEW b, BoardThere(b), columns' = Append(columns, [board |-> b, here |-> TRUE]),
         UNCHANGED <<boards, tasks, links, boardGrants, log>>
  PROVE  BoardRowTypes' /\ BoardRowsRemain /\ (Housed => Housed')
<1> DEFINE row == [board |-> b, here |-> TRUE]
<1>1. b \in DOMAIN boards /\ row \in ColumnRows
  BY BoardRowCount DEF BoardThere, ColumnRows
<1>2. row.board = b
  OBVIOUS
<1> HIDE DEF row
<1>3. columns \in Seq(ColumnRows) /\ columns' = Append(columns, row)
  BY DEF BoardRowTypes, RowsOnBoards, row
<1>4. /\ columns' \in Seq(ColumnRows)
      /\ DOMAIN columns' = DOMAIN columns \cup {Len(columns) + 1}
      /\ \A c \in DOMAIN columns : columns'[c] = columns[c]
      /\ columns'[Len(columns) + 1] = row
  BY <1>1, <1>3, OneMore
<1>5. BoardRowTypes' /\ BoardRowsRemain
  BY <1>1, <1>2, <1>4 DEF BoardRowTypes, GrantsOnBoards, LinksOnBoards, RowsOnBoards, BoardRowsRemain
<1>6. Housed => Housed'
  BY <1>4, HousedAmongMore
<1> QED BY <1>5, <1>6

LEMMA CreateDefaultColumnStep ==
  ASSUME BoardInv, NEW w \in Threads, CreateDefaultColumn(w)
  PROVE  BoardInv'
<1> DEFINE b == job[w].saw.board
<1>1. /\ job[w].op = "board" /\ job[w].at = "columns"
      /\ UNCHANGED <<boards, tasks, links, boardGrants, log, halted>>
      /\ \/ /\ BoardThere(b) /\ columns' = Append(columns, [board |-> b, here |-> TRUE])
            /\ Respond(w) \/ \E saw : Recall(w, "columns", saw)
         \/ Respond(w) /\ UNCHANGED columns
  BY DEF CreateDefaultColumn, At
<1>2. PICK saw : Respond(w) \/ Recall(w, "columns", saw)
  BY <1>1
<1>3. BoardRowTypes
  BY DEF BoardInv, BoardsTyped
<1>4. Unbound(job[w].op, "columns") /\ ~Telling(job[w].op, job[w].at)
  BY <1>1 DEF Unbound, Changing, Telling
<1>5. CASE UNCHANGED columns
  BY <1>1, <1>2, <1>4, <1>5, AsideStep DEF boardCore
<1>6. CASE BoardThere(b) /\ columns' = Append(columns, [board |-> b, here |-> TRUE])
  <2>1. BoardRowTypes' /\ BoardRowsRemain /\ (Housed => Housed')
    BY <1>1, <1>3, <1>6, AnotherColumn
  <2>2. OneAtATime => Housed'
    BY <2>1 DEF BoardInv
  <2> QED BY <1>1, <1>2, <1>4, <2>1, <2>2, FreeStep
<1> QED BY <1>1, <1>5, <1>6

LEMMA CreateColumnStep ==
  ASSUME BoardInv, NEW w \in Threads, CreateColumn(w)
  PROVE  BoardInv'
<1> DEFINE b == job[w].board
<1>1. /\ job[w].op = "column" /\ job[w].at = "write" /\ Respond(w)
      /\ UNCHANGED <<boards, tasks, links, boardGrants, log, halted>>
      /\ \/ BoardThere(b) /\ columns' = Append(columns, [board |-> b, here |-> TRUE])
         \/ UNCHANGED columns
  BY DEF CreateColumn, At
<1>2. BoardRowTypes
  BY DEF BoardInv, BoardsTyped
<1>3. Unbound(job[w].op, "columns") /\ ~Telling(job[w].op, job[w].at)
  BY <1>1 DEF Unbound, Changing, Telling
<1>4. CASE UNCHANGED columns
  BY <1>1, <1>3, <1>4, AsideStep DEF boardCore
<1>5. CASE BoardThere(b) /\ columns' = Append(columns, [board |-> b, here |-> TRUE])
  <2>1. BoardRowTypes' /\ BoardRowsRemain /\ (Housed => Housed')
    BY <1>1, <1>2, <1>5, AnotherColumn
  <2>2. OneAtATime => Housed'
    BY <2>1 DEF BoardInv
  <2> QED BY <1>1, <1>3, <2>1, <2>2, FreeStep
<1> QED BY <1>1, <1>4, <1>5

\* Who is deleted is only marked so.
Markable(T) ==
  /\ \A r \in T : [r EXCEPT !.here = FALSE] \in T
  /\ \A r \in T : r = [f \in DOMAIN r |-> r[f]] /\ "here" \in DOMAIN r

MarkedIn(rows, d, k) ==
  /\ DOMAIN d = DOMAIN rows
  /\ \A i \in DOMAIN rows : \A f \in DOMAIN rows[i] \ {"here"} : d[i][f] = rows[i][f]
  /\ \A i \in DOMAIN rows : i # k => d[i] = rows[i]
  /\ \A i \in DOMAIN rows : i = k => d[i].here = FALSE

LEMMA Marked ==
  ASSUME NEW T, Markable(T), NEW rows \in Seq(T), NEW k, NEW d, d = Delete(rows, k)
  PROVE  d \in Seq(T) /\ MarkedIn(rows, d, k)
<1>1. d = [i \in DOMAIN rows |-> IF i = k THEN [rows[i] EXCEPT !.here = FALSE] ELSE rows[i]]
  BY DEF Delete
<1>2. \A i \in DOMAIN rows : rows[i] \in T
  BY Elements
<1>3. DOMAIN d = DOMAIN rows /\ d = [i \in DOMAIN rows |-> d[i]]
  BY <1>1
<1>4. ASSUME NEW i \in DOMAIN rows
      PROVE  /\ d[i] \in T
             /\ \A f \in DOMAIN rows[i] \ {"here"} : d[i][f] = rows[i][f]
             /\ i # k => d[i] = rows[i]
             /\ i = k => d[i].here = FALSE
  <2>1. rows[i] \in T
    BY <1>2
  <2>2. PICK r \in T : r = rows[i]
    BY <2>1
  <2>3. d[i] = IF i = k THEN [r EXCEPT !.here = FALSE] ELSE r
    BY <1>1, <2>2
  <2> QED BY <2>2, <2>3 DEF Markable
<1>5. d \in Seq(T)
  BY <1>3, <1>4, Rewritten
<1> QED BY <1>3, <1>4, <1>5 DEF MarkedIn

-----------------------------------------------------------------------------
(* The boards: checks and writes beside the tasks *)

LEMMA AsideExamined ==
  ASSUME BoardInv, NEW w \in Threads, job[w].at = "check", Unbound(job[w].op, "write"),
         NEW refused, Examine(w, refused, "write")
  PROVE  BoardInv'
<1>1. (Respond(w) \/ Proceed(w, "write")) /\ UNCHANGED <<boardCore, links, boardGrants>>
  BY DEF Examine, Unless, boardTables, boardCore
<1>2. ~Telling(job[w].op, job[w].at)
  BY DEF Telling
<1> QED BY <1>1, <1>2, AsideStep

LEMMA AsideWritten ==
  ASSUME BoardInv, NEW w \in Threads, job[w].at = "write",
         job[w].op \in {"item", "update item", "delete item", "delete checklist", "label", "delete label"},
         Respond(w), UNCHANGED <<boardCore, links, boardGrants>>
  PROVE  BoardInv'
<1>1. Unbound(job[w].op, "end") /\ ~Telling(job[w].op, job[w].at)
  BY DEF Unbound, Changing, Telling
<1> QED BY <1>1, AsideStep

LEMMA BoardChecks ==
  ASSUME BoardInv, NEW w \in Threads,
         \/ CheckBoard(w) \/ CheckDeleteBoard(w) \/ CheckColumn(w)
         \/ CheckDeleteTask(w) \/ CheckChecklist(w) \/ CheckDeleteChecklist(w)
         \/ CheckAddItem(w) \/ CheckUpdateItem(w) \/ CheckDeleteItem(w)
         \/ CheckLabel(w) \/ CheckDeleteLabel(w) \/ CheckUndepend(w)
         \/ CheckBoardGrant(w) \/ CheckBoardUngrant(w)
  PROVE  BoardInv'
<1> DEFINE aside == {"board", "delete board", "column", "delete task", "checklist", "delete checklist",
                     "item", "update item", "delete item", "label", "delete label", "undepend",
                     "grant", "ungrant"}
<1>1. job[w].at = "check" /\ job[w].op \in aside /\ \E refused : Examine(w, refused, "write")
  <2>1. CASE CheckBoard(w) \/ CheckDeleteBoard(w) \/ CheckColumn(w) \/ CheckDeleteTask(w)
    BY <2>1 DEF CheckBoard, CheckDeleteBoard, CheckColumn, CheckDeleteTask, At
  <2>2. CASE CheckChecklist(w) \/ CheckDeleteChecklist(w) \/ CheckAddItem(w) \/ CheckUpdateItem(w)
    BY <2>2 DEF CheckChecklist, CheckDeleteChecklist, CheckAddItem, CheckUpdateItem, At
  <2>3. CASE CheckDeleteItem(w) \/ CheckLabel(w) \/ CheckDeleteLabel(w)
    BY <2>3 DEF CheckDeleteItem, CheckLabel, CheckDeleteLabel, At
  <2>4. CASE CheckUndepend(w) \/ CheckBoardGrant(w) \/ CheckBoardUngrant(w)
    BY <2>4 DEF CheckUndepend, CheckBoardGrant, CheckBoardUngrant, At
  <2> QED BY <2>1, <2>2, <2>3, <2>4
<1>2. Unbound(job[w].op, "write")
  BY <1>1 DEF Unbound, Changing, Telling
<1> QED BY <1>1, <1>2, AsideExamined

LEMMA BoardWrites ==
  ASSUME BoardInv, NEW w \in Threads,
         \/ DeleteChecklist(w) \/ AddItem(w) \/ UpdateItem(w) \/ DeleteItem(w)
         \/ CreateLabel(w) \/ DeleteLabel(w)
  PROVE  BoardInv'
<1>1. /\ job[w].at = "write" /\ Respond(w) /\ UNCHANGED <<boardCore, links, boardGrants>>
      /\ job[w].op \in {"item", "update item", "delete item", "delete checklist", "label", "delete label"}
  <2>1. CASE DeleteChecklist(w) \/ AddItem(w) \/ UpdateItem(w)
    BY <2>1 DEF DeleteChecklist, AddItem, UpdateItem, At, boardCore
  <2>2. CASE DeleteItem(w) \/ CreateLabel(w) \/ DeleteLabel(w)
    BY <2>2 DEF DeleteItem, CreateLabel, DeleteLabel, At, boardCore
  <2> QED BY <2>1, <2>2
<1> QED BY <1>1, AsideWritten

LEMMA CheckReorderStep ==
  ASSUME BoardInv, NEW w \in Threads, CheckReorder(w)
  PROVE  BoardInv'
<1> DEFINE start == [next |-> 1]
<1>1. /\ job[w].at = "check" /\ job[w].op = "reorder" /\ UNCHANGED <<boardCore, links, boardGrants>>
      /\ Respond(w) \/ Recall(w, "item", start)
  BY DEF CheckReorder, At, boardTables, boardCore
<1>2. Unbound(job[w].op, "item") /\ ~Telling(job[w].op, job[w].at)
  BY <1>1 DEF Unbound, Changing, Telling
<1> HIDE DEF start
<1> QED BY <1>1, <1>2, AsideStep

LEMMA CreateChecklistStep ==
  ASSUME BoardInv, NEW w \in Threads, CreateChecklist(w)
  PROVE  BoardInv'
<1>1. /\ job[w].at = "write" /\ job[w].op = "checklist" /\ UNCHANGED <<boardCore, links, boardGrants>>
      /\ Respond(w) \/ Proceed(w, "note")
  BY DEF CreateChecklist, At, boardCore
<1>2. Unbound(job[w].op, "note") /\ ~Telling(job[w].op, job[w].at)
  BY <1>1 DEF Unbound, Changing, Telling
<1> QED BY <1>1, <1>2, AsideStep

LEMMA AddDependencyStep ==
  ASSUME BoardInv, NEW w \in Threads, AddDependency(w)
  PROVE  BoardInv'
<1> DEFINE p == <<job[w].task, job[w].on>>
<1>1. /\ job[w].op = "depend" /\ job[w].at = "write" /\ UNCHANGED <<boardCore, boardGrants>>
      /\ Respond(w) \/ Proceed(w, "note")
      /\ links' = links \/ links' = links \cup {p}
  BY DEF AddDependency, At, boardCore
<1>2. BoardsTyped /\ BoardFits(job[w])
  BY <1>1, BoardServing DEF BoardInv
<1>3. /\ p[1] \in DOMAIN tasks /\ p[2] \in DOMAIN tasks /\ tasks[p[1]].board = tasks[p[2]].board
      /\ p \in (DOMAIN tasks) \X (DOMAIN tasks)
  BY <1>1, <1>2 DEF BoardFits, BoardFitsAt
<1>4. LinksOnBoards /\ GrantsOnBoards
  BY <1>2 DEF BoardsTyped, BoardRowTypes
<1> HIDE DEF p
<1>5. LinksOnBoards' /\ GrantsOnBoards'
  BY <1>1, <1>3, <1>4 DEF LinksOnBoards, GrantsOnBoards, boardCore
<1>6. Unbound(job[w].op, "note") /\ ~Telling(job[w].op, job[w].at)
  BY <1>1 DEF Unbound, Changing, Telling
<1> QED BY <1>1, <1>5, <1>6, PlainStep

LEMMA RemoveDependencyStep ==
  ASSUME BoardInv, NEW w \in Threads, RemoveDependency(w)
  PROVE  BoardInv'
<1>1. /\ job[w].op = "undepend" /\ job[w].at = "write" /\ UNCHANGED <<boardCore, boardGrants>>
      /\ Respond(w) /\ links' \subseteq links
  BY DEF RemoveDependency, At, boardCore
<1>2. LinksOnBoards' /\ GrantsOnBoards'
  BY <1>1 DEF BoardInv, BoardsTyped, BoardRowTypes, LinksOnBoards, GrantsOnBoards, boardCore
<1>3. Unbound(job[w].op, "end") /\ ~Telling(job[w].op, job[w].at)
  BY <1>1 DEF Unbound, Changing, Telling
<1> QED BY <1>1, <1>2, <1>3, PlainStep

LEMMA BoardGrantSteps ==
  ASSUME BoardInv, NEW w \in Threads, SetBoardGrant(w) \/ RemoveBoardGrant(w)
  PROVE  BoardInv'
<1>1. /\ job[w].op \in {"grant", "ungrant"} /\ job[w].at = "write" /\ UNCHANGED <<boardCore, links>>
      /\ Respond(w)
      /\ \/ job[w].op = "grant" /\ boardGrants' = [boardGrants EXCEPT ![job[w].of] = job[w].level]
         \/ boardGrants' = [boardGrants EXCEPT ![job[w].of] = "view"]
  BY DEF SetBoardGrant, RemoveBoardGrant, At, boardCore
<1>2. BoardsTyped /\ BoardFields(job[w])
  BY <1>1, BoardServing DEF BoardInv
<1>3. job[w].of \in Staff /\ (job[w].op = "grant" => job[w].level \in DOMAIN Grades)
  BY <1>1, <1>2 DEF BoardFields
<1>4. "view" \in DOMAIN Grades
  BY DEF Grades
<1>5. GrantsOnBoards /\ LinksOnBoards
  BY <1>2 DEF BoardsTyped, BoardRowTypes
<1>6. GrantsOnBoards'
  BY <1>1, <1>3, <1>4, <1>5 DEF GrantsOnBoards
<1>7. LinksOnBoards'
  BY <1>1, <1>5 DEF LinksOnBoards, boardCore
<1>8. Unbound(job[w].op, "end") /\ ~Telling(job[w].op, job[w].at)
  BY <1>1 DEF Unbound, Changing, Telling
<1> QED BY <1>1, <1>6, <1>7, <1>8, PlainStep

-----------------------------------------------------------------------------
(* The boards: what is deleted, and what is checked before *)

LEMMA DeleteBoardStep ==
  ASSUME BoardInv, NEW w \in Threads, DeleteBoard(w)
  PROVE  BoardInv'
<1> DEFINE k == job[w].board
<1>0. job[w].op = "delete board" /\ job[w].at = "write"
  BY DEF DeleteBoard, At
<1>1. boards' = Delete(boards, k) /\ Respond(w) /\ UNCHANGED <<columns, tasks, links, boardGrants, log, halted>>
  BY DEF DeleteBoard
<1> HIDE DEF k
<1>2. BoardRowTypes
  BY DEF BoardInv, BoardsTyped
<1>3. boards \in Seq(BoardRows)
  BY <1>2 DEF BoardRowTypes, RowsOnBoards
<1>4. Markable(BoardRows)
  BY DEF Markable, BoardRows
<1>5. /\ boards' \in Seq(BoardRows) /\ DOMAIN boards' = DOMAIN boards
      /\ \A b \in DOMAIN boards : b # k => boards'[b] = boards[b]
      /\ \A b \in DOMAIN boards : b = k => boards'[b].here = FALSE
  <2>1. boards' = Delete(boards, k)
    BY <1>1
  <2>2. boards' \in Seq(BoardRows) /\ MarkedIn(boards, boards', k)
    BY <2>1, <1>3, <1>4, Marked
  <2> QED BY <2>2 DEF MarkedIn
<1>6. BoardRowTypes' /\ BoardRowsRemain
  BY <1>1, <1>2, <1>5 DEF BoardRowTypes, GrantsOnBoards, LinksOnBoards, RowsOnBoards, BoardRowsRemain
<1>7. ASSUME Housed PROVE Housed'
  <2> SUFFICES ASSUME NEW t \in DOMAIN tasks, tasks[t].here, BoardThere(tasks[t].board)'
               PROVE  ColumnThere(tasks[t].column)'
    BY <1>1 DEF Housed
  <2>1. columns[tasks[t].column].board = tasks[t].board
    BY <1>2 DEF BoardRowTypes, RowsOnBoards
  <2>2. BoardThere(tasks[t].board)
    BY <1>1, <1>5 DEF BoardThere
  <2>3. ColumnThere(tasks[t].column)
    BY <1>7, <2>2 DEF Housed
  <2> QED BY <1>1, <2>1, <2>3 DEF ColumnThere
<1>8. Unbound(job[w].op, "end") /\ ~Telling(job[w].op, job[w].at)
  BY <1>0 DEF Unbound, Changing, Telling
<1>9. OneAtATime => Housed'
  BY <1>7 DEF BoardInv
<1> QED BY <1>0, <1>1, <1>6, <1>8, <1>9, FreeStep

LEMMA DeleteColumnStep ==
  ASSUME BoardInv, NEW w \in Threads, DeleteColumn(w)
  PROVE  BoardInv'
<1> DEFINE k == job[w].column
<1>0. job[w].op = "delete column" /\ job[w].at = "write"
  BY DEF DeleteColumn, At
<1>1. columns' = Delete(columns, k) /\ Respond(w) /\ UNCHANGED <<boards, tasks, links, boardGrants, log, halted>>
  BY DEF DeleteColumn
<1>2. BoardRowTypes
  BY DEF BoardInv, BoardsTyped
<1>3. OneAtATime => InColumn(k) = {}
  BY <1>0 DEF BoardInv, Stays
<1> HIDE DEF k
<1>4. columns \in Seq(ColumnRows)
  BY <1>2 DEF BoardRowTypes, RowsOnBoards
<1>5. Markable(ColumnRows) /\ \A r \in ColumnRows : DOMAIN r = {"board", "here"}
  BY DEF Markable, ColumnRows
<1>6. /\ columns' \in Seq(ColumnRows) /\ DOMAIN columns' = DOMAIN columns
      /\ \A c \in DOMAIN columns : c # k => columns'[c] = columns[c]
      /\ \A c \in DOMAIN columns : \A f \in DOMAIN columns[c] \ {"here"} : columns'[c][f] = columns[c][f]
  <2>1. columns' = Delete(columns, k)
    BY <1>1
  <2>2. columns' \in Seq(ColumnRows) /\ MarkedIn(columns, columns', k)
    BY <2>1, <1>4, <1>5, Marked
  <2> QED BY <2>2 DEF MarkedIn
<1>7. \A c \in DOMAIN columns : columns'[c].board = columns[c].board
  BY <1>2, <1>5, <1>6, BoardRowCount
<1>8. BoardRowTypes' /\ BoardRowsRemain
  BY <1>1, <1>2, <1>6, <1>7 DEF BoardRowTypes, GrantsOnBoards, LinksOnBoards, RowsOnBoards, BoardRowsRemain
<1>9. ASSUME OneAtATime PROVE Housed'
  <2> SUFFICES ASSUME NEW t \in DOMAIN tasks, tasks[t].here, BoardThere(tasks[t].board)
               PROVE  ColumnThere(tasks[t].column)'
    BY <1>1 DEF Housed, BoardThere
  <2>1. ColumnThere(tasks[t].column)
    BY <1>9 DEF BoardInv, Housed
  <2>2. TaskThere(t)
    BY <2>1 DEF TaskThere
  <2>3. tasks[t].column # k
    BY <1>3, <1>9, <2>2 DEF InColumn
  <2> QED BY <1>1, <1>6, <2>1, <2>3 DEF ColumnThere, BoardThere
<1>10. Unbound(job[w].op, "end") /\ ~Telling(job[w].op, job[w].at)
  BY <1>0 DEF Unbound, Changing, Telling
<1> QED BY <1>0, <1>1, <1>8, <1>9, <1>10, FreeStep

LEMMA DeleteTaskStep ==
  ASSUME BoardInv, NEW w \in Threads, DeleteTask(w)
  PROVE  BoardInv'
<1> DEFINE k == job[w].task
<1>0. job[w].op = "delete task" /\ job[w].at = "write"
  BY DEF DeleteTask, At
<1>1. tasks' = Delete(tasks, k) /\ Respond(w) /\ UNCHANGED <<boards, columns, links, boardGrants, log, halted>>
  BY DEF DeleteTask
<1> HIDE DEF k
<1>2. BoardRowTypes
  BY DEF BoardInv, BoardsTyped
<1>3. tasks \in Seq(TaskRows)
  BY <1>2 DEF BoardRowTypes, RowsOnBoards
<1>4. Markable(TaskRows) /\ \A r \in TaskRows : DOMAIN r = {"board", "column", "title", "by", "here"}
  BY DEF Markable, TaskRows
<1>5. /\ tasks' \in Seq(TaskRows) /\ DOMAIN tasks' = DOMAIN tasks
      /\ \A t \in DOMAIN tasks : t # k => tasks'[t] = tasks[t]
      /\ \A t \in DOMAIN tasks : t = k => tasks'[t].here = FALSE
      /\ \A t \in DOMAIN tasks : \A f \in DOMAIN tasks[t] \ {"here"} : tasks'[t][f] = tasks[t][f]
  <2>1. tasks' = Delete(tasks, k)
    BY <1>1
  <2>2. tasks' \in Seq(TaskRows) /\ MarkedIn(tasks, tasks', k)
    BY <2>1, <1>3, <1>4, Marked
  <2> QED BY <2>2 DEF MarkedIn
<1>6. \A t \in DOMAIN tasks : tasks'[t].board = tasks[t].board /\ tasks'[t].column = tasks[t].column
  BY <1>2, <1>4, <1>5, BoardRowCount
<1>7. BoardRowTypes' /\ BoardRowsRemain
  <2>1. tasks' \in Seq(TaskRows) /\ DOMAIN tasks' = DOMAIN tasks
    BY <1>5
  <2>2. GrantsOnBoards' /\ LinksOnBoards'
    BY <1>1, <1>2, <1>6, <2>1 DEF BoardRowTypes, GrantsOnBoards, LinksOnBoards
  <2>3. RowsOnBoards'
    BY <1>1, <1>2, <1>6, <2>1 DEF BoardRowTypes, RowsOnBoards
  <2>4. BoardRowsRemain
    BY <1>1, <1>6, <2>1 DEF BoardRowsRemain
  <2> QED BY <2>2, <2>3, <2>4 DEF BoardRowTypes
<1>8. Housed => Housed'
  BY <1>1, <1>5 DEF Housed, ColumnThere, BoardThere
<1>9. Unbound(job[w].op, "end") /\ ~Telling(job[w].op, job[w].at)
  BY <1>0 DEF Unbound, Changing, Telling
<1>10. OneAtATime => Housed'
  BY <1>8 DEF BoardInv
<1> QED BY <1>0, <1>1, <1>6, <1>7, <1>9, <1>10, FreeStep

LEMMA CheckDeleteColumnStep ==
  ASSUME BoardInv, NEW w \in Threads, CheckDeleteColumn(w)
  PROVE  BoardInv'
<1>1. PICK j : j = job[w]
  OBVIOUS
<1>2. /\ j.op = "delete column" /\ j.at = "check" /\ UNCHANGED boardTables
      /\ Respond(w) \/ (Proceed(w, "write") /\ InColumn(j.column) = {})
  BY <1>1 DEF CheckDeleteColumn, Examine, Unless, At
<1>3. BoardsTyped /\ BoardFields(j) /\ "column" \in DOMAIN j
  BY <1>1, <1>2, BoardServing DEF BoardInv, BoardFields
<1>4. /\ Moves(w)
      /\ job'[w] = Free \/ (GoesTo(w, "write", j.saw) /\ InColumn(j.column) = {})
  BY <1>1, <1>2, <1>3, BoardGoingOn
<1>5. \A s : BoardFitsAt(j, "write", s)
  BY <1>2 DEF BoardFitsAt, Changing, Telling
<1>6. Stays(job[w])'
  <2>1. CASE job'[w] = Free
    BY <2>1, FreeStays
  <2>2. CASE GoesTo(w, "write", j.saw) /\ InColumn(j.column) = {}
    <3>1. PICK k : k = job'[w]
      OBVIOUS
    <3>2. k.op = "delete column" /\ k.at = "write" /\ k.column = j.column
      BY <1>1, <1>2, <1>3, <2>2, <3>1 DEF GoesTo, BoardFields
    <3>3. InColumn(k.column)' = {}
      BY <1>2, <2>2, <3>2 DEF InColumn, TaskThere, ColumnThere, BoardThere, boardTables
    <3>4. Stays(k)'
      BY <3>2, <3>3 DEF Stays, Changing, Telling
    <3> QED BY <3>1, <3>4
  <2> QED BY <1>4, <2>1, <2>2
<1>7. ~Telling(j.op, j.at)
  BY <1>2 DEF Telling
<1> QED BY <1>1, <1>2, <1>4, <1>5, <1>6, <1>7, ReadStep

LEMMA CheckTaskStep ==
  ASSUME BoardInv, NEW w \in Threads, CheckTask(w)
  PROVE  BoardInv'
<1>1. PICK j : j = job[w]
  OBVIOUS
<1>2. /\ j.op = "task" /\ j.at = "check" /\ UNCHANGED boardTables
      /\ \/ Respond(w)
         \/ Proceed(w, "insert") /\ ColumnThere(j.column) /\ columns[j.column].board = j.board
  BY <1>1 DEF CheckTask, Examine, Unless, At
<1>3. BoardsTyped /\ BoardFields(j)
  BY <1>1, <1>2, BoardServing DEF BoardInv
<1>4. BoardFitsAt(j, "insert", j.saw) \/ Respond(w)
  BY <1>2 DEF BoardFitsAt, Changing, Telling, ColumnThere
<1>5. /\ Moves(w)
      /\ job'[w] = Free \/ (GoesTo(w, "insert", j.saw) /\ BoardFitsAt(j, "insert", j.saw))
  BY <1>1, <1>2, <1>3, <1>4, BoardGoingOn
<1>6. Stays(job[w])'
  <2>1. CASE job'[w] = Free
    BY <2>1, FreeStays
  <2>2. CASE GoesTo(w, "insert", j.saw)
    <3>1. job'[w].op = "task" /\ job'[w].at = "insert"
      BY <1>1, <1>2, <1>3, <2>2 DEF GoesTo, BoardFields
    <3>2. PICK k : k = job'[w]
      OBVIOUS
    <3>3. Stays(k)'
      BY <3>1, <3>2 DEF Stays, Changing
    <3> QED BY <3>2, <3>3
  <2> QED BY <1>5, <2>1, <2>2
<1>7. ~Telling(j.op, j.at)
  BY <1>2 DEF Telling
<1> QED BY <1>1, <1>2, <1>5, <1>6, <1>7, ReadStep

LEMMA CheckDependStep ==
  ASSUME BoardInv, NEW w \in Threads, CheckDepend(w)
  PROVE  BoardInv'
<1>1. PICK j : j = job[w]
  OBVIOUS
<1>2. /\ j.op = "depend" /\ j.at = "check" /\ UNCHANGED boardTables
      /\ \/ Respond(w)
         \/ Proceed(w, "write") /\ OnBoard(j.task, j.board) /\ OnBoard(j.on, j.board)
  BY <1>1 DEF CheckDepend, Examine, Unless, At
<1>3. BoardsTyped /\ BoardFields(j)
  BY <1>1, <1>2, BoardServing DEF BoardInv
<1>4. BoardFitsAt(j, "write", j.saw) \/ Respond(w)
  BY <1>2 DEF BoardFitsAt, Changing, Telling, OnBoard, TaskThere
<1>5. /\ Moves(w)
      /\ job'[w] = Free \/ (GoesTo(w, "write", j.saw) /\ BoardFitsAt(j, "write", j.saw))
  BY <1>1, <1>2, <1>3, <1>4, BoardGoingOn
<1>6. Stays(job[w])'
  <2>1. CASE job'[w] = Free
    BY <2>1, FreeStays
  <2>2. CASE GoesTo(w, "write", j.saw)
    <3>1. job'[w].op = "depend" /\ job'[w].at = "write"
      BY <1>1, <1>2, <1>3, <2>2 DEF GoesTo, BoardFields
    <3>2. PICK k : k = job'[w]
      OBVIOUS
    <3>3. Stays(k)'
      BY <3>1, <3>2 DEF Stays, Changing, Telling
    <3> QED BY <3>2, <3>3
  <2> QED BY <1>5, <2>1, <2>2
<1>7. ~Telling(j.op, j.at)
  BY <1>2 DEF Telling
<1> QED BY <1>1, <1>2, <1>5, <1>6, <1>7, ReadStep

\* A handler has read a task and is about to change it.
LEMMA ReadToChange ==
  ASSUME BoardInv, NEW w \in Threads, UNCHANGED boardTables, ~Telling(job[w].op, job[w].at),
         NEW place, Changing(job[w].op, place), NEW s, ChangeFits(s),
         s.from = tasks[s.task].column, job[w].at # "none", Recall(w, place, s)
  PROVE  BoardInv'
<1>1. PICK j : j = job[w]
  OBVIOUS
<1>2. place # "none" /\ BoardsTyped /\ BoardFields(j)
  BY <1>1, BoardServing DEF BoardInv, Changing
<1>3. Moves(w) /\ GoesTo(w, place, s)
  BY <1>1, <1>2, BoardGoingOn
<1>4. BoardFitsAt(j, place, s)
  BY <1>1 DEF BoardFitsAt, Changing, Telling
<1>5. Stays(job[w])'
  <2>1. PICK k : k = job'[w]
    OBVIOUS
  <2>2. k.op = j.op /\ k.at = place /\ k.saw = s
    BY <1>1, <1>2, <1>3, <2>1 DEF GoesTo, BoardFields
  <2>3. UNCHANGED tasks
    BY DEF boardTables
  <2>4. Stays(k)'
    BY <1>1, <2>2, <2>3 DEF Stays, Changing, Telling
  <2> QED BY <2>1, <2>4
<1> QED BY <1>1, <1>3, <1>4, <1>5, ReadStep

LEMMA CheckEditStep ==
  ASSUME BoardInv, NEW w \in Threads, CheckEdit(w)
  PROVE  BoardInv'
<1> DEFINE t == job[w].task
<1> DEFINE to == IF job[w].column = 0 THEN tasks[t].column ELSE job[w].column
<1> DEFINE title == IF job[w].title = "" THEN tasks[t].title ELSE job[w].title
<1> DEFINE changed == job[w].title \notin {"", tasks[t].title}
<1> DEFINE s == [task |-> t, from |-> tasks[t].column, to |-> to, title |-> title,
                 changed |-> changed, people |-> {}, tags |-> {}]
<1>1. job[w].op = "edit" /\ job[w].at = "check"
  BY DEF CheckEdit, At
<1>2. /\ UNCHANGED boardTables
      /\ \/ Respond(w)
         \/ /\ Recall(w, "update", s) /\ TaskThere(t) /\ tasks[t].board = job[w].board
            /\ to = tasks[t].column \/ (ColumnThere(to) /\ columns[to].board = job[w].board)
  BY DEF CheckEdit
<1>3. BoardRowTypes /\ job[w].title \in STRING
  BY <1>1, BoardServing DEF BoardInv, BoardsTyped, BoardFields
<1>4. ~Telling(job[w].op, job[w].at) /\ Changing(job[w].op, "update") /\ Unbound(job[w].op, "end")
  BY <1>1 DEF Telling, Changing, Unbound
<1>5. CASE Respond(w)
  BY <1>1, <1>2, <1>4, <1>5, AsideStep DEF boardTables, boardCore
<1>6. CASE /\ Recall(w, "update", s) /\ TaskThere(t) /\ tasks[t].board = job[w].board
           /\ to = tasks[t].column \/ (ColumnThere(to) /\ columns[to].board = job[w].board)
  <2>1. t \in DOMAIN tasks /\ tasks[t] \in TaskRows
    BY <1>3, <1>6, BoardRowCount DEF TaskThere
  <2>2. title \in STRING /\ tasks[t].column \in Nat
    BY <1>3, <2>1 DEF TaskRows
  <2>3. to \in DOMAIN columns /\ columns[to].board = tasks[t].board
    BY <1>3, <1>6, <2>1 DEF BoardRowTypes, RowsOnBoards, ColumnThere
  <2> HIDE DEF to, title, changed, t
  <2>4. /\ s.task = t /\ s.from = tasks[t].column /\ s.to = to /\ s.title = title
        /\ {"task", "from", "to", "title"} \subseteq DOMAIN s
    OBVIOUS
  <2> HIDE DEF s
  <2>5. ChangeFits(s) /\ s.from = tasks[s.task].column
    BY <2>1, <2>2, <2>3, <2>4 DEF ChangeFits
  <2> QED BY <1>1, <1>2, <1>4, <1>6, <2>5, ReadToChange
<1> QED BY <1>2, <1>5, <1>6

LEMMA CheckItemStep ==
  ASSUME BoardInv, NEW w \in Threads, CheckItem(w)
  PROVE  BoardInv'
<1>0. PICK n, i, s : /\ n = job[w].saw.next /\ i = job[w].items[n]
                     /\ s = [next |-> n + 1, task |-> i.task, from |-> tasks[i.task].column,
                             to |-> i.column, title |-> tasks[i.task].title]
  OBVIOUS
<1>1. job[w].op = "reorder" /\ job[w].at = "item"
  BY DEF CheckItem, At
<1>2. /\ UNCHANGED boardTables
      /\ \/ Respond(w) \/ Recall(w, "item", [next |-> n + 1])
         \/ /\ Recall(w, "move", s) /\ OnBoard(i.task, job[w].board)
            /\ i.column # tasks[i.task].column
            /\ \/ i.column = tasks[i.task].column
               \/ ColumnThere(i.column) /\ columns[i.column].board = job[w].board
  BY Zenon, <1>0 DEF CheckItem
<1>3. BoardRowTypes
  BY DEF BoardInv, BoardsTyped
<1>4. ~Telling(job[w].op, job[w].at) /\ Changing(job[w].op, "move") /\ Unbound(job[w].op, "item")
  BY <1>1 DEF Telling, Changing, Unbound
<1>5. CASE Respond(w) \/ Recall(w, "item", [next |-> n + 1])
  BY <1>1, <1>2, <1>4, <1>5, AsideStep DEF boardTables, boardCore
<1>6. CASE /\ Recall(w, "move", s) /\ OnBoard(i.task, job[w].board)
           /\ ColumnThere(i.column) /\ columns[i.column].board = job[w].board
  <2>0. PICK t : t = i.task
    OBVIOUS
  <2>1. t \in DOMAIN tasks /\ tasks[t] \in TaskRows /\ tasks[t].board = job[w].board
    BY <1>3, <1>6, <2>0, BoardRowCount DEF OnBoard, TaskThere
  <2>2. tasks[t].title \in STRING /\ tasks[t].column \in Nat
    BY <2>1 DEF TaskRows
  <2>3. i.column \in DOMAIN columns /\ columns[i.column].board = tasks[t].board
    BY <1>6, <2>1 DEF ColumnThere
  <2>4. /\ s.task = t /\ s.from = tasks[t].column /\ s.to = i.column /\ s.title = tasks[t].title
        /\ {"task", "from", "to", "title"} \subseteq DOMAIN s
    BY <1>0, <2>0
  <2>5. ChangeFits(s) /\ s.from = tasks[s.task].column
    BY <2>1, <2>2, <2>3, <2>4 DEF ChangeFits
  <2> QED BY <1>1, <1>2, <1>4, <1>6, <2>5, ReadToChange
<1> QED BY <1>2, <1>5, <1>6

-----------------------------------------------------------------------------
(* The boards: what is told *)

LEMMA NotePartStep ==
  ASSUME BoardInv, NEW w \in Threads, NotePart(w)
  PROVE  BoardInv'
<1> DEFINE e == [task |-> job[w].task, by |-> job[w].by, from |-> 0, to |-> 0]
<1>1. /\ job[w].op \in {"checklist", "depend"} /\ job[w].at = "note" /\ Respond(w)
      /\ UNCHANGED <<boards, columns, tasks, links, boardGrants, halted>>
      /\ UNCHANGED log \/ (TaskThere(job[w].task) /\ log' = Append(log, e))
  BY DEF NotePart, Log
<1>2. BoardsTyped /\ BoardRowTypes /\ BoardFields(job[w])
  BY <1>1, BoardServing DEF BoardInv, BoardsTyped
<1>3. Moves(w) /\ job'[w] = Free
  BY <1>1, <1>2, BoardGoingOn
<1>4. SaysTheSame /\ log' \in Seq(LogRows) /\ \A i \in DOMAIN log' : log'[i].task \in DOMAIN tasks
  <2>1. log \in Seq(LogRows) /\ \A i \in DOMAIN log : log[i].task \in DOMAIN tasks
    BY <1>2 DEF BoardRowTypes, RowsOnBoards
  <2>2. CASE UNCHANGED log
    BY <2>1, <2>2, LogStays
  <2>3. CASE TaskThere(job[w].task) /\ log' = Append(log, e)
    <3>1. job[w].task \in DOMAIN tasks /\ job[w].task \in Nat /\ job[w].by \in Staff
      <4>1. job[w].task \in DOMAIN tasks /\ job[w].by \in Staff
        BY <1>2, <2>3 DEF TaskThere, BoardFields
      <4>2. DOMAIN tasks = 1 .. Len(tasks) /\ Len(tasks) \in Nat
        BY <1>2, BoardRowCount
      <4> QED BY <4>1, <4>2
    <3>2. e \in LogRows /\ e.from = e.to /\ e.task = job[w].task
      BY <3>1 DEF LogRows
    <3> HIDE DEF e
    <3>3. SaysTheSame
      BY <1>2, <2>3, <3>2, LogNotes
    <3>4. log' \in Seq(LogRows) /\ \A i \in DOMAIN log' : log'[i].task \in DOMAIN tasks
      BY <2>1, <2>3, <3>1, <3>2, OneMore
    <3> QED BY <3>3, <3>4
  <2> QED BY <1>1, <2>2, <2>3
<1>5. BoardRowTypes' /\ BoardRowsRemain
  BY <1>1, <1>2, <1>4 DEF BoardRowTypes, GrantsOnBoards, LinksOnBoards, RowsOnBoards, BoardRowsRemain
<1>6. BoardsTyped'
  BY <1>2, <1>3, <1>5, BoardStepTyped
<1>7. /\ Stays(job[w])' /\ \A t : ~Telltale(job[w], t)
      /\ OneAtATime => Housed'
  <2>1. Stays(job[w])'
    BY <1>3, FreeStays
  <2>2. \A t : ~Telltale(job[w], t)
    BY <1>1 DEF Telltale, Telling
  <2>3. OneAtATime => Housed'
    BY <1>1 DEF BoardInv, Housed, ColumnThere, BoardThere
  <2> QED BY <2>1, <2>2, <2>3
<1> QED BY <1>1, <1>3, <1>4, <1>6, <1>7, QuietStep

LEMMA InsertTaskStep ==
  ASSUME BoardInv, NEW w \in Threads, InsertTask(w)
  PROVE  BoardInv'
<1>1. PICK j, row, s :
        /\ j = job[w]
        /\ row = [board |-> j.board, column |-> j.column, title |-> j.title, by |-> j.by, here |-> TRUE]
        /\ s = [task |-> Len(tasks) + 1, from |-> 0, to |-> 0, changed |-> TRUE,
                people |-> j.people, tags |-> j.tags]
  OBVIOUS
<1>2. j.op = "task" /\ j.at = "insert"
  BY <1>1 DEF InsertTask, At
<1>3. /\ UNCHANGED <<boards, columns, links, boardGrants, log, halted>>
      /\ \/ /\ ColumnThere(j.column)
            /\ tasks' = Append(tasks, row) /\ Recall(w, "assign", s)
         \/ Respond(w) /\ UNCHANGED tasks
  BY <1>1 DEF InsertTask
<1>4. BoardsTyped /\ BoardRowTypes /\ BoardFields(j) /\ BoardFits(j)
  BY <1>1, <1>2, BoardServing DEF BoardInv, BoardsTyped
<1>5. Unbound(j.op, "end") /\ ~Telling(j.op, j.at)
  BY <1>2 DEF Unbound, Changing, Telling
<1>6. CASE Respond(w) /\ UNCHANGED tasks
  BY <1>1, <1>2, <1>3, <1>5, <1>6, AsideStep DEF boardCore
<1>7. CASE /\ ColumnThere(j.column)
           /\ tasks' = Append(tasks, row) /\ Recall(w, "assign", s)
  <2>1. j.column \in DOMAIN columns /\ columns[j.column].board = j.board
    BY <1>2, <1>4 DEF BoardFits, BoardFitsAt
  <2>2. j.board \in Nat /\ j.column \in Nat
    <3>1. columns[j.column] \in ColumnRows /\ DOMAIN columns = 1 .. Len(columns) /\ Len(columns) \in Nat
      BY <1>4, <2>1, BoardRowCount
    <3> QED BY <2>1, <3>1 DEF ColumnRows
  <2>3. row \in TaskRows /\ row.column = j.column /\ row.board = j.board
    BY <1>1, <1>2, <1>4, <2>2 DEF BoardFields, TaskRows
  <2>4. tasks \in Seq(TaskRows) /\ Len(tasks) \in Nat
    BY <1>4, BoardRowCount DEF BoardRowTypes, RowsOnBoards
  <2>5. s.task = Len(tasks) + 1 /\ s.from = 0 /\ s.to = 0 /\ {"task", "from", "to"} \subseteq DOMAIN s
    BY <1>1
  <2>6. /\ tasks' \in Seq(TaskRows)
        /\ DOMAIN tasks' = DOMAIN tasks \cup {Len(tasks) + 1}
        /\ \A t \in DOMAIN tasks : tasks'[t] = tasks[t]
        /\ tasks'[Len(tasks) + 1] = row
    BY <1>7, <2>3, <2>4, OneMore
  <2>7. BoardRowsRemain /\ \A t \in DOMAIN tasks : tasks'[t].column = tasks[t].column
    BY <1>3, <2>6 DEF BoardRowsRemain
  <2>8. BoardRowTypes'
    <3>1. GrantsOnBoards' /\ LinksOnBoards'
      BY <1>3, <1>4, <2>6 DEF BoardRowTypes, GrantsOnBoards, LinksOnBoards
    <3>2. RowsOnBoards'
      BY <1>3, <1>4, <2>1, <2>3, <2>6 DEF BoardRowTypes, RowsOnBoards
    <3> QED BY <3>1, <3>2 DEF BoardRowTypes
  <2>9. Moves(w) /\ GoesTo(w, "assign", s)
    BY <1>1, <1>2, <1>4, <1>7, BoardGoingOn
  <2>10. BoardFitsAt(j, "assign", s)'
    <3>1. ChangeTold(j.op, s)'
      BY <2>5, <2>6, <2>4 DEF ChangeTold
    <3> QED BY <1>2, <3>1 DEF BoardFitsAt, Changing
  <2>11. OneAtATime => Housed'
    <3> SUFFICES ASSUME Housed, NEW t \in DOMAIN tasks', tasks'[t].here, BoardThere(tasks[t].board)'
                 PROVE  ColumnThere(tasks[t].column)'
      BY DEF BoardInv, Housed
    <3>1. PICK r : r = tasks'[t]
      OBVIOUS
    <3>2. r.here /\ BoardThere(r.board)
      BY <1>3, <3>1 DEF BoardThere
    <3>3. ColumnThere(r.column)
      BY <1>7, <2>3, <2>6, <3>1, <3>2 DEF Housed
    <3> QED BY <1>3, <3>1, <3>3 DEF ColumnThere, BoardThere
  <2>12. Stays(job[w])'
    <3>1. PICK k : k = job'[w]
      OBVIOUS
    <3>2. k.op = "task" /\ k.at = "assign"
      BY <1>1, <1>2, <1>4, <2>9, <3>1 DEF GoesTo, BoardFields
    <3>3. Stays(k)'
      BY <3>2 DEF Stays, Changing
    <3> QED BY <3>1, <3>3
  <2> QED BY <1>1, <1>3, <1>5, <2>7, <2>8, <2>9, <2>10, <2>11, <2>12, RowStep
<1> QED BY <1>3, <1>6, <1>7

\* On the way to the log: the task, where it was and where it is stay in mind.
LEMMA TellsOn ==
  ASSUME BoardInv, NEW w \in Threads, job[w].at # "none", Telling(job[w].op, job[w].at),
         UNCHANGED <<boardCore, links, boardGrants>>,
         NEW place, Telling(job[w].op, place), NEW s,
         (Proceed(w, place) /\ s = job[w].saw) \/ Recall(w, place, s),
         s.task = job[w].saw.task, s.from = job[w].saw.from, s.to = job[w].saw.to,
         {"task", "from", "to"} \subseteq DOMAIN s
  PROVE  BoardInv'
<1>1. PICK j : j = job[w]
  OBVIOUS
<1>2. BoardsTyped /\ BoardRowTypes /\ BoardFields(j) /\ BoardFits(j) /\ place # "none"
  BY <1>1, BoardServing DEF BoardInv, BoardsTyped, Telling
<1>3. Moves(w) /\ GoesTo(w, place, s)
  BY <1>1, <1>2, BoardGoingOn
<1>4. ChangeTold(j.op, j.saw)
  BY <1>1, <1>2 DEF BoardFits, BoardFitsAt
<1>5. BoardRowTypes' /\ BoardRowsRemain
  BY <1>2 DEF BoardRowTypes, GrantsOnBoards, LinksOnBoards, RowsOnBoards, BoardRowsRemain, boardCore
<1>6. BoardFitsAt(j, place, s)'
  <2>1. ChangeTold(j.op, s)'
    BY <1>1, <1>4 DEF ChangeTold, boardCore
  <2>2. ~Changing(j.op, place) /\ ~(j.op = "task" /\ place = "insert") /\ ~(j.op = "depend" /\ place = "write")
    BY <1>1 DEF Telling, Changing
  <2> QED BY <2>1, <2>2 DEF BoardFitsAt
<1>7. BoardsTyped'
  BY <1>1, <1>2, <1>3, <1>5, <1>6, BoardStepTyped
<1>8. PICK k : k = job'[w]
  OBVIOUS
<1>9. k.op = j.op /\ k.at = place /\ k.saw = s
  BY <1>1, <1>2, <1>3, <1>8 DEF GoesTo, BoardFields
<1>10. OneAtATime => Stays(k)'
  <2> SUFFICES ASSUME Stays(j) PROVE Stays(k)'
    BY <1>1 DEF BoardInv
  <2>1. j.op # "task" => /\ TaskThere(s.task) /\ s.to = tasks[s.task].column
                         /\ s.task \notin halted => ToldUpTo(s.task, s.from)
    BY <1>1 DEF Stays
  <2>2. TaskThere(s.task) => TaskThere(s.task)'
    BY DEF TaskThere, ColumnThere, BoardThere, boardCore
  <2>3. ToldUpTo(s.task, s.from) => ToldUpTo(s.task, s.from)'
    BY DEF ToldUpTo, LastMove, MovesOf, boardCore
  <2>4. ~(k.op = "delete column" /\ k.at = "write") /\ ~Changing(k.op, k.at)
    BY <1>1, <1>9 DEF Telling, Changing
  <2> QED BY <1>9, <2>1, <2>2, <2>3, <2>4 DEF Stays, boardCore
<1>11. \A t : Telltale(j, t) => Telltale(k, t)
  BY <1>1, <1>9 DEF Telltale
<1>12. OneAtATime => Housed'
  BY DEF BoardInv, Housed, BoardThere, ColumnThere, boardCore
<1>13. SaysTheSame
  BY LogStays DEF boardCore
<1>14. OneAtATime => /\ Housed' /\ Stays(job[w])'
                     /\ \A t \in DOMAIN tasks' \ halted' : Telltale(job[w], t) => Telltale(job[w], t)'
  <2>1. \A t : Telltale(k, t) => Telltale(job[w], t)'
    BY <1>8 DEF Telltale
  <2>2. OneAtATime => Stays(job[w])'
    BY <1>8, <1>10
  <2> QED BY <1>1, <1>11, <1>12, <2>1, <2>2
<1> QED BY <1>3, <1>7, <1>13, <1>14, QuietStep DEF boardCore

\* What is taken away leaves the task in mind.
LEMMA UnassignStep ==
  ASSUME BoardInv, NEW w \in Threads, Unassign(w) \/ Untag(w)
  PROVE  BoardInv'
<1>1. PICK j : j = job[w]
  OBVIOUS
<1>2. j.op = "edit" /\ j.at \in {"unassign", "untag"} /\ UNCHANGED <<boardCore, links, boardGrants>>
  BY <1>1 DEF Unassign, Untag, At, boardCore
<1>3. PICK place, s, S :
        /\ place \in {"assign", "tag"} /\ Recall(w, place, s)
        /\ s = [j.saw EXCEPT !.people = S] \/ s = [j.saw EXCEPT !.tags = S]
  <2>1. CASE Unassign(w)
    <3> DEFINE S == IF "people" \in job[w].names THEN job[w].people ELSE {}
    <3>1. Recall(w, "assign", [job[w].saw EXCEPT !.people = S])
      BY Zenon, <2>1 DEF Unassign
    <3> HIDE DEF S
    <3>2. PICK s : s = [job[w].saw EXCEPT !.people = S]
      OBVIOUS
    <3>3. Recall(w, "assign", s)
      BY <3>1, <3>2
    <3> QED BY <1>1, <3>2, <3>3
  <2>2. CASE Untag(w)
    <3> DEFINE S == IF "tags" \in job[w].names THEN job[w].tags ELSE {}
    <3>1. Recall(w, "tag", [job[w].saw EXCEPT !.tags = S])
      BY Zenon, <2>2 DEF Untag
    <3> HIDE DEF S
    <3>2. PICK s : s = [job[w].saw EXCEPT !.tags = S]
      OBVIOUS
    <3>3. Recall(w, "tag", s)
      BY <3>1, <3>2
    <3> QED BY <1>1, <3>2, <3>3
  <2> QED BY <2>1, <2>2
<1>4. Telling(j.op, j.at) /\ Telling(j.op, place) /\ j.at # "none"
  BY <1>2, <1>3 DEF Telling
<1>5. {"task", "from", "to"} \subseteq DOMAIN j.saw
  BY <1>1, <1>4, BoardServing DEF BoardInv, BoardFits, BoardFitsAt, ChangeTold
<1>6. /\ s.task = j.saw.task /\ s.from = j.saw.from /\ s.to = j.saw.to
      /\ {"task", "from", "to"} \subseteq DOMAIN s
  BY <1>3, <1>5
<1> QED BY <1>1, <1>2, <1>3, <1>4, <1>6, TellsOn

LEMMA HaltStep ==
  ASSUME BoardInv, NEW w \in Threads, job[w].at # "none", Telling(job[w].op, job[w].at),
         UNCHANGED <<boards, columns, tasks, log, links, boardGrants>>,
         halted' = halted \cup {job[w].saw.task}, Respond(w)
  PROVE  BoardInv'
<1>1. BoardsTyped /\ BoardRowTypes
  BY DEF BoardInv, BoardsTyped
<1>2. Moves(w) /\ job'[w] = Free
  BY <1>1, BoardGoingOn
<1>3. BoardRowTypes' /\ BoardRowsRemain
  BY <1>1 DEF BoardRowTypes, GrantsOnBoards, LinksOnBoards, RowsOnBoards, BoardRowsRemain
<1>4. BoardsTyped'
  BY <1>1, <1>2, <1>3, BoardStepTyped
<1>5. Stays(job[w])'
  BY <1>2, FreeStays
<1>6. OneAtATime => Housed'
  BY DEF BoardInv, Housed, BoardThere, ColumnThere
<1>7. \A t \in DOMAIN tasks' \ halted' : ~Telltale(job[w], t)
  BY DEF Telltale
<1>8. SaysTheSame
  BY LogStays
<1> QED BY <1>2, <1>4, <1>5, <1>6, <1>7, <1>8, QuietStep

\* One row more, the end of the rows, or one that is not there.
LEMMA AssignStep ==
  ASSUME BoardInv, NEW w \in Threads, Assign(w) \/ Tag(w)
  PROVE  BoardInv'
<1>1. PICK j : j = job[w]
  OBVIOUS
<1>2. /\ j.op \in {"task", "edit"} /\ j.at \in {"assign", "tag"}
      /\ UNCHANGED <<boards, columns, tasks, log, links, boardGrants>>
      /\ \/ \E place \in {"untag", "tag", "log"} : Proceed(w, place) /\ UNCHANGED halted
         \/ \E p : Recall(w, "assign", [j.saw EXCEPT !.people = @ \ {p}]) /\ UNCHANGED halted
         \/ \E l : Recall(w, "tag", [j.saw EXCEPT !.tags = @ \ {l}]) /\ UNCHANGED halted
         \/ Respond(w) /\ halted' = halted \cup {j.saw.task}
  <2>1. CASE Assign(w)
    BY <1>1, <2>1 DEF Assign
  <2>2. CASE Tag(w)
    BY <1>1, <2>2 DEF Tag
  <2> QED BY <2>1, <2>2
<1>3. Telling(j.op, j.at) /\ j.at # "none" /\ \A place \in {"assign", "untag", "tag", "log"} : Telling(j.op, place)
  BY <1>2 DEF Telling
<1>4. {"task", "from", "to"} \subseteq DOMAIN j.saw
  BY <1>1, <1>3, BoardServing DEF BoardInv, BoardFits, BoardFitsAt, ChangeTold
<1>5. ASSUME NEW place \in {"untag", "tag", "log"}, Proceed(w, place), UNCHANGED halted
      PROVE  BoardInv'
  BY <1>1, <1>2, <1>3, <1>4, <1>5, TellsOn DEF boardCore
<1>6. ASSUME NEW p, Recall(w, "assign", [j.saw EXCEPT !.people = @ \ {p}]), UNCHANGED halted
      PROVE  BoardInv'
  <2>1. PICK r : r = [j.saw EXCEPT !.people = @ \ {p}]
    OBVIOUS
  <2>2. r.task = j.saw.task /\ r.from = j.saw.from /\ r.to = j.saw.to /\ {"task", "from", "to"} \subseteq DOMAIN r
    BY <1>4, <2>1
  <2>3. Recall(w, "assign", r)
    BY <1>6, <2>1
  <2> QED BY <1>1, <1>2, <1>3, <1>6, <2>2, <2>3, TellsOn DEF boardCore
<1>7. ASSUME NEW l, Recall(w, "tag", [j.saw EXCEPT !.tags = @ \ {l}]), UNCHANGED halted
      PROVE  BoardInv'
  <2>1. PICK r : r = [j.saw EXCEPT !.tags = @ \ {l}]
    OBVIOUS
  <2>2. r.task = j.saw.task /\ r.from = j.saw.from /\ r.to = j.saw.to /\ {"task", "from", "to"} \subseteq DOMAIN r
    BY <1>4, <2>1
  <2>3. Recall(w, "tag", r)
    BY <1>7, <2>1
  <2> QED BY <1>1, <1>2, <1>3, <1>7, <2>2, <2>3, TellsOn DEF boardCore
<1>8. CASE Respond(w) /\ halted' = halted \cup {j.saw.task}
  BY <1>1, <1>2, <1>3, <1>8, HaltStep
<1> QED BY <1>2, <1>5, <1>6, <1>7, <1>8

NewMove(t, n, e) ==
  /\ MovesOf(t)' = MovesOf(t) \cup {n}
  /\ \A i \in MovesOf(t) : log'[i] = log[i] /\ i \in Nat /\ i < n
  /\ log'[n] = e /\ n \in Nat

LEMMA MoveLogged ==
  ASSUME BoardRowTypes, NEW e, log' = Append(log, e), e.from # e.to, NEW t, t = e.task,
         NEW n, n = Len(log) + 1
  PROVE  NewMove(t, n, e) /\ \A u : u # t => SaysTheSameOf(u)
<1>1. log \in Seq(LogRows) /\ DOMAIN log = 1 .. Len(log) /\ Len(log) \in Nat
  BY BoardRowCount DEF BoardRowTypes, RowsOnBoards
<1>2. /\ DOMAIN log' = DOMAIN log \cup {n} /\ n \notin DOMAIN log
      /\ \A i \in DOMAIN log : log'[i] = log[i]
      /\ log'[n] = e
  BY <1>1, OneMore
<1>3. \A u : u # t => SaysTheSameOf(u)
  BY <1>2 DEF SaysTheSameOf, MovesOf
<1>4. MovesOf(t)' = MovesOf(t) \cup {n}
  BY <1>2 DEF MovesOf
<1>5. ASSUME NEW i \in MovesOf(t) PROVE log'[i] = log[i] /\ i \in Nat /\ i < n
  <2>1. i \in DOMAIN log
    BY DEF MovesOf
  <2>2. i \in 1 .. Len(log)
    BY <1>1, <2>1
  <2>3. log'[i] = log[i]
    BY <1>2, <2>1
  <2>4. i \in Nat /\ i < n
    BY <1>1, <2>2
  <2> QED BY <2>3, <2>4
<1>6. \A i \in MovesOf(t) : log'[i] = log[i] /\ i \in Nat /\ i < n
  BY <1>5
<1>7. log'[n] = e /\ n \in Nat
  BY <1>1, <1>2
<1> QED BY <1>3, <1>4, <1>6, <1>7 DEF NewMove

\* A move that begins where the last one ended is told.
LEMMA ToldNow ==
  ASSUME BoardRowTypes, NEW e, log' = Append(log, e), e.from # e.to, NEW t, t = e.task,
         ToldUpTo(t, e.from), Linked(t)
  PROVE  ToldUpTo(t, e.to)' /\ Linked(t)'
<1>1. PICK n : n = Len(log) + 1
  OBVIOUS
<1>2. /\ MovesOf(t)' = MovesOf(t) \cup {n}
      /\ \A i \in MovesOf(t) : log'[i] = log[i] /\ i \in Nat /\ i < n
      /\ log'[n] = e /\ n \in Nat
  <2>1. NewMove(t, n, e)
    BY <1>1, MoveLogged
  <2> QED BY <2>1 DEF NewMove
<1>3. ToldUpTo(t, e.to)'
  <2> SUFFICES ASSUME NEW i \in MovesOf(t)', LastMove(t, i)' PROVE log'[i].to = e.to
    BY DEF ToldUpTo
  <2>1. i = n
    BY <1>2 DEF LastMove
  <2> QED BY <1>2, <2>1
<1>4. ASSUME NEW i \in MovesOf(t)', NEW j \in MovesOf(t)', NextMove(t, i, j)'
      PROVE  log'[j].from = log'[i].to
  <2>1. i < j /\ i \in MovesOf(t)
    BY <1>2, <1>4 DEF NextMove
  <2>2. CASE j = n
    <3>1. LastMove(t, i)
      BY <1>2, <1>4, <2>1, <2>2 DEF NextMove, LastMove
    <3> QED BY <1>2, <2>1, <2>2, <3>1 DEF ToldUpTo
  <2>3. CASE j \in MovesOf(t)
    <3>1. NextMove(t, i, j)
      BY <1>2, <1>4, <2>1, <2>3 DEF NextMove
    <3> QED BY <1>2, <2>1, <2>3, <3>1 DEF Linked
  <2> QED BY <1>2, <2>2, <2>3
<1> QED BY <1>3, <1>4 DEF Linked

\* The task is told, or there is nothing to tell.
LEMMA TellEnds ==
  ASSUME BoardInv, NEW w \in Threads, job[w].at # "none", Telling(job[w].op, job[w].at),
         UNCHANGED <<boards, columns, tasks, links, boardGrants, halted>>,
         NEW s, s = job[w].saw,
         NEW e, e = [task |-> s.task, by |-> job[w].by, from |-> s.from, to |-> s.to],
         \/ TaskThere(s.task) /\ log' = Append(log, e)
         \/ log' = log /\ (TaskThere(s.task) => s.from = s.to),
         NEW place, place # "none", Unbound(job[w].op, place), NEW saw,
         Respond(w) \/ Recall(w, place, saw)
  PROVE  BoardInv'
<1>1. PICK j : j = job[w]
  OBVIOUS
<1>2. BoardsTyped /\ BoardRowTypes /\ BoardFields(j) /\ BoardFits(j)
  BY <1>1, BoardServing DEF BoardInv, BoardsTyped
<1>3. ChangeTold(j.op, s)
  BY <1>1, <1>2 DEF BoardFits, BoardFitsAt
<1>4. Moves(w) /\ (job'[w] = Free \/ GoesTo(w, place, saw))
  BY <1>1, <1>2, BoardGoingOn
<1>5. log' \in Seq(LogRows) /\ \A i \in DOMAIN log' : log'[i].task \in DOMAIN tasks
  <2>1. log \in Seq(LogRows) /\ \A i \in DOMAIN log : log[i].task \in DOMAIN tasks
    BY <1>2 DEF BoardRowTypes, RowsOnBoards
  <2>2. DOMAIN tasks = 1 .. Len(tasks) /\ Len(tasks) \in Nat
    BY <1>2, BoardRowCount
  <2>3. s.task \in DOMAIN tasks /\ s.task \in Nat /\ s.from \in Nat /\ s.to \in Nat /\ j.by \in Staff
    <3>1. s.task \in DOMAIN tasks /\ s.from \in Nat /\ s.to \in Nat /\ j.by \in Staff
      BY <1>2, <1>3 DEF ChangeTold, BoardFields
    <3> QED BY <2>2, <3>1
  <2>4. e \in LogRows /\ e.task = s.task
    BY <1>1, <2>3 DEF LogRows
  <2>5. CASE log' = Append(log, e)
    BY <2>1, <2>3, <2>4, <2>5, OneMore
  <2> QED BY <2>1, <2>5
<1>6. BoardRowTypes' /\ BoardRowsRemain
  BY <1>2, <1>5 DEF BoardRowTypes, GrantsOnBoards, LinksOnBoards, RowsOnBoards, BoardRowsRemain
<1>7. BoardsTyped'
  <2>1. BoardFitsAt(j, place, saw)'
    BY <1>1, UnboundFits
  <2> QED BY <1>1, <1>2, <1>4, <1>6, <2>1, BoardStepTyped
<1>8. Stays(job[w])'
  <2>1. CASE job'[w] = Free
    BY <2>1, FreeStays
  <2>2. CASE job'[w].at = place /\ job'[w].op = j.op
    BY <1>1, <2>2, UnboundStays
  <2> QED BY <1>1, <1>2, <1>4, <2>1, <2>2 DEF GoesTo, BoardFields
<1>9. Housed => Housed'
  BY DEF Housed, BoardThere, ColumnThere
<1>10. s.from = s.to => SaysTheSame
  <2>1. e.from = s.from /\ e.to = s.to
    OBVIOUS
  <2> QED BY <1>2, <2>1, LogStays, LogNotes
<1>11. CASE j.op = "task"
  <2>1. s.from = s.to /\ \A t : ~Telltale(job[w], t)
    BY <1>1, <1>3, <1>11 DEF ChangeTold, Telltale
  <2>2. OneAtATime => Housed'
    BY <1>9 DEF BoardInv
  <2> QED BY <1>4, <1>7, <1>8, <1>10, <2>1, <2>2, QuietStep
<1>12. CASE j.op # "task"
  <2> SUFFICES ASSUME OneAtATime'
               PROVE  Housed' /\ Chained' /\ ToldSoFar' /\ \A v \in Threads : Stays(job[v])'
    BY <1>7 DEF BoardInv
  <2> DEFINE t == s.task
  <2>1. /\ OneAtATime /\ job[w] # Free /\ Pool
        /\ Housed /\ Chained /\ ToldSoFar /\ Stays(j)
    BY <1>1, <1>2, <1>4 DEF OneAtATime, Moves, BoardInv, BoardsTyped
  <2>2. ASSUME NEW v \in Threads, v # w PROVE job[v] = Free /\ job'[v] = Free
    BY <1>4, <2>1, <2>2, Alone, MoveKeepsPool
  <2>3. ASSUME NEW v \in Threads PROVE Stays(job[v])'
    <3>1. CASE v # w
      BY <2>2, <3>1, FreeStays
    <3> QED BY <1>8, <3>1
  <2>4. /\ TaskThere(t) /\ s.to = tasks[t].column
        /\ t \notin halted => ToldUpTo(t, s.from)
    BY <1>1, <1>12, <2>1 DEF Stays
  <2>5. ASSUME NEW u \in DOMAIN tasks, u # t PROVE SaysTheSameOf(u)
    <3>1. CASE s.from = s.to
      BY <1>10, <2>5, <3>1 DEF SaysTheSame
    <3>2. CASE s.from # s.to
      <4>1. log' = Append(log, e) /\ e.from # e.to /\ e.task = t
        BY <2>4, <3>2
      <4> QED BY <1>2, <2>5, <4>1, MoveLogged
    <3> QED BY <3>1, <3>2
  <2>6. ASSUME t \notin halted
        PROVE  ToldUpTo(t, tasks[t].column)' /\ Linked(t)'
    <3>1. t \in DOMAIN tasks /\ ToldUpTo(t, s.from)
      BY <2>4, <2>6 DEF TaskThere
    <3>2. Linked(t)
      BY <2>1, <2>6, <3>1 DEF Chained
    <3>3. PICK c : c = tasks[t].column /\ c = tasks'[t].column /\ c = s.to
      BY <2>4
    <3>4. CASE s.from = s.to
      <4>1. SaysTheSameOf(t)
        BY <1>10, <3>1, <3>4 DEF SaysTheSame
      <4>2. ToldUpTo(t, c)'
        BY <3>1, <3>3, <3>4, <4>1, SameToldUpTo
      <4>3. Linked(t)'
        BY <3>2, <4>1, SameLinked
      <4> QED BY <3>3, <4>2, <4>3
    <3>5. CASE s.from # s.to
      <4>1. log' = Append(log, e) /\ e.from # e.to /\ e.task = t /\ e.from = s.from /\ e.to = s.to
        BY <2>4, <3>5
      <4>2. PICK u : u = t
        OBVIOUS
      <4>3. ToldUpTo(u, e.from) /\ Linked(u)
        BY <3>1, <3>2, <4>1, <4>2
      <4>4. ToldUpTo(u, e.to)' /\ Linked(u)'
        BY <1>2, <4>1, <4>2, <4>3, ToldNow
      <4> QED BY <3>3, <4>1, <4>2, <4>4
    <3> QED BY <3>4, <3>5
  <2>7. Chained'
    <3> SUFFICES ASSUME NEW u \in DOMAIN tasks \ halted PROVE Linked(u)'
      BY DEF Chained
    <3>1. CASE u = t
      BY <2>6, <3>1
    <3>2. CASE u # t
      <4>1. Linked(u)
        BY <2>1 DEF Chained
      <4> QED BY <2>5, <3>2, <4>1, SameLinked
    <3> QED BY <3>1, <3>2
  <2>8. ToldSoFar'
    <3> SUFFICES ASSUME NEW u \in DOMAIN tasks \ halted PROVE ToldUpTo(u, tasks[u].column)'
      BY DEF ToldSoFar
    <3>1. CASE u = t
      BY <2>6, <3>1
    <3>2. CASE u # t
      <4>1. \A v \in Threads : ~Telltale(job[v], u)
        <5>1. ~Telltale(job[w], u)
          BY <3>2 DEF Telltale
        <5>2. ASSUME NEW v \in Threads, v # w PROVE ~Telltale(job[v], u)
          BY <2>2, <5>2 DEF Telltale, Telling, Free
        <5> QED BY <5>1, <5>2
      <4>2. PICK c : c = tasks[u].column /\ c = tasks'[u].column
        OBVIOUS
      <4>3. ToldUpTo(u, c)
        BY <2>1, <4>1, <4>2 DEF ToldSoFar
      <4>4. ToldUpTo(u, c)'
        BY <2>5, <3>2, <4>3, SameToldUpTo
      <4> QED BY <4>2, <4>4
    <3> QED BY <3>1, <3>2
  <2> QED BY <1>9, <2>1, <2>3, <2>7, <2>8
<1> QED BY <1>11, <1>12

LEMMA LogTaskStep ==
  ASSUME BoardInv, NEW w \in Threads, LogTask(w)
  PROVE  BoardInv'
<1>1. PICK s, e : s = job[w].saw /\ e = [task |-> s.task, by |-> job[w].by, from |-> s.from, to |-> s.to]
  OBVIOUS
<1>2. job[w].op \in {"task", "edit"} /\ job[w].at = "log"
  BY DEF LogTask
<1>3. /\ UNCHANGED <<boards, columns, tasks, links, boardGrants, halted>> /\ Respond(w)
      /\ \/ TaskThere(s.task) /\ log' = Append(log, e)
         \/ log' = log /\ (TaskThere(s.task) => s.from = s.to)
  BY <1>1 DEF LogTask, Log
<1>4. Telling(job[w].op, job[w].at) /\ Unbound(job[w].op, "end")
  BY <1>2 DEF Telling, Changing, Unbound
<1> QED BY <1>1, <1>2, <1>3, <1>4, TellEnds

LEMMA LogItemStep ==
  ASSUME BoardInv, NEW w \in Threads, LogItem(w)
  PROVE  BoardInv'
<1>1. PICK s, e, saw :
        /\ s = job[w].saw /\ saw = [next |-> s.next]
        /\ e = [task |-> s.task, by |-> job[w].by, from |-> s.from, to |-> s.to]
  OBVIOUS
<1>2. job[w].op = "reorder" /\ job[w].at = "log"
  BY DEF LogItem, At
<1>3. /\ UNCHANGED <<boards, columns, tasks, links, boardGrants, halted>>
      /\ Respond(w) \/ Recall(w, "item", saw)
      /\ \/ TaskThere(s.task) /\ log' = Append(log, e)
         \/ log' = log /\ (TaskThere(s.task) => s.from = s.to)
  BY <1>1 DEF LogItem, Log
<1>4. Telling(job[w].op, job[w].at) /\ Unbound(job[w].op, "item")
  BY <1>2 DEF Telling, Changing, Unbound
<1> QED BY <1>1, <1>2, <1>3, <1>4, TellEnds

-----------------------------------------------------------------------------
(* The boards: a task moves *)

LEMMA RowsOf ==
  ASSUME NEW T, NEW m \in Nat, NEW f \in [1 .. m -> T]
  PROVE  f \in Seq(T)
  OBVIOUS

ShiftedIn(d, t, to) ==
  /\ DOMAIN d = DOMAIN tasks
  /\ \A u \in DOMAIN tasks : u # t => d[u] = tasks[u]
  /\ d[t].column = to
  /\ d[t].board = tasks[t].board /\ d[t].here = tasks[t].here

LEMMA TaskShifted ==
  ASSUME BoardRowTypes, NEW t \in DOMAIN tasks, NEW to \in DOMAIN columns, NEW title \in STRING,
         NEW d, d = [tasks EXCEPT ![t].column = to, ![t].title = title]
  PROVE  d \in Seq(TaskRows) /\ ShiftedIn(d, t, to)
<1>1. /\ tasks \in Seq(TaskRows)
      /\ \A u \in DOMAIN tasks : tasks[u] \in TaskRows
      /\ tasks = [u \in DOMAIN tasks |-> tasks[u]]
  BY BoardRowCount DEF BoardRowTypes, RowsOnBoards
<1>2. to \in Nat
  <2>1. DOMAIN columns = 1 .. Len(columns) /\ Len(columns) \in Nat
    BY BoardRowCount
  <2> QED BY <2>1
<1>3. PICK r \in TaskRows : r = tasks[t]
  BY <1>1
<1>4. PICK n : n = [r EXCEPT !.column = to, !.title = title]
  OBVIOUS
<1>5. n \in TaskRows /\ n.column = to /\ n.board = r.board /\ n.here = r.here
  BY <1>2, <1>4 DEF TaskRows
<1>6. d = [u \in DOMAIN tasks |-> IF u = t THEN n ELSE tasks[u]]
  BY <1>1, <1>3, <1>4
<1>7. d = [u \in DOMAIN tasks |-> d[u]] /\ \A u \in DOMAIN tasks : d[u] \in TaskRows
  BY <1>1, <1>5, <1>6
<1>8. d \in Seq(TaskRows)
  <2>1. d \in [DOMAIN tasks -> TaskRows]
    BY <1>7
  <2>2. DOMAIN tasks = 1 .. Len(tasks) /\ Len(tasks) \in Nat
    BY BoardRowCount
  <2>3. PICK m \in Nat : DOMAIN tasks = 1 .. m
    BY <2>2
  <2>4. d \in [1 .. m -> TaskRows]
    BY <2>1, <2>3
  <2> QED BY <2>4, RowsOf
<1>9. ShiftedIn(d, t, to)
  BY <1>3, <1>5, <1>6 DEF ShiftedIn
<1> QED BY <1>8, <1>9

Shifts(t, to, title) == tasks' = [tasks EXCEPT ![t].column = to, ![t].title = title]

LEMMA ShiftTask ==
  ASSUME BoardInv, NEW w \in Threads, Changing(job[w].op, job[w].at), job[w].at # "none",
         NEW s, s = job[w].saw, TaskThere(s.task), ColumnThere(s.to),
         Shifts(s.task, s.to, s.title),
         UNCHANGED <<boards, columns, links, boardGrants, log, halted>>,
         NEW place, Telling(job[w].op, place), Proceed(w, place)
  PROVE  BoardInv'
<1>1. PICK j, t : j = job[w] /\ t = s.task
  OBVIOUS
<1>2. BoardsTyped /\ BoardRowTypes /\ BoardFields(j) /\ BoardFits(j) /\ place # "none"
  BY <1>1, BoardServing DEF BoardInv, BoardsTyped, Telling
<1>3. ChangeFits(s) /\ j.op # "task"
  BY <1>1, <1>2 DEF BoardFits, BoardFitsAt, Changing
<1>4. /\ t \in DOMAIN tasks /\ s.to \in DOMAIN columns /\ s.title \in STRING /\ s.from \in Nat
      /\ columns[s.to].board = tasks[t].board /\ {"task", "from", "to"} \subseteq DOMAIN s
  BY <1>1, <1>3 DEF ChangeFits
<1>5. /\ tasks' \in Seq(TaskRows) /\ DOMAIN tasks' = DOMAIN tasks
      /\ \A u \in DOMAIN tasks : u # t => tasks'[u] = tasks[u]
      /\ tasks'[t].column = s.to
      /\ tasks'[t].board = tasks[t].board /\ tasks'[t].here = tasks[t].here
  <2>1. PICK to, title, d : to = s.to /\ title = s.title /\ d = tasks'
    OBVIOUS
  <2>2. d = [tasks EXCEPT ![t].column = to, ![t].title = title]
    BY <1>1, <2>1 DEF Shifts
  <2>3. to \in DOMAIN columns /\ title \in STRING
    BY <1>4, <2>1
  <2>4. d \in Seq(TaskRows) /\ ShiftedIn(d, t, to)
    BY <1>2, <1>4, <2>2, <2>3, TaskShifted
  <2> QED BY <2>1, <2>4 DEF ShiftedIn
<1>6. \A u \in DOMAIN tasks : tasks'[u].board = tasks[u].board /\ tasks'[u].here = tasks[u].here
  BY <1>5
<1>7. BoardRowTypes'
  <2>1. tasks' \in Seq(TaskRows) /\ DOMAIN tasks' = DOMAIN tasks
    BY <1>5
  <2>2. GrantsOnBoards' /\ LinksOnBoards'
    BY <1>2, <1>6, <2>1 DEF BoardRowTypes, GrantsOnBoards, LinksOnBoards
  <2>3. ASSUME NEW u \in DOMAIN tasks
        PROVE  tasks'[u].column \in DOMAIN columns /\ columns[tasks'[u].column].board = tasks'[u].board
    <3>1. CASE u = t
      BY <1>4, <1>5, <3>1
    <3>2. CASE u # t
      <4>1. tasks'[u] = tasks[u]
        BY <1>5, <3>2
      <4> QED BY <1>2, <4>1 DEF BoardRowTypes, RowsOnBoards
    <3> QED BY <3>1, <3>2
  <2>4. RowsOnBoards'
    BY <1>2, <2>1, <2>3 DEF BoardRowTypes, RowsOnBoards
  <2> QED BY <2>2, <2>4 DEF BoardRowTypes
<1>8. BoardRowsRemain
  BY <1>5, <1>6 DEF BoardRowsRemain
<1>9. Moves(w) /\ GoesTo(w, place, s)
  BY <1>1, <1>2, BoardGoingOn
<1>10. BoardFitsAt(j, place, s)'
  <2>1. s.to \in Nat
    <3>1. DOMAIN columns = 1 .. Len(columns) /\ Len(columns) \in Nat
      BY <1>2, BoardRowCount
    <3> QED BY <1>4, <3>1
  <2>2. ChangeTold(j.op, s)'
    BY <1>1, <1>3, <1>4, <1>5, <2>1 DEF ChangeTold
  <2>3. ~Changing(j.op, place) /\ ~(j.op = "depend" /\ place = "write")
    BY <1>1, <1>3 DEF Telling, Changing
  <2> QED BY <1>3, <2>2, <2>3 DEF BoardFitsAt
<1>11. BoardsTyped'
  BY <1>1, <1>2, <1>7, <1>8, <1>9, <1>10, BoardStepTyped
<1> SUFFICES ASSUME OneAtATime'
             PROVE  Housed' /\ Chained' /\ ToldSoFar' /\ \A v \in Threads : Stays(job[v])'
  BY <1>11 DEF BoardInv
<1>12. /\ OneAtATime /\ job[w] # Free /\ Pool
       /\ Housed /\ Chained /\ ToldSoFar /\ Stays(j)
  BY <1>1, <1>2, <1>9 DEF OneAtATime, Moves, BoardInv, BoardsTyped
<1>13. ASSUME NEW v \in Threads, v # w PROVE job[v] = Free /\ job'[v] = Free
  BY <1>9, <1>12, <1>13, Alone, MoveKeepsPool
<1>14. \A u : \A v \in Threads : ~Telltale(job[v], u)
  <2>1. ASSUME NEW u PROVE ~Telltale(job[w], u)
    BY DEF Telltale, Telling, Changing
  <2>2. ASSUME NEW u, NEW v \in Threads, v # w PROVE ~Telltale(job[v], u)
    BY <1>13, <2>2 DEF Telltale, Telling, Free
  <2> QED BY <2>1, <2>2
<1>15. PICK k : k = job'[w]
  OBVIOUS
<1>16. k.op = j.op /\ k.at = place /\ k.saw = s
  BY <1>1, <1>2, <1>9, <1>15 DEF GoesTo, BoardFields
<1>17. Housed'
  <2> SUFFICES ASSUME NEW u \in DOMAIN tasks, NEW r, r = tasks'[u], r.here, BoardThere(r.board)
               PROVE  ColumnThere(r.column)'
    BY <1>5 DEF Housed, BoardThere
  <2>1. CASE u = t
    BY <1>5, <2>1 DEF ColumnThere, BoardThere
  <2>2. CASE u # t
    <3>1. ColumnThere(r.column)
      BY <1>5, <1>12, <2>2 DEF Housed
    <3> QED BY <3>1 DEF ColumnThere, BoardThere
  <2> QED BY <2>1, <2>2
<1>18. \A u : SaysTheSameOf(u)
  BY DEF SaysTheSameOf, MovesOf
<1>19. Chained'
  BY <1>5, <1>12, <1>18, SameLinked DEF Chained
<1>20. ToldSoFar'
  <2> SUFFICES ASSUME NEW u \in DOMAIN tasks \ halted, ~Telltale(k, u)
               PROVE  ToldUpTo(u, tasks[u].column)'
    BY <1>5, <1>15 DEF ToldSoFar, Telltale
  <2>1. u # t
    BY <1>1, <1>3, <1>16 DEF Telltale
  <2>2. PICK c : c = tasks[u].column /\ c = tasks'[u].column
    BY <1>5, <2>1
  <2>3. ToldUpTo(u, c)
    BY <1>12, <1>14, <2>2 DEF ToldSoFar
  <2>4. ToldUpTo(u, c)'
    BY <1>18, <2>3, SameToldUpTo
  <2> QED BY <2>2, <2>4
<1>21. Stays(k)'
  <2>1. TaskThere(t)'
    BY <1>1, <1>5 DEF TaskThere, ColumnThere, BoardThere
  <2>2. ASSUME t \notin halted PROVE ToldUpTo(t, s.from)'
    <3>1. s.from = tasks[t].column
      BY <1>1, <1>12 DEF Stays
    <3>2. ToldUpTo(t, s.from)
      BY <1>4, <1>12, <1>14, <2>2, <3>1 DEF ToldSoFar
    <3> QED BY <1>18, <3>2, SameToldUpTo
  <2>3. ~Changing(k.op, k.at) /\ ~(k.op = "delete column" /\ k.at = "write")
    BY <1>1, <1>16 DEF Telling, Changing
  <2> QED BY <1>1, <1>5, <1>16, <2>1, <2>2, <2>3 DEF Stays
<1>22. ASSUME NEW v \in Threads PROVE Stays(job[v])'
  <2>1. CASE v = w
    BY <1>15, <1>21, <2>1
  <2>2. CASE v # w
    BY <1>13, <2>2, FreeStays
  <2> QED BY <2>1, <2>2
<1> QED BY <1>17, <1>19, <1>20, <1>22

LEMMA ShiftOrNot ==
  ASSUME BoardInv, NEW w \in Threads, Changing(job[w].op, job[w].at), job[w].at # "none",
         NEW s, s = job[w].saw, NEW place, Telling(job[w].op, place),
         UNCHANGED <<boards, columns, links, boardGrants, log, halted>>,
         \/ /\ TaskThere(s.task) /\ ColumnThere(s.to) /\ Proceed(w, place)
            /\ Shifts(s.task, s.to, s.title)
         \/ Respond(w) /\ UNCHANGED tasks
  PROVE  BoardInv'
<1>1. CASE Respond(w) /\ UNCHANGED tasks
  <2>1. Unbound(job[w].op, "end") /\ ~Telling(job[w].op, job[w].at)
    BY DEF Unbound, Changing, Telling
  <2> QED BY <1>1, <2>1, AsideStep DEF boardCore
<1>2. CASE /\ TaskThere(s.task) /\ ColumnThere(s.to) /\ Proceed(w, place)
           /\ Shifts(s.task, s.to, s.title)
  BY <1>2, ShiftTask
<1> QED BY <1>1, <1>2

LEMMA UpdateTaskStep ==
  ASSUME BoardInv, NEW w \in Threads, UpdateTask(w)
  PROVE  BoardInv'
<1>1. PICK s : s = job[w].saw
  OBVIOUS
<1>2. job[w].op = "edit" /\ job[w].at = "update"
  BY DEF UpdateTask, At
<1>3. /\ UNCHANGED <<boards, columns, links, boardGrants, log, halted>>
      /\ \/ /\ TaskThere(s.task) /\ ColumnThere(s.to) /\ Proceed(w, "unassign")
            /\ Shifts(s.task, s.to, s.title)
         \/ Respond(w) /\ UNCHANGED tasks
  BY <1>1 DEF UpdateTask, Shifts
<1>4. Changing(job[w].op, job[w].at) /\ Telling(job[w].op, "unassign")
  BY <1>2 DEF Changing, Telling
<1> QED BY <1>1, <1>2, <1>3, <1>4, ShiftOrNot

LEMMA MoveItemStep ==
  ASSUME BoardInv, NEW w \in Threads, MoveItem(w)
  PROVE  BoardInv'
<1>1. PICK s : s = job[w].saw
  OBVIOUS
<1>2. job[w].op = "reorder" /\ job[w].at = "move"
  BY DEF MoveItem, At
<1>3. /\ UNCHANGED <<boards, columns, links, boardGrants, log, halted>>
      /\ \/ /\ TaskThere(s.task) /\ ColumnThere(s.to) /\ Proceed(w, "log")
            /\ Shifts(s.task, s.to, s.title)
         \/ Respond(w) /\ UNCHANGED tasks
  BY <1>1 DEF MoveItem, Shifts
<1>4. Changing(job[w].op, job[w].at) /\ Telling(job[w].op, "log")
  BY <1>2 DEF Changing, Telling
<1> QED BY <1>1, <1>2, <1>3, <1>4, ShiftOrNot

-----------------------------------------------------------------------------
(* The boards: the theorems *)

LEMMA BoardsStart ==
  ASSUME InitBoards
  PROVE  BoardInv
<1>1. PICK s \in BoardScenarios : BoardTables(s) /\ Listening(s)
  BY DEF InitBoards
<1>2. /\ s.boards \in Seq([by : Staff, here : {TRUE}])
      /\ s.columns \in Seq([board : DOMAIN s.boards, here : {TRUE}])
      /\ s.tasks \in Seq([board : DOMAIN s.boards, column : DOMAIN s.columns, title : STRING,
                          by : Staff, here : {TRUE}])
      /\ \A t \in DOMAIN s.tasks : s.columns[s.tasks[t].column].board = s.tasks[t].board
      /\ s.boardGrants \in [Staff -> DOMAIN Grades]
      /\ s.requests \subseteq BoardRequests /\ s.atOnce \in Nat \ {0}
  BY BoardAssumption
<1>3. /\ boards = s.boards /\ columns = s.columns /\ tasks = s.tasks
      /\ boardGrants = s.boardGrants /\ links = {} /\ log = <<>> /\ halted = {}
  BY <1>1 DEF BoardTables
<1>4. Pool /\ calls.requests \subseteq BoardRequests /\ \A w \in Threads : job[w] = Free
  <2>1. s.requests \subseteq BoardRequests /\ s.atOnce \in Nat \ {0} /\ Listening(s)
    BY <1>1, <1>2
  <2>2. Pool /\ calls.requests = s.requests
    BY <2>1, PoolStarts
  <2>3. \A w \in Threads : job[w] = Free
    BY <2>1 DEF Listening
  <2> QED BY <2>1, <2>2, <2>3
<1>5. boards \in Seq(BoardRows) /\ \A b \in DOMAIN boards : boards[b].here
  <2>1. \A b \in DOMAIN boards : boards[b] \in [by : Staff, here : {TRUE}]
    <3> DEFINE R == [by : Staff, here : {TRUE}]
    <3>1. boards \in Seq(R)
      BY <1>2, <1>3
    <3> HIDE DEF R
    <3>2. \A b \in DOMAIN boards : boards[b] \in R
      BY <3>1, Elements
    <3> QED BY <3>2 DEF R
  <2>2. \A b \in DOMAIN boards : boards[b] \in BoardRows /\ boards[b].here
    BY <2>1 DEF BoardRows
  <2> QED BY <1>2, <1>3, <2>2, Widened
<1>6. /\ columns \in Seq(ColumnRows)
      /\ \A c \in DOMAIN columns : columns[c].here /\ columns[c].board \in DOMAIN boards
  <2>1. DOMAIN boards \subseteq Nat
    <3>1. DOMAIN boards = 1 .. Len(boards) /\ Len(boards) \in Nat
      BY <1>5, Elements
    <3> QED BY <3>1
  <2>2. \A c \in DOMAIN columns : columns[c] \in [board : DOMAIN boards, here : {TRUE}]
    <3> DEFINE R == [board : DOMAIN boards, here : {TRUE}]
    <3>1. columns \in Seq(R)
      BY <1>2, <1>3
    <3> HIDE DEF R
    <3>2. \A c \in DOMAIN columns : columns[c] \in R
      BY <3>1, Elements
    <3> QED BY <3>2 DEF R
  <2>3. \A c \in DOMAIN columns :
          columns[c] \in ColumnRows /\ columns[c].here /\ columns[c].board \in DOMAIN boards
    BY <2>1, <2>2 DEF ColumnRows
  <2> QED BY <1>2, <1>3, <2>3, Widened
<1>7. /\ tasks \in Seq(TaskRows)
      /\ \A t \in DOMAIN tasks : tasks[t].column \in DOMAIN columns /\ tasks[t].board \in DOMAIN boards
  <2>1. DOMAIN boards \subseteq Nat /\ DOMAIN columns \subseteq Nat
    <3>1. /\ DOMAIN boards = 1 .. Len(boards) /\ Len(boards) \in Nat
          /\ DOMAIN columns = 1 .. Len(columns) /\ Len(columns) \in Nat
      BY <1>5, <1>6, Elements
    <3> QED BY <3>1
  <2>2. \A t \in DOMAIN tasks : tasks[t] \in [board : DOMAIN boards, column : DOMAIN columns,
                                              title : STRING, by : Staff, here : {TRUE}]
    <3> DEFINE R == [board : DOMAIN boards, column : DOMAIN columns, title : STRING,
                     by : Staff, here : {TRUE}]
    <3>1. tasks \in Seq(R)
      BY <1>2, <1>3
    <3> HIDE DEF R
    <3>2. \A t \in DOMAIN tasks : tasks[t] \in R
      BY <3>1, Elements
    <3> QED BY <3>2 DEF R
  <2>3. \A t \in DOMAIN tasks : tasks[t] \in TaskRows /\ tasks[t].column \in DOMAIN columns
                                /\ tasks[t].board \in DOMAIN boards
    BY <2>1, <2>2 DEF TaskRows
  <2> QED BY <1>2, <1>3, <2>3, Widened
<1>8. \A t \in DOMAIN tasks : columns[tasks[t].column].board = tasks[t].board
  BY <1>2, <1>3
<1>9. BoardRowTypes
  <2>1. log \in Seq(LogRows) /\ DOMAIN log = {}
    BY <1>3
  <2>2. RowsOnBoards
    BY <1>5, <1>6, <1>7, <1>8, <2>1 DEF RowsOnBoards
  <2>3. GrantsOnBoards /\ LinksOnBoards
    BY <1>2, <1>3 DEF GrantsOnBoards, LinksOnBoards
  <2> QED BY <2>2, <2>3 DEF BoardRowTypes
<1>10. BoardsTyped
  <2>1. \A w \in Threads : BoardFits(job[w])
    BY <1>4 DEF BoardFits, BoardFitsAt, Changing, Telling, Free
  <2> QED BY <1>4, <1>9, <2>1 DEF BoardsTyped
<1>11. Housed
  BY <1>5, <1>6, <1>7, <1>8 DEF Housed, ColumnThere, BoardThere
<1>12. \A t : MovesOf(t) = {}
  BY <1>3 DEF MovesOf
<1>13. Chained /\ ToldSoFar
  BY <1>12 DEF Chained, Linked, ToldSoFar, ToldUpTo
<1>14. ASSUME NEW w \in Threads PROVE Stays(job[w])
  <2>1. job[w].op = "none"
    BY <1>4 DEF Free
  <2> QED BY <2>1 DEF Stays, Changing, Telling
<1> QED BY <1>10, <1>11, <1>13, <1>14 DEF BoardInv

LEMMA BoardsStutter ==
  ASSUME BoardInv, UNCHANGED boardVars
  PROVE  BoardInv'
<1>1. UNCHANGED <<boards, columns, tasks, links, boardGrants, log, halted, job, calls>>
  BY DEF boardVars, boardTables, serving
<1>2. BoardsTyped'
  <2>1. Pool'
    BY <1>1 DEF BoardInv, BoardsTyped, Pool, Engaged
  <2>2. BoardRowTypes' /\ BoardRowsRemain
    BY <1>1 DEF BoardInv, BoardsTyped, BoardRowTypes, GrantsOnBoards, LinksOnBoards, RowsOnBoards,
                BoardRowsRemain
  <2>3. ASSUME NEW w \in Threads PROVE BoardFits(job[w])'
    <3>1. PICK k : k = job[w] /\ k = job'[w]
      BY <1>1
    <3>2. BoardFitsAt(k, k.at, k.saw)
      BY <3>1 DEF BoardInv, BoardsTyped, BoardFits
    <3>3. BoardFitsAt(k, k.at, k.saw)'
      BY <2>2, <3>2, StillFitsAt DEF BoardInv, BoardsTyped
    <3> QED BY <3>1, <3>3 DEF BoardFits
  <2> QED BY <1>1, <2>1, <2>2, <2>3 DEF BoardInv, BoardsTyped
<1>3. SUFFICES ASSUME OneAtATime
               PROVE  Housed' /\ Chained' /\ ToldSoFar' /\ \A w \in Threads : Stays(job[w])'
  BY <1>1, <1>2 DEF BoardInv, OneAtATime
<1>4. Housed /\ Chained /\ ToldSoFar /\ \A w \in Threads : Stays(job[w])
  BY <1>3 DEF BoardInv
<1>5. Housed'
  BY <1>1, <1>4 DEF Housed, ColumnThere, BoardThere
<1>6. \A t : SaysTheSameOf(t)
  BY <1>1 DEF SaysTheSameOf, MovesOf
<1>7. Chained'
  BY <1>1, <1>4, <1>6, SameLinked DEF Chained
<1>8. ToldSoFar'
  BY <1>1, <1>4 DEF ToldSoFar, ToldUpTo, LastMove, MovesOf, Telltale
<1>9. ASSUME NEW w \in Threads PROVE Stays(job[w])'
  <2>1. PICK k : k = job[w] /\ k = job'[w]
    BY <1>1
  <2>2. Stays(k)
    BY <1>4, <2>1
  <2>3. Stays(k)'
    BY <1>1, <2>2 DEF Stays, InColumn, TaskThere, ColumnThere, BoardThere, ToldUpTo, LastMove, MovesOf
  <2> QED BY <2>1, <2>3
<1> QED BY <1>5, <1>7, <1>8, <1>9

LEMMA BoardsStep ==
  ASSUME BoardInv, NEW w \in Threads
  PROVE  /\ TakeBoardRequest(w) => BoardInv'
         /\ CheckBoard(w) \/ CreateBoard(w) \/ CreateDefaultColumn(w) => BoardInv'
         /\ CheckDeleteBoard(w) \/ DeleteBoard(w) \/ CheckColumn(w) \/ CreateColumn(w) => BoardInv'
         /\ CheckDeleteColumn(w) \/ DeleteColumn(w) => BoardInv'
         /\ CheckTask(w) \/ InsertTask(w) \/ CheckEdit(w) \/ UpdateTask(w)
              \/ Unassign(w) \/ Assign(w) \/ Untag(w) \/ Tag(w) \/ LogTask(w) => BoardInv'
         /\ CheckReorder(w) \/ CheckItem(w) \/ MoveItem(w) \/ LogItem(w) => BoardInv'
         /\ CheckDeleteTask(w) \/ DeleteTask(w) => BoardInv'
         /\ CheckChecklist(w) \/ CreateChecklist(w) \/ NotePart(w) => BoardInv'
         /\ CheckDeleteChecklist(w) \/ DeleteChecklist(w) => BoardInv'
         /\ CheckAddItem(w) \/ AddItem(w) \/ CheckUpdateItem(w) \/ UpdateItem(w) => BoardInv'
         /\ CheckDeleteItem(w) \/ DeleteItem(w) => BoardInv'
         /\ CheckLabel(w) \/ CreateLabel(w) \/ CheckDeleteLabel(w) \/ DeleteLabel(w) => BoardInv'
         /\ CheckDepend(w) \/ AddDependency(w) \/ CheckUndepend(w) \/ RemoveDependency(w) => BoardInv'
         /\ CheckBoardGrant(w) \/ SetBoardGrant(w) \/ CheckBoardUngrant(w) \/ RemoveBoardGrant(w)
              => BoardInv'
<1>1. TakeBoardRequest(w) => BoardInv'
  BY TakeBoardStep
<1>2. CheckBoard(w) \/ CheckDeleteBoard(w) \/ CheckColumn(w)
        \/ CheckDeleteTask(w) \/ CheckChecklist(w) \/ CheckDeleteChecklist(w)
        \/ CheckAddItem(w) \/ CheckUpdateItem(w) \/ CheckDeleteItem(w)
        \/ CheckLabel(w) \/ CheckDeleteLabel(w) \/ CheckUndepend(w)
        \/ CheckBoardGrant(w) \/ CheckBoardUngrant(w) => BoardInv'
  BY BoardChecks
<1>3. DeleteChecklist(w) \/ AddItem(w) \/ UpdateItem(w) \/ DeleteItem(w)
        \/ CreateLabel(w) \/ DeleteLabel(w) => BoardInv'
  BY BoardWrites
<1>4. CreateBoard(w) \/ CreateDefaultColumn(w) \/ DeleteBoard(w) \/ CreateColumn(w) => BoardInv'
  BY CreateBoardStep, CreateDefaultColumnStep, DeleteBoardStep, CreateColumnStep
<1>5. CheckDeleteColumn(w) \/ DeleteColumn(w) => BoardInv'
  BY CheckDeleteColumnStep, DeleteColumnStep
<1>6. CheckTask(w) \/ InsertTask(w) \/ CheckEdit(w) \/ UpdateTask(w) => BoardInv'
  BY CheckTaskStep, InsertTaskStep, CheckEditStep, UpdateTaskStep
<1>7. Unassign(w) \/ Assign(w) \/ Untag(w) \/ Tag(w) \/ LogTask(w) => BoardInv'
  BY UnassignStep, AssignStep, LogTaskStep
<1>8. CheckReorder(w) \/ CheckItem(w) \/ MoveItem(w) \/ LogItem(w) => BoardInv'
  BY CheckReorderStep, CheckItemStep, MoveItemStep, LogItemStep
<1>9. DeleteTask(w) \/ CreateChecklist(w) \/ NotePart(w) => BoardInv'
  BY DeleteTaskStep, CreateChecklistStep, NotePartStep
<1>10. CheckDepend(w) \/ AddDependency(w) \/ RemoveDependency(w) => BoardInv'
  BY CheckDependStep, AddDependencyStep, RemoveDependencyStep
<1>11. SetBoardGrant(w) \/ RemoveBoardGrant(w) => BoardInv'
  BY BoardGrantSteps
<1> QED BY <1>1, <1>2, <1>3, <1>4, <1>5, <1>6, <1>7, <1>8, <1>9, <1>10, <1>11

LEMMA BoardsAlways == BoardsSpec => []BoardInv
<1>1. BoardInv /\ [NextBoards]_boardVars => BoardInv'
  BY BoardsStep, BoardsStutter DEF NextBoards
<1> QED BY <1>1, BoardsStart, PTL DEF BoardsSpec

-----------------------------------------------------------------------------
(* The boards: what hangs on a board or a task.  Nothing above depends on   *)
(* these rows, so that their types follow from those of the others.        *)

LabelRows == [board : Nat, here : BOOLEAN]
ListRows == [task : Nat, here : BOOLEAN]
ItemRows == [list : Nat, checked : BOOLEAN, here : BOOLEAN]

LabelsOnBoards == labels \in Seq(LabelRows) /\ \A l \in DOMAIN labels : labels[l].board \in DOMAIN boards
ListsOnTasks == lists \in Seq(ListRows) /\ \A k \in DOMAIN lists : lists[k].task \in DOMAIN tasks
ItemsOnLists == items \in Seq(ItemRows) /\ \A i \in DOMAIN items : items[i].list \in DOMAIN lists
PairsOnTasks ==
  /\ assigned \subseteq (DOMAIN tasks) \X Staff
  /\ tagged \subseteq (DOMAIN tasks) \X (DOMAIN labels)
  /\ halted \subseteq DOMAIN tasks
PartsTyped == LabelsOnBoards /\ ListsOnTasks /\ ItemsOnLists /\ PairsOnTasks

boardParts == <<labels, lists, items, assigned, tagged, halted>>
MoreBoardsAndTasks == DOMAIN boards \subseteq DOMAIN boards' /\ DOMAIN tasks \subseteq DOMAIN tasks'

LEMMA PartsAmongMore ==
  ASSUME PartsTyped, MoreBoardsAndTasks, UNCHANGED boardParts
  PROVE  PartsTyped'
BY DEF PartsTyped, LabelsOnBoards, ListsOnTasks, ItemsOnLists, PairsOnTasks, MoreBoardsAndTasks, boardParts

\* The steps that leave these rows as they are: most leave the boards and the
\* tasks, too.
LEMMA PartsLeft ==
  ASSUME NEW w \in Threads,
         \/ TakeBoardRequest(w) \/ CheckBoard(w) \/ CreateDefaultColumn(w) \/ CheckDeleteBoard(w)
         \/ CheckColumn(w) \/ CreateColumn(w) \/ CheckDeleteColumn(w) \/ DeleteColumn(w)
         \/ CheckTask(w) \/ CheckEdit(w) \/ LogTask(w) \/ CheckReorder(w) \/ CheckItem(w) \/ LogItem(w)
         \/ CheckDeleteTask(w) \/ CheckChecklist(w) \/ NotePart(w) \/ CheckDeleteChecklist(w)
         \/ CheckAddItem(w) \/ CheckUpdateItem(w) \/ CheckDeleteItem(w) \/ CheckLabel(w)
         \/ CheckDeleteLabel(w) \/ CheckDepend(w) \/ AddDependency(w) \/ CheckUndepend(w)
         \/ RemoveDependency(w) \/ CheckBoardGrant(w) \/ SetBoardGrant(w) \/ CheckBoardUngrant(w)
         \/ RemoveBoardGrant(w)
  PROVE  UNCHANGED boardParts /\ boards' = boards /\ tasks' = tasks
<1>1. CASE \/ TakeBoardRequest(w) \/ CheckBoard(w) \/ CheckDeleteBoard(w) \/ CheckColumn(w)
           \/ CheckDeleteColumn(w) \/ CheckTask(w) \/ CheckEdit(w) \/ CheckReorder(w) \/ CheckItem(w)
           \/ CheckDeleteTask(w)
  BY <1>1 DEF TakeBoardRequest, CheckBoard, CheckDeleteBoard, CheckColumn, CheckDeleteColumn, CheckTask,
              CheckEdit, CheckReorder, CheckItem, CheckDeleteTask, Examine, boardTables, boardParts
<1>2. CASE \/ CheckChecklist(w) \/ CheckDeleteChecklist(w) \/ CheckAddItem(w) \/ CheckUpdateItem(w)
           \/ CheckDeleteItem(w) \/ CheckLabel(w) \/ CheckDeleteLabel(w) \/ CheckDepend(w)
           \/ CheckUndepend(w) \/ CheckBoardGrant(w) \/ CheckBoardUngrant(w)
  BY <1>2 DEF CheckChecklist, CheckDeleteChecklist, CheckAddItem, CheckUpdateItem, CheckDeleteItem,
              CheckLabel, CheckDeleteLabel, CheckDepend, CheckUndepend, CheckBoardGrant,
              CheckBoardUngrant, Examine, boardTables, boardParts
<1>3. CASE \/ CreateDefaultColumn(w) \/ CreateColumn(w) \/ DeleteColumn(w) \/ LogTask(w) \/ LogItem(w)
           \/ NotePart(w) \/ AddDependency(w) \/ RemoveDependency(w) \/ SetBoardGrant(w)
           \/ RemoveBoardGrant(w)
  BY <1>3 DEF CreateDefaultColumn, CreateColumn, DeleteColumn, LogTask, LogItem, NotePart, AddDependency,
              RemoveDependency, SetBoardGrant, RemoveBoardGrant, boardParts
<1> QED BY <1>1, <1>2, <1>3

\* No board and no task disappears.
LEMMA BoardsAndTasksRemain ==
  ASSUME BoardInv, NEW w \in Threads,
         \/ CreateBoard(w) \/ DeleteBoard(w) \/ InsertTask(w) \/ UpdateTask(w) \/ MoveItem(w) \/ DeleteTask(w)
  PROVE  UNCHANGED boardParts /\ MoreBoardsAndTasks
<1>1. /\ boards \in Seq(BoardRows) /\ tasks \in Seq(TaskRows)
  BY DEF BoardInv, BoardsTyped, BoardRowTypes, RowsOnBoards
<1>2. CASE CreateBoard(w)
  <2>1. PICK b : boards' = Append(boards, b) /\ tasks' = tasks /\ UNCHANGED boardParts
    BY <1>2 DEF CreateBoard, boardParts
  <2>2. DOMAIN boards \subseteq DOMAIN boards'
    BY <1>1, <2>1, OneMore
  <2> QED BY <2>1, <2>2 DEF MoreBoardsAndTasks
<1>3. CASE DeleteBoard(w) \/ DeleteTask(w)
  BY <1>3 DEF DeleteBoard, DeleteTask, Delete, MoreBoardsAndTasks, boardParts
<1>4. CASE InsertTask(w)
  <2>1. UNCHANGED boardParts /\ boards' = boards /\ (tasks' = tasks \/ \E t : tasks' = Append(tasks, t))
    BY <1>4 DEF InsertTask, boardParts
  <2>2. DOMAIN tasks \subseteq DOMAIN tasks'
    BY <1>1, <2>1, OneMore
  <2> QED BY <2>1, <2>2 DEF MoreBoardsAndTasks
<1>5. CASE UpdateTask(w) \/ MoveItem(w)
  <2>1. UNCHANGED boardParts /\ boards' = boards
    BY <1>5 DEF UpdateTask, MoveItem, boardParts
  <2>2. DOMAIN tasks' = DOMAIN tasks
    BY <1>5 DEF UpdateTask, MoveItem
  <2> QED BY <2>1, <2>2 DEF MoreBoardsAndTasks
<1> QED BY <1>2, <1>3, <1>4, <1>5

LEMMA LabelStepsTyped ==
  ASSUME BoardInv, PartsTyped, NEW w \in Threads, CreateLabel(w) \/ DeleteLabel(w)
  PROVE  PartsTyped'
<1>1. UNCHANGED <<boards, tasks, lists, items, assigned, tagged, halted>>
  BY DEF CreateLabel, DeleteLabel
<1>2. labels \in Seq(LabelRows) /\ \A l \in DOMAIN labels : labels[l].board \in DOMAIN boards
  BY DEF PartsTyped, LabelsOnBoards
<1> DEFINE Sound == labels' \in Seq(LabelRows) /\ DOMAIN labels \subseteq DOMAIN labels'
                   /\ \A l \in DOMAIN labels' : labels'[l].board \in DOMAIN boards
<1>3. Sound
  <2>1. CASE labels' = labels
    BY <1>2, <2>1
  <2>2. ASSUME NEW b, BoardThere(b), labels' = Append(labels, [board |-> b, here |-> TRUE])
        PROVE  Sound
    <3> DEFINE row == [board |-> b, here |-> TRUE]
    <3>1. b \in DOMAIN boards /\ DOMAIN boards \subseteq Nat
      <4>1. DOMAIN boards = 1 .. Len(boards) /\ Len(boards) \in Nat
        BY BoardRowCount DEF BoardInv, BoardsTyped
      <4> QED BY <2>2, <4>1 DEF BoardThere
    <3>2. row \in LabelRows /\ row.board = b
      BY <3>1 DEF LabelRows
    <3>3. labels' = Append(labels, row)
      BY <2>2
    <3> HIDE DEF row
    <3>4. labels' \in Seq(LabelRows)
      BY <1>2, <3>2, <3>3
    <3> QED BY <1>2, <3>1, <3>2, <3>3, <3>4, OneMore
  <2>3. ASSUME NEW k, labels' = Delete(labels, k)
        PROVE  Sound
    <3>1. Markable(LabelRows)
      BY DEF Markable, LabelRows
    <3>2. labels' \in Seq(LabelRows) /\ MarkedIn(labels, labels', k)
      BY <1>2, <2>3, <3>1, Marked
    <3>3. \A l \in DOMAIN labels : labels[l] \in LabelRows
      BY <1>2, Elements
    <3>4. \A l \in DOMAIN labels : labels'[l].board = labels[l].board
      BY <3>2, <3>3 DEF MarkedIn, LabelRows
    <3> QED BY <1>2, <3>2, <3>4 DEF MarkedIn
  <2> QED BY <2>1, <2>2, <2>3 DEF CreateLabel, DeleteLabel
<1> QED BY <1>1, <1>3 DEF PartsTyped, LabelsOnBoards, ListsOnTasks, ItemsOnLists, PairsOnTasks

LEMMA ListStepsTyped ==
  ASSUME BoardInv, PartsTyped, NEW w \in Threads, CreateChecklist(w) \/ DeleteChecklist(w)
  PROVE  PartsTyped'
<1>1. UNCHANGED <<boards, tasks, labels, items, assigned, tagged, halted>>
  BY DEF CreateChecklist, DeleteChecklist
<1>2. lists \in Seq(ListRows) /\ \A k \in DOMAIN lists : lists[k].task \in DOMAIN tasks
  BY DEF PartsTyped, ListsOnTasks
<1> DEFINE Sound == lists' \in Seq(ListRows) /\ DOMAIN lists \subseteq DOMAIN lists'
                   /\ \A k \in DOMAIN lists' : lists'[k].task \in DOMAIN tasks
<1>3. Sound
  <2>1. CASE lists' = lists
    BY <1>2, <2>1
  <2>2. ASSUME NEW t, TaskThere(t), lists' = Append(lists, [task |-> t, here |-> TRUE])
        PROVE  Sound
    <3> DEFINE row == [task |-> t, here |-> TRUE]
    <3>1. t \in DOMAIN tasks /\ DOMAIN tasks \subseteq Nat
      <4>1. DOMAIN tasks = 1 .. Len(tasks) /\ Len(tasks) \in Nat
        BY BoardRowCount DEF BoardInv, BoardsTyped
      <4> QED BY <2>2, <4>1 DEF TaskThere
    <3>2. row \in ListRows /\ row.task = t
      BY <3>1 DEF ListRows
    <3>3. lists' = Append(lists, row)
      BY <2>2
    <3> HIDE DEF row
    <3>4. lists' \in Seq(ListRows)
      BY <1>2, <3>2, <3>3
    <3> QED BY <1>2, <3>1, <3>2, <3>3, <3>4, OneMore
  <2>3. ASSUME NEW k, lists' = Delete(lists, k)
        PROVE  Sound
    <3>1. Markable(ListRows)
      BY DEF Markable, ListRows
    <3>2. lists' \in Seq(ListRows) /\ MarkedIn(lists, lists', k)
      BY <1>2, <2>3, <3>1, Marked
    <3>3. \A l \in DOMAIN lists : lists[l] \in ListRows
      BY <1>2, Elements
    <3>4. \A l \in DOMAIN lists : lists'[l].task = lists[l].task
      BY <3>2, <3>3 DEF MarkedIn, ListRows
    <3> QED BY <1>2, <3>2, <3>4 DEF MarkedIn
  <2> QED BY <2>1, <2>2, <2>3 DEF CreateChecklist, DeleteChecklist
<1> QED BY <1>1, <1>3 DEF PartsTyped, LabelsOnBoards, ListsOnTasks, ItemsOnLists, PairsOnTasks

LEMMA ItemStepsTyped ==
  ASSUME BoardInv, PartsTyped, NEW w \in Threads, AddItem(w) \/ UpdateItem(w) \/ DeleteItem(w)
  PROVE  PartsTyped'
<1>1. UNCHANGED <<boards, tasks, labels, lists, assigned, tagged, halted>>
  BY DEF AddItem, UpdateItem, DeleteItem
<1>2. items \in Seq(ItemRows) /\ \A i \in DOMAIN items : items[i].list \in DOMAIN lists
  BY DEF PartsTyped, ItemsOnLists
<1>3. \A i \in DOMAIN items : items[i] \in ItemRows
  BY <1>2, Elements
<1> DEFINE Sound == items' \in Seq(ItemRows) /\ \A i \in DOMAIN items' : items'[i].list \in DOMAIN lists
<1>4. Sound
  <2>1. CASE items' = items
    BY <1>2, <2>1
  <2>2. ASSUME NEW k, ListThere(k), items' = Append(items, [list |-> k, checked |-> FALSE, here |-> TRUE])
        PROVE  Sound
    <3> DEFINE row == [list |-> k, checked |-> FALSE, here |-> TRUE]
    <3>1. k \in DOMAIN lists /\ DOMAIN lists \subseteq Nat
      <4>1. lists \in Seq(ListRows)
        BY DEF PartsTyped, ListsOnTasks
      <4>2. DOMAIN lists = 1 .. Len(lists) /\ Len(lists) \in Nat
        BY <4>1, Elements
      <4> QED BY <2>2, <4>2 DEF ListThere
    <3>2. row \in ItemRows /\ row.list = k
      BY <3>1 DEF ItemRows
    <3>3. items' = Append(items, row)
      BY <2>2
    <3> HIDE DEF row
    <3>4. items' \in Seq(ItemRows)
      BY <1>2, <3>2, <3>3
    <3> QED BY <1>2, <3>1, <3>2, <3>3, <3>4, OneMore
  <2>3. ASSUME NEW k, NEW c \in BOOLEAN, items' = [items EXCEPT ![k].checked = c]
        PROVE  Sound
    <3>1. items' = [i \in DOMAIN items |-> items'[i]]
          /\ \A i \in DOMAIN items : items'[i] = items[i] \/ items'[i] = [items[i] EXCEPT !.checked = c]
      BY <2>3
    <3>2. \A i \in DOMAIN items : items'[i] \in ItemRows /\ items'[i].list = items[i].list
      BY <1>3, <3>1 DEF ItemRows
    <3>3. items' \in Seq(ItemRows)
      BY <1>2, <3>1, <3>2, Rewritten
    <3> QED BY <1>2, <3>1, <3>2, <3>3
  <2>4. ASSUME NEW k, items' = Delete(items, k)
        PROVE  Sound
    <3>1. Markable(ItemRows)
      BY DEF Markable, ItemRows
    <3>2. items' \in Seq(ItemRows) /\ MarkedIn(items, items', k)
      BY <1>2, <2>4, <3>1, Marked
    <3>3. \A i \in DOMAIN items : items'[i].list = items[i].list
      BY <1>3, <3>2 DEF MarkedIn, ItemRows
    <3> QED BY <1>2, <3>2, <3>3 DEF MarkedIn
  <2>5. UpdateItem(w) => job[w].checked \in BOOLEAN
    <3> SUFFICES ASSUME UpdateItem(w) PROVE job[w].checked \in BOOLEAN
      OBVIOUS
    <3>1. job[w].op = "update item" /\ job[w].at # "none"
      BY DEF UpdateItem, At
    <3> QED BY <3>1, BoardServing DEF BoardInv, BoardFields
  <2> QED BY <2>1, <2>2, <2>3, <2>4, <2>5 DEF AddItem, UpdateItem, DeleteItem
<1> QED BY <1>1, <1>4 DEF PartsTyped, LabelsOnBoards, ListsOnTasks, ItemsOnLists, PairsOnTasks

LEMMA PairStepsTyped ==
  ASSUME BoardInv, PartsTyped, NEW w \in Threads, Unassign(w) \/ Assign(w) \/ Untag(w) \/ Tag(w)
  PROVE  PartsTyped'
<1>1. UNCHANGED <<boards, tasks, labels, lists, items>>
  BY DEF Unassign, Assign, Untag, Tag
<1>2. PICK j : j = job[w]
  OBVIOUS
<1>3. j.op \in {"task", "edit"} /\ j.at \in {"unassign", "assign", "untag", "tag"}
  BY <1>2 DEF Unassign, Assign, Untag, Tag, At
<1>4. j.saw.task \in DOMAIN tasks
  <2>1. Telling(j.op, j.at) /\ j.at # "none"
    BY <1>3 DEF Telling
  <2> QED BY <1>2, <2>1, BoardServing DEF BoardInv, BoardFits, BoardFitsAt, ChangeTold
<1>5. \A p \in assigned' : p \in assigned \/ \E u \in Staff : p = <<j.saw.task, u>>
  BY <1>2 DEF Unassign, Assign, Untag, Tag
<1>6. \A p \in tagged' : p \in tagged \/ \E l \in DOMAIN labels : p = <<j.saw.task, l>>
  BY <1>2 DEF Unassign, Assign, Untag, Tag, LabelThere
<1>7. halted' \subseteq halted \cup {j.saw.task}
  BY <1>2 DEF Unassign, Assign, Untag, Tag
<1>8. PairsOnTasks'
  BY <1>1, <1>4, <1>5, <1>6, <1>7 DEF PartsTyped, PairsOnTasks
<1> QED BY <1>1, <1>8 DEF PartsTyped, LabelsOnBoards, ListsOnTasks, ItemsOnLists

LEMMA PartsStep ==
  ASSUME BoardInv, PartsTyped, [NextBoards]_boardVars
  PROVE  PartsTyped'
<1>1. ASSUME UNCHANGED boardVars PROVE PartsTyped'
  BY <1>1, PartsAmongMore DEF boardVars, boardTables, boardParts, MoreBoardsAndTasks
<1>2. ASSUME NEW w \in Threads, UNCHANGED boardParts, boards' = boards, tasks' = tasks
      PROVE  PartsTyped'
  BY <1>2, PartsAmongMore DEF MoreBoardsAndTasks
<1>3. ASSUME NEW w \in Threads, UNCHANGED boardParts, MoreBoardsAndTasks
      PROVE  PartsTyped'
  BY <1>3, PartsAmongMore
<1> QED BY <1>1, <1>2, <1>3, PartsLeft, BoardsAndTasksRemain, LabelStepsTyped, ListStepsTyped,
           ItemStepsTyped, PairStepsTyped DEF NextBoards

LEMMA PartsStart ==
  ASSUME InitBoards
  PROVE  PartsTyped
<1>1. PICK s \in BoardScenarios : BoardTables(s) /\ Listening(s)
  BY DEF InitBoards
<1>2. s.labels \in Seq([board : DOMAIN s.boards, here : {TRUE}])
  BY BoardAssumption
<1>3. /\ boards = s.boards /\ labels = s.labels /\ lists = <<>> /\ items = <<>>
      /\ assigned = {} /\ tagged = {} /\ halted = {}
  BY <1>1 DEF BoardTables
<1>4. DOMAIN boards \subseteq Nat
  <2>1. DOMAIN boards = 1 .. Len(boards) /\ Len(boards) \in Nat
    BY BoardsStart, BoardRowCount DEF BoardInv, BoardsTyped
  <2> QED BY <2>1
<1>5. LabelsOnBoards
  <2> DEFINE R == [board : DOMAIN boards, here : {TRUE}]
  <2>1. labels \in Seq(R)
    BY <1>2, <1>3
  <2> HIDE DEF R
  <2>2. \A l \in DOMAIN labels : labels[l] \in R
    BY <2>1, Elements
  <2>3. \A l \in DOMAIN labels : labels[l] \in LabelRows /\ labels[l].board \in DOMAIN boards
    BY <1>4, <2>2 DEF R, LabelRows
  <2> QED BY <2>1, <2>3, Widened DEF LabelsOnBoards
<1> QED BY <1>3, <1>5 DEF PartsTyped, ListsOnTasks, ItemsOnLists, PairsOnTasks

\* Boards, columns, tasks, labels, checklists and their items, dependencies,
\* assignees, grants and the activity are always well formed: every one belongs
\* to rows that were made, as the foreign keys of their tables want.
THEOREM BoardRowsTyped == BoardsSpec => []BoardTypes
<1>1. ASSUME BoardInv, PartsTyped PROVE BoardTypes
  <2>1. BoardRowTypes
    BY <1>1 DEF BoardInv, BoardsTyped
  <2>2. /\ boards \in Seq(BoardRows) /\ columns \in Seq(ColumnRows) /\ tasks \in Seq(TaskRows)
        /\ log \in Seq(LogRows) /\ labels \in Seq(LabelRows) /\ lists \in Seq(ListRows)
        /\ items \in Seq(ItemRows)
    BY <1>1, <2>1 DEF BoardRowTypes, RowsOnBoards, PartsTyped, LabelsOnBoards, ListsOnTasks, ItemsOnLists
  <2>3. boards \in Seq([by : Staff, here : BOOLEAN])
    BY <2>2 DEF BoardRows
  <2>4. columns \in Seq([board : DOMAIN boards, here : BOOLEAN])
    <3> DEFINE R == [board : DOMAIN boards, here : BOOLEAN]
    <3>1. \A c \in DOMAIN columns : columns[c] \in ColumnRows /\ columns[c].board \in DOMAIN boards
      BY <2>1, <2>2, Elements DEF BoardRowTypes, RowsOnBoards
    <3>2. \A c \in DOMAIN columns : columns[c] \in R
      BY <3>1 DEF ColumnRows
    <3> HIDE DEF R
    <3>3. columns \in Seq(R)
      BY <2>2, <3>2, Widened
    <3> QED BY <3>3 DEF R
  <2>5. tasks \in Seq([board : DOMAIN boards, column : DOMAIN columns, title : STRING, by : Staff,
                       here : BOOLEAN])
    <3> DEFINE R == [board : DOMAIN boards, column : DOMAIN columns, title : STRING, by : Staff,
                     here : BOOLEAN]
    <3>1. \A t \in DOMAIN tasks :
            tasks[t] \in TaskRows /\ tasks[t].column \in DOMAIN columns /\ tasks[t].board \in DOMAIN boards
      BY <2>1, <2>2, Elements DEF BoardRowTypes, RowsOnBoards
    <3>2. \A t \in DOMAIN tasks : tasks[t] \in R
      BY <3>1 DEF TaskRows
    <3> HIDE DEF R
    <3>3. tasks \in Seq(R)
      BY <2>2, <3>2, Widened
    <3> QED BY <3>3 DEF R
  <2>6. labels \in Seq([board : DOMAIN boards, here : BOOLEAN])
    <3> DEFINE R == [board : DOMAIN boards, here : BOOLEAN]
    <3>1. \A l \in DOMAIN labels : labels[l] \in LabelRows /\ labels[l].board \in DOMAIN boards
      BY <1>1, <2>2, Elements DEF PartsTyped, LabelsOnBoards
    <3>2. \A l \in DOMAIN labels : labels[l] \in R
      BY <3>1 DEF LabelRows
    <3> HIDE DEF R
    <3>3. labels \in Seq(R)
      BY <2>2, <3>2, Widened
    <3> QED BY <3>3 DEF R
  <2>7. lists \in Seq([task : DOMAIN tasks, here : BOOLEAN])
    <3> DEFINE R == [task : DOMAIN tasks, here : BOOLEAN]
    <3>1. \A k \in DOMAIN lists : lists[k] \in ListRows /\ lists[k].task \in DOMAIN tasks
      BY <1>1, <2>2, Elements DEF PartsTyped, ListsOnTasks
    <3>2. \A k \in DOMAIN lists : lists[k] \in R
      BY <3>1 DEF ListRows
    <3> HIDE DEF R
    <3>3. lists \in Seq(R)
      BY <2>2, <3>2, Widened
    <3> QED BY <3>3 DEF R
  <2>8. items \in Seq([list : DOMAIN lists, checked : BOOLEAN, here : BOOLEAN])
    <3> DEFINE R == [list : DOMAIN lists, checked : BOOLEAN, here : BOOLEAN]
    <3>1. \A i \in DOMAIN items : items[i] \in ItemRows /\ items[i].list \in DOMAIN lists
      BY <1>1, <2>2, Elements DEF PartsTyped, ItemsOnLists
    <3>2. \A i \in DOMAIN items : items[i] \in R
      BY <3>1 DEF ItemRows
    <3> HIDE DEF R
    <3>3. items \in Seq(R)
      BY <2>2, <3>2, Widened
    <3> QED BY <3>3 DEF R
  <2>9. log \in Seq([task : DOMAIN tasks, by : Staff, from : Nat, to : Nat])
    <3> DEFINE R == [task : DOMAIN tasks, by : Staff, from : Nat, to : Nat]
    <3>1. \A i \in DOMAIN log : log[i] \in LogRows /\ log[i].task \in DOMAIN tasks
      BY <2>1, <2>2, Elements DEF BoardRowTypes, RowsOnBoards
    <3>2. \A i \in DOMAIN log : log[i] \in R
      BY <3>1 DEF LogRows
    <3> HIDE DEF R
    <3>3. log \in Seq(R)
      BY <2>2, <3>2, Widened
    <3> QED BY <3>3 DEF R
  <2>10. links \subseteq (DOMAIN tasks) \X (DOMAIN tasks) /\ boardGrants \in [Staff -> DOMAIN Grades]
    BY <2>1 DEF BoardRowTypes, LinksOnBoards, GrantsOnBoards
  <2>11. /\ assigned \subseteq (DOMAIN tasks) \X Staff /\ tagged \subseteq (DOMAIN tasks) \X (DOMAIN labels)
         /\ halted \subseteq DOMAIN tasks
    BY <1>1 DEF PartsTyped, PairsOnTasks
  <2> QED BY <2>3, <2>4, <2>5, <2>6, <2>7, <2>8, <2>9, <2>10, <2>11 DEF BoardTypes
<1>2. BoardInv /\ PartsTyped /\ [NextBoards]_boardVars => PartsTyped'
  BY PartsStep
<1>3. BoardInv /\ PartsTyped => BoardTypes
  BY <1>1
<1> QED BY <1>2, <1>3, PartsStart, BoardsAlways, PTL DEF BoardsSpec

\* A task and what it depends on lie on one board, however requests overlap; and
\* in turn, a task lies in a column that is there (task_board_handler.cpp:717),
\* and its activity leads, move by move, to where it is (:1058), unless a request
\* stopped half way (:1082).
THEOREM TasksAlwaysWhereLogged == BoardsSpec => []TasksWhereLogged
<1>1. BoardInv => TasksWhereLogged
  <2> SUFFICES ASSUME BoardInv PROVE TasksWhereLogged
    OBVIOUS
  <2>1. /\ \A t \in DOMAIN tasks : columns[tasks[t].column].board = tasks[t].board
        /\ \A p \in links : tasks[p[1]].board = tasks[p[2]].board
    BY DEF BoardInv, BoardsTyped, BoardRowTypes, RowsOnBoards, LinksOnBoards
  <2>2. ASSUME OneAtATime PROVE Housed /\ Chained /\ ToldSoFar
    BY <2>2 DEF BoardInv
  <2>3. ASSUME OneAtATime, AtRest, NEW t \in DOMAIN tasks \ halted
        PROVE  ToldUpTo(t, tasks[t].column)
    <3>1. \A w \in Threads : job[w] = Free
      BY <2>3 DEF AtRest, Engaged
    <3>2. \A w \in Threads : ~Telltale(job[w], t)
      BY <3>1 DEF Telltale, Telling, Free
    <3> QED BY <2>2, <2>3, <3>2 DEF ToldSoFar
  <2>4. ASSUME OneAtATime, NEW t \in DOMAIN tasks
        PROVE  /\ tasks[t].here /\ BoardThere(tasks[t].board) => ColumnThere(tasks[t].column)
               /\ t \notin halted =>
                    /\ \A i, j \in MovesOf(t) : NextMove(t, i, j) => log[j].from = log[i].to
                    /\ AtRest => \A i \in MovesOf(t) : LastMove(t, i) => log[i].to = tasks[t].column
    <3>1. tasks[t].here /\ BoardThere(tasks[t].board) => ColumnThere(tasks[t].column)
      BY <2>2, <2>4 DEF Housed
    <3>2. t \notin halted => Linked(t)
      BY <2>2, <2>4 DEF Chained
    <3>3. t \notin halted /\ AtRest => ToldUpTo(t, tasks[t].column)
      BY <2>3, <2>4
    <3> QED BY <3>1, <3>2, <3>3 DEF Linked, ToldUpTo
  <2> QED BY <2>1, <2>4 DEF TasksWhereLogged
<1> QED BY <1>1, BoardsAlways, PTL

-----------------------------------------------------------------------------
(* The calendar *)

EventRules == RulesOf(Frequencies)
EventRows == [by : Guests, start : Nat, end : Nat, rule : EventRules, here : BOOLEAN]

\* What a request that changes an event may name.
Change(r) ==
  /\ {"start", "end", "rule"} \subseteq DOMAIN r
  /\ r.start \in Nat \cup {Leave} /\ r.end \in Nat \cup {Leave}
  /\ r.rule \in EventRules \/ r.rule.freq = "leave"
CalendarFields(r) ==
  /\ "op" \in DOMAIN r /\ "by" \in DOMAIN r /\ r.by \in Guests
  /\ r.op = "event" => /\ {"start", "end", "rule"} \subseteq DOMAIN r
                       /\ r.start \in Nat /\ r.end \in Nat /\ r.rule \in EventRules
  /\ r.op = "update" => Change(r)
  /\ r.op \in {"update", "delete", "exception", "rsvp"} => "event" \in DOMAIN r
  /\ r.op \in {"grant", "ungrant"} => "of" \in DOMAIN r /\ r.of \in Guests
  /\ r.op = "grant" => "level" \in DOMAIN r /\ r.level \in DOMAIN Rights

EventsTyped == events \in Seq(EventRows)
\* One exception for a day of an event that is there, and one answer of a person.
ExceptionsTyped ==
  /\ \A x \in exceptions : x.event \in DOMAIN events /\ EventThere(x.event)
  /\ \A x, y \in exceptions : x.event = y.event /\ x.day = y.day => x = y
AnswersTyped ==
  /\ \A a \in rsvps : a.event \in DOMAIN events /\ EventThere(a.event) /\ a.of \in Guests
  /\ \A a, b \in rsvps : a.event = b.event /\ a.of = b.of /\ a.day = b.day => a = b
RightsTyped == calendarGrants \in [Guests -> DOMAIN Rights]
CalendarRowTypes == EventsTyped /\ ExceptionsTyped /\ AnswersTyped /\ RightsTyped

\* What a request has read of an event, with what it is to write over it.
Rewrites(s) == s.start \in Nat /\ s.end \in Nat /\ s.rule \in EventRules
CalendarFits(j) ==
  /\ NamesEvents(j)
  /\ j.op = "update" /\ j.at = "write" => Rewrites(j.saw)

CalendarInv ==
  /\ Pool /\ calls.requests \subseteq CalendarRequests
  /\ CalendarRowTypes
  /\ \A w \in Threads : CalendarFits(job[w])

LEMMA CalendarRequestFields ==
  ASSUME NEW r \in CalendarRequests
  PROVE  CalendarFields(r) /\ r = [f \in DOMAIN r |-> r[f]] /\ {"at", "saw"} \cap DOMAIN r = {}
<1>1. CASE r \in [op : {"event"}, by : Guests, start : Nat, end : Nat, rule : RulesOf(Frequencies)]
  BY <1>1 DEF CalendarFields, EventRules
<1>2. CASE r \in [op : {"update"}, by : Guests, event : Nat, start : Nat \cup {Leave},
                  end : Nat \cup {Leave}, rule : RulesOf(Frequencies \cup {"leave"})]
  <2>1. r.rule \in RulesOf(Frequencies \cup {"leave"})
    BY <1>2
  <2>2. r.rule \in EventRules \/ r.rule.freq = "leave"
    BY <2>1 DEF RulesOf, EventRules
  <2> QED BY <1>2, <2>2 DEF CalendarFields, Change
<1>3. CASE \/ r \in [op : {"delete"}, by : Guests, event : Nat]
           \/ r \in [op : {"exception"}, by : Guests, event : Nat, day : Nat, gone : BOOLEAN,
                     start : Nat \cup {Leave}, end : Nat \cup {Leave}]
           \/ r \in [op : {"rsvp"}, by : Guests, event : Nat, day : Nat \cup {Whole}, status : STRING]
  BY <1>3 DEF CalendarFields
<1>4. CASE \/ r \in [op : {"grant"}, by : Guests, of : Guests, level : DOMAIN Rights]
           \/ r \in [op : {"ungrant"}, by : Guests, of : Guests]
  BY <1>4 DEF CalendarFields
<1> QED BY <1>1, <1>2, <1>3, <1>4 DEF CalendarRequests

LEMMA CalendarJobFields ==
  ASSUME CalendarInv, NEW w \in Threads, job[w].at # "none"
  PROVE  job[w] # Free /\ CalendarFields(job[w]) /\ IsJob(job[w]) /\ CalendarFits(job[w])
<1> DEFINE r == Asked(job[w])
<1>0. job[w] # Free
  BY DEF Free
<1>1. r \in CalendarRequests /\ IsJob(job[w])
  BY <1>0 DEF CalendarInv, Pool, Engaged
<1>2. CalendarFields(r)
  BY <1>1, CalendarRequestFields
<1>3. \A f \in DOMAIN r : job[w][f] = r[f] /\ f \in DOMAIN job[w]
  BY DEF Asked
<1>4. /\ "op" \in DOMAIN job[w] /\ job[w].op = r.op
      /\ "by" \in DOMAIN job[w] /\ job[w].by = r.by
  BY <1>2, <1>3 DEF CalendarFields
<1>5. /\ "start" \in DOMAIN r => job[w].start = r.start /\ "start" \in DOMAIN job[w]
      /\ "end" \in DOMAIN r => job[w].end = r.end /\ "end" \in DOMAIN job[w]
      /\ "rule" \in DOMAIN r => job[w].rule = r.rule /\ "rule" \in DOMAIN job[w]
      /\ "event" \in DOMAIN r => "event" \in DOMAIN job[w]
      /\ "level" \in DOMAIN r => job[w].level = r.level /\ "level" \in DOMAIN job[w]
      /\ "of" \in DOMAIN r => job[w].of = r.of /\ "of" \in DOMAIN job[w]
  BY <1>3
<1> HIDE DEF r
<1>6. CalendarFields(job[w])
  BY <1>2, <1>4, <1>5 DEF CalendarFields, Change
<1> QED BY <1>0, <1>1, <1>6 DEF CalendarInv

\* A worker goes on, or is done, and no event disappears.
LEMMA CalendarStep ==
  ASSUME CalendarInv, NEW w \in Threads, Moves(w), CalendarRowTypes',
         DOMAIN events \subseteq DOMAIN events', job'[w] = Free \/ CalendarFits(job[w])'
  PROVE  CalendarInv'
<1>1. Pool' /\ calls' = calls /\ \A v \in Threads \ {w} : job'[v] = job[v]
  BY MoveKeepsPool DEF CalendarInv, Moves
<1>2. CalendarFits(job[w])'
  BY DEF CalendarFits, NamesEvents, Free
<1>3. ASSUME NEW v \in Threads \ {w} PROVE CalendarFits(job[v])'
  BY <1>1 DEF CalendarInv, CalendarFits, NamesEvents
<1> QED BY <1>1, <1>2, <1>3 DEF CalendarInv

LEMMA CalendarGoesOn ==
  ASSUME CalendarInv, NEW w \in Threads, job[w].at # "none", UNCHANGED calendarTables,
         Moves(w), NEW saw, GoesTo(w, "write", saw), job[w].op = "update" => Rewrites(saw)
  PROVE  CalendarInv'
<1>1. PICK j : j = job[w]
  OBVIOUS
<1>2. PICK k : k = job'[w]
  OBVIOUS
<1>3. CalendarFields(j) /\ CalendarFits(j)
  BY <1>1, CalendarJobFields
<1>4. /\ k.op = j.op /\ k.saw = saw
      /\ "event" \in DOMAIN k => "event" \in DOMAIN j /\ k.event = j.event
  BY <1>1, <1>2, <1>3 DEF GoesTo, CalendarFields
<1>5. CalendarFits(k)'
  BY <1>1, <1>3, <1>4 DEF CalendarFits, NamesEvents, Rewrites, calendarTables
<1>6. CalendarRowTypes' /\ DOMAIN events' = DOMAIN events
  BY DEF calendarTables, CalendarInv, CalendarRowTypes, EventsTyped, ExceptionsTyped, AnswersTyped,
         RightsTyped, EventThere
<1> QED BY <1>2, <1>5, <1>6, CalendarStep

LEMMA CalendarMoves ==
  ASSUME CalendarInv, NEW w \in Threads, job[w].at # "none"
  PROVE  /\ Proceed(w, "write") => Moves(w) /\ GoesTo(w, "write", job[w].saw)
         /\ \A saw : Recall(w, "write", saw) => Moves(w) /\ GoesTo(w, "write", saw)
         /\ Respond(w) => Moves(w) /\ job'[w] = Free
<1>1. job[w] # Free /\ IsJob(job[w]) /\ Pool
  BY CalendarJobFields DEF CalendarInv
<1>2. ASSUME Proceed(w, "write") PROVE Moves(w) /\ GoesTo(w, "write", job[w].saw)
  <2>1. /\ Moves(w) /\ job'[w].at = "write" /\ DOMAIN job'[w] = DOMAIN job[w]
        /\ \A f \in DOMAIN job[w] \ {"at"} : job'[w][f] = job[w][f]
    BY <1>1, <1>2, Proceeding
  <2> QED BY <1>1, <2>1 DEF GoesTo, IsJob
<1>3. ASSUME NEW saw, Recall(w, "write", saw) PROVE Moves(w) /\ GoesTo(w, "write", saw)
  BY <1>1, <1>3, Recalling DEF GoesTo
<1>4. ASSUME Respond(w) PROVE Moves(w) /\ job'[w] = Free
  BY <1>1, <1>4, Responding
<1> QED BY <1>2, <1>3, <1>4

\* A request that is refused, or may write.
LEMMA WeighStep ==
  ASSUME CalendarInv, NEW w \in Threads, job[w].at = "check", job[w].op # "update",
         NEW refused, Weigh(w, refused, "write")
  PROVE  CalendarInv'
<1>1. UNCHANGED calendarTables /\ (Respond(w) \/ Proceed(w, "write"))
  BY DEF Weigh, Unless
<1>2. CASE Proceed(w, "write")
  BY <1>1, <1>2, CalendarMoves, CalendarGoesOn
<1>3. CASE Respond(w)
  <2>1. Moves(w) /\ job'[w] = Free
    BY <1>3, CalendarMoves
  <2>2. CalendarRowTypes' /\ DOMAIN events' = DOMAIN events
    BY <1>1 DEF calendarTables, CalendarInv, CalendarRowTypes, EventsTyped, ExceptionsTyped,
           AnswersTyped, RightsTyped, EventThere
  <2> QED BY <2>1, <2>2, CalendarStep
<1> QED BY <1>1, <1>2, <1>3

\* A request that has written and is answered.
LEMMA CalendarWritten ==
  ASSUME CalendarInv, NEW w \in Threads, job[w].at = "write", Respond(w), CalendarRowTypes',
         DOMAIN events \subseteq DOMAIN events'
  PROVE  CalendarInv'
<1>1. Moves(w) /\ job'[w] = Free
  BY CalendarMoves
<1> QED BY <1>1, CalendarStep

LEMMA TakeCalendarStep ==
  ASSUME CalendarInv, NEW w \in Threads, TakeCalendarRequest(w)
  PROVE  CalendarInv'
<1> DEFINE R == {r \in calls.requests : NamesEvents(r)}
<1>1. Accept(w, R) /\ UNCHANGED calendarTables
  BY DEF TakeCalendarRequest
<1>2. Plain(calls.requests) /\ Pool
  BY CalendarRequestFields DEF CalendarInv, Plain
<1>3. R \in SUBSET calls.requests
  OBVIOUS
<1> HIDE DEF R
<1>4. /\ Pool' /\ IsJob(job'[w]) /\ job'[w].at = "check" /\ Asked(job'[w]) \in R
      /\ \A v \in Threads \ {w} : job'[v] = job[v]
      /\ calls'.requests = calls.requests
  BY <1>1, <1>2, <1>3, AcceptKeepsPool
<1>5. CalendarFits(job[w])'
  <2>1. PICK k : k = job'[w]
    OBVIOUS
  <2>2. NamesEvents(Asked(k)) /\ k.at = "check"
    BY <1>4, <2>1 DEF R
  <2>3. "event" \in DOMAIN k => "event" \in DOMAIN Asked(k) /\ Asked(k).event = k.event
    BY DEF Asked
  <2>4. CalendarFits(k)'
    BY <1>1, <2>2, <2>3 DEF CalendarFits, NamesEvents, calendarTables
  <2> QED BY <2>1, <2>4
<1>6. CalendarRowTypes' /\ DOMAIN events' = DOMAIN events
  BY <1>1 DEF calendarTables, CalendarInv, CalendarRowTypes, EventsTyped, ExceptionsTyped,
         AnswersTyped, RightsTyped, EventThere
<1>7. ASSUME NEW v \in Threads \ {w} PROVE CalendarFits(job[v])'
  BY <1>4, <1>6 DEF CalendarInv, CalendarFits, NamesEvents
<1> QED BY <1>4, <1>5, <1>6, <1>7 DEF CalendarInv

LEMMA CreateEventStep ==
  ASSUME CalendarInv, NEW w \in Threads, CreateEvent(w)
  PROVE  CalendarInv'
<1>1. job[w].op = "event" /\ job[w].at = "write" /\ Respond(w)
  BY DEF CreateEvent, At
<1>2. CalendarFields(job[w])
  BY <1>1, CalendarJobFields
<1>3. PICK e : /\ e = [by |-> job[w].by, start |-> job[w].start, end |-> job[w].end,
                       rule |-> job[w].rule, here |-> TRUE]
               /\ events' = Append(events, e)
  BY DEF CreateEvent
<1>4. e \in EventRows
  BY <1>1, <1>2, <1>3 DEF CalendarFields, EventRows
<1>5. events \in Seq(EventRows)
  BY DEF CalendarInv, CalendarRowTypes, EventsTyped
<1>6. EventsTyped'
  BY <1>3, <1>4, <1>5 DEF EventsTyped
<1>7. /\ DOMAIN events \subseteq DOMAIN events'
      /\ \A i \in DOMAIN events : events'[i] = events[i]
  BY <1>3, <1>5, OneMore
<1>8. UNCHANGED <<exceptions, rsvps, calendarGrants>>
  BY DEF CreateEvent
<1>9. ExceptionsTyped' /\ AnswersTyped' /\ RightsTyped'
  BY <1>7, <1>8 DEF CalendarInv, CalendarRowTypes, ExceptionsTyped, AnswersTyped, RightsTyped,
     EventThere
<1> QED BY <1>1, <1>6, <1>7, <1>9, CalendarWritten DEF CalendarRowTypes

\* What is read of an event and what the request names make an event again.
LEMMA CheckUpdateStep ==
  ASSUME CalendarInv, NEW w \in Threads, CheckUpdateEvent(w)
  PROVE  CalendarInv'
<1>0. PICK r, old, s :
        /\ r = job[w] /\ old = events[r.event]
        /\ s = [start |-> IF r.start = Leave THEN old.start ELSE r.start,
                end |-> IF r.end = Leave THEN old.end ELSE r.end,
                rule |-> IF r.rule.freq = "leave" THEN old.rule ELSE r.rule]
  OBVIOUS
<1>1. r.op = "update" /\ r.at = "check" /\ UNCHANGED calendarTables
  BY <1>0 DEF CheckUpdateEvent, At
<1>2. Respond(w) \/ Recall(w, "write", s)
  BY Zenon, <1>0 DEF CheckUpdateEvent
<1>3. CalendarFields(r) /\ CalendarFits(r)
  BY <1>0, <1>1, CalendarJobFields
<1>4. r.event \in DOMAIN events /\ Change(r)
  BY <1>1, <1>3 DEF CalendarFields, CalendarFits, NamesEvents
<1>5. old \in EventRows
  BY <1>0, <1>4, Elements DEF CalendarInv, CalendarRowTypes, EventsTyped
<1>6. old.start \in Nat /\ old.end \in Nat /\ old.rule \in EventRules
  BY <1>5 DEF EventRows
<1>7. Rewrites(s)
  BY <1>0, <1>4, <1>6 DEF Rewrites, Change
<1>8. CASE Recall(w, "write", s)
  BY <1>0, <1>1, <1>7, <1>8, CalendarMoves, CalendarGoesOn
<1>9. CASE Respond(w)
  <2>1. Moves(w) /\ job'[w] = Free
    BY <1>0, <1>1, <1>9, CalendarMoves
  <2>2. CalendarRowTypes' /\ DOMAIN events' = DOMAIN events
    BY <1>1 DEF calendarTables, CalendarInv, CalendarRowTypes, EventsTyped, ExceptionsTyped,
           AnswersTyped, RightsTyped, EventThere
  <2> QED BY <2>1, <2>2, CalendarStep
<1> QED BY <1>2, <1>8, <1>9

\* A row of EventRows, rewritten.
LEMMA EventRewritten ==
  ASSUME NEW old \in EventRows, NEW s, Rewrites(s), NEW e,
         e = [old EXCEPT !.start = s.start, !.end = s.end, !.rule = s.rule]
  PROVE  e \in EventRows /\ e.here = old.here
  BY DEF EventRows, Rewrites

LEMMA UpdateEventStep ==
  ASSUME CalendarInv, NEW w \in Threads, UpdateEvent(w)
  PROVE  CalendarInv'
<1>0. PICK r, e, s : r = job[w] /\ e = r.event /\ s = r.saw
  OBVIOUS
<1>1. r.op = "update" /\ r.at = "write" /\ Respond(w)
  BY <1>0 DEF UpdateEvent, At
<1>2. CalendarFields(r) /\ CalendarFits(r)
  BY <1>0, <1>1, CalendarJobFields
<1>3. e \in DOMAIN events /\ Rewrites(s)
  BY <1>0, <1>1, <1>2 DEF CalendarFields, CalendarFits, NamesEvents
<1>4. events \in Seq(EventRows) /\ \A i \in DOMAIN events : events[i] \in EventRows
  BY Elements DEF CalendarInv, CalendarRowTypes, EventsTyped
<1>5. \/ events' = events
      \/ events' = [events EXCEPT ![e].start = s.start, ![e].end = s.end, ![e].rule = s.rule]
  BY Zenon, <1>0 DEF UpdateEvent
<1>6. /\ DOMAIN events' = DOMAIN events /\ events' = [i \in DOMAIN events |-> events'[i]]
      /\ \A i \in DOMAIN events : i # e => events'[i] = events[i]
      /\ \/ events'[e] = events[e]
         \/ events'[e] = [events[e] EXCEPT !.start = s.start, !.end = s.end, !.rule = s.rule]
  <2>1. events = [i \in DOMAIN events |-> events[i]]
    BY <1>4, Elements
  <2> QED BY <1>3, <1>5, <2>1
<1>7. events'[e] \in EventRows /\ events'[e].here = events[e].here
  <2>1. PICK old, new : old = events[e] /\ new = events'[e]
    OBVIOUS
  <2>2. old \in EventRows
    BY <1>3, <1>4, <2>1
  <2>3. new = old \/ new = [old EXCEPT !.start = s.start, !.end = s.end, !.rule = s.rule]
    BY <1>6, <2>1
  <2>4. new \in EventRows /\ new.here = old.here
    BY <1>3, <2>2, <2>3, EventRewritten
  <2> QED BY <2>1, <2>4
<1>8. \A i \in DOMAIN events : events'[i] \in EventRows /\ events'[i].here = events[i].here
  BY <1>4, <1>6, <1>7
<1>9. EventsTyped'
  BY <1>4, <1>6, <1>8, Rewritten DEF EventsTyped
<1>10. UNCHANGED <<exceptions, rsvps, calendarGrants>>
  BY DEF UpdateEvent
<1>11. ExceptionsTyped' /\ AnswersTyped' /\ RightsTyped'
  BY <1>6, <1>8, <1>10 DEF CalendarInv, CalendarRowTypes, ExceptionsTyped, AnswersTyped,
     RightsTyped, EventThere
<1> QED BY <1>0, <1>1, <1>6, <1>9, <1>11, CalendarWritten DEF CalendarRowTypes

\* What belongs to an event goes with it.
LEMMA DeleteEventStep ==
  ASSUME CalendarInv, NEW w \in Threads, DeleteEvent(w)
  PROVE  CalendarInv'
<1>0. PICK r, e : r = job[w] /\ e = r.event
  OBVIOUS
<1>1. r.op = "delete" /\ r.at = "write" /\ Respond(w)
  BY <1>0 DEF DeleteEvent, At
<1>2. e \in DOMAIN events
  BY <1>0, <1>1, CalendarJobFields DEF CalendarFields, CalendarFits, NamesEvents
<1>3. events \in Seq(EventRows) /\ \A i \in DOMAIN events : events[i] \in EventRows
  BY Elements DEF CalendarInv, CalendarRowTypes, EventsTyped
<1>4. /\ events' = [events EXCEPT ![e].here = FALSE]
      /\ exceptions' = {x \in exceptions : x.event # e}
      /\ rsvps' = {a \in rsvps : a.event # e} /\ calendarGrants' = calendarGrants
  BY <1>0 DEF DeleteEvent
<1>5. /\ DOMAIN events' = DOMAIN events /\ events' = [i \in DOMAIN events |-> events'[i]]
      /\ \A i \in DOMAIN events : i # e => events'[i] = events[i]
      /\ events'[e] = [events[e] EXCEPT !.here = FALSE]
  <2>1. events = [i \in DOMAIN events |-> events[i]]
    BY <1>3, Elements
  <2> QED BY <1>2, <1>4, <2>1
<1>6. events'[e] \in EventRows
  BY <1>2, <1>3, <1>5 DEF EventRows
<1>7. EventsTyped'
  BY <1>3, <1>5, <1>6, Rewritten DEF EventsTyped
<1>8. ExceptionsTyped' /\ AnswersTyped' /\ RightsTyped'
  BY <1>4, <1>5 DEF CalendarInv, CalendarRowTypes, ExceptionsTyped, AnswersTyped,
     RightsTyped, EventThere
<1> QED BY <1>0, <1>1, <1>5, <1>7, <1>8, CalendarWritten DEF CalendarRowTypes

\* A new exception takes the place of the one for its day.
LEMMA SetExceptionStep ==
  ASSUME CalendarInv, NEW w \in Threads, SetException(w)
  PROVE  CalendarInv'
<1>0. PICK r, x : r = job[w] /\ x = ExceptionOf(r)
  OBVIOUS
<1>1. r.op = "exception" /\ r.at = "write" /\ Respond(w)
  BY <1>0 DEF SetException, At
<1>2. r.event \in DOMAIN events
  BY <1>0, <1>1, CalendarJobFields DEF CalendarFields, CalendarFits, NamesEvents
<1>3. UNCHANGED <<events, rsvps, calendarGrants>>
  BY DEF SetException
<1>4. \/ exceptions' = exceptions
      \/ /\ EventThere(r.event)
         /\ exceptions' = {y \in exceptions : ~(y.event = r.event /\ y.day = r.day)} \cup {x}
  BY Zenon, <1>0 DEF SetException
<1>5. x.event = r.event /\ x.day = r.day
  BY <1>0 DEF ExceptionOf
<1>6. ExceptionsTyped'
  BY <1>2, <1>3, <1>4, <1>5 DEF CalendarInv, CalendarRowTypes, ExceptionsTyped, EventThere
<1>7. EventsTyped' /\ AnswersTyped' /\ RightsTyped'
  BY <1>3 DEF CalendarInv, CalendarRowTypes, EventsTyped, AnswersTyped, RightsTyped, EventThere
<1> QED BY <1>0, <1>1, <1>3, <1>6, <1>7, CalendarWritten DEF CalendarRowTypes

\* A new answer takes the place of the one that the person gave.
LEMMA SetRsvpStep ==
  ASSUME CalendarInv, NEW w \in Threads, SetRsvp(w)
  PROVE  CalendarInv'
<1>0. PICK r, a : /\ r = job[w]
                  /\ a = [event |-> r.event, of |-> r.by, day |-> r.day, status |-> r.status]
  OBVIOUS
<1>1. r.op = "rsvp" /\ r.at = "write" /\ Respond(w)
  BY <1>0 DEF SetRsvp, At
<1>2. r.event \in DOMAIN events /\ r.by \in Guests
  BY <1>0, <1>1, CalendarJobFields DEF CalendarFields, CalendarFits, NamesEvents
<1>3. UNCHANGED <<events, exceptions, calendarGrants>>
  BY DEF SetRsvp
<1>4. \/ rsvps' = rsvps
      \/ /\ EventThere(r.event)
         /\ rsvps' = {b \in rsvps : ~(b.event = r.event /\ b.of = r.by /\ b.day = r.day)} \cup {a}
  BY Zenon, <1>0 DEF SetRsvp
<1>5. a.event = r.event /\ a.of = r.by /\ a.day = r.day
  BY <1>0
<1>6. AnswersTyped'
  BY <1>2, <1>3, <1>4, <1>5 DEF CalendarInv, CalendarRowTypes, AnswersTyped, EventThere
<1>7. EventsTyped' /\ ExceptionsTyped' /\ RightsTyped'
  BY <1>3 DEF CalendarInv, CalendarRowTypes, EventsTyped, ExceptionsTyped, RightsTyped, EventThere
<1> QED BY <1>0, <1>1, <1>3, <1>6, <1>7, CalendarWritten DEF CalendarRowTypes

LEMMA CalendarGrantStep ==
  ASSUME CalendarInv, NEW w \in Threads, SetCalendarGrant(w) \/ RemoveCalendarGrant(w)
  PROVE  CalendarInv'
<1>1. /\ job[w].at = "write" /\ Respond(w) /\ UNCHANGED <<events, exceptions, rsvps>>
      /\ \E level : /\ calendarGrants' = [calendarGrants EXCEPT ![job[w].of] = level]
                    /\ \/ job[w].op = "grant" /\ level = job[w].level
                       \/ job[w].op = "ungrant" /\ level = "view"
  BY DEF SetCalendarGrant, RemoveCalendarGrant, At
<1>2. CalendarFields(job[w])
  BY <1>1, CalendarJobFields
<1>3. "view" \in DOMAIN Rights
  BY DEF Rights
<1>4. RightsTyped'
  BY <1>1, <1>2, <1>3 DEF CalendarInv, CalendarRowTypes, RightsTyped, CalendarFields
<1>5. EventsTyped' /\ ExceptionsTyped' /\ AnswersTyped'
  BY <1>1 DEF CalendarInv, CalendarRowTypes, EventsTyped, ExceptionsTyped, AnswersTyped, EventThere
<1> QED BY <1>1, <1>4, <1>5, CalendarWritten DEF CalendarRowTypes

LEMMA CalendarStarts ==
  ASSUME InitCalendar
  PROVE  CalendarInv
<1>1. PICK s \in CalendarScenarios : CalendarTables(s) /\ Listening(s)
  BY DEF InitCalendar
<1> DEFINE R == [by : Guests, start : Nat, end : Nat, rule : RulesOf(Frequencies), here : {TRUE}]
<1>2. /\ s.events \in Seq(R) /\ s.calendarGrants \in [Guests -> DOMAIN Rights]
      /\ s.requests \subseteq CalendarRequests /\ s.atOnce \in Nat \ {0}
  BY CalendarAssumption
<1>3. \A e \in R : e \in EventRows
  BY DEF EventRows, EventRules
<1> HIDE DEF R
<1>4. /\ events = s.events /\ calendarGrants = s.calendarGrants
      /\ exceptions = {} /\ rsvps = {}
  BY <1>1 DEF CalendarTables
<1>5. Pool /\ calls.requests \subseteq CalendarRequests
  BY <1>1, <1>2, PoolStarts
<1>6. \A w \in Threads : job[w] = Free
  BY <1>1 DEF Listening
<1>7. EventsTyped
  <2>1. \A e \in DOMAIN events : events[e] \in EventRows
    BY <1>2, <1>3, <1>4, Elements
  <2> QED BY <1>2, <1>4, <2>1, Widened DEF EventsTyped
<1>8. ExceptionsTyped /\ AnswersTyped /\ RightsTyped
  BY <1>2, <1>4 DEF ExceptionsTyped, AnswersTyped, RightsTyped
<1>9. \A w \in Threads : CalendarFits(job[w])
  BY <1>6 DEF CalendarFits, NamesEvents, Free
<1> QED BY <1>5, <1>7, <1>8, <1>9 DEF CalendarInv, CalendarRowTypes

LEMMA CalendarSteps ==
  ASSUME CalendarInv, NEW w \in Threads,
         \/ TakeCalendarRequest(w)
         \/ CheckEvent(w) \/ CreateEvent(w) \/ CheckUpdateEvent(w) \/ UpdateEvent(w)
         \/ CheckDeleteEvent(w) \/ DeleteEvent(w) \/ CheckException(w) \/ SetException(w)
         \/ CheckRsvp(w) \/ SetRsvp(w) \/ CheckCalendarGrant(w) \/ SetCalendarGrant(w)
         \/ CheckCalendarUngrant(w) \/ RemoveCalendarGrant(w)
  PROVE  CalendarInv'
<1>1. CASE CheckEvent(w) \/ CheckDeleteEvent(w) \/ CheckException(w) \/ CheckRsvp(w)
  BY <1>1, WeighStep DEF CheckEvent, CheckDeleteEvent, CheckException, CheckRsvp, At
<1>2. CASE CheckCalendarGrant(w) \/ CheckCalendarUngrant(w)
  BY <1>2, WeighStep DEF CheckCalendarGrant, CheckCalendarUngrant, At
<1>3. CASE CreateEvent(w) \/ UpdateEvent(w) \/ DeleteEvent(w)
  BY <1>3, CreateEventStep, UpdateEventStep, DeleteEventStep
<1>4. CASE SetException(w) \/ SetRsvp(w) \/ SetCalendarGrant(w) \/ RemoveCalendarGrant(w)
  BY <1>4, SetExceptionStep, SetRsvpStep, CalendarGrantStep
<1>5. CASE TakeCalendarRequest(w) \/ CheckUpdateEvent(w)
  BY <1>5, TakeCalendarStep, CheckUpdateStep
<1> QED BY <1>1, <1>2, <1>3, <1>4, <1>5

LEMMA CalendarStutters ==
  ASSUME CalendarInv, UNCHANGED calendarVars
  PROVE  CalendarInv'
<1>1. UNCHANGED calendarTables /\ job' = job /\ calls' = calls
  BY DEF calendarVars, serving
<1>2. CalendarRowTypes'
  BY <1>1 DEF calendarTables, CalendarInv, CalendarRowTypes, EventsTyped, ExceptionsTyped,
         AnswersTyped, RightsTyped, EventThere
<1>3. Pool' /\ \A w \in Threads : CalendarFits(job[w])'
  BY <1>1 DEF calendarTables, CalendarInv, Pool, Engaged, CalendarFits, NamesEvents
<1> QED BY <1>1, <1>2, <1>3 DEF CalendarInv

\* The events of the calendar are always well formed, and the tables that hang
\* on them keep their keys: a day of an event has one exception
\* (create_event_exception), a person one answer to it (set_event_rsvp), and
\* both go with the event, however requests overlap.
THEOREM CalendarTyped == CalendarSpec => []CalendarTypes
<1>1. CalendarInv /\ [NextCalendar]_calendarVars => CalendarInv'
  BY CalendarSteps, CalendarStutters DEF NextCalendar
<1>2. CalendarInv => CalendarTypes
  <2> SUFFICES ASSUME CalendarInv PROVE CalendarTypes
    OBVIOUS
  <2>1. \A e \in DOMAIN events : events[e] \in EventRows
    BY Elements DEF CalendarInv, CalendarRowTypes, EventsTyped
  <2>2. ASSUME NEW e \in DOMAIN events
        PROVE  /\ events[e].by \in Guests /\ events[e].start \in Nat
               /\ events[e].here \in BOOLEAN /\ events[e].rule.interval > 0
    <3>1. /\ events[e].by \in Guests /\ events[e].start \in Nat
          /\ events[e].here \in BOOLEAN /\ events[e].rule \in EventRules
      BY <2>1 DEF EventRows
    <3>2. events[e].rule.interval \in Nat \ {0}
      BY <3>1 DEF EventRules, RulesOf
    <3> QED BY <3>1, <3>2
  <2> QED BY <2>2 DEF CalendarInv, CalendarRowTypes, ExceptionsTyped, AnswersTyped, RightsTyped,
                      CalendarTypes
<1> QED BY <1>1, <1>2, CalendarStarts, PTL DEF CalendarSpec
=============================================================================
