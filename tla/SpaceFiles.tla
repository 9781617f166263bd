------------------------------ MODULE SpaceFiles ------------------------------
(***************************************************************************)
(* The files of a space: folders, uploads in one piece and in chunks,      *)
(* versions, renaming, moving, deletion and who may do what                *)
(* (space_file_handler.cpp and upload_manager.cpp, with the statements of  *)
(* database.cpp and the calls of storage/local_fs_backend.cpp they make).  *)
(*                                                                         *)
(* PostgreSQL holds the rows and the storage holds the blobs, and nothing  *)
(* makes one wait for the other.  Every blob has the same size: a limit    *)
(* counts versions, and the limits of the server, the space and the        *)
(* personal spaces are one.  Everybody here is a member of the space.      *)
(***************************************************************************)
EXTENDS Requests, Sequences, FiniteSetsExt

CONSTANTS
  SpaceMembers,
  Librarians,      \* admins of the space or the server: may do everything
  FileNames,
  SpaceLimit,      \* how many versions the space may hold
  FileScenarios

Root == 0          \* the parent of what lies in no folder
Keep == "keep"     \* a PUT that leaves the name, or the parent, alone
Stay == 99
View == 0
Edit == 1
Own == 2

VARIABLES
  files,           \* space_files, with what has been deleted
  versions,        \* space_file_versions
  grants,          \* space_file_permissions
  uploads,         \* upload_sessions
  blobs,           \* what the storage holds under its final key
  minted,          \* how many keys have been drawn
  spilled,         \* history: blobs whose row was refused
  again            \* history: how often a version was reverted to

fileTables == <<files, versions, grants, uploads, blobs, minted, spilled, again>>
fileVars == <<fileTables, serving>>

File(parent, name, folder, by, blob) ==
  [parent |-> parent, name |-> name, folder |-> folder, by |-> by, blob |-> blob, here |-> TRUE]

\* What may be asked.
FileRequests ==
  [op : {"folder", "upload"}, by : SpaceMembers, parent : Nat, name : FileNames]
  \cup [op : {"upload init"}, by : SpaceMembers, parent : Nat, name : FileNames, chunks : SUBSET Nat]
  \cup [op : {"chunk"}, upload : Nat, index : Nat]
  \cup [op : {"complete"}, upload : Nat]
  \cup [op : {"version", "delete"}, by : SpaceMembers, file : Nat]
  \cup [op : {"version init"}, by : SpaceMembers, file : Nat, chunks : SUBSET Nat]
  \cup [op : {"revert"}, by : SpaceMembers, file : Nat, number : Nat]
  \cup [op : {"update"}, by : SpaceMembers, file : Nat, name : FileNames \cup {Keep}, parent : Nat]
  \cup [op : {"grant"}, by : SpaceMembers, file : Nat, of : SpaceMembers, level : {View, Edit, Own}]
  \cup [op : {"ungrant"}, by : SpaceMembers, file : Nat, of : SpaceMembers]

\* A scenario starts with a tree of folders: a row's parent is older than the row.
ASSUME FileAssumption ==
  /\ SpaceLimit \in Nat
  /\ \A s \in FileScenarios :
       /\ s.files \in Seq([parent : Nat, name : FileNames, folder : {TRUE}, by : SpaceMembers,
                          blob : {0}, here : {TRUE}])
       /\ \A f \in DOMAIN s.files : s.files[f].parent < f
       /\ s.grants \subseteq
            [file : DOMAIN s.files, of : SpaceMembers, level : {View, Edit, Own}]
       /\ s.requests \subseteq FileRequests
       /\ s.atOnce \in Nat \ {0}

\* A scenario's files are folders.
FileTables(s) ==
  /\ files = s.files
  /\ grants = s.grants
  /\ versions = {} /\ uploads = <<>> /\ blobs = {} /\ minted = 0 /\ spilled = {} /\ again = 0
InitFiles == \E s \in FileScenarios : FileTables(s) /\ Listening(s)

There(f) == f \in DOMAIN files /\ files[f].here
IsFolder(f) == f = Root \/ (There(f) /\ files[f].folder)
IsFile(f) == There(f) /\ ~files[f].folder
NameTaken(folder, name, f) ==
  \E g \in DOMAIN files \ {f} : There(g) /\ files[g].parent = folder /\ files[g].name = name
VersionsOf(f) == {v \in versions : v.file = f}
Numbers(f) == {v.number : v \in VersionsOf(f)}

\* get_space_file_path: the row and those above it.
Parents(rows) == {files[g].parent : g \in rows \ {Root}}
Climb(f) ==
  LET reached[k \in 0 .. Len(files)] ==
        IF k = 0 THEN {f} ELSE reached[k - 1] \cup Parents(reached[k - 1])
  IN reached
Above(f) == Climb(f)[Len(files)]
\* The recursive queries are UNION ALL: around a cycle they never end.
Ends(f) == There(f) => Root \in Above(f)
OnCycle(f) == There(f) /\ f \in Above(files[f].parent)
\* Everything below a row, with the row.
Below(f) == {g \in DOMAIN files : There(g) /\ f \in Above(g)}

\* get_effective_file_permission: the highest grant above, else the creator's.
Effective(f, u) ==
  LET levels == {g.level : g \in {h \in grants : h.of = u /\ h.file \in Above(f)}} IN
  IF levels # {} THEN Max(levels) ELSE IF files[f].by = u THEN Own ELSE View

\* get_access_level; Answers is that its query comes back.
Answers(f, u) == u \in Librarians \/ Ends(f)
Level(f, u) ==
  CASE u \in Librarians -> Own [] f = Root -> View [] ~There(f) -> View [] OTHER -> Effective(f, u)

NamesFiles(r) ==
  /\ "file" \in DOMAIN r => r.file \in DOMAIN files
  /\ "parent" \in DOMAIN r => r.parent \in {Root, Stay} \cup DOMAIN files
  /\ "number" \in DOMAIN r => r.number \in Numbers(r.file)
  /\ "upload" \in DOMAIN r => r.upload \in DOMAIN uploads

TakeFileRequest(w) == Accept(w, {r \in calls.requests : NamesFiles(r)}) /\ UNCHANGED fileTables
Ask(w, refused, place) == Unless(w, refused, place) /\ UNCHANGED fileTables

\* Mutant: one more than fits is let in.
OverLimitByOne == Cardinality(versions) > SpaceLimit + 1
\* exceeds_storage_limit
OverLimit == Cardinality(versions) + 1 > SpaceLimit

-----------------------------------------------------------------------------
(* Folders and files come to be *)

\* Where something may be made: a folder one may write to, and a free name.
Unfit(w) ==
  \/ Level(job[w].parent, job[w].by) < Edit
  \/ ~IsFolder(job[w].parent)
  \/ NameTaken(job[w].parent, job[w].name, 0)

CheckFolder(w) ==
  /\ At(w, "folder", "check")
  /\ Answers(job[w].parent, job[w].by)
  /\ Ask(w, Unfit(w), "row")

CheckUpload(w) ==
  /\ At(w, "upload", "check")
  /\ Answers(job[w].parent, job[w].by)
  /\ Ask(w, Unfit(w) \/ OverLimit, "put")

CheckUploadInit(w) ==
  /\ At(w, "upload init", "check")
  /\ Answers(job[w].parent, job[w].by)
  /\ Ask(w, Unfit(w) \/ OverLimit, "session")

\* storage.put under a fresh key, for an upload or a version in one piece.
PutBlob(w) ==
  /\ job[w].at = "put"
  /\ minted' = minted + 1
  /\ blobs' = blobs \cup {minted'}
  /\ Recall(w, IF job[w].op = "upload" THEN "row" ELSE "number", minted')
  /\ UNCHANGED <<files, versions, grants, uploads, spilled, again>>

\* What the row is to be: an upload in chunks took its name down at the start.
Wanted(w) == IF job[w].op = "complete" THEN uploads[job[w].upload] ELSE job[w]

\* The index on names and the foreign key of the parent.
Refused(w) ==
  \/ ~IsFolder(Wanted(w).parent)
  \/ NameTaken(Wanted(w).parent, Wanted(w).name, 0)

\* create_space_folder: the row and the creator's grant are one transaction.
CreateFolder(w) ==
  /\ At(w, "folder", "row")
  /\ IF Refused(w) THEN UNCHANGED <<files, grants>>
     ELSE /\ files' = Append(files, File(job[w].parent, job[w].name, TRUE, job[w].by, 0))
          /\ grants' = grants \cup {[file |-> Len(files'), of |-> job[w].by, level |-> Own]}
  /\ Respond(w)
  /\ UNCHANGED <<versions, uploads, blobs, minted, spilled, again>>

\* create_space_file: with the first version, too.
InsertFile(w) ==
  LET id == Len(files) + 1
      a == Wanted(w)
  IN /\ files' = Append(files, File(a.parent, a.name, FALSE, a.by, job[w].saw))
     /\ versions' = versions \cup {[file |-> id, number |-> 1, blob |-> job[w].saw]}
     /\ grants' = grants \cup {[file |-> id, of |-> a.by, level |-> Own]}

\* Mutant: an upload whose row is refused leaves its blob.
CreateFileOnly(w) ==
  /\ At(w, "upload", "row")
  /\ IF Refused(w) THEN UNCHANGED <<files, versions, grants>> ELSE InsertFile(w)
  /\ Respond(w)
  /\ UNCHANGED <<blobs, uploads, minted, spilled, again>>

\* An upload in one piece takes its blob back when the row is refused.
CreateFile(w) ==
  /\ At(w, "upload", "row")
  /\ IF Refused(w)
     THEN /\ blobs' = blobs \ {job[w].saw}
          /\ UNCHANGED <<files, versions, grants>>
     ELSE InsertFile(w) /\ UNCHANGED blobs
  /\ Respond(w)
  /\ UNCHANGED <<uploads, minted, spilled, again>>

-----------------------------------------------------------------------------
(* Uploads in chunks, of a new file (file = 0) or of a version *)

\* create_session; sessions older than a day are reaped first.
CreateUploadSession(w) ==
  /\ job[w].at = "session"
  /\ \E stale \in SUBSET {u \in DOMAIN uploads : uploads[u].live} :
       uploads' = Append(
         [u \in DOMAIN uploads |->
            IF u \in stale THEN [uploads[u] EXCEPT !.live = FALSE, !.staged = FALSE] ELSE uploads[u]],
         [by |-> job[w].by, live |-> TRUE, staged |-> TRUE, left |-> job[w].chunks,
          file |-> IF job[w].op = "version init" THEN job[w].file ELSE 0,
          parent |-> IF job[w].op = "version init" THEN Root ELSE job[w].parent,
          name |-> IF job[w].op = "version init" THEN Keep ELSE job[w].name])
  /\ Respond(w)
  /\ UNCHANGED <<files, versions, grants, blobs, minted, spilled, again>>

\* The client learns of the upload by its number, and only its own.
CheckChunk(w) ==
  /\ At(w, "chunk", "check") /\ uploads[job[w].upload].file = 0
  /\ Ask(w, ~uploads[job[w].upload].live, "part")

CheckVersionChunk(w) ==
  /\ At(w, "chunk", "check") /\ uploads[job[w].upload].file # 0
  /\ Ask(w, ~uploads[job[w].upload].live, "part")

\* put_part opens the staging file, which must be there.
PutPart(w) ==
  /\ At(w, "chunk", "part")
  /\ Ask(w, ~uploads[job[w].upload].live \/ ~uploads[job[w].upload].staged, "record")

\* record_upload_chunk
RecordChunk(w) ==
  /\ At(w, "chunk", "record")
  /\ uploads' = IF uploads[job[w].upload].live
                THEN [uploads EXCEPT ![job[w].upload].left = @ \ {job[w].index}] ELSE uploads
  /\ Respond(w)
  /\ UNCHANGED <<files, versions, grants, blobs, minted, spilled, again>>

\* Permission is asked for again on completion; the limit, the folder and the
\* name are not.
CheckComplete(w) ==
  /\ At(w, "complete", "check")
  /\ LET u == uploads[job[w].upload] IN
       /\ u.file = 0
       /\ Answers(u.parent, u.by)
       /\ Ask(w, ~u.live \/ u.left # {}, IF Level(u.parent, u.by) < Edit THEN "drop" ELSE "assemble")

\* A version asks for its file as well.
CheckCompleteVersion(w) ==
  /\ At(w, "complete", "check")
  /\ LET u == uploads[job[w].upload] IN
       /\ u.file # 0
       /\ Answers(u.file, u.by)
       /\ Ask(w, ~u.live \/ u.left # {},
              IF Level(u.file, u.by) < Edit \/ ~IsFile(u.file) THEN "drop" ELSE "assemble")

\* assemble: the staging file is renamed, by the first who asks.
Assemble(w) ==
  /\ At(w, "complete", "assemble")
  /\ LET u == uploads[job[w].upload] IN
     IF u.live /\ u.staged
     THEN /\ minted' = minted + 1
          /\ blobs' = blobs \cup {minted'}
          /\ uploads' = [uploads EXCEPT ![job[w].upload].staged = FALSE]
          /\ Recall(w, IF u.file = 0 THEN "row" ELSE "number", minted')
     ELSE Proceed(w, "drop") /\ UNCHANGED <<minted, blobs, uploads>>
  /\ UNCHANGED <<files, versions, grants, spilled, again>>

\* create_space_file at the end of an upload: when the row is refused the
\* session goes and the blob stays.
CompleteFile(w) ==
  /\ At(w, "complete", "row")
  /\ IF Refused(w)
     THEN /\ spilled' = spilled \cup {job[w].saw}
          /\ UNCHANGED <<files, versions, grants>>
     ELSE InsertFile(w) /\ UNCHANGED spilled
  /\ Proceed(w, "drop")
  /\ UNCHANGED <<uploads, blobs, minted, again>>

\* remove_session
DropSession(w) ==
  /\ At(w, "complete", "drop")
  /\ uploads' = [uploads EXCEPT ![job[w].upload].live = FALSE, ![job[w].upload].staged = FALSE]
  /\ Respond(w)
  /\ UNCHANGED <<files, versions, grants, blobs, minted, spilled, again>>

-----------------------------------------------------------------------------
(* Versions *)

CheckVersion(w) ==
  /\ At(w, "version", "check")
  /\ Answers(job[w].file, job[w].by)
  /\ Ask(w, Level(job[w].file, job[w].by) < Edit \/ ~IsFile(job[w].file) \/ OverLimit, "put")

CheckVersionInit(w) ==
  /\ At(w, "version init", "check")
  /\ Answers(job[w].file, job[w].by)
  /\ Ask(w, Level(job[w].file, job[w].by) < Edit \/ ~IsFile(job[w].file) \/ OverLimit, "session")

\* A version is reverted to by writing it again, with the same blob; nobody
\* asks whether it fits.
CheckRevert(w) ==
  /\ At(w, "revert", "check")
  /\ Answers(job[w].file, job[w].by)
  /\ IF \/ Level(job[w].file, job[w].by) < Edit \/ ~IsFile(job[w].file)
        \/ job[w].number \notin Numbers(job[w].file)
     THEN Respond(w)
     ELSE \E v \in VersionsOf(job[w].file) :
            v.number = job[w].number /\ Recall(w, "number", v.blob)
  /\ UNCHANGED fileTables

\* create_file_version: the number is read ...
NumberVersion(w) ==
  /\ job[w].at = "number"
  /\ LET f == Wanted(w).file
         next == 1 + Max({0} \cup Numbers(f))
     IN Recall(w, "version", [blob |-> job[w].saw, number |-> next])
  /\ UNCHANGED fileTables

\* ... and the row written, unless the file or the number has gone.  A refusal
\* leaves a fresh blob behind.
InsertVersion(w) ==
  /\ job[w].at = "version"
  /\ LET f == Wanted(w).file
         v == [file |-> f, number |-> job[w].saw.number, blob |-> job[w].saw.blob]
     IN IF There(f) /\ v.number \notin Numbers(f)
        THEN /\ versions' = versions \cup {v}
             /\ files' = [files EXCEPT ![f].blob = v.blob]
             /\ again' = again + (IF job[w].op = "revert" THEN 1 ELSE 0)
             /\ UNCHANGED spilled
        ELSE /\ spilled' = spilled \cup (IF job[w].op = "revert" THEN {} ELSE {v.blob})
             /\ UNCHANGED <<versions, files, again>>
  /\ IF job[w].op = "complete" THEN Proceed(w, "drop") ELSE Respond(w)
  /\ UNCHANGED <<grants, uploads, blobs, minted>>

-----------------------------------------------------------------------------
(* Renaming and moving, in one PUT *)

\* A new name must be free in the folder where the row is found; a move will
\* ask for the new name or for the one that is read here.
CheckUpdateFile(w) ==
  /\ At(w, "update", "check")
  /\ Answers(job[w].file, job[w].by)
  /\ LET f == job[w].file
         named == job[w].name # Keep
     IN IF \/ Level(f, job[w].by) < Edit \/ ~There(f)
           \/ named /\ NameTaken(files[f].parent, job[w].name, f)
        THEN Respond(w)
        ELSE Recall(w, IF named THEN "rename" ELSE "check move",
                    IF named THEN job[w].name ELSE files[f].name)
  /\ UNCHANGED fileTables

\* rename_space_file, wherever the row is by now: the index on names ends the
\* request when the name has been taken since.
Rename(w) ==
  /\ At(w, "update", "rename")
  /\ LET f == job[w].file
         taken == There(f) /\ NameTaken(files[f].parent, job[w].name, f)
     IN /\ files' = IF There(f) /\ ~taken THEN [files EXCEPT ![f].name = job[w].name] ELSE files
        /\ IF taken \/ job[w].parent = Stay THEN Respond(w) ELSE Proceed(w, "check move")
  /\ UNCHANGED <<versions, grants, uploads, blobs, minted, spilled, again>>

\* Mutant: only the folder itself is refused as its own destination.
CheckMoveShallow(w) ==
  /\ At(w, "update", "check move")
  /\ Ask(w, \/ job[w].parent = job[w].file \/ ~IsFolder(job[w].parent)
            \/ NameTaken(job[w].parent, job[w].saw, job[w].file), "move")

\* A folder may not be moved into one that lies below it, nor anything to
\* where its name is taken.
CheckMove(w) ==
  /\ At(w, "update", "check move")
  /\ LET f == job[w].file
         p == job[w].parent
     IN /\ p \in DOMAIN files /\ files[f].folder => Ends(p)
        /\ Ask(w, \/ p = f \/ ~IsFolder(p)
                  \/ files[f].folder /\ p # Root /\ f \in Above(p)
                  \/ NameTaken(p, job[w].saw, f),
               "move")

\* move_space_file, of the name that the row has by now; the permission to write
\* to the destination is not asked for.
Move(w) ==
  /\ At(w, "update", "move")
  /\ LET f == job[w].file
         name == IF There(f) THEN files[f].name ELSE Keep
     IN files' = IF There(f) /\ IsFolder(job[w].parent) /\ ~NameTaken(job[w].parent, name, f)
                 THEN [files EXCEPT ![f].parent = job[w].parent] ELSE files
  /\ Respond(w)
  /\ UNCHANGED <<versions, grants, uploads, blobs, minted, spilled, again>>

-----------------------------------------------------------------------------
(* Deletion and permissions *)

CheckDelete(w) ==
  /\ At(w, "delete", "check")
  /\ Answers(job[w].file, job[w].by)
  /\ Ask(w, Level(job[w].file, job[w].by) < Own \/ ~There(job[w].file), "rows")

\* hard_delete_space_file: one transaction for the row and everything below.
HardDelete(w) ==
  /\ At(w, "delete", "rows")
  /\ ~OnCycle(job[w].file)
  /\ LET gone == Below(job[w].file) IN
       /\ Recall(w, "blobs", {v.blob : v \in {x \in versions : x.file \in gone}}
                               \cup {files[f].blob : f \in gone})
       /\ files' = [f \in DOMAIN files |->
            IF f \in gone THEN [files[f] EXCEPT !.here = FALSE] ELSE files[f]]
       /\ versions' = {v \in versions : v.file \notin gone}
       /\ grants' = {g \in grants : g.file \notin gone}
  /\ UNCHANGED <<uploads, blobs, minted, spilled, again>>

\* storage.remove of each key that the transaction returned.
RemoveBlobs(w) ==
  /\ At(w, "delete", "blobs")
  /\ blobs' = blobs \ job[w].saw
  /\ Respond(w)
  /\ UNCHANGED <<files, versions, grants, uploads, minted, spilled, again>>

\* Nobody is granted less than they have above.
CheckGrant(w) ==
  /\ At(w, "grant", "check")
  /\ Answers(job[w].file, job[w].by)
  /\ LET f == job[w].file
         above == IF There(f) THEN files[f].parent ELSE Root
     IN Ask(w, \/ Level(f, job[w].by) < Own
               \/ above # Root /\ job[w].level < Effective(above, job[w].of), "set")

CheckUngrant(w) ==
  /\ At(w, "ungrant", "check")
  /\ Answers(job[w].file, job[w].by)
  /\ Ask(w, Level(job[w].file, job[w].by) < Own, "set")

OthersGrants(w) == {g \in grants : ~(g.file = job[w].file /\ g.of = job[w].of)}

\* set_file_permission: a foreign key refuses a file that has gone.
SetGrant(w) ==
  /\ At(w, "grant", "set")
  /\ grants' = IF There(job[w].file)
               THEN OthersGrants(w) \cup {[file |-> job[w].file, of |-> job[w].of, level |-> job[w].level]}
               ELSE grants
  /\ Respond(w)
  /\ UNCHANGED <<files, versions, uploads, blobs, minted, spilled, again>>

\* remove_file_permission
RemoveGrant(w) ==
  /\ At(w, "ungrant", "set")
  /\ grants' = OthersGrants(w)
  /\ Respond(w)
  /\ UNCHANGED <<files, versions, uploads, blobs, minted, spilled, again>>

-----------------------------------------------------------------------------

NextFiles ==
  \E w \in Threads :
    \/ TakeFileRequest(w)
    \/ CheckFolder(w) \/ CreateFolder(w)
    \/ CheckUpload(w) \/ PutBlob(w) \/ CreateFile(w)
    \/ CheckUploadInit(w) \/ CheckVersionInit(w) \/ CreateUploadSession(w)
    \/ CheckChunk(w) \/ CheckVersionChunk(w) \/ PutPart(w) \/ RecordChunk(w)
    \/ CheckComplete(w) \/ CheckCompleteVersion(w) \/ Assemble(w) \/ CompleteFile(w) \/ DropSession(w)
    \/ CheckVersion(w) \/ CheckRevert(w) \/ NumberVersion(w) \/ InsertVersion(w)
    \/ CheckUpdateFile(w) \/ Rename(w) \/ CheckMove(w) \/ Move(w)
    \/ CheckDelete(w) \/ HardDelete(w) \/ RemoveBlobs(w)
    \/ CheckGrant(w) \/ SetGrant(w) \/ CheckUngrant(w) \/ RemoveGrant(w)

FilesSpec == InitFiles /\ [][NextFiles]_fileVars

-----------------------------------------------------------------------------
(* Properties *)

FileRows ==
  [parent : 0 .. Len(files), name : FileNames, folder : BOOLEAN, by : SpaceMembers,
   blob : 0 .. minted, here : BOOLEAN]
VersionRows == [file : DOMAIN files, number : Nat \ {0}, blob : 1 .. minted]
GrantRows == [file : DOMAIN files, of : SpaceMembers, level : {View, Edit, Own}]
UploadRows ==
  [by : SpaceMembers, live : BOOLEAN, staged : BOOLEAN, left : SUBSET Nat,
   file : 0 .. Len(files), parent : 0 .. Len(files), name : FileNames \cup {Keep}]

FileTypes ==
  /\ files \in Seq(FileRows)
  /\ versions \subseteq VersionRows /\ IsFiniteSet(versions)
  /\ grants \subseteq GrantRows
  /\ uploads \in Seq(UploadRows)
  /\ blobs \subseteq 1 .. minted /\ spilled \subseteq 1 .. minted
  /\ minted \in Nat /\ again \in Nat

\* A file that is there can be downloaded, in each of its versions, and the
\* newest version is the one it shows; and what the storage holds while nobody
\* is served belongs to a version, or to an upload whose row was refused when
\* it was completed (space_file_handler.cpp:918), or to a version refused
\* because its number was taken or its file deleted (:2438).
BlobsMatchFiles ==
  /\ \A v \in versions :
       /\ There(v.file) /\ v.blob \in blobs
       /\ v.number = Max(Numbers(v.file)) => files[v.file].blob = v.blob
  /\ AtRest => \A b \in blobs : b \in spilled \/ \E v \in versions : v.blob = b

\* Of requests served in turn no sequence of creations, renamings, moves and
\* deletions leaves a row outside the tree, under a folder that has gone or
\* inside itself, where the recursive queries for it would never end
\* (space_file_handler.cpp:1683).  Two moves at once can.
FoldersAreATree ==
  \A f \in DOMAIN files :
    There(f) => /\ IsFolder(files[f].parent)
                /\ OneAtATime => Ends(f)

\* The space holds no more than its limit, but for the uploads that overlapped
\* at the check, those in chunks that were begun while there was room
\* (space_file_handler.cpp:905 does not ask again) and the reverts, which are
\* never asked.
LimitHolds ==
  Cardinality(versions) <= SpaceLimit + calls.atOnce - 1 + again + Len(uploads)
=============================================================================
