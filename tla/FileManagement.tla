--------------------------- MODULE FileManagement ---------------------------
(***************************************************************************)
(* Uploaded files: the rows of file_definition and the objects they        *)
(* describe, on the local disk or in a cloud storage.  FileController and  *)
(* UploadFileHelper write the object and the row one after the other, and  *)
(* when the second fails they try to undo the first.                       *)
(*                                                                         *)
(* A content is a number, and so is a name in uploads/.  A location begins *)
(* with a slash when the local storage has made it, which makes no         *)
(* difference to it, but makes another key of it in a cloud storage.       *)
(***************************************************************************)
EXTENDS Naturals, FiniteSets

CONSTANTS FileCall,       \* requests
          MaxContents,    \* bound on the contents uploaded
          MaxSlips        \* bound on failures and crashes

ASSUME FilesAssumption == {MaxContents, MaxSlips} \subseteq Nat

VARIABLES fileRows,   \* file_definition
          objects,    \* what is stored, in either place
          backups,    \* copies next to local files: of a name, for a new content
          fcall,      \* what each request is doing
          gap,        \* history: something that the code does not undo
          contents, slips

fileVars == <<fileRows, objects, backups, fcall, gap, contents, slips>>

Stores == {"local", "cloud"}
Location == [name : 1 .. MaxContents, slash : BOOLEAN]
FileRow == [id : 1 .. MaxContents, place : Stores, at : Location, what : 1 .. MaxContents]
Object == [place : Stores, at : Location, what : 1 .. MaxContents]

NoFile == [id |-> 0]
FileIdle == [step |-> "idle", row |-> NoFile, place |-> "local", new |-> 0]

FStep(c, step) == fcall' = [fcall EXCEPT ![c] = IF step = "idle" THEN FileIdle
                                                 ELSE [@ EXCEPT !.step = step]]
FAt(c, step) == fcall[c].step = step
Slip == slips < MaxSlips /\ slips' = slips + 1
Smooth == slips' = slips
Rest == UNCHANGED <<contents>>

Key(place, at) == [place |-> place, at |-> IF place = "local" THEN [at EXCEPT !.slash = FALSE] ELSE at]
KeyOf(o) == [place |-> o.place, at |-> o.at]
Has(objs, k) == \E o \in objs : KeyOf(o) = k
Removed(objs, k) == {o \in objs : KeyOf(o) # k}
Put(objs, k, what) == Removed(objs, k) \cup {[place |-> k.place, at |-> k.at, what |-> what]}
RowKey(r) == Key(r.place, r.at)

\* The location of a content where it is uploaded.
NewAt(n, place) == [name |-> n, slash |-> place = "local"]
Temp(c) == Key(fcall[c].place, NewAt(fcall[c].new, fcall[c].place))

\* Another request is at the same row.
Shared(c, r) == \E d \in FileCall \ {c} : fcall[d].row.id = r.id

-----------------------------------------------------------------------------
\* processFileUpload(), of a new file, and for the local storage of the new
\* content of an old one.  The configuration may be missing.

BeginUpload(c, place) ==
    /\ FAt(c, "idle") /\ contents < MaxContents
    /\ contents' = contents + 1
    /\ fcall' = [fcall EXCEPT ![c] = [FileIdle EXCEPT !.step = "upload", !.place = place,
                                                      !.new = contents']]
    /\ Smooth /\ UNCHANGED <<fileRows, objects, backups, gap>>

\* An upload that is reported as failed may have been stored.
StoreUpload(c) ==
    /\ FAt(c, "upload")
    /\ \/ /\ objects' = Put(objects, Temp(c), fcall[c].new)
          /\ Smooth /\ FStep(c, IF fcall[c].row = NoFile THEN "insert" ELSE "backup")
       \/ /\ objects' \in {objects, Put(objects, Temp(c), fcall[c].new)}
          /\ Slip /\ FStep(c, "idle")
    /\ Rest /\ UNCHANGED <<fileRows, backups, gap>>

\* create() of the repository; it may fail when the row has been written.
InsertFile(c) ==
    /\ FAt(c, "insert")
    /\ LET f == fcall[c]
           row == [id |-> f.new, place |-> f.place, at |-> NewAt(f.new, f.place), what |-> f.new]
       IN \/ fileRows' = fileRows \cup {row} /\ Smooth /\ FStep(c, "idle") /\ UNCHANGED gap
          \/ Slip /\ FStep(c, "undo") /\ UNCHANGED <<fileRows, gap>>
          \/ fileRows' = fileRows \cup {row} /\ Slip /\ FStep(c, "undo") /\ gap' = TRUE
    /\ Rest /\ UNCHANGED <<objects, backups>>

\* Mutation of AfterUndo: the object stays.
AfterUndoNothing(c) == objects

AfterUndo(c) == Removed(objects, Temp(c))

\* rollbackFileCreation(), whose own failure is logged.
UndoUpload(c) ==
    /\ FAt(c, "undo")
    /\ \/ objects' = AfterUndo(c) /\ Smooth /\ UNCHANGED gap
       \/ Slip /\ gap' = TRUE /\ UNCHANGED objects
    /\ FStep(c, "idle")
    /\ Rest /\ UNCHANGED <<fileRows, backups>>

-----------------------------------------------------------------------------
\* PATCH with a file.  The row is read, and may be gone or other afterwards.

BeginReplace(c, r, place) ==
    /\ FAt(c, "idle") /\ contents < MaxContents
    /\ contents' = contents + 1
    /\ fcall' = [fcall EXCEPT ![c] = [step |-> IF place = "local" THEN "upload" ELSE "overwrite",
                                      row |-> r, place |-> place, new |-> contents']]
    /\ gap' = (gap \/ Shared(c, r) \/ r.place # place)
    /\ Smooth /\ UNCHANGED <<fileRows, objects, backups>>

\* replaceFileOnStorage(): under the location that the row has.
Overwrite(c) ==
    /\ FAt(c, "overwrite")
    /\ LET replaced == Put(objects, Key("cloud", fcall[c].row.at), fcall[c].new)
       IN \/ objects' = replaced /\ Smooth /\ FStep(c, "row") /\ UNCHANGED gap
          \/ Slip /\ FStep(c, "idle") /\ UNCHANGED <<objects, gap>>
          \/ objects' = replaced /\ Slip /\ FStep(c, "idle") /\ gap' = TRUE
    /\ Rest /\ UNCHANGED <<fileRows, backups>>

OldKey(c) == Key("local", fcall[c].row.at)
WhatIs(k) == (CHOOSE o \in objects : KeyOf(o) = k).what

\* backupFile(): when it fails, the new upload stays.
BackupFile(c) ==
    /\ FAt(c, "backup")
    /\ \/ /\ Has(objects, OldKey(c))
          /\ backups' = backups \cup {[by |-> fcall[c].new, of |-> OldKey(c),
                                       what |-> WhatIs(OldKey(c))]}
          /\ Smooth /\ FStep(c, "unlink") /\ UNCHANGED gap
       \/ /\ IF Has(objects, OldKey(c)) THEN Slip ELSE Smooth
          /\ gap' = TRUE /\ FStep(c, "idle") /\ UNCHANGED backups
    /\ Rest /\ UNCHANGED <<fileRows, objects>>

\* replacePhysicalFile(): both are there, the old one goes, the new one is
\* copied to its place.
UnlinkOld(c) ==
    /\ FAt(c, "unlink")
    /\ \/ /\ Has(objects, Temp(c)) /\ Has(objects, OldKey(c))
          /\ objects' = Removed(objects, OldKey(c))
          /\ Smooth /\ FStep(c, "copy")
       \/ /\ IF Has(objects, Temp(c)) /\ Has(objects, OldKey(c)) THEN Slip ELSE Smooth
          /\ FStep(c, "restore") /\ UNCHANGED objects
    /\ Rest /\ UNCHANGED <<fileRows, backups, gap>>

CopyNew(c) ==
    /\ FAt(c, "copy")
    /\ \/ /\ Has(objects, Temp(c))
          /\ objects' = Put(objects, OldKey(c), WhatIs(Temp(c)))
          /\ Smooth /\ FStep(c, "row")
       \/ /\ IF Has(objects, Temp(c)) THEN Slip ELSE Smooth
          /\ FStep(c, "restore") /\ UNCHANGED objects
    /\ Rest /\ UNCHANGED <<fileRows, backups, gap>>

\* The repository's update(), which refuses when the row is gone and may fail
\* when it has been written.  After it in the cloud nothing is undone.
UpdateFileRow(c) ==
    /\ FAt(c, "row")
    /\ LET f == fcall[c]
           found == {r \in fileRows : r.id = f.row.id}
           cloud == f.place = "cloud"
           written == (fileRows \ found) \cup
                          {[r EXCEPT !.place = f.place, !.at = IF cloud THEN @ ELSE f.row.at,
                                     !.what = f.new] : r \in found}
       IN \/ /\ found # {} /\ fileRows' = written
             /\ Smooth /\ FStep(c, IF cloud THEN "idle" ELSE "clean") /\ UNCHANGED gap
          \/ /\ IF found = {} THEN Smooth ELSE Slip
             /\ gap' = (gap \/ cloud)
             /\ FStep(c, IF cloud THEN "idle" ELSE "restore") /\ UNCHANGED fileRows
          \/ /\ found # {} /\ fileRows' = written
             /\ Slip /\ gap' = (gap \/ ~cloud)
             /\ FStep(c, IF cloud THEN "idle" ELSE "restore")
    /\ Rest /\ UNCHANGED <<objects, backups>>

WithoutBackup(c) == {b \in backups : b.by # fcall[c].new}

\* The new upload is deleted, then the backup; failures are logged.
CleanUp(c) ==
    /\ FAt(c, "clean")
    /\ \/ objects' = Removed(objects, Temp(c)) /\ backups' = WithoutBackup(c) /\ Smooth
       \/ /\ Slip
          /\ \/ objects' = Removed(objects, Temp(c)) /\ UNCHANGED backups
             \/ backups' = WithoutBackup(c) /\ UNCHANGED objects
    /\ FStep(c, "idle")
    /\ Rest /\ UNCHANGED <<fileRows, gap>>

\* Mutation of Restored: a file that is gone is not put back.
RestoredIfThere(c, b) ==
    IF Has(objects, OldKey(c)) THEN Put(objects, OldKey(c), b.what) ELSE objects

Restored(c, b) == Put(objects, OldKey(c), b.what)

\* restoreFromBackup().  The new upload stays.
RestoreFile(c) ==
    /\ FAt(c, "restore")
    /\ \/ \E b \in backups : /\ b.by = fcall[c].new
                             /\ objects' = Restored(c, b)
                             /\ \/ backups' = backups \ {b} /\ Smooth
                                \/ Slip /\ UNCHANGED backups
                             /\ UNCHANGED gap
       \/ Slip /\ gap' = TRUE /\ UNCHANGED <<objects, backups>>
    /\ FStep(c, "idle")
    /\ Rest /\ UNCHANGED fileRows

-----------------------------------------------------------------------------
\* PATCH without a file, which only says where the file is to be.

MoveRow(c, r, place) ==
    /\ FAt(c, "idle") /\ r.place # place
    /\ fileRows' = (fileRows \ {r}) \cup {[r EXCEPT !.place = place]}
    /\ gap' = TRUE
    /\ Smooth /\ Rest /\ UNCHANGED <<objects, backups, fcall>>

\* DELETE: the file, then the row.

BeginDelete(c, r) ==
    /\ FAt(c, "idle")
    /\ fcall' = [fcall EXCEPT ![c] = [FileIdle EXCEPT !.step = "remove", !.row = r]]
    /\ gap' = (gap \/ Shared(c, r))
    /\ Smooth /\ Rest /\ UNCHANGED <<fileRows, objects, backups>>

RemoveFile(c) ==
    /\ FAt(c, "remove")
    /\ LET removed == Removed(objects, RowKey(fcall[c].row))
       IN \/ objects' = removed /\ Smooth /\ FStep(c, "forget") /\ UNCHANGED gap
          \/ Slip /\ FStep(c, "idle") /\ UNCHANGED <<objects, gap>>
          \/ objects' = removed /\ Slip /\ FStep(c, "idle") /\ gap' = TRUE
    /\ Rest /\ UNCHANGED <<fileRows, backups>>

ForgetRow(c) ==
    /\ FAt(c, "forget")
    /\ \/ fileRows' = {r \in fileRows : r.id # fcall[c].row.id} /\ Smooth /\ UNCHANGED gap
       \/ Slip /\ gap' = TRUE /\ UNCHANGED fileRows
    /\ FStep(c, "idle")
    /\ Rest /\ UNCHANGED <<objects, backups>>

CrashFiles == /\ Slip /\ \E c \in FileCall : ~FAt(c, "idle")
              /\ fcall' = [c \in FileCall |-> FileIdle]
              /\ gap' = TRUE
              /\ Rest /\ UNCHANGED <<fileRows, objects, backups>>

-----------------------------------------------------------------------------
FilesInit == /\ fileRows = {} /\ objects = {} /\ backups = {}
             /\ fcall = [c \in FileCall |-> FileIdle]
             /\ gap = FALSE /\ contents = 0 /\ slips = 0

FilesNext ==
    \/ \E c \in FileCall :
          \/ \E place \in Stores :
                \/ BeginUpload(c, place)
                \/ \E r \in fileRows : BeginReplace(c, r, place) \/ MoveRow(c, r, place)
          \/ \E r \in fileRows : BeginDelete(c, r)
          \/ StoreUpload(c) \/ InsertFile(c) \/ UndoUpload(c) \/ Overwrite(c)
          \/ BackupFile(c) \/ UnlinkOld(c) \/ CopyNew(c) \/ UpdateFileRow(c)
          \/ CleanUp(c) \/ RestoreFile(c) \/ RemoveFile(c) \/ ForgetRow(c)
    \/ CrashFiles

FilesSpec == FilesInit /\ [][FilesNext]_fileVars

FilesTypeOK ==
    /\ fileRows \subseteq FileRow /\ objects \subseteq Object
    /\ \A r, s \in fileRows : r.id = s.id => r = s
    /\ \A o, p \in objects : KeyOf(o) = KeyOf(p) => o = p
    /\ \A b \in backups : b.by \in 1 .. MaxContents /\ b.what \in 1 .. MaxContents
    /\ \A c \in FileCall : fcall[c].new \in 0 .. MaxContents
    /\ gap \in BOOLEAN /\ contents \in 0 .. MaxContents /\ slips \in Nat

(* The file that a row describes is where the row says, with the content it *)
(* describes, except while a request is at the row: a step that fails is    *)
(* undone, unless it is one after which the code undoes nothing, undoing    *)
(* fails as well, two requests are at one row, or a request has the file    *)
(* elsewhere than the row.  And when nothing has failed, nothing else is    *)
(* left in the storages (uploadFileAndCreateRecord(), updateFile(),         *)
(* deleteFile()).                                                           *)
FilesAreAsDescribed ==
    ~gap =>
      /\ \A r \in fileRows :
            (\A c \in FileCall : fcall[c].row.id # r.id) =>
                [place |-> r.place, at |-> RowKey(r).at, what |-> r.what] \in objects
      /\ (slips = 0 /\ \A c \in FileCall : FAt(c, "idle")) =>
            /\ backups = {}
            /\ \A o \in objects : \E r \in fileRows : KeyOf(o) = RowKey(r)
=============================================================================
