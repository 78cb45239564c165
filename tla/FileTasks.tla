------------------------------ MODULE FileTasks ------------------------------
(***************************************************************************)
(* The tasks on a controller's files (IndustrialRobotPlugin), over plain   *)
(* file access and over SMB 2.  A file system maps a place to a document.  *)
(* Places are a url or a fixed path, which every controller has, and       *)
(* <<folder, name>>, which are made and removed; <<folder, ".">> is there  *)
(* while the folder is.  A task yields the set of what may come of it when *)
(* nothing fails; Broken is what may be left when something does.          *)
(*                                                                         *)
(* The argument x of a task has the place it works on, the folders it      *)
(* names (folder, to), the key it changes and the id it writes.            *)
(***************************************************************************)
EXTENDS Naturals, Sequences, Functions, TLC

\* The documents of a folder, and of a file that was emptied or written in part.
Dir == "folder" :> 0
Damaged == "damaged" :> 0

Done(fs, doc) == {[fs |-> fs, ok |-> TRUE, doc |-> doc]}
Fails(fs) == {[fs |-> fs, ok |-> FALSE, doc |-> <<>>]}

Made(place) == Len(place) = 2
Folder(f) == <<f, ".">>
Exists(fs, place) == Made(place) => place \in DOMAIN fs
\* A file can be made where its folder is.
CanOpen(fs, place) == Made(place) => Folder(place[1]) \in DOMAIN fs
Content(fs, place) == IF place \in DOMAIN fs THEN fs[place] ELSE <<>>
Put(fs, place, doc) == (place :> doc) @@ fs
Entries(fs, f) == {e \in DOMAIN fs : Made(e) /\ e[1] = f /\ e[2] # "."}
Files(fs, f) == {e \in Entries(fs, f) : fs[e] # Dir}
Less(fs, places) == Restrict(fs, DOMAIN fs \ places)
\* The entries E of folder f, in folder to as well.
Copied(fs, E, to) == [e \in {<<to, x[2]>> : x \in E} |-> fs[CHOOSE x \in E : x[2] = e[2]]] @@ fs
Names(E) == [n \in {e[2] : e \in E} |-> 0]

-----------------------------------------------------------------------------
\* Plain files: exec of the tasks in IOThread.
ReadThread(fs, x) == IF Exists(fs, x.place) THEN Done(fs, Content(fs, x.place)) ELSE Fails(fs)

WriteThread(fs, x) == IF CanOpen(fs, x.place) THEN Done(Put(fs, x.place, "all" :> x.id), <<>>) ELSE Fails(fs)

\* A file that is no JSON object is left alone.
ChangeFileThread(fs, x) ==
    IF Exists(fs, x.place) /\ Content(fs, x.place) # Damaged
    THEN Done(Put(fs, x.place, (x.key :> x.id) @@ Content(fs, x.place)), <<>>)
    ELSE Fails(fs)

\* Both truncate a file that is there.
NewFileThread(fs, x) == IF CanOpen(fs, x.place) THEN Done(Put(fs, x.place, "all" :> x.id), <<>>) ELSE Fails(fs)
DecodeFileThread(fs, x) == IF CanOpen(fs, x.place) THEN Done(Put(fs, x.place, "all" :> x.id), <<>>) ELSE Fails(fs)

NewFolderThread(fs, x) ==
    IF Folder(x.folder) \in DOMAIN fs THEN Fails(fs) ELSE Done(Put(fs, Folder(x.folder), Dir), <<>>)

CreateDirThread(fs, x) == Done(Put(fs, Folder(x.folder), Dir), <<>>)

RenameFolderThread(fs, x) ==
    LET all == Entries(fs, x.folder) \cup {Folder(x.folder)}
    IN IF Folder(x.folder) \in DOMAIN fs /\ Folder(x.to) \notin DOMAIN fs
       THEN Done(Less(Copied(fs, all, x.to), all), <<>>) ELSE Fails(fs)

ReadFolderThread(fs, x) == Done(fs, Names(Entries(fs, x.folder)))

\* Entries are copied by name until one is a folder, which cannot be copied: any of
\* the files may come before it.
CopyFolderThread(fs, x) ==
    LET new == Put(fs, Folder(x.to), Dir)
        files == Files(fs, x.folder)
    IN IF Folder(x.folder) \notin DOMAIN fs \/ Folder(x.to) \in DOMAIN fs THEN Fails(fs)
       ELSE IF files = Entries(fs, x.folder) THEN Done(Copied(new, files, x.to), <<>>)
       ELSE UNION {Fails(Copied(new, some, x.to)) : some \in SUBSET files}

DeleteFolderThread(fs, x) ==
    IF Folder(x.folder) \in DOMAIN fs THEN Done(Less(fs, Entries(fs, x.folder) \cup {Folder(x.folder)}), <<>>)
    ELSE Fails(fs)

\* Depth 0: the files of the folder itself.
CGetFileListThread(fs, x) == Done(fs, Names(Files(fs, x.folder)))

\* A file that cannot be removed is passed over.
DeleteFilesThread(fs, x) == Done(Less(fs, {x.place}), <<>>)

PathIsExistThread(fs, x) == Done(fs, IF Exists(fs, x.place) THEN "exist" :> 0 ELSE <<>>)

\* An existing file is replaced only if the request says so.
CopyFileLocaleToSMBThread(fs, x) ==
    IF ~CanOpen(fs, x.place) THEN Fails(fs)
    ELSE Done(Put(fs, x.place, "all" :> x.id), <<>>) \cup (IF Exists(fs, x.place) THEN Fails(fs) ELSE {})

\* FileControll: which task an operation starts.
PlainFile(op, fs, x) ==
    CASE op = "readFile" -> ReadThread(fs, x)
      [] op = "writeFile" -> WriteThread(fs, x)
      [] op = "changeFile" -> ChangeFileThread(fs, x)
      [] op = "newFile" -> NewFileThread(fs, x)
      [] op = "decodeFile" -> DecodeFileThread(fs, x)
      [] OTHER -> {}
PlainFolder(op, fs, x) ==
    CASE op = "newFolder" -> NewFolderThread(fs, x)
      [] op = "newFolderRecursive" -> CreateDirThread(fs, x)
      [] op = "renameFolder" -> RenameFolderThread(fs, x)
      [] op = "copyFolder" -> CopyFolderThread(fs, x)
      [] op = "deleteFolder" -> DeleteFolderThread(fs, x)
      [] OTHER -> {}
PlainOther(op, fs, x) ==
    CASE op = "readFolder" -> ReadFolderThread(fs, x)
      [] op = "getFullFileNameList" -> CGetFileListThread(fs, x)
      [] op = "DeleteFileName" -> DeleteFilesThread(fs, x)
      [] op = "pathIsExist" -> PathIsExistThread(fs, x)
      [] op = "copyFileFromLocaleToSmb" -> CopyFileLocaleToSMBThread(fs, x)
      [] OTHER -> {}
Plain(op, fs, x) == PlainFile(op, fs, x) \cup PlainFolder(op, fs, x) \cup PlainOther(op, fs, x)

-----------------------------------------------------------------------------
\* SMB 2: run of the tasks in IOThreadSmb, once connected.  A file is opened, and so made, with
\* OpenTruncate; whether it is there is asked for only where the operations below say so.
OpenTruncate(fs, x) == IF CanOpen(fs, x.place) THEN Done(Put(fs, x.place, "all" :> x.id), <<>>) ELSE Fails(fs)

ReadThreadSmb(fs, x) == IF Exists(fs, x.place) THEN Done(fs, Content(fs, x.place)) ELSE Fails(fs)
WriteThreadSmb(fs, x) == OpenTruncate(fs, x)
ChangeFileThreadSmb(fs, x) ==
    UNION {IF r.ok /\ r.doc # Damaged THEN Done(Put(fs, x.place, (x.key :> x.id) @@ r.doc), <<>>) ELSE Fails(fs) :
              r \in ReadThreadSmb(fs, x)}
NewFileThreadSmb(fs, x) == OpenTruncate(fs, x)
DecodeFileThreadSmb(fs, x) == OpenTruncate(fs, x)
NewFolderThreadSmb(fs, x) ==
    IF Folder(x.folder) \in DOMAIN fs THEN Fails(fs) ELSE Done(Put(fs, Folder(x.folder), Dir), <<>>)
CreateDirThreadSmb(fs, x) == Done(Put(fs, Folder(x.folder), Dir), <<>>)

\* The server refuses a name that is taken.
RenameFolderThreadSmb(fs, x) ==
    IF Folder(x.folder) \in DOMAIN fs THEN RenameFolderThread(fs, x) ELSE Fails(fs)

\* Folders in the folder are passed over.
CopyFolderThreadSmb(fs, x) ==
    IF Folder(x.folder) \notin DOMAIN fs \/ Folder(x.to) \in DOMAIN fs THEN Fails(fs)
    ELSE Done(Copied(Put(fs, Folder(x.to), Dir), Files(fs, x.folder), x.to), <<>>)

DeleteFolderThreadSmb(fs, x) ==
    IF Folder(x.folder) \notin DOMAIN fs THEN Fails(fs)
    ELSE Done(Less(fs, Entries(fs, x.folder) \cup {Folder(x.folder)}), <<>>)
ReadFolderThreadSmb(fs, x) == Done(fs, Names(Entries(fs, x.folder)))
CGetFileListThreadSmb(fs, x) == Done(fs, Names(Files(fs, x.folder)))
DeleteFilesThreadSmb(fs, x) == Done(Less(fs, {x.place}), <<>>)
PathIsExistThreadSmb(fs, x) == Done(fs, IF Exists(fs, x.place) THEN "exist" :> 0 ELSE <<>>)
CopyFileLocaleToSMBThreadSmb(fs, x) ==
    OpenTruncate(fs, x) \cup (IF Exists(fs, x.place) THEN Fails(fs) ELSE {})

\* FileControllSmb: which task an operation starts.
SmbReadWrite(op, fs, x) ==
    CASE op = "readFile" -> ReadThreadSmb(fs, x)
      [] op = "writeFile" -> WriteThreadSmb(fs, x)
      [] OTHER -> {}
SmbChangeNew(op, fs, x) ==
    CASE op = "changeFile" -> ChangeFileThreadSmb(fs, x)
      [] op = "newFile" -> NewFileThreadSmb(fs, x)
      [] op = "decodeFile" -> DecodeFileThreadSmb(fs, x)
      [] OTHER -> {}
SmbFolder(op, fs, x) ==
    CASE op = "newFolder" -> NewFolderThreadSmb(fs, x)
      [] op = "newFolderRecursive" -> CreateDirThreadSmb(fs, x)
      [] op = "renameFolder" -> RenameFolderThreadSmb(fs, x)
      [] OTHER -> {}
SmbCopyDelete(op, fs, x) ==
    CASE op = "copyFolder" -> CopyFolderThreadSmb(fs, x)
      [] op = "deleteFolder" -> DeleteFolderThreadSmb(fs, x)
      [] OTHER -> {}
SmbReadFolder(op, fs, x) == IF op = "readFolder" THEN ReadFolderThreadSmb(fs, x) ELSE {}
SmbOther(op, fs, x) ==
    CASE op = "getFullFileNameList" -> CGetFileListThreadSmb(fs, x)
      [] op = "DeleteFileName" -> DeleteFilesThreadSmb(fs, x)
      [] op = "pathIsExist" -> PathIsExistThreadSmb(fs, x)
      [] OTHER -> {}
SmbCopyFile(op, fs, x) == IF op = "copyFileFromLocaleToSmb" THEN CopyFileLocaleToSMBThreadSmb(fs, x) ELSE {}
Smb(op, fs, x) ==
    SmbReadWrite(op, fs, x) \cup SmbChangeNew(op, fs, x) \cup SmbFolder(op, fs, x) \cup SmbCopyDelete(op, fs, x)
        \cup SmbReadFolder(op, fs, x) \cup SmbOther(op, fs, x) \cup SmbCopyFile(op, fs, x)

-----------------------------------------------------------------------------
\* What a task that fails on its way may leave: a file that was opened and not written, a
\* folder copied or deleted in part.
Broken(op, fs, x) ==
    {fs} \cup
    CASE op \in {"writeFile", "newFile", "decodeFile", "copyFileFromLocaleToSmb"} ->
            IF CanOpen(fs, x.place) THEN {Put(fs, x.place, Damaged)} ELSE {}
      [] op = "changeFile" -> IF Exists(fs, x.place) THEN {Put(fs, x.place, Damaged)} ELSE {}
      [] op = "copyFolder" ->
            IF Folder(x.folder) \in DOMAIN fs /\ Folder(x.to) \notin DOMAIN fs
            THEN {Copied(Put(fs, Folder(x.to), Dir), some, x.to) : some \in SUBSET Files(fs, x.folder)} ELSE {}
      [] op = "deleteFolder" -> {Less(fs, some) : some \in SUBSET Entries(fs, x.folder)}
      [] OTHER -> {}
=============================================================================
