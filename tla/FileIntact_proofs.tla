--------------------------- MODULE FileIntact_proofs ---------------------------
(***************************************************************************)
(* What a row promises is there: DamagedOnlyByOthers and ServedIsWhole of     *)
(* FileService, for any number of users, files, workers, inodes and uploads. *)
(*                                                                         *)
(* The argument follows one file that was uploaded once, never deleted and    *)
(* never lost on the way to Ceph.  Until its content is whole nobody else      *)
(* knows of it: no row, message, transfer or download.  Once it is, nobody     *)
(* writes it: the one worker who could has moved on, and every other worker    *)
(* who is writing has an inode no path of this file leads to.                 *)
(***************************************************************************)
EXTENDS FileService_proofs

\* A file somebody has been told of: by a row, a message, a transfer, or a
\* request that has got past the write or is downloading it.
SavedPCs == {"u_store", "u_file", "d_serve"}
Saved(f) ==
  \/ HasFileMeta(f)
  \/ \E i \in 1..Len(queue) : queue[i].file = f
  \/ job.file = f
  \/ \E w \in Workers : req[w].file = f /\ req[w].pc \in SavedPCs

\* The local copy of f is there, and whole.
Stored(f) == path[LocalRoot][f] # None /\ body[path[LocalRoot][f]] = "good"

Writes(w, f) == req[w].pc = "u_write" /\ req[w].file = f

\* Address a is one f was put to, unless its put into Ceph was lost.
Points(a, f) ==
  \/ a = LocalRoot
  \/ /\ a \in Remote
     /\ object[a][f] = "none" => a = "ceph" /\ store = "ceph" /\ f \in lost

\* Files share no inode, and all are in the one local directory.
PathsApart == \A r, s \in Root, f, g \in Files :
  path[r][f] # None => r = LocalRoot /\ (path[r][f] = path[s][g] => f = g)

\* Who writes an inode that a path leads to, writes the file of that path.
WritesOwn == \A w \in Workers, r \in Root, f \in Files :
  req[w].pc = "u_write" /\ fd[w] = path[r][f] => req[w].file = f

\* The address request r holds.
Aims(r) ==
  /\ r.pc \in {"u_write", "u_store"} => r.addr = LocalRoot
  /\ r.pc \in {"u_file", "d_serve"} => Points(r.addr, r.file)
  /\ r.pc = "d_range" => r.addr = "merge"

\* Every address held by a request, a row, a message or the transfer.
Addresses ==
  /\ \A w \in Workers : Aims(req[w])
  /\ \A f \in Files : HasFileMeta(f) => Points(fileRow[f], f)
  /\ \A i \in 1..Len(queue) : queue[i].root = LocalRoot
  /\ job # NoJob => job.root = LocalRoot
  /\ job.pc = "update" => object["oss"][job.file] # "none"

\* What holds of a file that nothing has disturbed.
Untouched(f) ==
  /\ ~Saved(f)
  /\ \A r \in Root : path[r][f] = None
  /\ \A w \in Workers : ~Writes(w, f)
WrittenAlone(f) == \A w \in Workers :
  Writes(w, f) =>
    /\ ~Saved(f)
    /\ fd[w] = path[LocalRoot][f]
    /\ \A v \in Workers : Writes(v, f) => v = w
ReadersOwn(f) ==
  /\ \A w \in Workers :
       req[w].pc = "u_store" /\ req[w].file = f => fd[w] = path[LocalRoot][f]
  /\ job.pc = "put" /\ job.file = f => fd[Consumer] = path[LocalRoot][f]
Intact(f) ==
  /\ created[f] = 0 => Untouched(f)
  /\ WrittenAlone(f)
  /\ Saved(f) => Stored(f)
  /\ ReadersOwn(f)
  /\ \A s \in Remote : object[s][f] # "part"

IntactInv ==
  /\ PathsApart
  /\ WritesOwn
  /\ Addresses
  /\ \A f \in Files : ~Disturbed(f) => Intact(f)

--------------------------------------------------------------------------------
(* Frames *)

LEMMA LocalIsRoot == LocalRoot \in Root /\ \A a \in Remote : a # LocalRoot
BY DEF LocalRoot, Root, Remote

\* An address stays one the file was put to.
LEMMA PointsStays ==
  ASSUME TypeOK, NEW a, NEW f \in Files, Points(a, f), UNCHANGED config,
         lost \subseteq lost',
         \A s \in Remote : object[s][f] # "none" => object'[s][f] # "none"
  PROVE  Points(a, f)'
BY DEF Points, LocalRoot, config

\* What the step does to objects, and to messages that are lost.
Carries ==
  /\ UNCHANGED config
  /\ lost \subseteq lost'
  /\ \A s \in Remote, f \in Files : object[s][f] # "none" => object'[s][f] # "none"

LEMMA AimsStays ==
  ASSUME TypeOK, Carries, NEW w \in Workers, Aims(req[w]), req'[w] = req[w]
  PROVE  Aims(req[w])'
<1>1. req[w].pc \in {"u_file", "d_serve"} => req[w].file \in Files
  BY RequestType DEF Holds
<1>2. LocalRoot' = LocalRoot
  BY DEF Carries, LocalRoot, config
<1>3. req[w].pc \in {"u_file", "d_serve"} => Points(req[w].addr, req[w].file)'
  <2> SUFFICES ASSUME req[w].pc \in {"u_file", "d_serve"}
               PROVE  Points(req[w].addr, req[w].file)'
    OBVIOUS
  <2> HIDE DEF Points
  <2>1. \A a : \A f \in Files : Points(a, f) => Points(a, f)'
    BY PointsStays DEF Carries
  <2>2. PICK a : a = req[w].addr
    OBVIOUS
  <2>3. PICK f \in Files : f = req[w].file
    BY <1>1
  <2>4. Points(a, f)
    BY <2>2, <2>3 DEF Aims
  <2>5. Points(a, f)'
    BY <2>1, <2>4
  <2> QED
    BY <2>2, <2>3, <2>5 DEF Points
<1> QED
  BY <1>2, <1>3 DEF Aims

\* A request at no step that holds an address.
LEMMA NoAim ==
  ASSUME NEW w \in Workers,
         req'[w].pc \notin {"u_write", "u_store", "u_file", "d_serve", "d_range"}
  PROVE  Aims(req[w])'
BY DEF Aims

\* The addresses of rows, messages and the transfer are as they were.
LEMMA AddressesFrame ==
  ASSUME TypeOK, Addresses, Carries, \A w \in Workers : Aims(req[w])',
         UNCHANGED <<fileRow, queue, job>>
  PROVE  Addresses'
<1>1. \A f \in Files : HasFileMeta(f)' => Points(fileRow[f], f)'
  <2> SUFFICES ASSUME NEW f \in Files, HasFileMeta(f) PROVE Points(fileRow[f], f)'
    BY DEF HasFileMeta
  <2>1. PICK a : a = fileRow[f]
    OBVIOUS
  <2>2. Points(a, f)
    BY <2>1 DEF Addresses
  <2>3. Points(a, f)'
    BY <2>2, PointsStays DEF Carries
  <2> QED
    BY <2>1, <2>3 DEF Points
<1>2. LocalRoot' = LocalRoot
  BY DEF Carries, LocalRoot, config
<1>3. job.pc = "update" => object'["oss"][job.file] # "none"
  <2>1. job.pc = "update" => job.file \in Files
    BY JobType, NoJobType
  <2> QED
    BY <2>1 DEF Addresses, Carries, Remote
<1> QED
  BY <1>1, <1>2, <1>3 DEF Addresses

\* A disturbed file stays disturbed.
LEMMA DisturbedStays ==
  ASSUME TypeOK, NEW f \in Files, Disturbed(f), UNCHANGED config, lost \subseteq lost',
         deleted \subseteq deleted', created'[f] \in Nat, created'[f] >= created[f]
  PROVE  Disturbed(f)'
<1>1. created[f] \in Nat
  BY StoreAssumption DEF TypeOK, StoreTypeOK
<1> QED
  BY <1>1 DEF Disturbed, config

\* A step that begins and ends no write of an upload, writes nothing, and tells
\* nobody of a file that was not saved before.
LEMMA IntactFrame ==
  ASSUME TypeOK, IntactInv, Carries, Addresses',
         UNCHANGED <<body, created>>, deleted \subseteq deleted',
         \A w \in Workers : req'[w].pc \in {"u_write", "u_store"} =>
                              req'[w] = req[w] /\ fd'[w] = fd[w],
         path' \in [Root -> [Files -> Inodes \cup {None}]],
         \A r \in Root, f \in Files :
           path'[r][f] = path[r][f] \/ (f \in deleted' /\ path'[r][f] = None),
         \A f \in Files : Saved(f)' => Saved(f),
         \A s \in Remote, f \in Files :
           ~Disturbed(f)' => object'[s][f] \in {object[s][f], "good"},
         job'.pc = "put" => \/ job' = job /\ fd'[Consumer] = fd[Consumer]
                            \/ fd'[Consumer] = path[LocalRoot][job'.file]
  PROVE  IntactInv'
<1>1. LocalRoot' = LocalRoot /\ LocalRoot \in Root
  BY LocalIsRoot DEF Carries, LocalRoot, config
<1>2. PathsApart'
  BY <1>1 DEF IntactInv, PathsApart
<1>3. WritesOwn'
  <2> SUFFICES ASSUME NEW w \in Workers, NEW r \in Root, NEW f \in Files,
                      req'[w].pc = "u_write", fd'[w] = path'[r][f]
               PROVE  req'[w].file = f
    BY DEF WritesOwn
  <2>1. req'[w] = req[w] /\ fd'[w] = fd[w]
    OBVIOUS
  <2>2. fd[w] \in Inodes
    BY <2>1, RequestType DEF Holds
  <2>3. path'[r][f] # None
    BY <2>1, <2>2, StorageAssumption
  <2>4. path[r][f] = fd[w]
    BY <2>1, <2>3
  <2> QED
    BY <2>1, <2>4 DEF IntactInv, WritesOwn
<1>4. ASSUME NEW f \in Files, ~Disturbed(f)'
      PROVE  Intact(f)'
  <2>1. Intact(f)
    <3>1. created'[f] \in Nat /\ created'[f] >= created[f]
      BY StoreAssumption DEF TypeOK, StoreTypeOK
    <3> QED
      BY <1>4, <3>1, DisturbedStays DEF IntactInv, Carries
  <2>2. \A r \in Root : path'[r][f] = path[r][f]
    BY <1>4 DEF Disturbed
  <2>3. \A w \in Workers : Writes(w, f)' => Writes(w, f) /\ fd'[w] = fd[w]
    BY DEF Writes
  <2>4. WrittenAlone(f)'
    BY <1>1, <2>1, <2>2, <2>3 DEF Intact, WrittenAlone
  <2>5. Stored(f) => Stored(f)'
    BY <1>1, <2>2 DEF Stored
  <2>6. ReadersOwn(f)'
    BY <1>1, <2>1, <2>2 DEF Intact, ReadersOwn
  <2>7. created'[f] = 0 => Untouched(f)'
    BY <2>1, <2>2, <2>3 DEF Intact, Untouched
  <2>8. \A s \in Remote : object'[s][f] # "part"
    BY <1>4, <2>1 DEF Intact
  <2> QED
    BY <2>1, <2>4, <2>5, <2>6, <2>7, <2>8 DEF Intact
<1> QED
  BY <1>2, <1>3, <1>4 DEF IntactInv

\* A step of worker w that leaves rows, messages and the transfer alone, writes
\* nothing, and goes on with a file, if at all, that was saved.
LEMMA QuietWorker ==
  ASSUME TypeOK, IntactInv, Carries, NEW w \in Workers,
         \A v \in Workers \ {w} : req'[v] = req[v],
         \A p \in Procs \ {w} : fd'[p] = fd[p],
         req'[w].pc \notin {"u_write", "u_store"}, Aims(req[w])',
         req'[w].pc \in SavedPCs => req'[w].file \in Files /\ Saved(req'[w].file),
         UNCHANGED <<body, created, fileRow, queue, job>>, deleted \subseteq deleted',
         path' \in [Root -> [Files -> Inodes \cup {None}]],
         \A r \in Root, f \in Files :
           path'[r][f] = path[r][f] \/ (f \in deleted' /\ path'[r][f] = None),
         \A s \in Remote, f \in Files :
           ~Disturbed(f)' => object'[s][f] \in {object[s][f], "good"}
  PROVE  IntactInv'
<1>1. \A v \in Workers : Aims(req[v])'
  BY AimsStays DEF IntactInv, Addresses
<1>2. Addresses'
  BY <1>1, AddressesFrame DEF IntactInv
<1>3. \A f \in Files : Saved(f)' => Saved(f)
  BY DEF Saved, HasFileMeta
<1>4. \A v \in Workers \ {w} : v \in Procs \ {w}
  BY DEF Procs
<1>5. Consumer \in Procs \ {w}
  BY StorageAssumption DEF Procs
<1>6. \A v \in Workers : req'[v].pc \in {"u_write", "u_store"} =>
                           req'[v] = req[v] /\ fd'[v] = fd[v]
  BY <1>4
<1>7. job'.pc = "put" => job' = job /\ fd'[Consumer] = fd[Consumer]
  BY <1>5
<1> HIDE DEF Saved, Disturbed, Carries, Addresses, IntactInv
<1> QED
  BY <1>2, <1>3, <1>6, <1>7, IntactFrame

--------------------------------------------------------------------------------
(* Requests that change no file *)

\* Storage, messages and configuration are left alone.
LEMMA StillCarries ==
  ASSUME UNCHANGED <<storage, mq, config, ghosts>>
  PROVE  /\ Carries
         /\ UNCHANGED <<path, body, fd, object, fileRow, queue, created, deleted>>
BY DEF Carries, storage, disk, tables, mq, ghosts

\* A request that begins or ends with no effect on them.
LEMMA ThinkIntact ==
  ASSUME TypeOK, IntactInv, NEW w \in Workers, UNCHANGED consumer,
         \A v \in Workers \ {w} : req'[v] = req[v],
         req'[w].pc \notin {"u_write", "u_store"}, Aims(req[w])',
         req'[w].pc \in SavedPCs => req'[w].file \in Files /\ Saved(req'[w].file),
         UNCHANGED <<storage, mq, config, ghosts>>
  PROVE  IntactInv'
<1>1. /\ Carries
      /\ UNCHANGED <<path, body, fd, object, fileRow, queue, created, deleted, job>>
  BY StillCarries DEF consumer
<1>2. path' \in [Root -> [Files -> Inodes \cup {None}]]
  BY <1>1 DEF TypeOK, StorageTypeOK
<1> QED
  BY <1>1, <1>2, QuietWorker

LEMMA StartQuietIntact ==
  ASSUME TypeOK, IntactInv, NEW w \in Workers, NEW n \in Users, NEW f \in Files,
         StartFast(w, n, f) \/ SvcStartFast(w, n, f) \/ StartDelete(w, n, f),
         UNCHANGED consumer
  PROVE  IntactInv'
<1>1. /\ req'[w].pc \in {"u_user", "x_remove"}
      /\ \A v \in Workers \ {w} : req'[v] = req[v]
  BY DEF StartFast, SvcStartFast, StartDelete, StartFastAs, Idle, TypeOK, StoreTypeOK
<1>2. UNCHANGED <<storage, mq, config, ghosts>>
  BY DEF StartFast, SvcStartFast, StartDelete
<1> QED
  BY <1>1, <1>2, NoAim, ThinkIntact DEF SavedPCs

LEMMA StartServeIntact ==
  ASSUME TypeOK, IntactInv, NEW w \in Workers, NEW f \in Files,
         \/ StartLink(w, f) \/ StartDownload(w, f) \/ StartDownloadURL(w, f)
         \/ StartRange(w, f),
         UNCHANGED consumer
  PROVE  IntactInv'
<1>1. UNCHANGED <<storage, mq, config, ghosts>>
  BY DEF StartLink, StartDownload, StartDownloadURL, StartRange
<1>2. CASE StartRange(w, f)
  <2>1. /\ req'[w].pc = "d_range" /\ req'[w].addr = "merge"
        /\ \A v \in Workers \ {w} : req'[v] = req[v]
    BY <1>2 DEF StartRange, StartServe, Idle, TypeOK, StoreTypeOK
  <2>2. Aims(req[w])'
    BY <2>1 DEF Aims
  <2> QED
    BY <1>1, <2>1, <2>2, ThinkIntact DEF SavedPCs
<1>3. CASE ~StartRange(w, f)
  <2>1. HasFileMeta(f) /\ StartServe(w, "d_serve", f, fileRow[f])
    BY <1>3 DEF StartLink, StartDownload, StartDownloadURL, OrmFileAddr, HasFileMeta,
                Remote
  <2>2. /\ req'[w].pc = "d_serve" /\ req'[w].addr = fileRow[f] /\ req'[w].file = f
        /\ \A v \in Workers \ {w} : req'[v] = req[v]
    BY <2>1 DEF StartServe, Idle, TypeOK, StoreTypeOK
  <2>3. Points(fileRow[f], f) /\ Saved(f)
    BY <2>1 DEF IntactInv, Addresses, Saved
  <2>4. Aims(req[w])'
    BY <1>1, <2>2, <2>3 DEF Aims, Points, LocalRoot, config, storage, mq
  <2> QED
    BY <1>1, <2>2, <2>3, <2>4, ThinkIntact
<1> QED
  BY <1>2, <1>3

LEMMA DownloadServeIntact ==
  ASSUME TypeOK, IntactInv, NEW w \in Workers, DownloadServe(w), UNCHANGED consumer
  PROVE  IntactInv'
<1>1. req'[w].pc = "idle" /\ \A v \in Workers \ {w} : req'[v] = req[v]
  BY DEF DownloadServe, Answer, Idle, TypeOK, StoreTypeOK
<1> QED
  BY <1>1, NoAim, ThinkIntact DEF DownloadServe, SavedPCs

\* The user's rows, the reply and the marks touch nothing of the file.
LEMMA UserStepIntact ==
  ASSUME TypeOK, IntactInv, NEW w \in Workers, UNCHANGED consumer,
         UploadUser(w) \/ SvcUploadUser(w) \/ UploadReply(w) \/ DeleteMark(w)
  PROVE  IntactInv'
<1>1. /\ UNCHANGED <<path, body, fd, object, fileRow, queue, lost, created, deleted, config>>
      /\ UNCHANGED job
  BY DEF UploadUser, SvcUploadUser, UploadReply, DeleteMark, disk, mq, ghosts, storage,
         tables, consumer
<1>2. Carries /\ path' \in [Root -> [Files -> Inodes \cup {None}]]
  BY <1>1 DEF Carries, TypeOK, StorageTypeOK
<1>3. /\ req'[w].pc \in {"idle", "u_reply"}
      /\ \A v \in Workers \ {w} : req'[v] = req[v]
  BY DEF UploadUser, SvcUploadUser, UploadReply, DeleteMark, Goto, Answer, Idle, TypeOK,
         StoreTypeOK, Request
<1> QED
  BY <1>1, <1>2, <1>3, NoAim, QuietWorker DEF SavedPCs

LEMMA DeleteRemoveIntact ==
  ASSUME TypeOK, IntactInv, NEW w \in Workers, DeleteRemove(w), UNCHANGED consumer
  PROVE  IntactInv'
<1>1. /\ req[w].file \in Files /\ req[w].addr \in Addr
      /\ UNCHANGED <<body, fd, object, fileRow, queue, lost, created, config, job>>
  BY RequestType DEF DeleteRemove, Holds, DeletePCs, tables, mq, consumer
<1>2. Carries /\ path' \in [Root -> [Files -> Inodes \cup {None}]]
  BY <1>1, RemoveType DEF DeleteRemove, Carries, TypeOK
<1>3. /\ req'[w].pc = "x_mark" /\ \A v \in Workers \ {w} : req'[v] = req[v]
  BY DEF DeleteRemove, Goto, TypeOK, StoreTypeOK, Request
<1>4. /\ deleted \subseteq deleted'
      /\ \A r \in Root, f \in Files :
           path'[r][f] = path[r][f] \/ (f \in deleted' /\ path'[r][f] = None)
  BY <1>1 DEF DeleteRemove, Remove, TypeOK, StorageTypeOK
<1> QED
  BY <1>1, <1>2, <1>3, <1>4, NoAim, QuietWorker DEF SavedPCs

--------------------------------------------------------------------------------
(* Where an upload puts its file *)

\* What worker w, past its write, knows of its file.
LEMMA AtStore ==
  ASSUME TypeOK, IntactInv, NEW w \in Workers, req[w].pc = "u_store"
  PROVE  /\ req[w] \in Request /\ req \in [Workers -> Request]
         /\ req[w].file \in Files /\ Saved(req[w].file)
         /\ req[w].addr = LocalRoot
         /\ fd[w] \in Inodes /\ body[fd[w]] # "none"
         /\ ~Disturbed(req[w].file) => body[fd[w]] = "good"
<1>1. /\ req[w] \in Request /\ req \in [Workers -> Request]
      /\ req[w].file \in Files /\ fd[w] \in Inodes
  BY RequestType DEF Holds, UploadPCs, TypeOK, StoreTypeOK
<1>2. Saved(req[w].file)
  BY DEF Saved, SavedPCs
<1>3. req[w].addr = LocalRoot
  BY DEF IntactInv, Addresses, Aims
<1>4. ASSUME ~Disturbed(req[w].file)
      PROVE  body[fd[w]] = "good"
  BY <1>1, <1>2, <1>4 DEF IntactInv, Intact, ReadersOwn, Stored
<1>5. body[fd[w]] # "none"
  BY <1>1 DEF TypeOK, StorageTypeOK
<1> QED
  BY <1>1, <1>2, <1>3, <1>4, <1>5

\* What an address rests on, with nothing but values of this state in it.
LEMMA LocalPoints ==
  ASSUME NEW w \in Workers, UNCHANGED config, req'[w].addr = LocalRoot
  PROVE  Points(req[w].addr, req[w].file)'
BY DEF Points, LocalRoot, config

LEMMA StoredIntact ==
  ASSUME TypeOK, IntactInv, NEW w \in Workers, UNCHANGED consumer,
         UploadLocal(w) \/ UploadCeph(w) \/ UploadOss(w)
  PROVE  IntactInv'
<1> DEFINE g == req[w].file
<1>1. req[w].pc = "u_store"
  BY DEF UploadLocal, UploadCeph, UploadOss
<1>2. /\ req[w] \in Request /\ req \in [Workers -> Request] /\ g \in Files
      /\ Saved(g) /\ req[w].addr = LocalRoot
      /\ fd[w] \in Inodes /\ body[fd[w]] # "none"
      /\ ~Disturbed(g) => body[fd[w]] = "good"
  BY <1>1, AtStore
<1>3. /\ UNCHANGED <<path, body, fileRow, queue, created, deleted, config, job>>
      /\ lost \subseteq lost' /\ Close(w)
  BY DEF UploadLocal, UploadCeph, UploadOss, tables, mq, ghosts, consumer
<1>4. \A p \in Procs \ {w} : fd'[p] = fd[p]
  BY <1>3, CloseType, RequestType DEF TypeOK
<1>5. \A v \in Workers \ {w} : req'[v] = req[v]
  BY <1>2 DEF UploadLocal, UploadCeph, UploadOss, Goto, GotoStored, Answer
<1>6. \/ object' = object
      \/ \E s \in Remote : object' = [object EXCEPT ![s][g] = body[fd[w]]]
  BY DEF UploadLocal, UploadCeph, UploadOss, Remote
<1>7. Carries
  BY <1>2, <1>3, <1>6 DEF Carries, TypeOK, StorageTypeOK, Remote
<1>8. ASSUME NEW s \in Remote, NEW f \in Files, ~Disturbed(f)'
      PROVE  object'[s][f] \in {object[s][f], "good"}
  <2>1. ~Disturbed(f)
    <3>1. created'[f] \in Nat /\ created'[f] >= created[f]
      BY <1>3, StoreAssumption DEF TypeOK, StoreTypeOK
    <3> QED
      BY <1>3, <1>8, <3>1, DisturbedStays
  <2>2. f = g => body[fd[w]] = "good"
    BY <1>2, <2>1
  <2> QED
    BY <1>2, <1>6, <2>2 DEF TypeOK, StorageTypeOK, Remote
<1>9. CASE Answer(w)
  <2>1. req'[w].pc = "idle"
    BY <1>2, <1>9 DEF Answer, Idle
  <2>2. path' \in [Root -> [Files -> Inodes \cup {None}]]
    BY <1>3 DEF TypeOK, StorageTypeOK
  <2> QED
    BY <1>3, <1>4, <1>5, <1>7, <1>8, <2>1, <2>2, NoAim, QuietWorker DEF SavedPCs
<1>10. ASSUME req'[w].pc = "u_file", req'[w].file = g, Points(req[w].addr, req[w].file)'
       PROVE  IntactInv'
  <2>1. Aims(req[w])'
    BY <1>10 DEF Aims
  <2>2. path' \in [Root -> [Files -> Inodes \cup {None}]]
    BY <1>3 DEF TypeOK, StorageTypeOK
  <2> QED
    BY <1>2, <1>3, <1>4, <1>5, <1>7, <1>8, <1>10, <2>1, <2>2, QuietWorker DEF SavedPCs
<1>11. CASE UploadLocal(w)
  <2>1. req'[w].pc = "u_file" /\ req'[w].file = g /\ req'[w].addr = LocalRoot
    BY <1>2, <1>11 DEF UploadLocal, Goto, Request
  <2> QED
    BY <1>3, <1>10, <2>1, LocalPoints
<1>12. CASE UploadCeph(w)
  <2>1. req'[w].pc = "u_file" /\ req'[w].file = g /\ req'[w].addr = "ceph"
    BY <1>2, <1>12 DEF UploadCeph, GotoStored, Request
  <2>2. object'["ceph"][g] # "none" \/ (store' = "ceph" /\ g \in lost')
    BY <1>2, <1>12 DEF UploadCeph, config, TypeOK, StorageTypeOK, Remote
  <2> QED
    BY <1>10, <2>1, <2>2 DEF Points, Remote
<1>13. CASE UploadOss(w) /\ ~Answer(w)
  <2>0. GotoStored(w, "oss") /\ object' = [object EXCEPT !["oss"][g] = body[fd[w]]]
    BY <1>13 DEF UploadOss
  <2>1. req'[w].pc = "u_file" /\ req'[w].file = g /\ req'[w].addr = "oss"
    BY <1>2, <2>0 DEF GotoStored, Request
  <2>2. object'["oss"][g] # "none"
    BY <1>2, <2>0 DEF TypeOK, StorageTypeOK, Remote
  <2> QED
    BY <1>10, <2>1, <2>2 DEF Points, Remote
<1> QED
  BY <1>9, <1>11, <1>12, <1>13

LEMMA PublishIntact ==
  ASSUME TypeOK, IntactInv, NEW w \in Workers, UNCHANGED consumer, UploadPublish(w)
  PROVE  IntactInv'
<1> DEFINE g == req[w].file
           m == [file |-> g, root |-> req[w].addr]
<1>1. /\ req[w] \in Request /\ req \in [Workers -> Request] /\ g \in Files
      /\ Saved(g) /\ req[w].addr = LocalRoot
  BY AtStore DEF UploadPublish
<1>2. /\ UNCHANGED <<path, body, object, fileRow, created, deleted, config, job>>
      /\ Close(w) /\ Goto(w, "u_file") /\ Publish(m)
  BY DEF UploadPublish, tables, ghosts, consumer
<1>3. \A p \in Procs \ {w} : fd'[p] = fd[p]
  BY <1>2, CloseType, RequestType DEF TypeOK
<1>4. /\ \A v \in Workers \ {w} : req'[v] = req[v]
      /\ req'[w].pc = "u_file" /\ req'[w].file = g /\ req'[w].addr = LocalRoot
  BY <1>1, <1>2 DEF Goto, Request
<1>5. lost \subseteq lost' /\ queue' \in {queue, Append(queue, m)}
  BY <1>2 DEF Publish, PublishSent, PublishLost, PublishRefused
<1>6. Carries
  BY <1>2, <1>5 DEF Carries
<1>7. Aims(req[w])'
  BY <1>2, <1>4, LocalPoints DEF Aims
<1>8. queue \in Seq(Message) /\ m \in Message
  BY <1>1, LocalIsRoot DEF TypeOK, MqTypeOK, Message
<1>9. \A i \in 1..Len(queue') :
        \/ queue'[i] = m
        \/ i \in 1..Len(queue) /\ queue'[i] = queue[i]
  BY <1>5, <1>8
<1>10. m.file = g /\ m.root = LocalRoot
  BY <1>1
<1> HIDE DEF m
<1>11. Addresses'
  <2>1. \A v \in Workers : Aims(req[v])'
    BY <1>4, <1>6, <1>7, AimsStays DEF IntactInv, Addresses
  <2>2. \A f \in Files : HasFileMeta(f)' => Points(fileRow[f], f)'
    BY <1>2, <1>5 DEF IntactInv, Addresses, HasFileMeta, Points, LocalRoot, config
  <2>3. \A i \in 1..Len(queue') : queue'[i].root = LocalRoot'
    BY <1>2, <1>9, <1>10 DEF IntactInv, Addresses, LocalRoot, config
  <2>4. job' # NoJob => job'.root = LocalRoot'
    BY <1>2 DEF IntactInv, Addresses, LocalRoot, config
  <2>5. job'.pc = "update" => object'["oss"][job'.file] # "none"
    BY <1>2 DEF IntactInv, Addresses
  <2> QED
    BY <2>1, <2>2, <2>3, <2>4, <2>5 DEF Addresses
<1>12. \A f \in Files : Saved(f)' => Saved(f)
  <2> SUFFICES ASSUME NEW f \in Files, Saved(f)', f # g PROVE Saved(f)
    BY <1>1
  <2> QED
    BY <1>2, <1>4, <1>9, <1>10 DEF Saved, HasFileMeta
<1>13. \A v \in Workers : req'[v].pc \in {"u_write", "u_store"} =>
                           req'[v] = req[v] /\ fd'[v] = fd[v]
  BY <1>3, <1>4 DEF Procs
<1>14. job' = job /\ fd'[Consumer] = fd[Consumer]
  BY <1>2, <1>3, StorageAssumption DEF Procs
<1>15. path' \in [Root -> [Files -> Inodes \cup {None}]]
  BY <1>2 DEF TypeOK, StorageTypeOK
<1> HIDE DEF Saved, Disturbed, Carries, Addresses, IntactInv
<1> QED
  BY <1>2, <1>6, <1>11, <1>12, <1>13, <1>14, <1>15, IntactFrame

\* The insert into tbl_file: the row points to where the file was put.
LEMMA UploadFileIntact ==
  ASSUME TypeOK, IntactInv, NEW w \in Workers, UNCHANGED consumer,
         UploadFile(w) \/ SvcUploadFile(w)
  PROVE  IntactInv'
<1> DEFINE g == req[w].file
<1>1. /\ req[w] \in Request /\ req \in [Workers -> Request] /\ g \in Files
      /\ req[w].addr \in Addr /\ Saved(g) /\ Points(req[w].addr, g)
  BY RequestType DEF UploadFile, SvcUploadFile, Holds, UploadPCs, TypeOK, StoreTypeOK,
                     Saved, SavedPCs, IntactInv, Addresses, Aims
<1>2. /\ UNCHANGED <<path, body, fd, object, queue, lost, created, deleted, config, job>>
      /\ \A v \in Workers \ {w} : req'[v] = req[v]
      /\ req'[w].pc \in {"u_user", "idle"}
  BY <1>1 DEF UploadFile, SvcUploadFile, disk, mq, consumer, Goto, Answer, Idle, Request
<1>3. InsertFile(g, req[w].addr) \/ UNCHANGED fileRow
  BY DEF UploadFile, SvcUploadFile, OrmOnFileUploadFinished
<1>4. \A f \in Files : fileRow'[f] = fileRow[f] \/ (f = g /\ fileRow'[f] = req[w].addr)
  BY <1>1, <1>3 DEF InsertFile, TypeOK, StorageTypeOK
<1>5. Carries /\ path' \in [Root -> [Files -> Inodes \cup {None}]]
  BY <1>2 DEF Carries, TypeOK, StorageTypeOK
<1>6. Addresses'
  <2>1. \A v \in Workers : Aims(req[v])'
    BY <1>2, <1>5, AimsStays, NoAim DEF IntactInv, Addresses
  <2>2. \A f \in Files : HasFileMeta(f)' => Points(fileRow[f], f)'
    BY <1>1, <1>2, <1>4 DEF IntactInv, Addresses, HasFileMeta, Points, LocalRoot, config
  <2> QED
    BY <1>2, <2>1, <2>2 DEF IntactInv, Addresses, LocalRoot, config
<1>7. \A f \in Files : Saved(f)' => Saved(f)
  <2> SUFFICES ASSUME NEW f \in Files, Saved(f)', f # g PROVE Saved(f)
    BY <1>1
  <2> QED
    BY <1>2, <1>4 DEF Saved, HasFileMeta, SavedPCs
<1>8. \A v \in Workers : req'[v].pc \in {"u_write", "u_store"} =>
                           req'[v] = req[v] /\ fd'[v] = fd[v]
  BY <1>2
<1> HIDE DEF Saved, Disturbed, Carries, Addresses, IntactInv
<1> QED
  BY <1>2, <1>5, <1>6, <1>7, <1>8, IntactFrame

--------------------------------------------------------------------------------
(* The write *)

LEMMA UploadWriteIntact ==
  ASSUME TypeOK, IntactInv, NEW w \in Workers, UNCHANGED consumer, UploadWrite(w)
  PROVE  IntactInv'
<1> DEFINE g == req[w].file
           i == fd[w]
<1>1. /\ req[w] \in Request /\ req \in [Workers -> Request] /\ g \in Files
      /\ i \in Inodes /\ i # None /\ Writes(w, g) /\ req[w].addr = LocalRoot
  BY RequestType, StorageAssumption
     DEF UploadWrite, Holds, UploadPCs, TypeOK, StoreTypeOK, Writes, IntactInv, Addresses,
         Aims
<1>2. /\ UNCHANGED <<path, object, fileRow, queue, lost, created, deleted, config, job>>
      /\ \A v \in Workers \ {w} : req'[v] = req[v]
  BY <1>1 DEF UploadWrite, tables, mq, consumer, Goto, Answer
<1>3. \/ /\ req'[w].pc = "u_store" /\ req'[w].file = g /\ req'[w].addr = LocalRoot
         /\ body' = [body EXCEPT ![i] = "good"] /\ fd' = fd
      \/ /\ req'[w].pc = "idle" /\ body' = [body EXCEPT ![i] = "part"] /\ Close(w)
  <2>1. CASE Goto(w, "u_store") /\ body' = [body EXCEPT ![i] = "good"] /\ fd' = fd
    BY <1>1, <2>1 DEF Goto, Request
  <2>2. CASE Answer(w) /\ body' = [body EXCEPT ![i] = "part"] /\ Close(w)
    BY <1>1, <2>2 DEF Answer, Idle
  <2> QED
    BY <2>1, <2>2 DEF UploadWrite
<1>4. \A p \in Procs \ {w} : fd'[p] = fd[p]
  BY <1>3, CloseType, RequestType DEF TypeOK
<1>5. Consumer \in Procs \ {w} /\ \A v \in Workers \ {w} : v \in Procs \ {w}
  BY StorageAssumption DEF Procs
<1>6. LocalRoot' = LocalRoot /\ LocalRoot \in Root
  BY <1>2, LocalIsRoot DEF LocalRoot, config
<1>7. PathsApart' /\ WritesOwn'
  BY <1>2, <1>3, <1>4, <1>5, <1>6 DEF IntactInv, PathsApart, WritesOwn
<1>8. Carries
  BY <1>2 DEF Carries
<1>9. Addresses'
  <2>1. Aims(req[w])'
    BY <1>3, <1>6 DEF Aims
  <2>2. \A v \in Workers : Aims(req[v])'
    BY <1>2, <1>8, <2>1, AimsStays DEF IntactInv, Addresses
  <2> QED
    BY <1>2, <1>8, <2>2, AddressesFrame DEF IntactInv
<1>10. ASSUME NEW f \in Files, ~Disturbed(f)'
       PROVE  Intact(f)'
  <2>1. Intact(f)
    BY <1>2, <1>10 DEF IntactInv, Disturbed, config
  <2>2. \A v \in Workers : Writes(v, f)' => v # w /\ Writes(v, f) /\ fd'[v] = fd[v]
    BY <1>2, <1>3, <1>4, <1>5 DEF Writes
  <2>3. CASE f # g
    <3>1. path[LocalRoot][f] # i
      BY <1>1, <1>6, <2>3 DEF IntactInv, WritesOwn, Writes
    <3>2. Saved(f)' => Saved(f)
      BY <1>2, <1>3, <2>3 DEF Saved, HasFileMeta, SavedPCs
    <3>3. Stored(f) => Stored(f)'
      <4>1. path[LocalRoot][f] \in Inodes \cup {None}
        BY <1>6 DEF TypeOK, StorageTypeOK
      <4> QED
        BY <1>1, <1>2, <1>3, <1>6, <3>1, <4>1 DEF Stored, TypeOK, StorageTypeOK
    <3>4. WrittenAlone(f)'
      BY <1>2, <1>6, <2>1, <2>2, <3>2 DEF Intact, WrittenAlone
    <3>5. ReadersOwn(f)'
      BY <1>2, <1>3, <1>4, <1>5, <1>6, <2>1, <2>3 DEF Intact, ReadersOwn
    <3>6. created'[f] = 0 => Untouched(f)'
      BY <1>2, <2>1, <2>2, <3>2 DEF Intact, Untouched
    <3> QED
      BY <1>2, <2>1, <3>2, <3>3, <3>4, <3>5, <3>6 DEF Intact
  <2>4. CASE f = g
    <3>1. /\ ~Saved(f) /\ i = path[LocalRoot][f] /\ created[f] # 0
          /\ \A v \in Workers : Writes(v, f) => v = w
      BY <1>1, <2>1, <2>4 DEF Intact, WrittenAlone, Untouched
    <3>2. \A v \in Workers : ~Writes(v, f)'
      BY <2>2, <3>1
    <3>3. Saved(f)' => req'[w].pc = "u_store"
      BY <1>2, <1>3, <3>1 DEF Saved, HasFileMeta, SavedPCs
    <3>4. Saved(f)' => Stored(f)'
      BY <1>1, <1>2, <1>3, <1>6, <3>1, <3>3 DEF Stored, TypeOK, StorageTypeOK
    <3>5. ReadersOwn(f)'
      <4>1. \A v \in Workers : v # w => req[v].pc # "u_store" \/ req[v].file # f
        BY <3>1 DEF Saved, SavedPCs
      <4>2. job.file # f
        BY <3>1 DEF Saved
      <4> QED
        BY <1>2, <1>3, <1>6, <3>1, <4>1, <4>2 DEF ReadersOwn
    <3>6. \A s \in Remote : object'[s][f] # "part"
      BY <1>2, <2>1 DEF Intact
    <3> QED
      BY <1>2, <3>1, <3>2, <3>4, <3>5, <3>6 DEF Intact, WrittenAlone
  <2> QED
    BY <2>3, <2>4
<1> QED
  BY <1>7, <1>9, <1>10 DEF IntactInv

\* The creation of the local file: with an inode of its own, or with the one the
\* path leads to, which an upload before it must have made.
LEMMA StartUploadIntact ==
  ASSUME TypeOK, IntactInv, NEW w \in Workers, NEW n \in Users, NEW g \in Files,
         StartUpload(w, n, g), UNCHANGED consumer
  PROVE  IntactInv'
<1>1. /\ UNCHANGED <<object, fileRow, queue, lost, deleted, config, job>>
      /\ \A v \in Workers \ {w} : req'[v] = req[v]
      /\ req'[w].pc = "u_write" /\ req'[w].file = g /\ req'[w].addr = LocalRoot
      /\ req[w].pc = "idle"
      /\ created[g] \in Nat /\ created' = [created EXCEPT ![g] = created[g] + 1]
      /\ created \in [Files -> 0..MaxUploads]
  BY StoreAssumption DEF StartUpload, Idle, tables, mq, consumer, TypeOK, StoreTypeOK
<1>2. Create(w, LocalRoot, g)
  BY DEF StartUpload
<1>3. LocalRoot' = LocalRoot /\ LocalRoot \in Root /\ w \in Procs
  BY <1>1, LocalIsRoot, RequestType DEF LocalRoot, config
<1>4. /\ Consumer \in Procs \ {w}
      /\ \A v \in Workers \ {w} : v \in Procs \ {w}
  BY StorageAssumption DEF Procs
<1>5. \A p \in Procs \ {w} : fd'[p] = fd[p]
  BY <1>2, <1>3, CreateType DEF TypeOK
<1>6. PICK i \in Inodes :
        /\ fd'[w] = i /\ path'[LocalRoot][g] = i
        /\ body' = [body EXCEPT ![i] = "part"]
        /\ \A r \in Root, f \in Files :
             r # LocalRoot \/ f # g => path'[r][f] = path[r][f]
        /\ path[LocalRoot][g] = i \/ (path[LocalRoot][g] = None /\ ~InUse(i))
  <2>1. CASE path[LocalRoot][g] # None
    <3>1. path[LocalRoot][g] \in Inodes
      BY <1>3, <2>1 DEF TypeOK, StorageTypeOK
    <3> QED
      BY <1>2, <1>3, <2>1, <3>1 DEF Create, TypeOK, StorageTypeOK
  <2>2. CASE path[LocalRoot][g] = None
    BY <1>2, <1>3, <2>2 DEF Create, TypeOK, StorageTypeOK
  <2> QED
    BY <2>1, <2>2
<1>7. i # None
  BY StorageAssumption
\* No other path leads to i, and nobody else writes it for another file.
<1>8. \A r \in Root, f \in Files : r # LocalRoot \/ f # g => path[r][f] # i
  BY <1>3, <1>6, <1>7 DEF InUse, IntactInv, PathsApart
<1>9. \A v \in Workers : req[v].pc = "u_write" /\ fd[v] = i => req[v].file = g
  <2>1. \A v \in Workers : v \in Procs
    BY DEF Procs
  <2> QED
    BY <1>3, <1>6, <2>1 DEF InUse, IntactInv, WritesOwn
<1>10. PathsApart'
  BY <1>3, <1>6, <1>7, <1>8 DEF IntactInv, PathsApart
<1>11. WritesOwn'
  <2> SUFFICES ASSUME NEW v \in Workers, NEW r \in Root, NEW f \in Files,
                      req'[v].pc = "u_write", fd'[v] = path'[r][f]
               PROVE  req'[v].file = f
    BY DEF WritesOwn
  <2>1. CASE v = w
    BY <1>1, <1>6, <1>8, <2>1
  <2>2. CASE v # w /\ r = LocalRoot /\ f = g
    BY <1>1, <1>4, <1>5, <1>6, <1>9, <2>2
  <2>3. CASE v # w /\ (r # LocalRoot \/ f # g)
    BY <1>1, <1>4, <1>5, <1>6, <2>3 DEF IntactInv, WritesOwn
  <2> QED
    BY <2>1, <2>2, <2>3
<1>12. Carries
  BY <1>1 DEF Carries
<1>13. Addresses'
  <2>1. Aims(req[w])'
    BY <1>1, <1>3 DEF Aims
  <2>2. \A v \in Workers : Aims(req[v])'
    BY <1>1, <1>12, <2>1, AimsStays DEF IntactInv, Addresses
  <2> QED
    BY <1>1, <1>12, <2>2, AddressesFrame DEF IntactInv
<1>14. \A f \in Files : Saved(f)' => Saved(f)
  BY <1>1 DEF Saved, HasFileMeta, SavedPCs
<1>15. ASSUME NEW f \in Files, ~Disturbed(f)'
       PROVE  Intact(f)'
  <2>1. Intact(f)
    <3>1. created'[f] \in Nat /\ created'[f] >= created[f]
      BY <1>1
    <3> QED
      BY <1>1, <1>15, <3>1, DisturbedStays DEF IntactInv
  <2>2. CASE f # g
    <3>1. \A r \in Root : path'[r][f] = path[r][f]
      BY <1>6, <2>2
    <3>2. \A v \in Workers : Writes(v, f)' => v # w /\ Writes(v, f) /\ fd'[v] = fd[v]
      BY <1>1, <1>4, <1>5, <2>2 DEF Writes
    <3>3. Stored(f) => Stored(f)'
      <4>1. path[LocalRoot][f] \in Inodes \cup {None} /\ path[LocalRoot][f] # i
        BY <1>3, <1>8, <2>2 DEF TypeOK, StorageTypeOK
      <4> QED
        BY <1>3, <1>6, <3>1, <4>1 DEF Stored, TypeOK, StorageTypeOK
    <3>4. WrittenAlone(f)'
      BY <1>3, <1>14, <2>1, <3>1, <3>2 DEF Intact, WrittenAlone
    <3>5. ReadersOwn(f)'
      BY <1>1, <1>3, <1>4, <1>5, <2>1, <3>1 DEF Intact, ReadersOwn
    <3>6. created'[f] = 0 => Untouched(f)'
      BY <1>1, <1>14, <2>1, <2>2, <3>1, <3>2 DEF Intact, Untouched
    <3> QED
      BY <1>1, <1>14, <2>1, <3>3, <3>4, <3>5, <3>6 DEF Intact
  <2>3. CASE f = g
    <3>1. created[f] = 0 /\ created'[f] = 1
      BY <1>1, <1>15, <2>3 DEF Disturbed
    <3>2. Untouched(f)
      BY <2>1, <3>1 DEF Intact
    <3>3. \A v \in Workers : Writes(v, f)' => v = w
      BY <1>1, <3>2 DEF Untouched, Writes
    <3>4. ~Saved(f)'
      BY <1>14, <3>2 DEF Untouched
    <3>5. WrittenAlone(f)'
      BY <1>3, <1>6, <2>3, <3>3, <3>4 DEF WrittenAlone
    <3>6. ReadersOwn(f)'
      BY <3>4 DEF ReadersOwn, Saved, SavedPCs
    <3> QED
      BY <1>1, <2>1, <3>1, <3>4, <3>5, <3>6 DEF Intact
  <2> QED
    BY <2>2, <2>3
<1> QED
  BY <1>10, <1>11, <1>13, <1>15 DEF IntactInv

--------------------------------------------------------------------------------
(* The environment of the server, and the transfer *)

LEMMA ServerEnvIntact ==
  ASSUME TypeOK, IntactInv, ServerEnv, UNCHANGED consumer
  PROVE  IntactInv'
<1>1. /\ UNCHANGED <<path, body, object, fileRow, queue, lost, created, deleted, config, job>>
      /\ fd'[Consumer] = fd[Consumer]
      /\ \A w \in Workers : \/ req'[w] = req[w] /\ fd'[w] = fd[w]
                            \/ req'[w].pc = "idle"
  <2>1. ASSUME NEW n \in Users, NEW f \in Files, Rename(n, f)
        PROVE  /\ UNCHANGED <<path, body, fd, object, fileRow, queue, lost, created, deleted,
                              config, job, req>>
    BY <2>1 DEF Rename, disk, mq, server, ghosts, consumer
  <2>2. CASE ServerChannelCloses
    BY <2>2 DEF ServerChannelCloses, ChannelCloses, storage, disk, tables, server, ghosts,
                consumer
  <2>3. CASE ServerCrash
    <3>1. /\ \A w \in Workers : req'[w].pc = "idle"
          /\ fd'[Consumer] = fd[Consumer]
      BY <2>3, StorageAssumption DEF ServerCrash, Idle, Procs
    <3> QED
      BY <2>3, <3>1 DEF ServerCrash, tables, ghosts, consumer
  <2> QED
    BY <2>1, <2>2, <2>3 DEF ServerEnv
<1>2. Carries /\ path' \in [Root -> [Files -> Inodes \cup {None}]]
  BY <1>1 DEF Carries, TypeOK, StorageTypeOK
<1>3. Addresses'
  <2>1. \A w \in Workers : Aims(req[w])'
    BY <1>1, <1>2, AimsStays, NoAim DEF IntactInv, Addresses
  <2> QED
    BY <1>1, <1>2, <2>1, AddressesFrame DEF IntactInv
<1>4. \A f \in Files : Saved(f)' => Saved(f)
  BY <1>1 DEF Saved, HasFileMeta, SavedPCs
<1>5. \A w \in Workers : req'[w].pc \in {"u_write", "u_store"} =>
                           req'[w] = req[w] /\ fd'[w] = fd[w]
  BY <1>1
<1> HIDE DEF Saved, Disturbed, Carries, Addresses, IntactInv
<1> QED
  BY <1>1, <1>2, <1>3, <1>4, <1>5, IntactFrame

\* A step of the transfer process: what it may do to messages, its job, objects
\* and rows.
LEMMA ConsumeFrame ==
  ASSUME TypeOK, IntactInv, UNCHANGED server, UNCHANGED <<path, body>>, lost \subseteq lost',
         \A p \in Procs \ {Consumer} : fd'[p] = fd[p],
         \A i \in 1..Len(queue') : \E k \in 1..Len(queue) : queue'[i] = queue[k],
         \/ job' = NoJob
         \/ job' = job /\ fd' = fd
         \/ /\ job' # NoJob /\ job'.root = LocalRoot /\ Saved(job'.file)
            /\ job'.pc = "put" => fd'[Consumer] = path[LocalRoot][job'.file]
            /\ job'.pc = "update" => object'["oss"][job'.file] # "none",
         \A s \in Remote, f \in Files : object[s][f] # "none" => object'[s][f] # "none",
         \A s \in Remote, f \in Files :
           ~Disturbed(f)' => object'[s][f] \in {object[s][f], "good"},
         \A f \in Files : \/ fileRow'[f] = fileRow[f]
                          \/ /\ HasFileMeta(f)
                             /\ fileRow'[f] = "oss" /\ object'["oss"][f] # "none"
  PROVE  IntactInv'
<1>1. Carries /\ UNCHANGED <<created, deleted, req>> /\ LocalRoot' = LocalRoot
  BY DEF Carries, server, config, ghosts, LocalRoot
<1>2. path' \in [Root -> [Files -> Inodes \cup {None}]]
  BY DEF TypeOK, StorageTypeOK
<1>3. Addresses'
  <2>1. \A w \in Workers : Aims(req[w])'
    BY <1>1, AimsStays DEF IntactInv, Addresses
  <2>2. \A f \in Files : HasFileMeta(f)' => Points(fileRow[f], f)'
    <3> SUFFICES ASSUME NEW f \in Files, HasFileMeta(f)' PROVE Points(fileRow[f], f)'
      OBVIOUS
    <3>1. CASE fileRow'[f] = "oss" /\ object'["oss"][f] # "none"
      BY <3>1 DEF Points, Remote
    <3>2. CASE fileRow'[f] = fileRow[f]
      <4>1. PICK a : a = fileRow[f]
        OBVIOUS
      <4>2. Points(a, f)'
        BY <1>1, <3>2, <4>1, PointsStays DEF IntactInv, Addresses, HasFileMeta, Carries
      <4> QED
        BY <3>2, <4>1, <4>2 DEF Points
    <3> QED
      BY <3>1, <3>2
  <2>3. \A i \in 1..Len(queue') : queue'[i].root = LocalRoot'
    BY <1>1 DEF IntactInv, Addresses
  <2>4. job' # NoJob => job'.root = LocalRoot'
    BY <1>1 DEF IntactInv, Addresses
  <2>5. job'.pc = "update" => object'["oss"][job'.file] # "none"
    <3>1. job # NoJob => job.file \in Files
      BY JobType
    <3> QED
      BY <3>1, NoJobType DEF IntactInv, Addresses, Remote
  <2> QED
    BY <2>1, <2>2, <2>3, <2>4, <2>5 DEF Addresses
<1>4. \A f \in Files : Saved(f)' => Saved(f)
  <2> SUFFICES ASSUME NEW f \in Files, Saved(f)' PROVE Saved(f)
    OBVIOUS
  <2>1. CASE HasFileMeta(f)'
    BY <2>1 DEF Saved, HasFileMeta
  <2>2. CASE \E i \in 1..Len(queue') : queue'[i].file = f
    BY <2>2 DEF Saved
  <2>3. CASE job'.file = f
    <3>1. f # None
      BY StorageAssumption
    <3> QED
      BY <2>3, <3>1 DEF Saved, NoJob
  <2>4. CASE \E w \in Workers : req'[w].file = f /\ req'[w].pc \in SavedPCs
    BY <1>1, <2>4 DEF Saved
  <2> QED
    BY <2>1, <2>2, <2>3, <2>4 DEF Saved
<1>5. \A w \in Workers : req'[w] = req[w] /\ fd'[w] = fd[w]
  BY <1>1, StorageAssumption DEF Procs
<1>6. job'.pc = "put" => \/ job' = job /\ fd'[Consumer] = fd[Consumer]
                         \/ fd'[Consumer] = path[LocalRoot][job'.file]
  BY NoJobType
<1> HIDE DEF Saved, Disturbed, Carries, Addresses, IntactInv
<1> QED
  BY <1>1, <1>2, <1>3, <1>4, <1>5, <1>6, IntactFrame

LEMMA ConsumerMovesIntact ==
  ASSUME TypeOK, IntactInv, UNCHANGED server,
         TransferOpen \/ TransferPut \/ TransferUpdate
  PROVE  IntactInv'
<1>1. job # NoJob
  BY NoJobType DEF TransferOpen, TransferPut, TransferUpdate
<1> DEFINE g == job.file
<1>2. /\ job \in Job /\ g \in Files /\ Saved(g) /\ job.root = LocalRoot
  BY <1>1, JobType DEF Saved, IntactInv, Addresses
<1>3. /\ UNCHANGED <<path, body, queue, created, deleted>> /\ lost \subseteq lost'
  BY DEF TransferOpen, TransferPut, TransferUpdate, JobLost, server, ghosts
<1>4. \A i \in 1..Len(queue') : \E k \in 1..Len(queue) : queue'[i] = queue[k]
  BY <1>3
<1>5. Consumer \in Procs
  BY DEF Procs
<1>6. \A p \in Procs \ {Consumer} : fd'[p] = fd[p]
  BY <1>5, CloseType DEF TransferOpen, TransferPut, TransferUpdate, JobLost, JobDone, TypeOK,
                         StorageTypeOK
<1>7. CASE TransferOpen
  <2>1. UNCHANGED <<object, fileRow>>
    BY <1>7 DEF TransferOpen, tables
  <2>2. CASE JobLost
    BY <1>3, <1>4, <1>6, <2>1, <2>2, ConsumeFrame DEF JobLost, JobDone
  <2>3. CASE JobGoto("put") /\ fd' = [fd EXCEPT ![Consumer] = path[job.root][job.file]]
    <3>1. /\ job' # NoJob /\ job'.pc = "put" /\ job'.file = g /\ job'.root = LocalRoot
          /\ fd'[Consumer] = path[LocalRoot][g]
      BY <1>2, <1>5, <2>3, NoJobType DEF JobGoto, Job, TypeOK, StorageTypeOK
    <3> QED
      BY <1>2, <1>3, <1>4, <1>6, <2>1, <3>1, ConsumeFrame
  <2> QED
    BY <1>7, <2>2, <2>3 DEF TransferOpen
<1>8. CASE TransferPut
  <2>1. UNCHANGED fileRow /\ job.pc = "put" /\ fd[Consumer] \in Inodes
    BY <1>1, <1>8 DEF TransferPut, tables, TypeOK, TransferTypeOK
  <2>2. CASE JobLost /\ UNCHANGED object
    BY <1>3, <1>4, <1>6, <2>1, <2>2, ConsumeFrame DEF JobLost, JobDone
  <2>3. CASE /\ JobGoto("update")
             /\ object' = [object EXCEPT !["oss"][g] = body[fd[Consumer]]]
    <3>1. /\ job' # NoJob /\ job'.pc = "update" /\ job'.file = g /\ job'.root = LocalRoot
      BY <1>2, <2>3, NoJobType DEF JobGoto, Job
    <3>2. body[fd[Consumer]] # "none" /\ object \in [Remote -> [Files -> Cell]]
      BY <2>1 DEF TypeOK, StorageTypeOK
    <3>3. /\ object'["oss"][g] # "none"
          /\ \A s \in Remote, f \in Files : object[s][f] # "none" => object'[s][f] # "none"
      BY <1>2, <2>3, <3>2 DEF Remote
    <3>4. ASSUME NEW s \in Remote, NEW f \in Files, ~Disturbed(f)'
          PROVE  object'[s][f] \in {object[s][f], "good"}
      <4>1. CASE f = g
        <5>1. ~Disturbed(f)
          <6>1. created'[f] \in Nat /\ created'[f] >= created[f]
            BY <1>3, StoreAssumption DEF TypeOK, StoreTypeOK
          <6> QED
            BY <1>3, <3>4, <6>1, DisturbedStays DEF server
        <5>2. Intact(f)
          BY <5>1 DEF IntactInv
        <5>3. body[fd[Consumer]] = "good"
          BY <1>2, <2>1, <4>1, <5>2 DEF Intact, ReadersOwn, Stored
        <5> QED
          BY <1>2, <2>3, <3>2, <5>3 DEF Remote
      <4>2. CASE f # g
        BY <1>2, <2>3, <3>2, <4>2 DEF Remote
      <4> QED
        BY <4>1, <4>2
    <3> QED
      BY <1>2, <1>3, <1>4, <1>6, <2>1, <3>1, <3>3, <3>4, ConsumeFrame
  <2> QED
    BY <1>8, <2>2, <2>3 DEF TransferPut
<1>9. CASE TransferUpdate
  <2>1. UNCHANGED object /\ job' = NoJob /\ object["oss"][g] # "none"
    BY <1>9 DEF TransferUpdate, JobLost, JobDone, IntactInv, Addresses
  <2>2. \A f \in Files : \/ fileRow'[f] = fileRow[f]
                         \/ /\ HasFileMeta(f)
                            /\ fileRow'[f] = "oss" /\ object'["oss"][f] # "none"
    BY <1>2, <1>9, <2>1 DEF TransferUpdate, UpdateFileLocation, HasFileMeta, TypeOK,
                            StorageTypeOK
  <2> QED
    BY <1>3, <1>4, <1>6, <2>1, <2>2, ConsumeFrame
<1> QED
  BY <1>7, <1>8, <1>9

LEMMA ConsumeIntact ==
  ASSUME TypeOK, IntactInv, Consume, UNCHANGED server
  PROVE  IntactInv'
<1>1. queue \in Seq(Message)
  BY DEF TypeOK, MqTypeOK
<1>2. CASE Take
  <2>1. /\ UNCHANGED <<path, body, fd, object, fileRow, lost>>
        /\ queue # <<>> /\ queue' = Tail(queue)
        /\ job' = [pc |-> "open", file |-> Head(queue).file, root |-> Head(queue).root]
    BY <1>2 DEF Take, storage, disk, tables
  <2>2. \A i \in 1..Len(queue') : \E k \in 1..Len(queue) : queue'[i] = queue[k]
    <3> SUFFICES ASSUME NEW i \in 1..Len(queue')
                 PROVE  i + 1 \in 1..Len(queue) /\ queue'[i] = queue[i + 1]
      OBVIOUS
    <3> QED
      BY <1>1, <2>1
  <2>3. 1 \in 1..Len(queue) /\ Head(queue) = queue[1]
    BY <1>1, <2>1
  <2>4. /\ job' # NoJob /\ job'.pc = "open" /\ job'.root = LocalRoot /\ Saved(job'.file)
    BY <2>1, <2>3 DEF NoJob, IntactInv, Addresses, Saved
  <2> QED
    BY <2>1, <2>2, <2>4, ConsumeFrame
<1>3. ASSUME NEW k \in 0..Len(queue), NEW others, LoseBuffered(k, others)
      PROVE  /\ \A i \in 1..Len(queue') : \E j \in 1..Len(queue) : queue'[i] = queue[j]
             /\ lost \subseteq lost'
  <2> SUFFICES ASSUME NEW i \in 1..Len(queue')
               PROVE  k + i \in 1..Len(queue) /\ queue'[i] = queue[k + i]
    BY <1>3 DEF LoseBuffered
  <2> QED
    BY <1>1, <1>3 DEF LoseBuffered
<1>4. Consumer \in Procs
  BY DEF Procs
<1>5. CASE ConsumerCrash
  <2>1. /\ UNCHANGED <<path, body, object, fileRow>> /\ job' = NoJob
        /\ \A p \in Procs \ {Consumer} : fd'[p] = fd[p]
    BY <1>4, <1>5, CloseType DEF ConsumerCrash, tables, TypeOK
  <2>2. /\ \A i \in 1..Len(queue') : \E j \in 1..Len(queue) : queue'[i] = queue[j]
        /\ lost \subseteq lost'
    BY <1>3, <1>5 DEF ConsumerCrash
  <2> QED
    BY <2>1, <2>2, ConsumeFrame
<1>6. CASE ConsumerHangs \/ ConsumerStart
  <2>1. UNCHANGED <<path, body, fd, object, fileRow, job>>
    BY <1>6 DEF ConsumerHangs, ConsumerStart, storage, disk, tables
  <2>2. /\ \A i \in 1..Len(queue') : \E j \in 1..Len(queue) : queue'[i] = queue[j]
        /\ lost \subseteq lost'
    BY <1>3, <1>6 DEF ConsumerHangs, ConsumerStart, mq
  <2> QED
    BY <2>1, <2>2, ConsumeFrame
<1> QED
  BY <1>2, <1>5, <1>6, ConsumerMovesIntact DEF Consume, TransferStep

--------------------------------------------------------------------------------
(* The theorems *)

LEMMA InitIntact == Init => IntactInv
<1> SUFFICES ASSUME Init PROVE IntactInv
  OBVIOUS
<1>1. /\ \A r \in Root, f \in Files : path[r][f] = None
      /\ \A w \in Workers : req[w].pc = "idle" /\ req[w].file = None
      /\ \A f \in Files : fileRow[f] = "none" /\ f # None
      /\ \A s \in Remote, f \in Files : object[s][f] = "none"
      /\ queue = <<>> /\ job = NoJob
  BY StorageAssumption DEF Init, StorageInit, MqInit, StoreInit, TransferInit, Idle
<1>2. PathsApart /\ WritesOwn
  BY <1>1 DEF PathsApart, WritesOwn
<1>3. Addresses
  BY <1>1, NoJobType DEF Addresses, Aims, HasFileMeta
<1>4. \A f \in Files : ~Saved(f) /\ \A w \in Workers : ~Writes(w, f)
  BY <1>1 DEF Saved, SavedPCs, Writes, HasFileMeta, NoJob
<1>5. \A f \in Files : Intact(f)
  BY <1>1, <1>4, NoJobType DEF Intact, Untouched, WrittenAlone, ReadersOwn
<1> QED
  BY <1>2, <1>3, <1>5 DEF IntactInv

LEMMA NextIntact == TypeOK /\ IntactInv /\ [Next]_vars => IntactInv'
<1> SUFFICES ASSUME TypeOK, IntactInv, [Next]_vars PROVE IntactInv'
  OBVIOUS
<1>1. CASE UNCHANGED vars
  BY <1>1 DEF vars, IntactInv, PathsApart, WritesOwn, Addresses, Aims, Points, Intact,
              Untouched, WrittenAlone, ReadersOwn, Saved, Stored, Writes, Disturbed,
              HasFileMeta, LocalRoot, storage, disk, tables, mq, server, config, ghosts,
              consumer
<1>2. ASSUME NEW w \in Workers, Start(w), UNCHANGED consumer
      PROVE  IntactInv'
  BY <1>2, StartUploadIntact, StartQuietIntact, StartServeIntact DEF Start
<1>3. ASSUME NEW w \in Workers, Handle(w), UNCHANGED consumer
      PROVE  IntactInv'
  BY <1>3, UploadWriteIntact, StoredIntact, PublishIntact, UploadFileIntact,
     UserStepIntact, DeleteRemoveIntact, DownloadServeIntact
     DEF Handle, DoUpload, SvcDoUpload, UploadStep
<1>4. CASE ServerEnv /\ UNCHANGED consumer
  BY <1>4, ServerEnvIntact
<1>5. CASE Consume /\ UNCHANGED server
  BY <1>5, ConsumeIntact
<1> QED
  BY <1>1, <1>2, <1>3, <1>4, <1>5 DEF Next, Server

\* The invariant holds in every state.
THEOREM AlwaysIntact == Spec => [](TypeOK /\ IntactInv)
BY InitType, NextType, InitIntact, NextIntact, PTL DEF Spec

\* Where something points to a file that nothing has disturbed, the file is.
LEMMA PointsToWhole ==
  ASSUME TypeOK, IntactInv, NEW f \in Files, NEW a, Points(a, f), Saved(f), ~Disturbed(f)
  PROVE  CellAt(a, f) = "good"
<1>1. Stored(f) /\ \A s \in Remote : object[s][f] # "part"
  BY DEF IntactInv, Intact
<1>2. CASE a = LocalRoot
  BY <1>1, <1>2, LocalIsRoot DEF CellAt, Stored
<1>3. CASE a \in Remote /\ a # LocalRoot
  <2>1. object[a][f] # "none"
    BY <1>3 DEF Points, Disturbed
  <2>2. object[a][f] \in Cell /\ a \notin Root
    BY <1>3 DEF TypeOK, StorageTypeOK, Root, Remote
  <2> QED
    BY <1>1, <1>3, <2>1, <2>2 DEF CellAt, Cell
<1> QED
  BY <1>2, <1>3 DEF Points

\* A file uploaded once, not deleted and not lost on the way to Ceph, is whole at
\* the address of its row, in every state.
THEOREM RecordedIsWhole == Spec => []DamagedOnlyByOthers
<1>1. TypeOK /\ IntactInv => DamagedOnlyByOthers
  <2> SUFFICES ASSUME TypeOK, IntactInv, NEW f \in Files, HasFileMeta(f), ~Disturbed(f)
               PROVE  CellAt(fileRow[f], f) = "good"
    BY DEF DamagedOnlyByOthers
  <2>1. Points(fileRow[f], f) /\ Saved(f)
    BY DEF IntactInv, Addresses, Saved
  <2> QED
    BY <2>1, PointsToWhole
<1> QED
  BY <1>1, AlwaysIntact, PTL

\* A download that was given an address is served the whole file, wherever the
\* file has been moved since; a range download no part of a recorded file.
THEOREM ServedWhole == Spec => ServedIsWhole
<1> DEFINE A == \A w \in Workers : DownloadServe(w) /\ ~Disturbed(req[w].file) =>
                  IF req[w].pc = "d_serve"
                    THEN Served(w) = "good"
                    ELSE Served(w) = "part" => ~HasFileMeta(req[w].file)
<1>1. ASSUME TypeOK, IntactInv
      PROVE  A
  <2> SUFFICES ASSUME NEW w \in Workers, req[w].pc \in ServePCs,
                      ~Disturbed(req[w].file)
               PROVE  IF req[w].pc = "d_serve"
                        THEN Served(w) = "good"
                        ELSE Served(w) = "part" => ~HasFileMeta(req[w].file)
    BY DEF DownloadServe
  <2>1. req[w].file \in Files
    BY <1>1, RequestType DEF Holds, ServePCs
  <2>2. CASE req[w].pc = "d_serve"
    <3>1. Points(req[w].addr, req[w].file) /\ Saved(req[w].file)
      BY <1>1, <2>2 DEF IntactInv, Addresses, Aims, Saved, SavedPCs
    <3> QED
      BY <1>1, <2>1, <2>2, <3>1, PointsToWhole DEF Served
  <2>3. CASE req[w].pc = "d_range"
    <3>1. req[w].addr = "merge"
      BY <1>1, <2>3 DEF IntactInv, Addresses, Aims
    <3>2. SUFFICES ASSUME Served(w) = "part", HasFileMeta(req[w].file) PROVE FALSE
      BY <2>3
    <3>3. path["merge"][req[w].file] # None
      BY <3>1, <3>2 DEF Served, CellAt, Root
    <3>4. LocalRoot = "merge"
      BY <1>1, <2>1, <3>3 DEF IntactInv, PathsApart, Root
    <3>5. Points("merge", req[w].file) /\ Saved(req[w].file)
      BY <3>2, <3>4 DEF Points, Saved
    <3>6. Served(w) = "good"
      BY <1>1, <2>1, <3>1, <3>5, PointsToWhole DEF Served
    <3> QED
      BY <3>2, <3>6
  <2> QED
    BY <2>2, <2>3 DEF ServePCs
<1>2. TypeOK /\ IntactInv /\ [Next]_vars => [A]_vars
  BY <1>1
<1> QED
  BY <1>2, AlwaysIntact, PTL DEF Spec, ServedIsWhole

================================================================================
