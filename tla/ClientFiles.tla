---------------------------- MODULE ClientFiles ----------------------------
(***************************************************************************)
(* How files reach a client and stay up to date there: the client_file     *)
(* module of the server (src/builtin/client_file/client_file.cpp) and the  *)
(* file packets of the client (src/src/client/state.cpp).                  *)
(*                                                                         *)
(* A file is known by its name, its content by its hash, and the client    *)
(* caches contents.  The connection is reliable and keeps the order.       *)
(* toServer is the way from the client through the network module into the *)
(* event queue of client_file; toClient is the way back.  client_file      *)
(* handles one event, call or watch callback at a time, and may be         *)
(* reloaded: see ServerModules for what is lost then.                      *)
(***************************************************************************)
EXTENDS Integers, Sequences, SequencesExt

CONSTANTS
  Files,       \* names of files
  Physical,    \* the files that are added with add_file_path()
  Contents,    \* contents, each with a hash of its own
  Empty,       \* the content of an empty file
  None,        \* no file, no hash
  InitialDisk,    \* the content of each physical file at first
  InitialCaches,  \* what the client may have from earlier connections
  MaxWrites,   \* bound: changes of files on the disk or by modules
  MaxAdds,     \* bound: calls of add_file_path()
  MaxReloads   \* bound: reloads of client_file

ASSUME FilesAssumption == Physical \subseteq Files /\ None \notin Files

ASSUME ContentsAssumption ==
  /\ Empty \in Contents /\ None \notin Contents
  /\ InitialDisk \in [Physical -> Contents \ {Empty}]
  /\ InitialCaches \subseteq SUBSET Contents

ASSUME BoundsAssumption ==
  MaxWrites \in Nat /\ MaxAdds \in Nat /\ MaxReloads \in Nat

Announces == [type : {"announce_file"}, name : Files, hash : Contents]
FileContents == [type : {"file_content"}, name : Files, hash : Contents]
Tell == [type |-> "tell_after_all_files_transferred"]
Requests == [type : {"request_file"}, name : Files, hash : Contents]
Connected == [type |-> "client_connected"]
AllTransferred == [type |-> "all_files_transferred"]

VARIABLES
  disk,         \* content of each physical file
  writes,       \* changes so far
  adds,         \* calls of add_file_path() so far
  phase,        \* where client_file is in its life
  files,        \* m_files: the hash of each file, None if unknown
  paths,        \* files whose FileInfo has a path
  watched,      \* files with a callback in m_watch
  modified,     \* files the watch has still to report
  adding,       \* file that is read and not yet watched
  stored,       \* tmp_store_data(): hashes of the stored files ...
  storedPaths,  \* ... and those stored as a path, without content
  restoring,    \* files that on_continue() has still to restore
  peer,         \* network's m_peers has the client
  toServer,     \* events and packets on their way to client_file
  toClient,     \* packets on their way to the client
  hashes,       \* client: m_file_hashes
  cache,        \* client: contents in the cache directory
  waiting,      \* client: m_waiting_files
  tell,         \* client: m_tell_after_all_files_transferred_requested
  shown,        \* client: last file_updated_in_cache() of each file
  reloads,      \* reloads so far
  known,        \* history: files added, but not just before a stop
  unannounced,  \* history: files that changed unannounced at some time
  missed,       \* history: files changed while they were read
  asked,        \* history: the client was asked to tell
  transferred,  \* history: the client told
  overtaken     \* history: a file that was awaited turned up in the cache

diskVars == <<disk, writes, adds, missed>>
fileVars == <<files, paths, known, unannounced>>
watchVars == <<watched, modified, adding>>
storeVars == <<stored, storedPaths, restoring>>
clientVars == <<hashes, cache, waiting, tell, shown, asked, transferred,
                overtaken>>
vars == <<diskVars, phase, fileVars, watchVars, storeVars, peer, toServer,
          toClient, clientVars, reloads>>

TypeOK ==
  /\ disk \in [Physical -> Contents] /\ writes \in 0..MaxWrites
  /\ adds \in 0..MaxAdds
  /\ phase \in {"up", "told", "init", "restore", "ended"}
  /\ files \in [Files -> Contents \cup {None}]
  /\ paths \in SUBSET Physical
  /\ watched \in SUBSET Physical
  /\ modified \in SUBSET watched
  /\ adding \in Physical \cup {None}
  /\ stored \in [Files -> Contents \cup {None}]
  /\ storedPaths \in SUBSET Physical
  /\ restoring \in SUBSET Files
  /\ peer \in BOOLEAN
  /\ toServer \in Seq(Requests \cup {Connected, AllTransferred})
  /\ toClient \in Seq(Announces \cup FileContents \cup {Tell})
  /\ hashes \in [Files -> Contents \cup {None}]
  /\ cache \in SUBSET Contents
  /\ waiting \in SUBSET Files
  /\ tell \in BOOLEAN
  /\ shown \in [Files -> Contents \cup {None}]
  /\ reloads \in 0..MaxReloads
  /\ known \in SUBSET Files /\ unannounced \in SUBSET Files
  /\ missed \in SUBSET Physical
  /\ asked \in BOOLEAN /\ transferred \in BOOLEAN /\ overtaken \in BOOLEAN

Init ==
  /\ disk = InitialDisk
  /\ writes = 0 /\ adds = 0
  /\ phase = "up"
  /\ files = [f \in Files |-> None] /\ paths = {}
  /\ watched = {} /\ modified = {} /\ adding = None
  /\ stored = [f \in Files |-> None] /\ storedPaths = {} /\ restoring = {}
  /\ peer = FALSE
  /\ toServer = <<>> /\ toClient = <<>>
  /\ hashes = [f \in Files |-> None]
  /\ cache \in InitialCaches
  /\ waiting = {} /\ tell = FALSE
  /\ shown = [f \in Files |-> None]
  /\ reloads = 0
  /\ known = {} /\ unannounced = {} /\ missed = {}
  /\ asked = FALSE /\ transferred = FALSE /\ overtaken = FALSE

\* client_file handles events and calls.
Alive == phase \in {"up", "told", "init"}
Idle == Alive /\ adding = None

Announce(f, h) == [type |-> "announce_file", name |-> f, hash |-> h]
Request(f, h) == [type |-> "request_file", name |-> f, hash |-> h]
Content(f, h) == [type |-> "file_content", name |-> f, hash |-> h]

-----------------------------------------------------------------------------
(* Seeded faults *)

\* Only files that are new are announced.
Update_NewOnly(f, h) ==
  /\ files' = [files EXCEPT ![f] = h]
  /\ paths' = paths \ {f}
  /\ toClient' = IF peer /\ files[f] = None THEN Append(toClient, Announce(f, h))
                                            ELSE toClient
  /\ known' = IF phase = "told" THEN known ELSE known \cup {f}
  /\ UNCHANGED unannounced

\* Files with a path are left to whoever added them.
OnUnload_ContentOnly ==
  /\ phase = "up" /\ adding = None /\ reloads < MaxReloads
  /\ stored' = [f \in Files |-> IF f \in paths THEN None ELSE files[f]]
  /\ storedPaths' = {}
  /\ phase' = "told"
  /\ reloads' = reloads + 1
  /\ UNCHANGED <<diskVars, fileVars, watchVars, restoring, peer, toServer,
                 toClient, clientVars>>

\* The client looks in its cache for the hash announced before.
HandleAnnounce_OldHash ==
  /\ toClient # <<>> /\ Head(toClient) \in Announces
  /\ LET p == Head(toClient)
     IN /\ hashes' = [hashes EXCEPT ![p.name] = p.hash]
        /\ IF hashes[p.name] \in cache \/ p.hash \in cache
           THEN /\ shown' = [shown EXCEPT ![p.name] = p.hash]
                /\ overtaken' = (overtaken \/ p.name \in waiting)
                /\ UNCHANGED <<toServer, waiting>>
           ELSE /\ toServer' = Append(toServer, Request(p.name, p.hash))
                /\ waiting' = waiting \cup {p.name}
                /\ UNCHANGED <<shown, overtaken>>
  /\ toClient' = Tail(toClient)
  /\ UNCHANGED <<diskVars, phase, fileVars, watchVars, storeVars, peer, cache,
                 tell, reloads, asked, transferred>>

\* The client tells only if it got a file it was not waiting for.
SaveContent_TellFirst(p) ==
  /\ waiting' = waiting \ {p.name}
  /\ cache' = cache \cup {p.hash}
  /\ shown' = [shown EXCEPT ![p.name] = p.hash]
  /\ IF tell /\ waiting = {}
     THEN /\ toServer' = Append(toServer, AllTransferred)
          /\ transferred' = TRUE /\ tell' = FALSE
     ELSE UNCHANGED <<toServer, transferred, tell>>

-----------------------------------------------------------------------------
(* Files on the server *)

\* A file changes on the disk; the watch, if there is one, has it to report.
WriteDisk(f) ==
  /\ writes < MaxWrites
  /\ \E h \in Contents \ {disk[f]} : disk' = [disk EXCEPT ![f] = h]
  /\ writes' = writes + 1
  /\ modified' = IF f \in watched THEN modified \cup {f} ELSE modified
  /\ missed' = IF adding = f /\ f \notin watched THEN missed \cup {f} ELSE missed
  /\ UNCHANGED <<adds, phase, fileVars, watched, adding, storeVars, peer,
                 toServer, toClient, clientVars, reloads>>

\* add_file_path(), called by client_data and client_lua whenever a module is
\* loaded or reloaded: the file is read ...
ReadFile(f) ==
  /\ files' = [files EXCEPT ![f] = disk[f]]
  /\ paths' = paths \cup {f}
  /\ adding' = f
  /\ known' = IF phase = "told" THEN known ELSE known \cup {f}
  /\ unannounced' = IF peer /\ files[f] # disk[f] THEN unannounced \cup {f}
                                                  ELSE unannounced

AddFilePath(f) ==
  /\ Idle /\ adds < MaxAdds
  /\ ReadFile(f)
  /\ adds' = adds + 1
  /\ missed' = missed \ {f}
  /\ UNCHANGED <<disk, writes, phase, watched, modified, storeVars, peer,
                 toServer, toClient, clientVars, reloads>>

\* The file cannot be opened: nobody catches the exception, neither in the
\* handlers of client_data and client_lua nor in on_continue(), and the server
\* shuts down.
CannotOpen ==
  /\ \/ Idle /\ adds < MaxAdds
     \/ phase = "restore" /\ adding = None /\ restoring \cap storedPaths # {}
  /\ phase' = "ended"
  /\ UNCHANGED <<diskVars, fileVars, watchVars, storeVars, peer, toServer,
                 toClient, clientVars, reloads>>

\* ... and then watched.
AddWatch ==
  /\ adding # None
  /\ watched' = watched \cup {adding}
  /\ adding' = None
  /\ UNCHANGED <<diskVars, phase, fileVars, modified, storeVars, peer, toServer,
                 toClient, clientVars, reloads>>

\* update_file_content() of a content that differs: the new FileInfo has no
\* path, and every peer is told.
Update(f, h) ==
  /\ files' = [files EXCEPT ![f] = h]
  /\ paths' = paths \ {f}
  /\ toClient' = IF peer THEN Append(toClient, Announce(f, h)) ELSE toClient
  /\ known' = IF phase = "told" THEN known ELSE known \cup {f}
  /\ UNCHANGED unannounced

\* A module calls update_file_content() or add_file_content().
UpdateFileContent(f, h) ==
  /\ Idle /\ writes < MaxWrites /\ files[f] # h
  /\ Update(f, h)
  /\ writes' = writes + 1
  /\ UNCHANGED <<disk, adds, missed, phase, watchVars, storeVars, peer,
                 toServer, clientVars, reloads>>

\* The watch's callback reads the file; an empty one is ignored.
FileModified(f) ==
  /\ Idle /\ f \in modified
  /\ modified' = modified \ {f}
  /\ IF disk[f] \in {Empty, files[f]}
     THEN UNCHANGED <<fileVars, toClient>>
     ELSE Update(f, disk[f])
  /\ missed' = missed \ {f}
  /\ UNCHANGED <<disk, writes, adds, phase, watched, adding, storeVars, peer,
                 toServer, clientVars, reloads>>

-----------------------------------------------------------------------------
(* Packets and events that client_file handles *)

\* Every file is announced, in the order of the names.
OnClientConnected ==
  /\ Idle /\ toServer # <<>> /\ Head(toServer) = Connected
  /\ \E order \in SetToSeqs({f \in Files : files[f] # None}) :
       toClient' = toClient
                     \o [i \in DOMAIN order |-> Announce(order[i], files[order[i]])]
                     \o <<Tell>>
  /\ toServer' = Tail(toServer)
  /\ UNCHANGED <<diskVars, phase, fileVars, watchVars, storeVars,
                 peer, clientVars, reloads>>

\* A request for a hash that the file does not have any more is not answered.
OnRequestFile ==
  /\ Idle /\ toServer # <<>> /\ Head(toServer) \in Requests
  /\ LET r == Head(toServer)
     IN toClient' = IF files[r.name] = r.hash
                    THEN Append(toClient, Content(r.name, r.hash))
                    ELSE toClient
  /\ toServer' = Tail(toServer)
  /\ UNCHANGED <<diskVars, phase, fileVars, watchVars, storeVars, peer,
                 clientVars, reloads>>

\* on_all_files_transferred() passes the news on to other modules.
OnAllFilesTransferred ==
  /\ Idle /\ toServer # <<>> /\ Head(toServer) = AllTransferred
  /\ toServer' = Tail(toServer)
  /\ UNCHANGED <<diskVars, phase, fileVars, watchVars, storeVars, peer,
                 toClient, clientVars, reloads>>

-----------------------------------------------------------------------------
(* client_file is reloaded *)

\* core:unload: files with a path are stored by their path alone.
OnUnload ==
  /\ phase = "up" /\ adding = None /\ reloads < MaxReloads
  /\ stored' = files /\ storedPaths' = paths
  /\ phase' = "told"
  /\ reloads' = reloads + 1
  /\ UNCHANGED <<diskVars, fileVars, watchVars, restoring, peer, toServer,
                 toClient, clientVars>>

\* The module and its watch are deleted, and a new module is subscribed, yet
\* without any files.  What was queued is lost, and so is what network emits
\* while nobody is subscribed.
Restart ==
  /\ phase = "told" /\ adding = None
  /\ files' = [f \in Files |-> None] /\ paths' = {}
  /\ watched' = {} /\ modified' = {}
  /\ \E lost \in 0..Len(toServer) :
       toServer' = SubSeq(toServer, lost + 1, Len(toServer))
  /\ phase' = "init"
  /\ UNCHANGED <<diskVars, known, unannounced, adding, storeVars, peer,
                 toClient, clientVars, reloads>>

\* core:continue restores one file after the other.
OnContinue ==
  /\ phase = "init" /\ adding = None
  /\ restoring' = {f \in Files : stored[f] # None}
  /\ phase' = "restore"
  /\ UNCHANGED <<diskVars, fileVars, watchVars, stored, storedPaths, peer,
                 toServer, toClient, clientVars, reloads>>

RestoreFile(f) ==
  /\ phase = "restore" /\ adding = None /\ f \in restoring
  /\ restoring' = restoring \ {f}
  /\ IF f \in storedPaths
     THEN ReadFile(f) /\ missed' = missed \ {f} /\ UNCHANGED toClient
     ELSE /\ IF files[f] = stored[f] THEN UNCHANGED <<fileVars, toClient>>
                                     ELSE Update(f, stored[f])
          /\ UNCHANGED <<adding, missed>>
  /\ UNCHANGED <<disk, writes, adds, phase, watched, modified, stored,
                 storedPaths, peer, toServer, clientVars, reloads>>

Restored ==
  /\ phase = "restore" /\ adding = None /\ restoring = {}
  /\ phase' = "up"
  /\ stored' = [f \in Files |-> None] /\ storedPaths' = {}
  /\ UNCHANGED <<diskVars, fileVars, watchVars, restoring, peer, toServer,
                 toClient, clientVars, reloads>>

-----------------------------------------------------------------------------
(* The client *)

\* network registers the peer before client_file hears of it.
Connect ==
  /\ ~peer
  /\ peer' = TRUE
  /\ toServer' = Append(toServer, Connected)
  /\ UNCHANGED <<diskVars, phase, fileVars, watchVars, storeVars, toClient,
                 clientVars, reloads>>

HandleAnnounce ==
  /\ toClient # <<>> /\ Head(toClient) \in Announces
  /\ LET p == Head(toClient)
     IN /\ hashes' = [hashes EXCEPT ![p.name] = p.hash]
        /\ IF p.hash \in cache
           THEN /\ shown' = [shown EXCEPT ![p.name] = p.hash]
                /\ overtaken' = (overtaken \/ p.name \in waiting)
                /\ UNCHANGED <<toServer, waiting>>
           ELSE /\ toServer' = Append(toServer, Request(p.name, p.hash))
                /\ waiting' = waiting \cup {p.name}
                /\ UNCHANGED <<shown, overtaken>>
  /\ toClient' = Tail(toClient)
  /\ UNCHANGED <<diskVars, phase, fileVars, watchVars, storeVars, peer, cache,
                 tell, reloads, asked, transferred>>

HandleTell ==
  /\ toClient # <<>> /\ Head(toClient) = Tell
  /\ toClient' = Tail(toClient)
  /\ asked' = TRUE
  /\ IF waiting = {}
     THEN /\ toServer' = Append(toServer, AllTransferred)
          /\ transferred' = TRUE
          /\ UNCHANGED tell
     ELSE tell' = TRUE /\ UNCHANGED <<toServer, transferred>>
  /\ UNCHANGED <<diskVars, phase, fileVars, watchVars, storeVars, peer, hashes,
                 cache, waiting, shown, reloads, overtaken>>

\* A content that was asked for is saved under its hash.
SaveContent(p) ==
  /\ waiting' = waiting \ {p.name}
  /\ cache' = cache \cup {p.hash}
  /\ shown' = [shown EXCEPT ![p.name] = p.hash]
  /\ IF tell /\ waiting' = {}
     THEN /\ toServer' = Append(toServer, AllTransferred)
          /\ transferred' = TRUE /\ tell' = FALSE
     ELSE UNCHANGED <<toServer, transferred, tell>>

HandleContent ==
  /\ toClient # <<>> /\ Head(toClient) \in FileContents
  /\ toClient' = Tail(toClient)
  /\ IF Head(toClient).name \in waiting
     THEN SaveContent(Head(toClient))
     ELSE UNCHANGED <<waiting, cache, shown, toServer, transferred, tell>>
  /\ UNCHANGED <<diskVars, phase, fileVars, watchVars, storeVars, peer, hashes,
                 reloads, asked, overtaken>>

-----------------------------------------------------------------------------

\* What client_file does with what it is given.
Serve ==
  \/ AddWatch \/ OnClientConnected \/ OnRequestFile \/ OnAllFilesTransferred
  \/ \E f \in Files : FileModified(f) \/ RestoreFile(f)
  \/ Restart \/ OnContinue \/ Restored

Client == HandleAnnounce \/ HandleTell \/ HandleContent

Next ==
  \/ Serve \/ Client \/ Connect \/ OnUnload \/ CannotOpen
  \/ \E f \in Physical : WriteDisk(f) \/ AddFilePath(f)
  \/ \E f \in Files \ Physical, h \in Contents : UpdateFileContent(f, h)

\* The module's thread and the client take what comes to them.
Fairness ==
  /\ WF_vars(AddWatch) /\ WF_vars(Client)
  /\ WF_vars(OnClientConnected \/ OnRequestFile \/ OnAllFilesTransferred)
  /\ WF_vars(\E f \in Files : FileModified(f))
  /\ WF_vars(Restart) /\ WF_vars(OnContinue)
  /\ WF_vars(\E f \in Files : RestoreFile(f)) /\ WF_vars(Restored)

Spec == Init /\ [][Next]_vars
FairSpec == Spec /\ Fairness

-----------------------------------------------------------------------------
(* Properties *)

\* The content of every file a client was told of is in its cache, or is
\* awaited: what get_file_content() opens is there or on its way, reloads of
\* client_file included, as long as no change of the file went unannounced.
NothingMissing ==
  \A f \in Files : hashes[f] # None /\ f \notin unannounced =>
    f \in waiting \/ hashes[f] \in cache

\* A reload of client_file forgets no file, except one that was added between
\* its core:unload handler and its end.
FilesSurvive ==
  phase = "up" => \A f \in known : files[f] # None

\* In the end client_file has what is on the disk, unless the file is empty or
\* changed between being read and being watched ...
DiskIsServed(f) ==
  f \in known /\ f \notin missed /\ disk[f] # Empty => files[f] = disk[f]

\* ... and the client shows what client_file has, however often the file
\* changes while requests and answers are on their way, unless add_file_path()
\* took a change without announcing it.
ServedIsShown(f) ==
  hashes[f] # None /\ f \notin unannounced => shown[f] = files[f]

UpToDate ==
  <>[](reloads = 0 /\ phase # "ended" =>
         /\ \A f \in Physical : DiskIsServed(f)
         /\ \A f \in Files : ServedIsShown(f))

\* A client that is asked to tell when all files are transferred does, unless
\* a file it awaited turned up in its cache, client_file is reloaded, or it
\* awaits for ever a file that add_file_path() replaced without announcing it,
\* whose old content nobody has any more.
TellAnswered ==
  <>[](asked /\ reloads = 0 /\ phase # "ended" =>
         transferred \/ overtaken \/ waiting \cap unannounced # {})

\* src/builtin/client_file/client_file.cpp:28, "Empty if not a physical file",
\* of a file's path: a file on the disk keeps its path.
PathKept == \A f \in Physical : files[f] # None => f \in paths
=============================================================================
