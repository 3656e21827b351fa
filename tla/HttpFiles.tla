------------------------------ MODULE HttpFiles ------------------------------
(***************************************************************************)
(* handle_files_request of hw2/httpserver.c, one system call at a time,    *)
(* while other programs change the files it serves.                        *)
(*                                                                         *)
(* What the requested path names, and what index.html is when that is a    *)
(* directory, are all of the file system that one request can see. Writes  *)
(* to the socket are taken; a client that has left ends the child by       *)
(* SIGPIPE, which is a Finish of HttpServer.                               *)
(*                                                                         *)
(* Each definition whose comment starts with "Fault" is a faulty variant of *)
(* the definition after it, with which a property must fail to hold.       *)
(***************************************************************************)
EXTENDS Integers, SequencesExt

CONSTANTS
  Bytes,      (* The bytes in files.                                        *)
  Contents,   (* What files hold.                                           *)
  Junk,       (* A byte of memory that malloc returned.                     *)
  MaxChanges  (* Bound on the changes while a request is handled.           *)

ASSUME HttpFilesAssumption ==
  /\ Contents \subseteq Seq(Bytes) /\ Junk \notin Bytes
  /\ MaxChanges \in Nat

VARIABLES
  call,    (* The next call of the handler.                                 *)
  request, (* What arrived with the first read of the socket.               *)
  history, (* The states of the file system since, the present one last.    *)
  target,  (* The object of the path that send_file_by_name was given.      *)
  handle,  (* The open file: its data, the object it is linked as, and      *)
           (* whether its data are what they were when it was opened.       *)
  length,  (* What ftell returned.                                          *)
  reply    (* What was written to the socket: status lines and bodies.      *)

filesvars == <<call, request, history, target, handle, length, reply>>

Requests == {"whole", "fragment", "no slash"}
Objects == {"path", "index"}
Node(kind) == [kind |-> kind, data |-> <<>>]
File(c) == [kind |-> "file", data |-> c]
Nodes == {Node("missing"), Node("dir")} \cup {File(c) : c \in Contents}

(* Where there is no directory there is no index.html.                     *)
Trees == {t \in [path : Nodes \cup {Node("other")}, index : Nodes] :
            t.path.kind # "dir" => t.index.kind = "missing"}
fs == Last(history)

Closed == [at |-> "none", data |-> <<>>, kept |-> TRUE]
NoReply == [status |-> <<>>, body |-> <<>>]
NotFound == [kind |-> "not found", data |-> <<>>]
Listing == [kind |-> "list", data |-> <<>>]

(* http_start_response; and a whole response with its body.                *)
Status(code) == [status |-> Append(reply.status, code), body |-> reply.body]
Response(code, body) ==
  [status |-> Append(reply.status, code), body |-> Append(reply.body, body)]

FilesInit ==
  /\ call = "parse" /\ request \in Requests
  /\ \E t \in Trees : history = <<t>>
  /\ target = "path" /\ handle = Closed /\ length = 0
  /\ reply = NoReply
-----------------------------------------------------------------------------
(***************************************************************************)
(* Another program changes the files. An open file keeps its data when it  *)
(* is removed or replaced, but not when it is rewritten in place.          *)
(***************************************************************************)
Change(t) ==
  /\ Len(history) <= MaxChanges /\ t # fs
  /\ history' = Append(history, t)
  /\ IF handle.at = "none" \/ t[handle.at] = fs[handle.at] THEN UNCHANGED handle
     ELSE \/ handle' = [at |-> "none", data |-> handle.data, kept |-> handle.kept]
          \/ /\ t[handle.at].kind = "file"
             /\ handle' = [at |-> handle.at, data |-> t[handle.at].data, kept |-> FALSE]
  /\ UNCHANGED <<call, request, target, length, reply>>
-----------------------------------------------------------------------------
(* http_request_parse reads once. Without the end of the request line it   *)
(* returns NULL, which is dereferenced. A path without a slash is ignored. *)
Parse ==
  /\ call = "parse"
  /\ call' = CASE request = "whole" -> "stat"
             [] request = "fragment" -> "crashed"
             [] request = "no slash" -> "done"
  /\ UNCHANGED <<request, history, target, handle, length, reply>>

(* What st tells of a path. When stat fails st stays uninitialized.        *)
StatResult(node) ==
  IF node.kind = "missing" THEN {"dir", "file", "other"} ELSE {node.kind}

(* stat, and send_404 for what is neither a directory nor a file.          *)
Stat ==
  /\ call = "stat"
  /\ \E k \in StatResult(fs.path) :
       /\ call' = CASE k = "dir" -> "scan" [] k = "file" -> "fopen" [] k = "other" -> "done"
       /\ reply' = IF k = "other" THEN Response(200, NotFound) ELSE reply
  /\ UNCHANGED <<request, history, target, handle, length>>

(* Fault: found is not set when index.html was sent.                       *)
NextAfterFile == IF target = "index" THEN "list" ELSE "done"

(* found keeps the list of files from being sent after index.html.         *)
AfterFile == "done"

(***************************************************************************)
(* opendir, whose NULL readdir does not take, and the loop that looks for  *)
(* index.html. What happens to the directory between these calls shows     *)
(* only in the calls that come after them.                                 *)
(***************************************************************************)
Scan ==
  /\ call = "scan"
  /\ IF fs.path.kind # "dir" THEN call' = "crashed" /\ UNCHANGED target
     ELSE IF fs.index.kind # "missing" THEN call' = "fopen" /\ target' = "index"
     ELSE call' = "list" /\ UNCHANGED target
  /\ UNCHANGED <<request, history, handle, length, reply>>

(***************************************************************************)
(* send_file_by_name. When the file is gone nothing is sent. A directory   *)
(* can be opened, but where it ends depends on its file system: far out,   *)
(* so that malloc fails and nothing is sent, or at 0.                      *)
(***************************************************************************)
Fopen ==
  /\ call = "fopen"
  /\ CASE fs[target].kind = "file" ->
            call' = "ftell" /\ handle' = [at |-> target, data |-> fs[target].data, kept |-> TRUE]
       [] fs[target].kind = "dir" ->
            call' \in {AfterFile, "ftell"} /\ handle' = Closed
       [] OTHER -> call' = AfterFile /\ UNCHANGED handle
  /\ UNCHANGED <<request, history, target, length, reply>>

(* fseek, ftell, and the malloc of that length.                            *)
Ftell ==
  /\ call = "ftell" /\ length' = Len(handle.data) /\ call' = "fread"
  /\ UNCHANGED <<request, history, target, handle, reply>>

(* Fault: the file is opened again by its name.                            *)
DataReopened == fs[target].data

(* fread reads from the file that ftell looked at.                         *)
DataRead == handle.data

(* fread, whose result is not looked at: length bytes are sent anyway.     *)
Fread ==
  /\ call = "fread" /\ call' = AfterFile /\ handle' = Closed
  /\ LET sent == [k \in 1 .. length |-> IF k <= Len(DataRead) THEN DataRead[k] ELSE Junk]
     IN reply' = Response(200, File(sent))
  /\ UNCHANGED <<request, history, target, length>>

(* list_files_in_dir: the status goes out before opendir is called.        *)
StartList ==
  /\ call = "list" /\ call' = "entries"
  /\ reply' = Status(200)
  /\ UNCHANGED <<request, history, target, handle, length>>

ListEntries ==
  /\ call = "entries"
  /\ IF fs.path.kind # "dir" THEN call' = "crashed" /\ UNCHANGED reply
     ELSE call' = "done" /\ reply' = [status |-> reply.status, body |-> Append(reply.body, Listing)]
  /\ UNCHANGED <<request, history, target, handle, length>>
-----------------------------------------------------------------------------
FilesNext ==
  \/ Parse \/ Stat \/ Scan \/ Fopen \/ Ftell \/ Fread \/ StartList \/ ListEntries
  \/ \E t \in Trees : Change(t)

FilesSpec == FilesInit /\ [][FilesNext]_filesvars
=============================================================================
