---------------------------- MODULE HttpFilesProps ----------------------------
(***************************************************************************)
(* The properties of the file handler of hw2.                              *)
(***************************************************************************)
EXTENDS HttpFiles

(* Types of the variables.                                                 *)
Parts == [kind : {"file", "not found", "list"}, data : Seq(Bytes \cup {Junk})]
FilesTypeOK ==
  /\ call \in {"parse", "stat", "scan", "fopen", "ftell", "fread", "list", "entries",
              "done", "crashed"}
  /\ request \in Requests
  /\ history \in Seq(Trees) /\ history # <<>>
  /\ target \in Objects
  /\ handle \in [at : Objects \cup {"none"}, data : Seq(Bytes), kept : BOOLEAN]
  /\ length \in Nat
  /\ reply \in [status : Seq({200}), body : Seq(Parts)]

Answered == call \in {"done", "crashed"}

(***************************************************************************)
(* When nothing changes during a request for something that exists, the    *)
(* answer is the one the comment of handle_files_request promises: the     *)
(* file, or the directory's index.html, or the list of the directory. (An  *)
(* index.html that is a directory is an exception: it may give no answer.) *)
(***************************************************************************)
Wanted(t) ==
  IF t.path.kind = "file" THEN t.path
  ELSE IF t.index.kind = "file" THEN t.index ELSE Listing
StaticAnswer ==
  \A t \in Trees :
    Answered /\ request = "whole" /\ history = <<t>> /\ t.path.kind \in {"file", "dir"}
      /\ t.index.kind # "dir" =>
        call = "done" /\ reply = [status |-> <<200>>, body |-> <<Wanted(t)>>]

(***************************************************************************)
(* A body that is sent for a file is what a file of the requested path     *)
(* held, in whole, at one moment of the request: length and bytes are of   *)
(* one file, also when the file is removed or replaced between the calls.  *)
(* The exception is the open file itself being rewritten in place.         *)
(***************************************************************************)
SendsWhole ==
  \A b \in ToSet(reply'.body) \ ToSet(reply.body) :
    b.kind = "file" /\ b.data # <<>> /\ handle.kept =>
      \E t \in ToSet(history), o \in Objects : t[o] = b
BodyWhole == [][SendsWhole]_filesvars

-----------------------------------------------------------------------------
(***************************************************************************)
(* What makes these two inductive.                                         *)
(***************************************************************************)

(* An open file that was not rewritten has the data of a file that was     *)
(* there during the request, and ftell returned their length.              *)
Seen(data) == \E t \in ToSet(history), o \in Objects : t[o] = File(data)
HandleInv ==
  handle.kept =>
    /\ handle.data # <<>> => Seen(handle.data)
    /\ call = "fread" => length = Len(handle.data)

(* What each call knows of the answer while nothing has changed.           *)
SendsFile(t) ==
  /\ reply = NoReply /\ t[target].kind = "file"
  /\ (target = "path") <=> (t.path.kind = "file")
SendsList(t) == t.path.kind = "dir" /\ t.index.kind = "missing"
Knows(t) ==
  /\ call # "crashed"
  /\ call \in {"parse", "stat", "scan"} => reply = NoReply /\ target = "path"
  /\ call = "scan" => t.path.kind = "dir"
  /\ call \in {"fopen", "ftell", "fread"} => SendsFile(t)
  /\ call \in {"ftell", "fread"} => handle.data = t[target].data
  /\ call = "fread" => length = Len(handle.data)
  /\ call \in {"list", "entries"} => SendsList(t)
  /\ call = "list" => reply = NoReply
  /\ call = "entries" => reply = [status |-> <<200>>, body |-> <<>>]
  /\ call = "done" => reply = [status |-> <<200>>, body |-> <<Wanted(t)>>]
StaticInv ==
  \A t \in Trees :
    request = "whole" /\ history = <<t>> /\ t.path.kind \in {"file", "dir"}
      /\ t.index.kind # "dir" => Knows(t)

FilesInv == FilesTypeOK /\ HandleInv /\ StaticInv
=============================================================================
