------------------------------ MODULE FuseBuffers ------------------------------
(***************************************************************************)
(* How the data of a request and of an answer move between memory, files,  *)
(* the pipe of a worker and the device: fuse_buf_copy of buffer.c and its  *)
(* users in fuse_lowlevel.c. A step is a system call.                      *)
(*                                                                         *)
(* Bytes are numbered: those that an answer or a request is to have are 1, *)
(* 2, 3..., its header is a byte, too. A page is a byte.                   *)
(***************************************************************************)
EXTENDS Integers, Sequences

CONSTANTS
  Replies,  (* The buffers that answers are made of: sequences of records of *)
            (* kind (mem or fd), size, eof (what there is), seek (read at a  *)
            (* position), retry.                                             *)
  MostData, (* Bound: the data of a request.                                 *)
  TmpSize   (* sizeof(buf) of fuse_buf_fd_to_fd.                             *)

Buffer == [kind : {"mem", "fd"}, size : Nat, eof : Nat, seek : BOOLEAN, retry : BOOLEAN]
ASSUME BuffersAssumption ==
  /\ MostData \in Nat /\ TmpSize \in Nat \ {0}
  /\ Replies \subseteq Seq(Buffer)
  /\ \A r \in Replies : \A i \in DOMAIN r : r[i].eof <= r[i].size

VARIABLES
  task,    (* The request: what it is (job), where it is (at) and will be    *)
           (* after the copy (then), its data (data), what the last copy     *)
           (* returned (res, err), what it put into the pipe (now).          *)
  srcv,    (* The source: bufs, idx, off, and own, the position of each      *)
           (* file that is not read at one.                                  *)
  dstv,    (* The destination, one buffer: kind, size, off, whether it is    *)
           (* full, retry, splice (whether it may be used), and what it      *)
           (* holds.                                                         *)
  one,     (* A call of fuse_buf_copy_one.                                   *)
  pipe,    (* The pipe of the worker.                                        *)
  device,  (* What the last request came to: the length and the bytes of the *)
           (* answer, or what reached the file system of the request.        *)
  broken   (* f->broken_splice_nonblock.                                     *)

buffervars == <<task, srcv, dstv, one, pipe, device, broken>>
-----------------------------------------------------------------------------
Header == 0
Blank == -1
Errors == {"EIO", "EAGAIN", "EINVAL"}
NoAnswer == [len |-> 0, bytes |-> <<>>]
Told == [len |-> 1, bytes |-> <<>>]
NoOne == [how |-> "none", len |-> 0, copied |-> 0, so |-> 0, do |-> 0]
NoWork == [job |-> "none", at |-> "idle", then |-> "none", data |-> 0, res |-> 0, err |-> "ok", now |-> 0]

(* fuse_buf_size: what the buffers before each have, and all of them.      *)
Sums(bufs) == LET sum[i \in 0..Len(bufs)] == IF i = 0 THEN 0 ELSE sum[i - 1] + bufs[i].size IN sum
BufSize(bufs) == Sums(bufs)[Len(bufs)]

Source(bufs) == [bufs |-> bufs, idx |-> 1, off |-> 0, own |-> [i \in DOMAIN bufs |-> 0]]
FromPipe(size) == Source(<<[kind |-> "pipe", size |-> size, eof |-> size, seek |-> FALSE, retry |-> FALSE]>>)
Memory(size) == [kind |-> "mem", size |-> size, off |-> 0, full |-> FALSE, retry |-> FALSE,
                 splice |-> TRUE, holds |-> [i \in 1..size |-> Blank]]
IntoPipe(size) == [Memory(size) EXCEPT !.kind = "pipe", !.holds = <<>>]
IntoFile(size, retry, splice) == [Memory(size) EXCEPT !.kind = "file", !.retry = retry, !.splice = splice]

Emptied == srcv' = Source(<<>>) /\ dstv' = Memory(0) /\ one' = NoOne
BuffersInit ==
  /\ task = NoWork /\ srcv = Source(<<>>) /\ dstv = Memory(0) /\ one = NoOne
  /\ pipe = <<>> /\ device = NoAnswer /\ broken = FALSE
-----------------------------------------------------------------------------
(***************************************************************************)
(* fuse_buf_copy.                                                          *)
(***************************************************************************)
Src == srcv.bufs[srcv.idx]

(* Where a call reads from the buffer that is current, and what is there.  *)
Position == IF Src.kind = "mem" \/ Src.seek THEN one.so ELSE srcv.own[srcv.idx]
Available == IF Src.kind = "pipe" THEN Len(pipe) ELSE Src.eof - Position
FirstOf(n) ==
  IF Src.kind = "pipe" THEN SubSeq(pipe, 1, n)
  ELSE [i \in 1..n |-> Sums(srcv.bufs)[srcv.idx - 1] + Position + i]

(* n bytes are taken from the source, of which m go to the destination: at *)
(* a position, but for a pipe.                                             *)
Takes(n, m) ==
  LET bytes == FirstOf(m)
      put(i) == IF i - one.do \in 1..m THEN bytes[i - one.do] ELSE dstv.holds[i]
  IN  /\ dstv' = IF dstv.kind = "pipe" THEN dstv ELSE [dstv EXCEPT !.holds = [i \in DOMAIN @ |-> put(i)]]
      /\ srcv' = [srcv EXCEPT !.own[srcv.idx] = @ + n]
      /\ pipe' = IF Src.kind = "pipe" THEN SubSeq(pipe, n + 1, Len(pipe))
                 ELSE IF dstv.kind = "pipe" THEN pipe \o bytes ELSE pipe

(* fuse_buf_copy_one: what does it. An answer is copied into the pipe with *)
(* FORCE_SPLICE and SPLICE_NONBLOCK.                                       *)
How == IF Src.kind = "mem" THEN IF dstv.kind = "mem" THEN "memory" ELSE "write"
       ELSE IF dstv.kind = "mem" THEN "read"
       ELSE IF dstv.splice THEN "splice" ELSE "fd_to_fd"

CopyNext ==
  /\ task.at = "copy" /\ one.how = "none" /\ srcv.idx <= Len(srcv.bufs) /\ ~dstv.full
  /\ LET a == Src.size - srcv.off
         b == dstv.size - dstv.off
     IN  one' = [how |-> How, len |-> IF a < b THEN a ELSE b, copied |-> 0, so |-> srcv.off, do |-> dstv.off]
  /\ UNCHANGED <<task, srcv, dstv, pipe, device, broken>>

(* There is nothing to copy, or no room.                                   *)
CopyEnds ==
  /\ task.at = "copy" /\ one.how = "none" /\ (srcv.idx > Len(srcv.bufs) \/ dstv.full)
  /\ task' = [task EXCEPT !.at = task.then]
  /\ UNCHANGED <<srcv, dstv, one, pipe, device, broken>>

(* fuse_bufvec_advance                                                     *)
Advance(n) == IF srcv.off + n < Src.size THEN [srcv EXCEPT !.off = @ + n] ELSE [srcv EXCEPT !.idx = @ + 1, !.off = 0]

(* fuse_buf_copy_one returns; fuse_buf_copy ends if it has copied less     *)
(* than it was asked for, and the destination does not advance when the    *)
(* source ends.                                                            *)
OneReturns ==
  /\ one.how = "end" \/ (one.how # "none" /\ one.len = 0)
  /\ LET n == one.copied
         last == srcv.idx = Len(srcv.bufs) /\ srcv.off + n = Src.size
         full == dstv.off + n = dstv.size
     IN  /\ srcv' = Advance(n)
         /\ dstv' = IF last THEN dstv ELSE [dstv EXCEPT !.off = @ + n, !.full = full]
         /\ task' = [task EXCEPT !.res = @ + n, !.at = IF last \/ full \/ one.len > 0 THEN task.then ELSE @]
  /\ one' = NoOne
  /\ UNCHANGED <<pipe, device, broken>>
OneFails ==
  /\ one.how \in Errors
  /\ task' = [task EXCEPT !.at = task.then, !.err = IF task.res = 0 THEN one.how ELSE "ok"]
  /\ one' = NoOne
  /\ UNCHANGED <<srcv, dstv, pipe, device, broken>>

CopyMemory ==
  /\ one.how = "memory" /\ one.len > 0
  /\ Takes(one.len, one.len)
  /\ one' = [one EXCEPT !.copied = one.len, !.len = 0]
  /\ UNCHANGED <<task, device, broken>>

(* The loops of fuse_buf_write, fuse_buf_read and fuse_buf_splice: a call  *)
(* that moves n bytes. Without RETRY there is only one.                    *)
LoopCalls == {"write", "read", "splice"}
Retries == \/ one.how \in {"write", "splice"} /\ dstv.retry
           \/ one.how \in {"read", "splice"} /\ Src.retry
GoOn(n) == [one EXCEPT !.copied = @ + n, !.len = @ - n, !.so = @ + n, !.do = @ + n]
Transfer(n) ==
  /\ one.how \in LoopCalls /\ n \in 1..one.len /\ n <= Available
  /\ Src.kind = "pipe" /\ dstv.kind = "mem" => n = one.len \/ n = Available
  /\ Takes(n, n)
  /\ one' = [GoOn(n) EXCEPT !.how = IF Retries THEN @ ELSE "end"]
  /\ UNCHANGED <<task, device, broken>>

(* The end of the file; a disk that is full.                               *)
TransfersNone ==
  /\ one.how \in LoopCalls \cup {"fd_to_fd"} /\ one.len > 0
  /\ (Src.kind # "pipe" /\ Available = 0) \/ dstv.kind = "file"
  /\ one' = [one EXCEPT !.how = "end"]
  /\ UNCHANGED <<task, srcv, dstv, pipe, device, broken>>

(* Files may fail; a pipe is full or empty; splice may not be possible.    *)
MayFail(err) ==
  CASE err = "EIO"    -> Src.kind = "fd" \/ dstv.kind = "file"
    [] err = "EAGAIN" -> dstv.kind = "pipe" \/ (Src.kind = "pipe" /\ Available = 0)
    [] err = "EINVAL" -> one.how = "splice"
TransferFails(err) ==
  /\ one.how \in LoopCalls /\ one.len > 0 /\ MayFail(err)
  /\ one' = [one EXCEPT !.how = IF one.copied > 0 THEN "end"
                                ELSE IF err = "EINVAL" /\ dstv.kind # "pipe" THEN "fd_to_fd" ELSE err]
  /\ UNCHANGED <<task, srcv, dstv, pipe, device, broken>>

(* A round of fuse_buf_fd_to_fd: n bytes are read, m of them written, or   *)
(* writing fails.                                                          *)
FdToFd(n, m) ==
  /\ one.how = "fd_to_fd" /\ n \in 1..one.len /\ n <= TmpSize /\ n <= Available /\ m \in 0..n
  /\ Takes(n, m)
  /\ one' = [GoOn(m) EXCEPT !.how = IF m < one.len /\ m < TmpSize THEN "end" ELSE @]
  /\ UNCHANGED <<task, device, broken>>
FdToFdFails(n) ==
  /\ one.how = "fd_to_fd" /\ n \in 0..one.len /\ n <= TmpSize /\ n <= Available /\ one.len > 0
  /\ Takes(n, 0)
  /\ one' = [one EXCEPT !.how = IF one.copied > 0 THEN "end" ELSE "EIO"]
  /\ UNCHANGED <<task, device, broken>>
-----------------------------------------------------------------------------
(***************************************************************************)
(* An answer: fuse_reply_data, fuse_send_data_iov.                         *)
(***************************************************************************)
CopyTo(dst, then) == dstv' = dst /\ task' = [task EXCEPT !.at = "copy", !.then = then, !.res = 0, !.err = "ok"]

(* The request has come to its end.                                        *)
Ends(answer) == task' = NoWork /\ Emptied /\ device' = answer

ReplyData(bufs) ==
  /\ task.at = "idle"
  /\ task' = [NoWork EXCEPT !.job = "reply", !.at = "choose", !.data = BufSize(bufs)]
  /\ srcv' = Source(bufs) /\ device' = NoAnswer
  /\ UNCHANGED <<dstv, one, pipe, broken>>

(* There need be two pages in files, and the pipe large enough.            *)
FdSize == LET fds == {i \in DOMAIN srcv.bufs : srcv.bufs[i].kind = "fd"}
          IN  IF fds = {} THEN 0 ELSE srcv.bufs[CHOOSE i \in fds : \A j \in fds : j <= i].size
SendFallback ==
  /\ task.at = "choose"
  /\ task' = [task EXCEPT !.at = "fallback"]
  /\ UNCHANGED <<srcv, dstv, one, pipe, device, broken>>
VmSplice ==
  /\ task.at = "choose" /\ ~broken /\ FdSize >= 2
  /\ pipe' = Append(pipe, Header)
  /\ CopyTo(IntoPipe(task.data), "spliced")
  /\ UNCHANGED <<srcv, one, device, broken>>

(* fuse_ll_clear_pipe                                                      *)
ClearPipe == <<>>

(* If splice does not work for this, the pipe is not used.                 *)
SpliceFails ==
  /\ task.at = "spliced" /\ task.err = "EIO"
  /\ pipe' = ClearPipe /\ Ends(Told) /\ UNCHANGED broken
SpliceCannot ==
  /\ task.at = "spliced" /\ task.err \in {"EAGAIN", "EINVAL"}
  /\ broken' = (broken \/ task.err = "EAGAIN")
  /\ pipe' = ClearPipe /\ task' = [task EXCEPT !.at = "fallback"]
  /\ UNCHANGED <<srcv, dstv, one, device>>

(* There is no memory for the rest, or for the answer.                     *)
NoMemory ==
  /\ \/ task.at = "spliced" /\ task.err = "ok" /\ task.res # 0 /\ task.res < task.data
     \/ task.at = "extra" /\ task.err = "ok" /\ task.res # 0
     \/ task.at = "fallback" /\ Len(srcv.bufs) > 1
  /\ pipe' = ClearPipe /\ Ends(Told) /\ UNCHANGED broken

(* The rest is copied behind the room for what is in the pipe. (Fault:     *)
(* there is no room.)                                                      *)
Before(now) == Memory(task.data)
Behind(now) == [Memory(task.data) EXCEPT !.off = now]
Short == task.res # 0 /\ task.res < task.data
SplicedShort ==
  /\ task.at = "spliced" /\ task.err = "ok" /\ Short
  /\ dstv' = Behind(task.res)
  /\ task' = [task EXCEPT !.now = task.res, !.at = "copy", !.then = "extra", !.res = 0]
  /\ UNCHANGED <<srcv, one, pipe, device, broken>>
SplicedWell ==
  /\ task.at = "spliced" /\ task.err = "ok" /\ ~Short
  /\ task' = [task EXCEPT !.now = task.res, !.at = "send"]
  /\ UNCHANGED <<srcv, dstv, one, pipe, device, broken>>
NoExtra ==
  /\ task.at = "extra" /\ (task.err # "ok" \/ task.res = 0)
  /\ task' = [task EXCEPT !.at = "send"]
  /\ UNCHANGED <<srcv, dstv, one, pipe, device, broken>>

(* read_back: the header, and what was copied, before what is there.       *)
ReadBack ==
  /\ task.at = "extra" /\ task.err = "ok" /\ task.res # 0
  /\ dstv' = [dstv EXCEPT !.holds = [i \in DOMAIN @ |-> IF i <= task.now THEN pipe[i + 1] ELSE @[i]]]
  /\ pipe' = SubSeq(pipe, task.now + 2, Len(pipe))
  /\ task' = [task EXCEPT !.at = "message", !.res = task.now + task.res]
  /\ UNCHANGED <<srcv, one, device, broken>>

(* The header is in the pipe by reference: its length is that set last.    *)
(* When the device takes no answer, there is none.                         *)
SpliceOut ==
  /\ task.at = "send"
  /\ pipe' = SubSeq(pipe, 2 + task.now, Len(pipe))
  /\ Ends([len |-> 1 + task.now, bytes |-> SubSeq(pipe, 2, 1 + task.now)])
  /\ UNCHANGED broken
SpliceOutFails ==
  /\ task.at = "send"
  /\ pipe' = ClearPipe /\ Ends(NoAnswer) /\ UNCHANGED broken

(* fuse_send_data_iov_fallback: a message in memory.                       *)
InMemory == Len(srcv.bufs) = 1 /\ srcv.bufs[1].kind = "mem"
FallbackMemory ==
  /\ task.at = "fallback" /\ InMemory
  /\ dstv' = [Memory(task.data) EXCEPT !.holds = [i \in 1..task.data |-> i]]
  /\ task' = [task EXCEPT !.at = "message", !.res = task.data, !.err = "ok"]
  /\ UNCHANGED <<srcv, one, pipe, device, broken>>
FallbackCopy ==
  /\ task.at = "fallback" /\ ~InMemory
  /\ CopyTo(Memory(task.data), "message")
  /\ UNCHANGED <<srcv, one, pipe, device, broken>>
SendMessage ==
  /\ task.at = "message"
  /\ Ends(IF task.err # "ok" THEN Told
          ELSE [len |-> 1 + task.res, bytes |-> SubSeq(dstv.holds, 1, task.res)])
  /\ UNCHANGED <<pipe, broken>>
-----------------------------------------------------------------------------
(***************************************************************************)
(* A request that is read with splice: fuse_ll_receive_buf and             *)
(* fuse_ll_process_buf. A small one is copied to memory.                   *)
(***************************************************************************)
ReceiveBuf(job, k) ==
  /\ task.at = "idle"
  /\ pipe' = pipe \o [i \in 1..(k + 1) |-> IF i = 1 THEN Header ELSE i - 1]
  /\ srcv' = FromPipe(k + 1)
  /\ dstv' = Memory(IF k = 0 THEN k + 2 ELSE 1)
  /\ task' = [NoWork EXCEPT !.job = job, !.at = "copy", !.data = k, !.then = IF k = 0 THEN "small" ELSE "head"]
  /\ device' = NoAnswer
  /\ UNCHANGED <<one, broken>>

SmallRequest ==
  /\ task.at = "small"
  /\ IF task.err # "ok" \/ task.res < 1 THEN pipe' = ClearPipe /\ Ends(Told)
     ELSE Ends([len |-> 1, bytes |-> <<>>]) /\ UNCHANGED pipe
  /\ UNCHANGED broken

(* There is no memory, or the request is refused.                          *)
Refused ==
  /\ task.at = "head" /\ pipe' = ClearPipe /\ Ends(Told) /\ UNCHANGED broken
(* fuse_ll_copy_from_pipe: what is left, but of a write.                   *)
CopyRest ==
  /\ task.at = "head" /\ task.job = "other" /\ task.res = 1
  /\ CopyTo(Memory(task.data), "rest")
  /\ UNCHANGED <<srcv, one, pipe, device, broken>>
RestCopied ==
  /\ task.at = "rest"
  /\ IF task.err # "ok" \/ task.res < task.data THEN pipe' = ClearPipe /\ Ends(Told)
     ELSE /\ Ends([len |-> 1 + task.data, bytes |-> dstv.holds])
          /\ UNCHANGED pipe
  /\ UNCHANGED broken

(* do_write_buf: the file system copies to a file, or has only write       *)
(* (fuse_fs_write_buf), or fails before it copies anything.                *)
DoWriteBuf(retry, splice) ==
  /\ task.at = "head" /\ task.job = "write" /\ task.res = 1
  /\ srcv' = FromPipe(task.data)
  /\ CopyTo(IntoFile(task.data, retry, splice), "written")
  /\ UNCHANGED <<one, pipe, device, broken>>
DoWrite ==
  /\ task.at = "head" /\ task.job = "write" /\ task.res = 1
  /\ srcv' = FromPipe(task.data)
  /\ CopyTo(Memory(task.data), "written")
  /\ UNCHANGED <<one, pipe, device, broken>>
(* The write may be short. What is left in the pipe is dropped.            *)
Cleared == srcv.idx <= Len(srcv.bufs)
Written(n) ==
  /\ task.at = "written" /\ n \in 0..task.res /\ (dstv.kind = "file" => n = task.res)
  /\ pipe' = IF Cleared THEN ClearPipe ELSE pipe
  /\ Ends(IF task.err # "ok" THEN Told
          ELSE [len |-> 1 + n, bytes |-> SubSeq(dstv.holds, 1, n)])
  /\ UNCHANGED broken
-----------------------------------------------------------------------------
Sizes == 0..MostData
BuffersNext ==
  \/ CopyNext \/ CopyEnds \/ OneReturns \/ OneFails \/ CopyMemory \/ TransfersNone
  \/ \E n \in Sizes : Transfer(n) \/ FdToFdFails(n) \/ Written(n) \/ (\E m \in 0..n : FdToFd(n, m))
  \/ \E err \in Errors : TransferFails(err)
  \/ \E bufs \in Replies : ReplyData(bufs)
  \/ SendFallback \/ VmSplice \/ SpliceFails \/ SpliceCannot \/ SplicedShort \/ SplicedWell
  \/ NoMemory \/ NoExtra \/ ReadBack \/ SpliceOut \/ SpliceOutFails \/ FallbackMemory \/ FallbackCopy \/ SendMessage
  \/ \E job \in {"write", "other"}, k \in Sizes : ReceiveBuf(job, k)
  \/ SmallRequest \/ Refused \/ CopyRest \/ RestCopied
  \/ \E retry, splice \in BOOLEAN : DoWriteBuf(retry, splice)
  \/ DoWrite
-----------------------------------------------------------------------------
(***************************************************************************)
(* What is answered, written or handed to the file system are the bytes of *)
(* the request from the first on, in order and as many as the length says, *)
(* whichever of the many ways they took and wherever that broke off; of a  *)
(* request that is not a write it is all of them.                          *)
(***************************************************************************)
AnswerExact ==
  /\ device.len = IF device = NoAnswer THEN 0 ELSE 1 + Len(device.bytes)
  /\ \A i \in DOMAIN device.bytes : device.bytes[i] = i

(***************************************************************************)
(* The pipe of a worker is empty whenever it turns to the next request, so *)
(* that no byte of one is taken for one of another.                        *)
(***************************************************************************)
PipeEmpty == task.at = "idle" => pipe = <<>>

(***************************************************************************)
(* So no reply, and no data of a write, are another request's.             *)
(***************************************************************************)
BytesExact == AnswerExact /\ PipeEmpty
=============================================================================
