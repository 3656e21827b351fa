------------------------------ MODULE HttpProxy ------------------------------
(***************************************************************************)
(* handle_proxy_request and proxy_request of hw2/httpserver.c: one child   *)
(* of the server relays bytes between its client and the proxy target.     *)
(*                                                                         *)
(* Each end may send bytes, then shut down its sending side, and may leave *)
(* altogether. What it sends is kept in order and without loss until the   *)
(* proxy reads it. The proxy's select, its read with the malloc before it, *)
(* and its write are three steps.                                          *)
(*                                                                         *)
(* Each definition whose comment starts with "Fault" is a faulty variant of *)
(* the definition after it, with which a property must fail to hold.       *)
(***************************************************************************)
EXTENDS Integers, SequencesExt

CONSTANTS
  MaxSent,    (* Bound on the bytes each end sends.                         *)
  BufferSize, (* LIBHTTP_REQUEST_MAX_SIZE.                                  *)
  MaxBuffers, (* The buffers that fit into memory: none is ever freed.      *)
  Hangups,    (* The ends that may shut down their sending side.            *)
  Leaves      (* May an end leave, so that nothing can be written to it?    *)

Ends == {"client", "remote"}

ASSUME HttpProxyAssumption ==
  /\ {MaxSent, BufferSize, MaxBuffers} \subseteq Nat
  /\ Hangups \subseteq Ends /\ Leaves \in BOOLEAN

VARIABLES
  stage,    (* What the relay does next.                                    *)
  from,     (* The end whose bytes are being relayed.                       *)
  buf,      (* read_buffer up to bytes_read.                                *)
  buffers,  (* How many read_buffers were allocated.                        *)
  sent,     (* How many bytes each end has sent: byte k has the value k.    *)
  queue,    (* What each end has sent and the proxy has not read.           *)
  fin,      (* The ends that have shut down their sending side.             *)
  gone,     (* The ends that have left.                                     *)
  got       (* What each end was sent by the proxy.                         *)

proxyvars == <<stage, from, buf, buffers, sent, queue, fin, gone, got>>
users == <<sent, queue, fin, gone>>

Other(e) == IF e = "client" THEN "remote" ELSE "client"

(* connect may fail, unnoticed: then it is as if the remote had left.      *)
ProxyInit ==
  /\ stage = "select" /\ from = "client" /\ buf = <<>> /\ buffers = 0
  /\ sent = [e \in Ends |-> 0]
  /\ queue = [e \in Ends |-> <<>>]
  /\ gone \in (IF Leaves THEN {{}, {"remote"}} ELSE {{}}) /\ fin = gone
  /\ got = [e \in Ends |-> <<>>]
-----------------------------------------------------------------------------
(* The ends.                                                               *)
Send(e) ==
  /\ e \notin fin /\ sent[e] < MaxSent
  /\ sent' = [sent EXCEPT ![e] = @ + 1]
  /\ queue' = [queue EXCEPT ![e] = Append(@, sent[e] + 1)]
  /\ UNCHANGED <<stage, from, buf, buffers, fin, gone, got>>

HangUp(e) ==
  /\ e \in Hangups \ fin /\ fin' = fin \cup {e}
  /\ UNCHANGED <<stage, from, buf, buffers, sent, queue, gone, got>>

Leave(e) ==
  /\ Leaves /\ e \notin gone
  /\ gone' = gone \cup {e} /\ fin' = fin \cup {e}
  /\ UNCHANGED <<stage, from, buf, buffers, sent, queue, got>>
-----------------------------------------------------------------------------
(* A socket is readable when it has bytes, or the end of the bytes.        *)
Readable(e) == queue[e] # <<>> \/ e \in fin

(* Fault: only an end that has hung up is looked at.                       *)
ChooseFin(e) == e \in fin /\ Readable(e)

(* "else if": the remote is served only when the client is not readable.   *)
Choose(e) == Readable(e) /\ (e = "remote" => ~Readable("client"))

(* select. When it times out, the loop goes round with bytes_sent as it    *)
(* was, which is not negative.                                             *)
Select(e) ==
  /\ stage = "select" /\ Choose(e)
  /\ from' = e /\ stage' = "read"
  /\ UNCHANGED <<buf, buffers, users, got>>

Timeout == stage = "select" /\ UNCHANGED proxyvars

(* proxy_request: the malloc. When it fails http_fatal_error exits.        *)
MallocFails ==
  /\ stage = "read" /\ buffers = MaxBuffers
  /\ stage' = "fatal"
  /\ UNCHANGED <<from, buf, buffers, users, got>>

(* read gives some of the bytes that are there, and none at the end.       *)
ReadLengths(q) == IF q = <<>> THEN {0}
                  ELSE 1 .. (IF Len(q) < BufferSize THEN Len(q) ELSE BufferSize)

(* Fault: the bytes stay in the socket as if they had been peeked at.      *)
Unread(q, k) == q

Rest(q, k) == SubSeq(q, k + 1, Len(q))

Read ==
  /\ stage = "read" /\ buffers < MaxBuffers
  /\ buffers' = buffers + 1
  /\ \E k \in ReadLengths(queue[from]) :
       /\ buf' = SubSeq(queue[from], 1, k)
       /\ queue' = [queue EXCEPT ![from] = Rest(@, k)]
  /\ stage' = "write"
  /\ UNCHANGED <<from, sent, fin, gone, got>>

(* The read of an end that left may fail: its reset has arrived. The write *)
(* of -1 bytes fails, too; bytes_sent is negative, and the loop ends.      *)
ReadError ==
  /\ stage = "read" /\ buffers < MaxBuffers /\ from \in gone
  /\ buffers' = buffers + 1 /\ stage' = "closed"
  /\ UNCHANGED <<from, buf, users, got>>

Target(e) == Other(e)

(* write to an end that is there takes all the bytes. Writing no bytes     *)
(* returns 0, which does not end the loop.                                 *)
Write ==
  /\ stage = "write" /\ (buf = <<>> \/ Other(from) \notin gone)
  /\ got' = [got EXCEPT ![Target(from)] = @ \o buf]
  /\ buf' = <<>> /\ stage' = "select"
  /\ UNCHANGED <<from, buffers, users>>

(* write to an end that has left: the first may still be taken, and one    *)
(* after the reset raises SIGPIPE, which nobody handles.                   *)
WriteGone ==
  /\ stage = "write" /\ buf # <<>> /\ Other(from) \in gone
  /\ buf' = <<>> /\ stage' \in {"select", "killed"}
  /\ UNCHANGED <<from, buffers, users, got>>
-----------------------------------------------------------------------------
Relay == (\E e \in Ends : Select(e)) \/ MallocFails \/ Read \/ ReadError \/ Write \/ WriteGone

ProxyNext ==
  \/ Timeout \/ MallocFails \/ Read \/ ReadError \/ Write \/ WriteGone
  \/ \E e \in Ends : Select(e) \/ Send(e) \/ HangUp(e) \/ Leave(e)

(* The relay runs whenever it can; the ends do as they please.             *)
ProxySpec == ProxyInit /\ [][ProxyNext]_proxyvars /\ WF_proxyvars(Relay)
=============================================================================
