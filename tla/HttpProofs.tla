------------------------------ MODULE HttpProofs ------------------------------
(***************************************************************************)
(* Proofs about HttpServer, HttpProxy and HttpFiles. For any number of     *)
(* connections and any limit on processes, the sockets of connections stay *)
(* apart, and a parent that is gone leaves the port to nobody but children *)
(* that have not started. For any number of bytes, any buffer size and any *)
(* files, the proxy relays what it read in order, and the file handler     *)
(* answers with what the file system held.                                 *)
(***************************************************************************)
EXTENDS HttpServerProps, HttpProxyProps, HttpFilesProps, FiniteSetTheorems, SequenceTheorems, TLAPS

-----------------------------------------------------------------------------
(***************************************************************************)
(*                               The server.                               *)
(***************************************************************************)
\* The children there are, as a set: what Procs counts.
Running(ch) == {c \in Conns : ch[c] # "none"}

-----------------------------------------------------------------------------
(***************************************************************************)
(* Counting processes.                                                     *)
(***************************************************************************)

\* No process that is not forked: the count is within the limit as before.
LEMMA NoMoreProcs ==
  ASSUME NEW ch, NEW dh, Running(dh) \subseteq Running(ch),
         1 + Cardinality(Running(ch)) <= MaxProcs
  PROVE  1 + Cardinality(Running(dh)) <= MaxProcs
<1>1. IsFiniteSet(Running(ch))
  BY HttpServerAssumption, FS_Subset DEF Running
<1>2. /\ Cardinality(Running(dh)) <= Cardinality(Running(ch))
      /\ Cardinality(Running(dh)) \in Nat /\ Cardinality(Running(ch)) \in Nat
  BY <1>1, FS_Subset, FS_CardinalityType
<1> QED  BY <1>2, HttpServerAssumption

\* A fork below the limit: one process more is within it.
LEMMA OneMoreProc ==
  ASSUME NEW ch, NEW c \in Conns,
         NEW dh, Running(dh) \subseteq Running(ch) \cup {c},
         1 + Cardinality(Running(ch)) < MaxProcs
  PROVE  1 + Cardinality(Running(dh)) <= MaxProcs
<1>1. IsFiniteSet(Running(ch))
  BY HttpServerAssumption, FS_Subset DEF Running
<1>2. /\ IsFiniteSet(Running(ch) \cup {c})
      /\ Cardinality(Running(ch) \cup {c}) <= Cardinality(Running(ch)) + 1
  <2>1. Cardinality(Running(ch)) \in Nat
    BY <1>1, FS_CardinalityType
  <2>2. /\ IsFiniteSet(Running(ch) \cup {c})
        /\ \/ Cardinality(Running(ch) \cup {c}) = Cardinality(Running(ch))
           \/ Cardinality(Running(ch) \cup {c}) = Cardinality(Running(ch)) + 1
    BY <1>1, FS_AddElement
  <2> QED  BY <2>1, <2>2
<1>3. /\ Cardinality(Running(dh)) <= Cardinality(Running(ch) \cup {c})
      /\ Cardinality(Running(dh)) \in Nat /\ Cardinality(Running(ch)) \in Nat
      /\ Cardinality(Running(ch) \cup {c}) \in Nat
  BY <1>1, <1>2, FS_Subset, FS_CardinalityType
<1> QED  BY <1>2, <1>3, HttpServerAssumption

\* The limit is kept by every step that forks nobody.
LEMMA ProcsKept ==
  ASSUME TypeOK, Running(child') \subseteq Running(child)
  PROVE  Procs' <= MaxProcs
<1>1. 1 + Cardinality(Running(child)) <= MaxProcs
  BY DEF TypeOK, Procs, Running
<1>2. 1 + Cardinality(Running(child')) <= MaxProcs
  BY <1>1, NoMoreProcs
<1> QED  BY <1>2 DEF Procs, Running

-----------------------------------------------------------------------------
(***************************************************************************)
(* The inductive invariant, step by step.                                  *)
(***************************************************************************)

\* At first there is the parent, which listens, and no connection.
LEMMA InitIInv == Init => IInv
<1> SUFFICES ASSUME Init PROVE IInv
  OBVIOUS
<1>1. Procs <= MaxProcs
  <2>1. {c \in Conns : child[c] # "none"} = {}
    BY DEF Init
  <2> QED  BY <2>1, FS_EmptySet, HttpServerAssumption DEF Procs
<1>2. TypeOK
  BY <1>1 DEF Init, TypeOK, None
<1> QED
  BY <1>2, HttpServerAssumption
     DEF Init, IInv, SocketsApart, ParentInv, ListeningInv, Gone, None

\* Accept: the only client socket the parent has is the new one.
LEMMA AcceptIInv == ASSUME IInv, NEW c \in Conns, Accept(c) PROVE IInv'
<1> USE DEF Accept, IInv
<1>1. Procs' <= MaxProcs
  BY DEF TypeOK, Procs
<1>2. TypeOK'
  BY <1>1 DEF TypeOK
<1> QED  BY <1>2 DEF TypeOK, SocketsApart, ParentInv, ListeningInv, Gone

\* fork: the child gets the socket just accepted and the listening one.
LEMMA ForkIInv == ASSUME IInv, Fork PROVE IInv'
<1> USE DEF Fork, IInv
<1>1. accepted \in Conns /\ parent = {accepted}
  BY DEF ParentInv
<1>2. Procs' <= MaxProcs
  <2>1. Running(child') \subseteq Running(child) \cup {accepted}
    BY DEF Running, TypeOK
  <2>2. 1 + Cardinality(Running(child)) < MaxProcs
    BY DEF CanFork, Procs, Running
  <2>3. 1 + Cardinality(Running(child')) <= MaxProcs
    BY <1>1, <2>1, <2>2, OneMoreProc
  <2> QED  BY <2>3 DEF Procs, Running
<1>3. TypeOK'
  BY <1>1, <1>2 DEF TypeOK
<1>4. SocketsApart'
  BY <1>1 DEF TypeOK, SocketsApart
<1>5. ParentInv' /\ ListeningInv'
  BY <1>1 DEF TypeOK, ParentInv, ListeningInv, Gone
<1> QED  BY <1>3, <1>4, <1>5

\* A failed fork ends the parent, and its copies of the sockets with it.
LEMMA ForkErrorIInv == ASSUME IInv, ForkError PROVE IInv'
<1> USE DEF ForkError, IInv
<1>1. Procs' <= MaxProcs
  BY DEF TypeOK, Procs
<1>2. TypeOK'
  BY <1>1 DEF TypeOK, None
<1> QED  BY <1>2 DEF TypeOK, SocketsApart, ParentInv, ListeningInv, Gone

\* The parent closes its copy of the client's socket.
LEMMA CloseIInv == ASSUME IInv, Close PROVE IInv'
<1> USE DEF Close, CloseClient, IInv
<1>1. Procs' <= MaxProcs
  BY DEF TypeOK, Procs
<1>2. TypeOK'
  BY <1>1 DEF TypeOK, None
<1> QED  BY <1>2 DEF TypeOK, SocketsApart, ParentInv, ListeningInv, Gone

\* A child that starts has closed the listening socket.
LEMMA HandleIInv == ASSUME IInv, NEW c \in Conns, Handle(c) PROVE IInv'
<1> USE DEF Handle, WithoutListening, IInv
<1>1. Procs' <= MaxProcs
  BY ProcsKept DEF Running, TypeOK
<1>2. TypeOK'
  BY <1>1 DEF TypeOK
<1> QED  BY <1>2 DEF TypeOK, SocketsApart, ParentInv, ListeningInv, Gone

\* A child that ends drops its copies: it holds nothing and does not listen.
LEMMA FinishIInv == ASSUME IInv, NEW c \in Conns, Finish(c) PROVE IInv'
<1> USE DEF Finish, ChildEnds, IInv
<1>1. Procs' <= MaxProcs
  BY ProcsKept DEF Running, TypeOK
<1>2. TypeOK'
  BY <1>1 DEF TypeOK
<1>3. SocketsApart'
  BY DEF TypeOK, SocketsApart
<1> QED  BY <1>2, <1>3 DEF TypeOK, ParentInv, ListeningInv, Gone

\* Reaping a zombie makes room for a process and touches no socket.
LEMMA ReapIInv == ASSUME IInv, NEW c \in Conns, Reap(c) PROVE IInv'
<1> USE DEF Reap, IInv
<1>1. Procs' <= MaxProcs
  BY ProcsKept DEF Running, TypeOK
<1>2. TypeOK'
  BY <1>1 DEF TypeOK
<1> QED  BY <1>2 DEF TypeOK, SocketsApart, ParentInv, ListeningInv, Gone

\* ^C: whoever had the listening socket is gone.
LEMMA InterruptIInv == ASSUME IInv, Interrupt PROVE IInv'
<1> USE DEF Interrupt, IInv
<1>1. Procs' <= MaxProcs
  BY ProcsKept DEF Running, TypeOK
<1>2. TypeOK'
  BY <1>1 DEF TypeOK, None
<1> QED  BY <1>2 DEF SocketsApart, ParentInv, ListeningInv

\* What happens to a connection outside the processes.
LEMMA ConnIInv ==
  ASSUME IInv, NEW c \in Conns, Connect(c) \/ Ended(c) \/ Reset(c) PROVE IInv'
<1> USE DEF Connect, Ended, Reset, IInv
<1>1. Procs' <= MaxProcs
  BY DEF TypeOK, Procs
<1>2. TypeOK'
  BY <1>1 DEF TypeOK
<1> QED  BY <1>2 DEF TypeOK, SocketsApart, ParentInv, ListeningInv, Gone

\* Every step of the server keeps the invariant.
LEMMA NextIInv == IInv /\ [Next]_vars => IInv'
<1> SUFFICES ASSUME IInv, [Next]_vars PROVE IInv'
  OBVIOUS
<1>1. CASE UNCHANGED vars
  BY <1>1 DEF vars, IInv, TypeOK, SocketsApart, ParentInv, ListeningInv, Gone, Procs
<1>2. CASE AcceptError
  BY <1>1, <1>2 DEF AcceptError
<1>3. CASE Fork
  BY <1>3, ForkIInv
<1>4. CASE ForkError
  BY <1>4, ForkErrorIInv
<1>5. CASE Close
  BY <1>5, CloseIInv
<1>6. CASE Interrupt
  BY <1>6, InterruptIInv
<1>7. ASSUME NEW c \in Conns, Connect(c) \/ Ended(c) \/ Reset(c) PROVE IInv'
  BY <1>7, ConnIInv
<1>8. ASSUME NEW c \in Conns, Accept(c) PROVE IInv'
  BY <1>8, AcceptIInv
<1>9. ASSUME NEW c \in Conns, Handle(c) \/ Finish(c) \/ Reap(c) PROVE IInv'
  BY <1>9, HandleIInv, FinishIInv, ReapIInv
<1> QED
  BY <1>1, <1>2, <1>3, <1>4, <1>5, <1>6, <1>7, <1>8, <1>9 DEF Next

-----------------------------------------------------------------------------
(***************************************************************************)
(* The theorems.                                                           *)
(***************************************************************************)

\* The inductive invariant holds in every behaviour of the accept loop.
THEOREM Invariance == Spec => []IInv
<1>1. Init => IInv
  BY InitIInv
<1>2. IInv /\ [Next]_vars => IInv'
  BY NextIInv
<1> QED  BY <1>1, <1>2, PTL DEF Spec

\* serve_forever never has more processes than the system allows: fork fails
\* before that.
THEOREM TypeCorrect == Spec => []TypeOK
<1>1. IInv => TypeOK
  BY DEF IInv
<1> QED  BY <1>1, Invariance, PTL

\* No process has a copy of the socket of another connection: the parent
\* closes its copy (line 385) before it accepts again.
THEOREM ClientsApart == Spec => []SocketsApart
<1>1. IInv => SocketsApart
  BY DEF IInv
<1> QED  BY <1>1, Invariance, PTL

\* When the parent is gone, only a child that has not come to its first
\* close (line 388) keeps the port.
THEOREM PortIsFreed == Spec => []PortFreed
<1>1. IInv => PortFreed
  <2> SUFFICES ASSUME IInv, Gone, \A c \in Conns : child[c] # "forked"
               PROVE  listening = {}
    BY DEF PortFreed
  <2>1. listening \subseteq Conns \cup {None}
    BY DEF IInv, TypeOK
  <2>2. None \notin listening
    BY DEF IInv, ListeningInv
  <2>3. \A c \in Conns : c \notin listening
    BY DEF IInv, ListeningInv
  <2> QED  BY <2>1, <2>2, <2>3
<1> QED  BY <1>1, Invariance, PTL

-----------------------------------------------------------------------------
(***************************************************************************)
(*                              The handlers.                              *)
(***************************************************************************)
(***************************************************************************)
(* Sequences.                                                              *)
(***************************************************************************)

\* Three pieces of bytes can be joined in either order.
LEMMA ThreePieces ==
  \A s, t, u \in Seq(Nat) : (s \o t) \o u = s \o (t \o u)
BY ConcatAssociative, SMTT(60)

\* A byte appended to the last of three pieces is appended to the whole.
LEMMA AppendToThird ==
  \A s, t, u \in Seq(Nat) : \A x \in Nat :
    s \o t \o Append(u, x) = Append(s \o t \o u, x)
<1> TAKE s, t, u \in Seq(Nat)
<1> TAKE x \in Nat
<1>1. s \o t \in Seq(Nat) /\ <<x>> \in Seq(Nat) /\ s \o t \o u \in Seq(Nat)
  BY ConcatProperties
<1>2. Append(u, x) = u \o <<x>> /\ Append(s \o t \o u, x) = (s \o t \o u) \o <<x>>
  BY <1>1, AppendIsConcat
<1> QED  BY <1>1, <1>2, ThreePieces, SMTT(30)

\* Counting on: the bytes 1 to n, and then the byte n + 1.
LEMMA CountOn ==
  ASSUME NEW n \in Nat
  PROVE  /\ [k \in 1 .. n |-> k] \in Seq(Nat)
         /\ Append([k \in 1 .. n |-> k], n + 1) = [k \in 1 .. n + 1 |-> k]
<1> DEFINE c == [k \in 1 .. n |-> k]  d == [k \in 1 .. n + 1 |-> k]
<1>1. /\ c \in Seq(Nat) /\ Len(c) = n
      /\ d \in Seq(Nat) /\ Len(d) = n + 1
  OBVIOUS
<1>2. /\ Append(c, n + 1) \in Seq(Nat) /\ Len(Append(c, n + 1)) = n + 1
      /\ \A i \in 1 .. n : Append(c, n + 1)[i] = c[i]
      /\ Append(c, n + 1)[n + 1] = n + 1
  BY <1>1, AppendProperties
<1>3. \A i \in 1 .. n + 1 : Append(c, n + 1)[i] = d[i]
  BY <1>2
<1>4. Append(c, n + 1) = d
  BY <1>1, <1>2, <1>3, SeqEqual
<1> QED  BY <1>1, <1>4

\* What a read takes and what it leaves make up what was there.
LEMMA ReadSplits ==
  ASSUME NEW q \in Seq(Nat), NEW k \in ReadLengths(q)
  PROVE  /\ SubSeq(q, 1, k) \in Seq(Nat) /\ Rest(q, k) \in Seq(Nat)
         /\ SubSeq(q, 1, k) \o Rest(q, k) = q
<1>1. Len(q) \in Nat /\ k \in 0 .. Len(q)
  BY HttpProxyAssumption, LenProperties DEF ReadLengths
<1>2. \A i \in 1 .. Len(q) : q[i] \in Nat
  BY ElementOfSeq
<1>3. SubSeq(q, 1, k) \in Seq(Nat) /\ SubSeq(q, k + 1, Len(q)) \in Seq(Nat)
  BY <1>1, <1>2, SubSeqProperties
<1>4. SubSeq(q, 1, k) \o SubSeq(q, k + 1, Len(q)) = SubSeq(q, 1, Len(q))
  <2>1. /\ 1 \in 1 .. Len(q) + 1 /\ k \in 1 - 1 .. Len(q) /\ Len(q) \in k .. Len(q)
    BY <1>1
  <2> QED  BY <2>1, ConcatAdjacentSubSeq
<1>5. SubSeq(q, 1, Len(q)) = q
  BY SubSeqFull
<1> QED  BY <1>3, <1>4, <1>5 DEF Rest

-----------------------------------------------------------------------------
(***************************************************************************)
(* The relay, step by step. ProxyInv is inductive.                         *)
(***************************************************************************)
ProxyInv == ProxyTypeOK /\ Relayed

\* The three pieces of a direction are sequences of bytes.
LEMMA Pieces ==
  ASSUME ProxyTypeOK, NEW e \in Ends
  PROVE  /\ Other(e) \in Ends /\ Other(Other(e)) = e /\ Other(e) # e
         /\ got[Other(e)] \in Seq(Nat) /\ Held(e) \in Seq(Nat) /\ queue[e] \in Seq(Nat)
<1>1. Other(e) \in Ends /\ Other(Other(e)) = e /\ Other(e) # e
  BY DEF Other, Ends
<1>2. <<>> \in Seq(Nat)
  BY EmptySeq
<1> QED  BY <1>1, <1>2 DEF ProxyTypeOK, Held

\* At first nothing has been sent.
LEMMA ProxyInitInv == ProxyInit => ProxyInv
<1> SUFFICES ASSUME ProxyInit PROVE ProxyInv
  OBVIOUS
<1>1. /\ <<>> \in Seq(Nat) /\ <<>> \o <<>> = <<>>
      /\ [k \in 1 .. 0 |-> k] = <<>>
  <2>1. <<>> \in Seq(Nat) /\ Len(<<>>) = 0
    BY EmptySeq
  <2>2. [k \in 1 .. 0 |-> k] \in Seq(Nat) /\ Len([k \in 1 .. 0 |-> k]) = 0
    OBVIOUS
  <2>3. [k \in 1 .. 0 |-> k] = <<>>
    BY <2>1, <2>2, SeqEqual
  <2> QED  BY <2>1, <2>3, ConcatEmptySeq
<1>2. ProxyTypeOK
  BY <1>1 DEF ProxyInit, ProxyTypeOK, Ends
<1>3. Relayed
  <2> SUFFICES ASSUME NEW e \in Ends
               PROVE  got[Other(e)] \o Held(e) \o queue[e] = [k \in 1 .. sent[e] |-> k]
    BY DEF Relayed
  <2>1. /\ got[Other(e)] = <<>> /\ Held(e) = <<>> /\ queue[e] = <<>> /\ sent[e] = 0
    BY <1>2, Pieces DEF ProxyInit, Held
  <2> QED  BY <1>1, <2>1
<1> QED  BY <1>2, <1>3 DEF ProxyInv

\* Steps that move no byte.
LEMMA NoByteMoves ==
  ASSUME ProxyInv, ProxyTypeOK', UNCHANGED <<sent, queue, got>>, gone \subseteq gone',
         \A e \in Ends : Held(e)' = Held(e)
  PROVE  ProxyInv'
<1>1. Relayed'
  <2> SUFFICES ASSUME NEW e \in Ends, Other(e) \notin gone'
               PROVE  (got[Other(e)] \o Held(e) \o queue[e] = [k \in 1 .. sent[e] |-> k])'
    BY DEF Relayed, Other
  <2>1. got[Other(e)] \o Held(e) \o queue[e] = [k \in 1 .. sent[e] |-> k]
    BY DEF ProxyInv, Relayed
  <2> QED  BY <2>1
<1> QED  BY <1>1 DEF ProxyInv

\* An end sends a byte: it is the next, and goes last into the queue.
LEMMA SendInv == ASSUME ProxyInv, NEW e \in Ends, Send(e) PROVE ProxyInv'
<1> USE DEF ProxyInv, Send
<1>1. sent[e] \in Nat /\ sent[e] + 1 \in Nat /\ queue[e] \in Seq(Nat)
  BY DEF ProxyTypeOK
<1>2. Append(queue[e], sent[e] + 1) \in Seq(Nat)
  BY <1>1, AppendProperties
<1>3. ProxyTypeOK'
  BY <1>1, <1>2 DEF ProxyTypeOK
<1>4. Relayed'
  <2> SUFFICES ASSUME NEW f \in Ends, Other(f) \notin gone
               PROVE  got[Other(f)] \o Held(f) \o queue'[f] = [k \in 1 .. sent'[f] |-> k]
    BY DEF Relayed, Held
  <2>1. got[Other(f)] \o Held(f) \o queue[f] = [k \in 1 .. sent[f] |-> k]
    BY DEF Relayed
  <2>2. CASE f # e
    BY <2>1, <2>2 DEF ProxyTypeOK
  <2>3. CASE f = e
    <3>1. /\ queue'[f] = Append(queue[e], sent[e] + 1) /\ sent'[f] = sent[e] + 1
      BY <2>3 DEF ProxyTypeOK
    <3>2. got[Other(f)] \o Held(f) \o Append(queue[e], sent[e] + 1)
            = Append([k \in 1 .. sent[e] |-> k], sent[e] + 1)
      <4>1. /\ got[Other(f)] \in Seq(Nat) /\ Held(f) \in Seq(Nat) /\ queue[f] \in Seq(Nat)
        BY Pieces
      <4>2. got[Other(f)] \o Held(f) \o Append(queue[f], sent[e] + 1)
              = Append(got[Other(f)] \o Held(f) \o queue[f], sent[e] + 1)
        <5>1. \A x \in Nat : got[Other(f)] \o Held(f) \o Append(queue[f], x)
                             = Append(got[Other(f)] \o Held(f) \o queue[f], x)
          BY <4>1, AppendToThird
        <5> QED  BY <1>1, <5>1
      <4> QED  BY <2>1, <2>3, <4>2
    <3> QED  BY <1>1, <3>1, <3>2, CountOn
  <2> QED  BY <2>2, <2>3
<1> QED  BY <1>3, <1>4

\* The end hangs up, or leaves: its side of Relayed says less than before.
LEMMA EndInv == ASSUME ProxyInv, NEW e \in Ends, HangUp(e) \/ Leave(e) PROVE ProxyInv'
<1>1. ProxyTypeOK'
  BY DEF ProxyInv, ProxyTypeOK, HangUp, Leave
<1>2. \A f \in Ends : Held(f)' = Held(f)
  BY DEF HangUp, Leave, Held
<1> QED  BY <1>1, <1>2, NoByteMoves DEF HangUp, Leave

\* select, the failing malloc and the failing read: nothing is held before or after.
LEMMA WaitInv ==
  ASSUME ProxyInv, (\E e \in Ends : Select(e)) \/ MallocFails \/ ReadError
  PROVE  ProxyInv'
<1>1. ProxyTypeOK'
  BY DEF ProxyInv, ProxyTypeOK, Select, MallocFails, ReadError, users
<1>2. \A f \in Ends : Held(f)' = Held(f)
  BY DEF Select, MallocFails, ReadError, Held
<1> QED  BY <1>1, <1>2, NoByteMoves DEF Select, MallocFails, ReadError, users

\* The read moves the front of the queue into the buffer.
LEMMA ReadInv == ASSUME ProxyInv, Read PROVE ProxyInv'
<1> USE DEF ProxyInv
<1>1. PICK k \in ReadLengths(queue[from]) :
        /\ buf' = SubSeq(queue[from], 1, k)
        /\ queue' = [queue EXCEPT ![from] = Rest(@, k)]
  BY DEF Read
<1>2. from \in Ends /\ queue[from] \in Seq(Nat)
  BY DEF ProxyTypeOK
<1>3. /\ buf' \in Seq(Nat) /\ Rest(queue[from], k) \in Seq(Nat)
      /\ buf' \o Rest(queue[from], k) = queue[from]
  BY <1>1, <1>2, ReadSplits
<1>4. ProxyTypeOK'
  BY <1>1, <1>2, <1>3 DEF ProxyTypeOK, Read
<1>5. Relayed'
  <2> SUFFICES ASSUME NEW f \in Ends, Other(f) \notin gone
               PROVE  got[Other(f)] \o Held(f)' \o queue'[f] = [j \in 1 .. sent[f] |-> j]
    BY DEF Relayed, Read
  <2>1. got[Other(f)] \o Held(f) \o queue[f] = [j \in 1 .. sent[f] |-> j]
    BY DEF Relayed
  <2>2. Held(f) = <<>>
    BY DEF Held, Read
  <2>3. CASE f # from
    BY <1>1, <2>1, <2>2, <2>3 DEF Held, Read, ProxyTypeOK
  <2>4. CASE f = from
    <3>1. Held(f)' = buf' /\ queue'[f] = Rest(queue[from], k)
      BY <1>1, <2>4 DEF Held, Read, ProxyTypeOK
    <3>2. (got[Other(f)] \o buf') \o Rest(queue[from], k) = got[Other(f)] \o queue[f]
      <4>1. got[Other(f)] \in Seq(Nat)
        BY Pieces
      <4>2. (got[Other(f)] \o buf') \o Rest(queue[from], k)
              = got[Other(f)] \o (buf' \o Rest(queue[from], k))
        BY <1>3, <4>1, ThreePieces
      <4> QED  BY <1>3, <2>4, <4>2
    <3>3. got[Other(f)] \o Held(f) = got[Other(f)]
      BY <2>2, Pieces, ConcatEmptySeq
    <3> QED  BY <2>1, <3>1, <3>2, <3>3
  <2> QED  BY <2>3, <2>4
<1> QED  BY <1>4, <1>5

\* The write moves the buffer to the other end.
LEMMA WriteInv == ASSUME ProxyInv, Write PROVE ProxyInv'
<1> USE DEF ProxyInv
<1>1. from \in Ends /\ buf \in Seq(Nat) /\ Target(from) = Other(from)
  BY DEF ProxyTypeOK, Target
<1>2. got[Other(from)] \o buf \in Seq(Nat) /\ <<>> \in Seq(Nat)
  BY <1>1, Pieces, ConcatProperties, EmptySeq
<1>3. ProxyTypeOK'
  BY <1>1, <1>2 DEF ProxyTypeOK, Write, users
<1>4. Relayed'
  <2> SUFFICES ASSUME NEW f \in Ends, Other(f) \notin gone
               PROVE  got'[Other(f)] \o Held(f)' \o queue[f] = [j \in 1 .. sent[f] |-> j]
    BY DEF Relayed, Write, users
  <2>1. got[Other(f)] \o Held(f) \o queue[f] = [j \in 1 .. sent[f] |-> j]
    BY DEF Relayed
  <2>2. Held(f)' = <<>>
    BY DEF Held, Write
  <2>3. CASE f # from
    <3>1. Other(f) # Other(from)
      BY <1>1, <2>3 DEF Other, Ends
    <3>2. Held(f) = <<>> /\ got'[Other(f)] = got[Other(f)]
      BY <1>1, <2>3, <3>1, Pieces DEF Held, Write, ProxyTypeOK
    <3> QED  BY <2>1, <2>2, <3>2
  <2>4. CASE f = from
    <3>1. Held(f) = buf /\ got'[Other(f)] = got[Other(f)] \o buf
      BY <1>1, <2>4, Pieces DEF Held, Write, ProxyTypeOK
    <3>2. got'[Other(f)] \o <<>> = got'[Other(f)]
      BY <1>2, <2>4, <3>1, ConcatEmptySeq
    <3> QED  BY <2>1, <2>2, <3>1, <3>2
  <2> QED  BY <2>3, <2>4
<1> QED  BY <1>3, <1>4

\* The write to an end that left: nothing is promised for that end.
LEMMA WriteGoneInv == ASSUME ProxyInv, WriteGone PROVE ProxyInv'
<1> USE DEF ProxyInv
<1>1. ProxyTypeOK'
  BY EmptySeq DEF ProxyTypeOK, WriteGone, users
<1>2. Relayed'
  <2> SUFFICES ASSUME NEW f \in Ends, Other(f) \notin gone
               PROVE  got[Other(f)] \o Held(f)' \o queue[f] = [j \in 1 .. sent[f] |-> j]
    BY DEF Relayed, WriteGone, users
  <2>1. f # from
    BY DEF WriteGone
  <2>2. Held(f)' = <<>> /\ Held(f) = <<>>
    BY <2>1 DEF Held, WriteGone
  <2> QED  BY <2>2 DEF Relayed
<1> QED  BY <1>1, <1>2

\* Every step keeps the invariant.
LEMMA ProxyNextInv == ProxyInv /\ [ProxyNext]_proxyvars => ProxyInv'
<1> SUFFICES ASSUME ProxyInv, [ProxyNext]_proxyvars PROVE ProxyInv'
  OBVIOUS
<1>1. CASE UNCHANGED proxyvars
  <2>1. ProxyTypeOK' /\ \A f \in Ends : Held(f)' = Held(f)
    BY <1>1 DEF ProxyInv, ProxyTypeOK, proxyvars, Held
  <2> QED  BY <1>1, <2>1, NoByteMoves DEF proxyvars
<1>2. CASE Timeout
  BY <1>1, <1>2 DEF Timeout
<1>3. CASE Read \/ Write \/ WriteGone
  BY <1>3, ReadInv, WriteInv, WriteGoneInv
<1>4. CASE MallocFails \/ ReadError \/ \E e \in Ends : Select(e)
  BY <1>4, WaitInv
<1>5. ASSUME NEW e \in Ends, Send(e) \/ HangUp(e) \/ Leave(e)
      PROVE  ProxyInv'
  BY <1>5, SendInv, EndInv
<1> QED  BY <1>1, <1>2, <1>3, <1>4, <1>5 DEF ProxyNext

-----------------------------------------------------------------------------
(***************************************************************************)
(* The proxy.                                                              *)
(***************************************************************************)

\* No variable of the relay leaves its type.
THEOREM ProxyTypeCorrect == ProxySpec => []ProxyTypeOK
<1>1. ProxyInv => ProxyTypeOK
  BY DEF ProxyInv
<1> QED  BY <1>1, ProxyInitInv, ProxyNextInv, PTL DEF ProxySpec

\* handle_proxy_request relays: nothing of what an end sent is lost, repeated or
\* swapped between the read and the write of any proxy_request, as long as the
\* other end is there.
THEOREM RelaysInOrder == ProxySpec => []Relayed
<1>1. ProxyInv => Relayed
  BY DEF ProxyInv
<1> QED  BY <1>1, ProxyInitInv, ProxyNextInv, PTL DEF ProxySpec

-----------------------------------------------------------------------------
(***************************************************************************)
(* The file handler, step by step.                                         *)
(***************************************************************************)

\* What a path can name: a file with its data, or something without data.
LEMMA NodeForms ==
  ASSUME NEW t \in Trees, NEW o \in Objects
  PROVE  /\ t[o].kind \in {"missing", "dir", "other", "file"}
         /\ t[o].data \in Seq(Bytes)
         /\ t[o].kind = "file" => t[o] = File(t[o].data)
<1>1. t[o] \in Nodes \cup {Node("other")}
  BY DEF Trees, Objects
<1>2. <<>> \in Seq(Bytes)
  BY EmptySeq
<1>3. \/ t[o] \in {Node("missing"), Node("dir"), Node("other")}
      \/ \E c \in Seq(Bytes) : t[o] = File(c)
  BY <1>1, HttpFilesAssumption DEF Nodes
<1>4. ASSUME NEW k \in {"missing", "dir", "other"}, t[o] = Node(k)
      PROVE  t[o].kind = k /\ t[o].data = <<>>
  BY <1>4 DEF Node
<1>5. ASSUME NEW c \in Seq(Bytes), t[o] = File(c)
      PROVE  t[o].kind = "file" /\ t[o].data = c
  BY <1>5 DEF File
<1> QED  BY <1>2, <1>3, <1>4, <1>5

\* The present state of the file system is one of the history.
LEMMA Present ==
  ASSUME FilesTypeOK
  PROVE  fs \in Trees /\ fs \in ToSet(history) /\ \A t : history = <<t>> => fs = t
<1>1. Len(history) \in 1 .. Len(history) /\ DOMAIN history = 1 .. Len(history)
  <2>1. history \in Seq(Trees) /\ history # <<>>
    BY DEF FilesTypeOK
  <2>2. Len(history) \in Nat \ {0} /\ DOMAIN history = 1 .. Len(history)
    BY <2>1, EmptySeq, LenProperties
  <2> QED  BY <2>2
<1>2. fs = history[Len(history)] /\ history[Len(history)] \in Trees
  BY <1>1, ElementOfSeq DEF fs, Last, FilesTypeOK
<1> QED  BY <1>1, <1>2 DEF ToSet

\* At first one state has been seen, and nothing has been done.
LEMMA FilesInitInv == FilesInit => FilesInv
<1> SUFFICES ASSUME FilesInit PROVE FilesInv
  OBVIOUS
<1>1. PICK t \in Trees : history = <<t>>
  BY DEF FilesInit
<1>2. FilesTypeOK
  <2>1. /\ <<>> \in Seq(Bytes) /\ <<>> \in Seq({200})
        /\ <<>> \in Seq(Parts)
    BY EmptySeq
  <2>2. history \in Seq(Trees) /\ history # <<>>
    BY <1>1
  <2> QED  BY <2>1, <2>2 DEF FilesInit, FilesTypeOK, Closed, NoReply, Objects
<1>3. HandleInv
  BY DEF FilesInit, HandleInv, Closed
<1>4. StaticInv
  BY DEF FilesInit, StaticInv, Knows
<1> QED  BY <1>2, <1>3, <1>4 DEF FilesInv

\* What http_start_response and a whole response add to the reply keeps its type.
LEMMA ReplyTypes ==
  ASSUME FilesTypeOK, NEW part \in Parts
  PROVE  /\ Status(200) \in [status : Seq({200}), body : Seq(Parts)]
         /\ Response(200, part) \in [status : Seq({200}), body : Seq(Parts)]
         /\ [status |-> reply.status, body |-> Append(reply.body, part)]
               \in [status : Seq({200}), body : Seq(Parts)]
<1>1. reply.status \in Seq({200}) /\ reply.body \in Seq(Parts)
  BY DEF FilesTypeOK
<1>2. Append(reply.status, 200) \in Seq({200}) /\ Append(reply.body, part) \in Seq(Parts)
  BY <1>1, AppendProperties
<1> QED  BY <1>1, <1>2 DEF Status, Response

\* What is new after an append is what was appended.
LEMMA AppendedPart ==
  ASSUME NEW S, NEW s \in Seq(S), NEW x \in S,
         NEW b \in ToSet(Append(s, x)) \ ToSet(s)
  PROVE  b = x
<1>1. /\ DOMAIN s = 1 .. Len(s) /\ Len(s) \in Nat
      /\ DOMAIN Append(s, x) = 1 .. Len(s) + 1
      /\ \A i \in 1 .. Len(s) : Append(s, x)[i] = s[i]
      /\ Append(s, x)[Len(s) + 1] = x
  BY AppendProperties, LenProperties
<1>2. PICK i \in 1 .. Len(s) + 1 : b = Append(s, x)[i]
  BY <1>1 DEF ToSet
<1> QED  BY <1>1, <1>2 DEF ToSet

\* The file system changes: an open file keeps its data or is known to be rewritten.
LEMMA ChangeInv == ASSUME FilesInv, NEW t \in Trees, Change(t) PROVE FilesInv'
<1> USE DEF FilesInv
<1>1. /\ history \in Seq(Trees) /\ history # <<>> /\ history' = Append(history, t)
      /\ history' \in Seq(Trees) /\ history' # <<>>
  BY AppendProperties DEF FilesTypeOK, Change
<1>2. handle' \in [at : Objects \cup {"none"}, data : Seq(Bytes), kept : BOOLEAN]
  <2>1. handle.at # "none" => t[handle.at].data \in Seq(Bytes)
    BY NodeForms DEF FilesTypeOK
  <2>2. /\ handle.at \in Objects \cup {"none"} /\ handle.data \in Seq(Bytes)
        /\ handle.kept \in BOOLEAN
    BY DEF FilesTypeOK
  <2>3. CASE handle' = handle
    BY <2>3 DEF FilesTypeOK
  <2>4. CASE handle' = [at |-> "none", data |-> handle.data, kept |-> handle.kept]
    BY <2>2, <2>4
  <2>5. CASE /\ handle.at # "none"
             /\ handle' = [at |-> handle.at, data |-> t[handle.at].data, kept |-> FALSE]
    BY <2>1, <2>2, <2>5
  <2> QED  BY <2>3, <2>4, <2>5 DEF Change
<1>3. FilesTypeOK'
  BY <1>1, <1>2 DEF FilesTypeOK, Change
<1>4. handle'.kept => handle.kept /\ handle'.data = handle.data
  BY DEF Change, FilesTypeOK
<1>5. ToSet(history) \subseteq ToSet(history')
  <2> SUFFICES ASSUME NEW i \in DOMAIN history PROVE history[i] \in ToSet(history')
    BY DEF ToSet
  <2>1. /\ DOMAIN history = 1 .. Len(history) /\ Len(history) \in Nat
        /\ DOMAIN history' = 1 .. Len(history) + 1 /\ history'[i] = history[i]
    BY <1>1, LenProperties, AppendProperties
  <2>2. i \in DOMAIN history'
    BY <2>1
  <2> QED  BY <2>1, <2>2 DEF ToSet
<1>6. HandleInv'
  BY <1>4, <1>5 DEF HandleInv, Seen, Change
<1>7. StaticInv'
  <2> SUFFICES ASSUME NEW u \in Trees, history' = <<u>> PROVE FALSE
    BY DEF StaticInv
  <2>1. Len(history) \in Nat \ {0} /\ Len(history') = Len(history) + 1
    BY <1>1, EmptySeq, AppendProperties
  <2> QED  BY <2>1
<1> QED  BY <1>3, <1>6, <1>7

\* Reading and parsing the request touches nothing else.
LEMMA ParseInv == ASSUME FilesInv, Parse PROVE FilesInv'
<1> USE DEF FilesInv, Parse
<1>1. request \in Requests /\ call' \in {"stat", "crashed", "done"}
  BY DEF FilesTypeOK, Requests
<1>2. FilesTypeOK' /\ HandleInv'
  BY <1>1 DEF FilesTypeOK, HandleInv, Seen
<1>3. StaticInv'
  <2> SUFFICES ASSUME NEW t \in Trees, request = "whole", history = <<t>>,
                      t.path.kind \in {"file", "dir"}, t.index.kind # "dir"
               PROVE  Knows(t)'
    BY DEF StaticInv
  <2>1. call' = "stat" /\ Knows(t)
    BY DEF StaticInv
  <2> QED  BY <2>1 DEF Knows
<1> QED  BY <1>2, <1>3

\* stat of what is there tells what it is.
LEMMA StatInv == ASSUME FilesInv, Stat PROVE FilesInv'
<1> USE DEF FilesInv
<1>1. PICK k \in StatResult(fs.path) :
        /\ call' = CASE k = "dir" -> "scan" [] k = "file" -> "fopen" [] k = "other" -> "done"
        /\ reply' = IF k = "other" THEN Response(200, NotFound) ELSE reply
  BY DEF Stat
<1>2. fs \in Trees /\ fs.path.kind \in {"missing", "dir", "other", "file"}
  <2>1. fs \in Trees /\ fs["path"].kind \in {"missing", "dir", "other", "file"}
    BY Present, NodeForms DEF Objects
  <2> QED  BY <2>1
<1>3. k \in {"dir", "file", "other"}
  BY <1>2 DEF StatResult
<1>4. call' \in {"scan", "fopen", "done"}
  BY <1>1, <1>3
<1>5. FilesTypeOK'
  <2>1. NotFound \in Parts
    BY EmptySeq DEF NotFound, Parts
  <2>2. reply' \in [status : Seq({200}), body : Seq(Parts)]
    BY <1>1, <2>1, ReplyTypes DEF FilesTypeOK
  <2> QED  BY <1>4, <2>2 DEF FilesTypeOK, Stat
<1>6. HandleInv'
  BY <1>4 DEF HandleInv, Seen, Stat
<1>7. StaticInv'
  <2> SUFFICES ASSUME NEW t \in Trees, request = "whole", history = <<t>>,
                      t.path.kind \in {"file", "dir"}, t.index.kind # "dir"
               PROVE  Knows(t)'
    BY DEF StaticInv, Stat
  <2>1. fs = t /\ k = t.path.kind /\ reply' = reply /\ reply = NoReply /\ target = "path"
    BY <1>1, Present DEF StatResult, StaticInv, Knows, Stat
  <2> QED  BY <1>1, <2>1 DEF Knows, SendsFile, Stat
<1> QED  BY <1>5, <1>6, <1>7

\* The search for index.html finds it when it is there.
LEMMA ScanInv == ASSUME FilesInv, Scan PROVE FilesInv'
<1> USE DEF FilesInv
<1>1. call' \in {"crashed", "fopen", "list"} /\ target' \in {target, "index"}
  BY DEF Scan
<1>2. FilesTypeOK'
  BY <1>1 DEF FilesTypeOK, Scan, Objects
<1>3. HandleInv'
  BY <1>1 DEF HandleInv, Seen, Scan
<1>4. StaticInv'
  <2> SUFFICES ASSUME NEW t \in Trees, request = "whole", history = <<t>>,
                      t.path.kind \in {"file", "dir"}, t.index.kind # "dir"
               PROVE  Knows(t)'
    BY DEF StaticInv, Scan
  <2>1. fs = t /\ reply = NoReply /\ target = "path" /\ t.path.kind = "dir"
    BY Present DEF StaticInv, Knows, Scan
  <2>2. t.index.kind \in {"missing", "other", "file"}
    <3>1. t["index"].kind \in {"missing", "dir", "other", "file"}
      BY NodeForms DEF Objects
    <3> QED  BY <3>1
  <2>3. t.index.kind # "other"
    BY DEF Trees, Nodes, Node, File
  <2> QED  BY <2>1, <2>2, <2>3 DEF Knows, SendsFile, SendsList, Scan
<1> QED  BY <1>2, <1>3, <1>4

\* fopen finds the file that is promised, and otherwise the handler gives up.
LEMMA FopenInv == ASSUME FilesInv, Fopen PROVE FilesInv'
<1> USE DEF FilesInv
<1>1. /\ fs \in Trees /\ fs \in ToSet(history) /\ target \in Objects
      /\ fs[target].data \in Seq(Bytes)
      /\ fs[target].kind = "file" => fs[target] = File(fs[target].data)
  BY Present, NodeForms DEF FilesTypeOK
<1>2. call' \in {"ftell", "done"}
  BY DEF Fopen, AfterFile
<1>3. handle' \in {Closed, handle, [at |-> target, data |-> fs[target].data, kept |-> TRUE]}
  BY DEF Fopen
<1>4. FilesTypeOK'
  <2>1. /\ Closed \in [at : Objects \cup {"none"}, data : Seq(Bytes), kept : BOOLEAN]
        /\ [at |-> target, data |-> fs[target].data, kept |-> TRUE]
             \in [at : Objects \cup {"none"}, data : Seq(Bytes), kept : BOOLEAN]
    BY <1>1, EmptySeq DEF Closed
  <2> QED  BY <1>2, <1>3, <2>1 DEF FilesTypeOK, Fopen
<1>5. HandleInv'
  <2>1. CASE fs[target].kind = "file"
    BY <1>1, <1>2, <2>1 DEF HandleInv, Seen, Fopen
  <2>2. CASE fs[target].kind # "file"
    BY <1>2, <2>2 DEF HandleInv, Seen, Fopen, Closed
  <2> QED  BY <2>1, <2>2
<1>6. StaticInv'
  <2> SUFFICES ASSUME NEW t \in Trees, request = "whole", history = <<t>>,
                      t.path.kind \in {"file", "dir"}, t.index.kind # "dir"
               PROVE  Knows(t)'
    BY DEF StaticInv, Fopen
  <2>1. fs = t /\ SendsFile(t)
    BY Present DEF StaticInv, Knows, Fopen
  <2>2. call' = "ftell" /\ handle'.data = t[target].data
    BY <2>1 DEF SendsFile, Fopen
  <2> QED  BY <2>1, <2>2 DEF Knows, SendsFile, Fopen
<1> QED  BY <1>4, <1>5, <1>6

\* ftell gives the length of the open file.
LEMMA FtellInv == ASSUME FilesInv, Ftell PROVE FilesInv'
<1> USE DEF FilesInv, Ftell
<1>1. handle.data \in Seq(Bytes) /\ length' \in Nat
  BY LenProperties DEF FilesTypeOK
<1>2. FilesTypeOK' /\ HandleInv'
  BY <1>1 DEF FilesTypeOK, HandleInv, Seen
<1>3. StaticInv'
  BY DEF StaticInv, Knows, SendsFile
<1> QED  BY <1>2, <1>3

\* What fread fills the body with.
Filled == [k \in 1 .. length |-> IF k <= Len(handle.data) THEN handle.data[k] ELSE Junk]

\* Filled to the length that ftell returned the body is the data of the open file.
LEMMA FilledExactly ==
  ASSUME FilesTypeOK
  PROVE  /\ Filled \in Seq(Bytes \cup {Junk})
         /\ length = Len(handle.data) => Filled = handle.data
<1>1. handle.data \in Seq(Bytes) /\ Len(handle.data) \in Nat /\ length \in Nat
  BY LenProperties DEF FilesTypeOK
<1>2. \A k \in 1 .. length : k <= Len(handle.data) => handle.data[k] \in Bytes
  BY <1>1, ElementOfSeq
<1>3. Filled \in Seq(Bytes \cup {Junk}) /\ Len(Filled) = length
  BY <1>1, <1>2 DEF Filled
<1>4. ASSUME length = Len(handle.data) PROVE Filled = handle.data
  <2>1. handle.data \in Seq(Bytes \cup {Junk})
    BY <1>1, SeqMonotonic
  <2>2. \A k \in 1 .. Len(Filled) : Filled[k] = handle.data[k]
    BY <1>1, <1>3, <1>4 DEF Filled
  <2> QED  BY <1>3, <1>4, <2>1, <2>2, SeqEqual
<1> QED  BY <1>3, <1>4

\* The answer of Fread.
LEMMA FreadReply ==
  ASSUME FilesTypeOK, Fread
  PROVE  reply' = Response(200, File(Filled)) /\ File(Filled) \in Parts
<1>1. File(Filled) \in Parts
  BY FilledExactly DEF File, Parts
<1> QED  BY <1>1 DEF Fread, DataRead, Filled

\* fread sends what the open file holds.
LEMMA FreadInv == ASSUME FilesInv, Fread PROVE FilesInv'
<1> USE DEF FilesInv
<1>1. FilesTypeOK'
  <2>1. reply' \in [status : Seq({200}), body : Seq(Parts)]
    BY FreadReply, ReplyTypes
  <2>2. Closed \in [at : Objects \cup {"none"}, data : Seq(Bytes), kept : BOOLEAN]
    BY EmptySeq DEF Closed
  <2> QED  BY <2>1, <2>2 DEF FilesTypeOK, Fread, AfterFile
<1>2. HandleInv'
  BY DEF HandleInv, Fread, Closed, AfterFile
<1>3. StaticInv'
  <2> SUFFICES ASSUME NEW t \in Trees, request = "whole", history = <<t>>,
                      t.path.kind \in {"file", "dir"}, t.index.kind # "dir"
               PROVE  Knows(t)'
    BY DEF StaticInv, Fread
  <2>1. /\ SendsFile(t) /\ handle.data = t[target].data /\ length = Len(handle.data)
    BY DEF StaticInv, Knows, Fread
  <2>2. t[target] = File(Filled)
    BY <2>1, FilledExactly, NodeForms DEF SendsFile, FilesTypeOK
  <2>3. Wanted(t) = t[target]
    <3>1. target \in {"path", "index"}
      BY DEF FilesTypeOK, Objects
    <3>2. CASE target = "path"
      BY <2>1, <3>2 DEF SendsFile, Wanted
    <3>3. CASE target = "index"
      BY <2>1, <3>3 DEF SendsFile, Wanted
    <3> QED  BY <3>1, <3>2, <3>3
  <2>4. reply' = [status |-> <<200>>, body |-> <<Wanted(t)>>]
    BY <2>1, <2>2, <2>3, FreadReply DEF Response, SendsFile, NoReply
  <2> QED  BY <2>4 DEF Knows, Fread, AfterFile
<1> QED  BY <1>1, <1>2, <1>3

\* The list of the directory: status first, then the body.
LEMMA ListInv == ASSUME FilesInv, StartList \/ ListEntries PROVE FilesInv'
<1> USE DEF FilesInv
<1>1. Listing \in Parts
  BY EmptySeq DEF Listing, Parts
<1>2. reply' \in [status : Seq({200}), body : Seq(Parts)]
  <2>1. CASE StartList
    BY <1>1, <2>1, ReplyTypes DEF StartList
  <2>2. CASE ListEntries
    <3>1. [status |-> reply.status, body |-> Append(reply.body, Listing)]
            \in [status : Seq({200}), body : Seq(Parts)]
      BY <1>1, ReplyTypes
    <3> QED  BY <2>2, <3>1 DEF ListEntries, FilesTypeOK
  <2> QED  BY <2>1, <2>2
<1>3. FilesTypeOK'
  BY <1>2 DEF FilesTypeOK, StartList, ListEntries
<1>4. HandleInv'
  BY DEF HandleInv, Seen, StartList, ListEntries
<1>5. StaticInv'
  <2> SUFFICES ASSUME NEW t \in Trees, request = "whole", history = <<t>>,
                      t.path.kind \in {"file", "dir"}, t.index.kind # "dir"
               PROVE  Knows(t)'
    BY DEF StaticInv, StartList, ListEntries
  <2>1. fs = t /\ SendsList(t) /\ Knows(t)
    BY Present DEF StaticInv, Knows, StartList, ListEntries
  <2>2. CASE StartList
    <3>1. reply' = [status |-> <<200>>, body |-> <<>>]
      BY <2>1, <2>2 DEF Knows, StartList, Status, NoReply
    <3> QED  BY <2>1, <2>2, <3>1 DEF Knows, SendsList, StartList
  <2>3. CASE ListEntries
    <3>1. Wanted(t) = Listing
      BY <2>1 DEF SendsList, Wanted
    <3>2. call' = "done" /\ reply' = [status |-> <<200>>, body |-> <<Listing>>]
      BY <2>1, <2>3 DEF Knows, SendsList, ListEntries
    <3> QED  BY <3>1, <3>2 DEF Knows
  <2> QED  BY <2>2, <2>3
<1> QED  BY <1>3, <1>4, <1>5

\* Every step keeps the invariant.
LEMMA FilesNextInv == FilesInv /\ [FilesNext]_filesvars => FilesInv'
<1> SUFFICES ASSUME FilesInv, [FilesNext]_filesvars PROVE FilesInv'
  OBVIOUS
<1>1. CASE UNCHANGED filesvars
  BY <1>1 DEF filesvars, FilesInv, FilesTypeOK, HandleInv, Seen, StaticInv, Knows,
              SendsFile, SendsList
<1>2. CASE Parse \/ Stat \/ Scan \/ Fopen \/ Ftell \/ Fread
  BY <1>2, ParseInv, StatInv, ScanInv, FopenInv, FtellInv, FreadInv
<1>3. CASE StartList \/ ListEntries
  BY <1>3, ListInv
<1>4. CASE \E t \in Trees : Change(t)
  BY <1>4, ChangeInv
<1> QED  BY <1>1, <1>2, <1>3, <1>4 DEF FilesNext

-----------------------------------------------------------------------------
(***************************************************************************)
(* The file handler.                                                       *)
(***************************************************************************)

\* What of the handler's state follows from the invariant is always true.
THEOREM FilesInvariance == FilesSpec => []FilesInv
  BY FilesInitInv, FilesNextInv, PTL DEF FilesSpec

\* handle_files_request answers a request for a file with the file, and one for a
\* directory with its index.html or its list, when the files stay as they are.
THEOREM AnswersAsPromised == FilesSpec => []StaticAnswer
<1>1. FilesInv => StaticAnswer
  BY DEF FilesInv, StaticInv, StaticAnswer, Knows, Answered
<1> QED  BY <1>1, FilesInvariance, PTL

\* A step other than fread's adds no file to the answer.
LEMMA OnlyFreadSendsFiles ==
  ASSUME FilesInv, [FilesNext]_filesvars, ~Fread,
         NEW b \in ToSet(reply'.body) \ ToSet(reply.body)
  PROVE  b.kind # "file"
<1>1. reply.body \in Seq(Parts)
  BY DEF FilesInv, FilesTypeOK
<1>2. ASSUME NEW part \in Parts, reply'.body = Append(reply.body, part)
      PROVE  b = part
  BY <1>1, <1>2, AppendedPart
<1>3. \/ reply'.body = reply.body
      \/ \E part \in {NotFound, Listing} : reply'.body = Append(reply.body, part)
  <2>1. CASE Stat
    BY <2>1 DEF Stat, Response
  <2>2. CASE StartList \/ ListEntries
    BY <2>2 DEF StartList, ListEntries, Status
  <2>3. CASE Parse \/ Scan \/ Fopen \/ Ftell \/ UNCHANGED filesvars
    BY <2>3 DEF Parse, Scan, Fopen, Ftell, filesvars
  <2>4. CASE \E t \in Trees : Change(t)
    BY <2>4 DEF Change
  <2> QED  BY <2>1, <2>2, <2>3, <2>4 DEF FilesNext
<1>4. /\ NotFound \in Parts /\ NotFound.kind # "file"
      /\ Listing \in Parts /\ Listing.kind # "file"
  BY EmptySeq DEF NotFound, Listing, Parts
<1> QED  BY <1>2, <1>3, <1>4

\* send_file_by_name sends a file as it was at one moment of the request, as long
\* as the open file is not rewritten: the length of ftell and the bytes of fread
\* are of the same file.
THEOREM BodiesAreWhole == FilesSpec => BodyWhole
<1>1. FilesInv /\ [FilesNext]_filesvars => [SendsWhole]_filesvars
  <2> SUFFICES ASSUME FilesInv, [FilesNext]_filesvars,
                      NEW b \in ToSet(reply'.body) \ ToSet(reply.body),
                      b.kind = "file", b.data # <<>>, handle.kept
               PROVE  \E t \in ToSet(history), o \in Objects : t[o] = b
    BY DEF SendsWhole
  <2>1. Fread
    BY OnlyFreadSendsFiles
  <2>2. reply.body \in Seq(Parts) /\ FilesTypeOK
    BY DEF FilesInv, FilesTypeOK
  <2>3. b = File(Filled)
    <3>1. reply'.body = Append(reply.body, File(Filled)) /\ File(Filled) \in Parts
      BY <2>1, <2>2, FreadReply DEF Response
    <3> QED  BY <2>2, <3>1, AppendedPart
  <2>4. Filled = handle.data
    BY <2>1, <2>2, FilledExactly DEF FilesInv, HandleInv, Fread
  <2> QED  BY <2>3, <2>4 DEF FilesInv, HandleInv, Seen, File
<1> QED  BY <1>1, FilesInvariance, PTL DEF FilesSpec, BodyWhole
===============================================================================
