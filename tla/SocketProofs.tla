---------------------------- MODULE SocketProofs ----------------------------
(***************************************************************************)
(* The properties of SocketStream, for any number of threads, any buffers  *)
(* and sizes, any capacity of the connection and any number of calls.      *)
(*                                                                         *)
(* First the bytes: IInv.  Then what a transfer tells its caller: an error *)
(* has a cause (CInv), is a SocketError on a socket that was not handed    *)
(* over non-blocking, and as long as there was none, messages of one size  *)
(* arrive as they were sent, one by one (FInv).  At the end, both together *)
(* are a channel of whole messages (RInv).                                 *)
(***************************************************************************)
EXTENDS SocketStream, TLAPS, SequenceTheorems

\* The least of two numbers.
LEMMA MinOfTwo ==
  ASSUME NEW x \in Int, NEW y \in Int
  PROVE  Min({x, y}) \in Int /\ Min({x, y}) <= x /\ Min({x, y}) <= y
  <1>1. \E z \in {x, y} : \A w \in {x, y} : z <= w
    OBVIOUS
  <1>2. Min({x, y}) \in {x, y} /\ \A w \in {x, y} : Min({x, y}) <= w
    BY <1>1 DEF Min
  <1>3. QED
    BY <1>2

\* What _get_buffer_size accepts fits in the buffer.
LEMMA BufferSizeFacts ==
  ASSUME NEW length \in Nat, NEW arg, NEW n \in GetBufferSize(length, arg)
  PROVE  n \in 0..length
  BY DEF GetBufferSize

\* Bytes sent go to the end of the stream, and leave the others in place.
LEMMA ExtendFacts ==
  ASSUME NEW s \in Seq(Bytes), NEW b \in Seq(Bytes),
         NEW from \in Nat, NEW n \in 1..(Len(b) - from)
  PROVE  /\ Extend(s, b, from, n) \in Seq(Bytes)
         /\ Len(Extend(s, b, from, n)) = Len(s) + n
         /\ \A i \in 1..Len(s) : Extend(s, b, from, n)[i] = s[i]
         /\ \A i \in 1..n : Extend(s, b, from, n)[Len(s) + i] = b[from + i]
  <1> DEFINE m == SubSeq(b, from + 1, from + n)
             r == s \o m
  <1>1. Len(b) \in Nat /\ Len(s) \in Nat /\ n \in Nat
    BY LenProperties
  <1>2. /\ m \in Seq(Bytes) /\ Len(m) = n
        /\ \A i \in 1..n : m[i] = b[from + i]
    <2>1. from + 1 \in Int /\ from + n \in Int /\ from + n <= Len(b) /\ from + 1 >= 1
      BY <1>1
    <2>2. m \in Seq(Bytes)
      BY <2>1, <1>1, SubSeqProperties
    <2>3. Len(m) = n /\ \A i \in 1..n : m[i] = b[from + i]
      BY <2>1, <1>1
    <2>4. QED
      BY <2>2, <2>3
  <1> HIDE DEF m
  <1>3. r \in Seq(Bytes) /\ Len(r) = Len(s) + n
    BY <1>1, <1>2, ConcatProperties
  <1>4. /\ \A i \in 1..Len(s) : r[i] = s[i]
        /\ \A i \in 1..n : r[Len(s) + i] = m[i]
    BY <1>1, <1>2, ConcatProperties
  <1>5. QED
    BY <1>2, <1>3, <1>4 DEF m, Extend

\* A send that is in step stays in step.
LEMMA SentFacts ==
  ASSUME NEW s \in Seq(Bytes), NEW b \in Seq(Bytes),
         NEW o \in Nat, NEW k \in Nat, NEW n \in 1..(Len(b) - k),
         o + k = Len(s), \A i \in 1..k : b[i] = s[o + i]
  PROVE  \A i \in 1..(k + n) : b[i] = Extend(s, b, k, n)[o + i]
  <1>1. /\ \A i \in 1..Len(s) : Extend(s, b, k, n)[i] = s[i]
        /\ \A i \in 1..n : Extend(s, b, k, n)[Len(s) + i] = b[k + i]
    BY ExtendFacts
  <1>2. TAKE i \in 1..(k + n)
  <1>3. CASE i <= k
    <2>1. i \in 1..k /\ o + i \in 1..Len(s)
      BY <1>3, LenProperties
    <2>2. QED
      BY <1>1, <2>1
  <1>4. CASE i > k
    <2>1. i - k \in 1..n /\ Len(s) + (i - k) = o + i /\ k + (i - k) = i
      BY <1>4
    <2>2. QED
      BY <1>1, <2>1
  <1>5. QED
    BY <1>3, <1>4

\* Bytes received go to their place of the buffer, and leave the rest.
LEMMA StoreFacts ==
  ASSUME NEW b \in Seq(Bytes), NEW s \in Seq(Bytes),
         NEW at \in Nat, NEW from \in Nat, NEW n \in Nat,
         at + n <= Len(b), from + n <= Len(s)
  PROVE  Store(b, at, n, s, from) \in Seq(Bytes) /\ Len(Store(b, at, n, s, from)) = Len(b)
  <1>1. Len(b) \in Nat /\ DOMAIN b = 1..Len(b) /\ Len(s) \in Nat
    BY LenProperties
  <1>2. \A i \in 1..Len(b) :
          (IF i \in (at + 1)..(at + n) THEN s[from + i - at] ELSE b[i]) \in Bytes
    BY <1>1
  <1>3. QED
    BY <1>1, <1>2 DEF Store

LEMMA StoredByte ==
  ASSUME NEW b \in Seq(Bytes), NEW s, NEW at, NEW from, NEW n, NEW i \in 1..Len(b)
  PROVE  Store(b, at, n, s, from)[i] =
           IF i \in (at + 1)..(at + n) THEN s[from + i - at] ELSE b[i]
  BY LenProperties DEF Store

-----------------------------------------------------------------------------
(* Steps that move no byte.                                                *)

Flags ==
  /\ shut \in [Ends -> BOOLEAN] /\ closed \in [Ends -> BOOLEAN]
  /\ broken \in {"no", "reset", "lost"}
  /\ mode \in [Ends -> {"blocking", "timed", "nonblocking"}]
  /\ keep_open \in [Ends -> BOOLEAN] /\ failed \in [Ends -> BOOLEAN]

LEMMA TypeParts ==
  ASSUME IInv, NEW t \in Threads
  PROVE  /\ Flags /\ EndOf[t] \in Ends /\ Peer(EndOf[t]) \in Ends /\ Source(t) \in Ends
         /\ pc[t] \in PCs /\ op[t] \in Transfers \cup {"none"}
         /\ size[t] \in Nat /\ pos[t] \in Nat /\ origin[t] \in Nat
         /\ buffer[t] \in Seq(Bytes)
         /\ result[t] \in {"none", "ok"} \cup Errors
         /\ Moved(t) /\ Told(t) /\ InStep(t)
  <1>1. EndOf[t] \in Ends
    BY RolesAssumption
  <1>2. Peer(EndOf[t]) \in Ends /\ Source(t) \in Ends
    BY <1>1 DEF Peer, Ends, Source
  <1>3. QED
    BY <1>1, <1>2 DEF IInv, TypeOK, Contiguous, Flags

\* A step that moves no byte: the place of one thread changes, and a thread
\* that was transferring may raise.
LEMMA QuietStep ==
  ASSUME IInv, NEW t \in Threads, NEW label \in PCs,
         NEW answer \in {"none", "ok"} \cup Errors,
         UNCHANGED <<stream, taken, local>>, Flags',
         pc' = [pc EXCEPT ![t] = label],
         result' = [result EXCEPT ![t] = answer],
         Transferring(t)' => Transferring(t) /\ answer = result[t],
         \/ answer \in {result[t], "range"}
         \/ Transferring(t) /\ answer \in Errors
  PROVE  IInv'
  <1>1. TypeOK'
    BY DEF IInv, TypeOK, Flags, local, Unread, Peer, Ends
  <1>2. ASSUME NEW u \in Threads
        PROVE  Moved(u)' /\ Told(u)' /\ InStep(u)'
    <2>1. Moved(u)'
      BY TypeParts DEF Moved, Source, local
    <2>2. pc \in [Threads -> PCs] /\ result \in [Threads -> {"none", "ok"} \cup Errors]
      BY DEF IInv, TypeOK
    <2>3. CASE u = t
      <3>1. pc'[u] = label /\ result'[u] = answer
        BY <2>2, <2>3
      <3>2. Told(u)'
        BY <2>3, <3>1, TypeParts DEF Told, local, InStep, Errors
      <3>3. InStep(u)'
        BY <2>3, <3>1, TypeParts DEF InStep, local, Transferring
      <3>4. QED
        BY <2>1, <3>2, <3>3
    <2>4. CASE u # t
      <3>1. pc'[u] = pc[u] /\ result'[u] = result[u]
        BY <2>2, <2>4
      <3>2. QED
        BY <2>1, <3>1, TypeParts DEF Told, InStep, Transferring, local
    <2>5. QED
      BY <2>3, <2>4
  <1>3. QED
    BY <1>1, <1>2 DEF IInv, Contiguous

\* The same for a step that changes neither the place nor the answer.
LEMMA FlagsStep ==
  ASSUME IInv, UNCHANGED <<stream, taken, local, pc, result>>, Flags'
  PROVE  IInv'
  <1>1. TypeOK'
    BY DEF IInv, TypeOK, Flags, local, Unread, Peer, Ends
  <1>2. ASSUME NEW u \in Threads
        PROVE  Moved(u)' /\ Told(u)' /\ InStep(u)'
    BY TypeParts DEF Moved, Source, Told, InStep, Transferring, local
  <1>3. QED
    BY <1>1, <1>2 DEF IInv, Contiguous

LEMMA RaiseStep ==
  ASSUME IInv, NEW t \in Threads, NEW error \in Errors, Transferring(t), Raise(t, error)
  PROVE  IInv'
  <1>1. Flags'
    BY TypeParts DEF Raise, kernel, Flags
  <1>2. pc' = [pc EXCEPT ![t] = "idle"] /\ pc \in [Threads -> PCs]
    BY DEF Raise, IInv, TypeOK
  <1>3. ~Transferring(t)'
    BY <1>2 DEF Transferring
  <1>4. "idle" \in PCs /\ error \in {"none", "ok"} \cup Errors
    BY DEF PCs
  <1>5. UNCHANGED <<stream, taken, local>> /\ result' = [result EXCEPT ![t] = error]
    BY DEF Raise, kernel
  <1>6. QED
    BY <1>1, <1>2, <1>3, <1>4, <1>5, QuietStep

LEMMA GotoStep ==
  ASSUME IInv, NEW t \in Threads, NEW label \in PCs, Transferring(t), Goto(t, label)
  PROVE  IInv'
  <1>1. Flags'
    BY TypeParts DEF Goto, kernel, Flags
  <1>2. result \in [Threads -> {"none", "ok"} \cup Errors]
    BY DEF IInv, TypeOK
  <1>3. result' = [result EXCEPT ![t] = result[t]] /\ result[t] \in {"none", "ok"} \cup Errors
    BY <1>2 DEF Goto
  <1>4. UNCHANGED <<stream, taken, local>> /\ pc' = [pc EXCEPT ![t] = label]
    BY DEF Goto, kernel
  <1>5. QED
    BY <1>1, <1>3, <1>4, QuietStep

LEMMA DisconnectStep ==
  ASSUME IInv, NEW t \in Threads, Disconnect(t)
  PROVE  IInv'
  <1>1. Transferring(t) /\ "disconnected" \in Errors
    BY DEF Disconnect, Transferring, Errors
  <1>2. QED
    BY <1>1, RaiseStep DEF Disconnect

LEMMA TimeoutStep ==
  ASSUME IInv, NEW t \in Threads, Timeout(t)
  PROVE  IInv'
  <1>1. Transferring(t) /\ "timeout" \in Errors
    BY DEF Timeout, Transferring, Errors
  <1>2. QED
    BY <1>1, RaiseStep DEF Timeout

LEMMA WaitStep ==
  ASSUME IInv, NEW t \in Threads, Wait(t) \/ Again(t) \/ Wake(t)
  PROVE  IInv'
  <1>1. Transferring(t) /\ {"wait", "again", "loop"} \subseteq PCs
    BY DEF Wait, Again, Wake, Transferring, PCs
  <1>2. Goto(t, "wait") \/ Goto(t, "again") \/ Goto(t, "loop")
    BY DEF Wait, Again, Wake
  <1>3. QED
    BY <1>1, <1>2, GotoStep

LEMMA SelectStep ==
  ASSUME IInv, NEW t \in Threads, Select(t)
  PROVE  IInv'
  <1>1. Transferring(t) /\ "select" \in PCs /\ "escaped" \in Errors
    BY DEF Select, Transferring, PCs, Errors
  <1>2. Raise(t, "escaped") \/ Goto(t, "select")
    BY DEF Select
  <1>3. QED
    BY <1>1, <1>2, GotoStep, RaiseStep

LEMMA CloseStep ==
  ASSUME IInv, NEW t \in Threads, Close(t) \/ CloseDescriptor(t)
  PROVE  IInv'
  <1>1. Flags'
    <2>1. Flags
      BY TypeParts
    <2>2. shut' \in [Ends -> BOOLEAN] /\ closed' \in [Ends -> BOOLEAN]
      BY <2>1 DEF Close, CloseDescriptor, Flags
    <2>3. QED
      BY <2>1, <2>2 DEF Close, CloseDescriptor, Flags
  <1>2. /\ pc \in [Threads -> PCs]
        /\ result \in [Threads -> {"none", "ok"} \cup Errors]
    BY DEF IInv, TypeOK
  <1>3. PICK label \in {"closing", "idle"} : pc' = [pc EXCEPT ![t] = label]
    BY DEF Close, CloseDescriptor
  <1>4. label \in PCs /\ ~Transferring(t)'
    BY <1>2, <1>3 DEF Transferring, PCs
  <1>5. result' = [result EXCEPT ![t] = result[t]] /\ result[t] \in {"none", "ok"} \cup Errors
    BY <1>2 DEF Close, CloseDescriptor
  <1>6. UNCHANGED <<stream, taken, local>>
    BY DEF Close, CloseDescriptor
  <1>7. QED
    BY <1>1, <1>3, <1>4, <1>5, <1>6, QuietStep

LEMMA AssignTimeoutStep ==
  ASSUME IInv, NEW t \in Threads, AssignTimeout(t)
  PROVE  IInv'
  <1>1. \A value : SetMode(value) \in {"blocking", "timed", "nonblocking"}
    BY DEF SetMode
  <1>2. Flags'
    BY <1>1, TypeParts DEF AssignTimeout, Flags
  <1>3. QED
    BY <1>2, FlagsStep DEF AssignTimeout

LEMMA BreakStep ==
  ASSUME IInv, Reset \/ Lose
  PROVE  IInv'
  <1>1. Flags'
    BY DEF IInv, TypeOK, Flags, Reset, Lose
  <1>2. QED
    BY <1>1, FlagsStep DEF Reset, Lose

-----------------------------------------------------------------------------
(* Steps that move bytes.                                                  *)

\* The new buffer of a transfer: a receive has nothing in it.
LEMMA NewBufferFacts ==
  ASSUME IInv, NEW e \in Ends, NEW m \in Transfers, NEW length \in Nat
  PROVE  LET b == NewBuffer(e, m, length) IN
         /\ b \in Seq(Bytes) /\ Len(b) = length /\ DOMAIN b = 1..length
         /\ m = "receive" => \A i \in 1..length : b[i] = Blank
  <1> DEFINE b == NewBuffer(e, m, length)
  <1>1. calls[e]["send"] \in Nat
    BY DEF IInv, TypeOK, Transfers
  <1>2. b \in [1..length -> Bytes]
    BY <1>1 DEF NewBuffer, Bytes, Blank
  <1>3. b \in Seq(Bytes) /\ Len(b) = length
    BY <1>2
  <1>4. m = "receive" => \A i \in 1..length : b[i] = Blank
    BY DEF NewBuffer
  <1>5. QED
    BY <1>2, <1>3, <1>4

\* A transfer has moved nothing when it begins.
LEMMA BeginStep ==
  ASSUME IInv, NEW t \in Threads, Begin(t)
  PROVE  IInv'
  <1> DEFINE e == EndOf[t]
  <1>1. PICK m \in Roles[t] \cap Transfers, length \in Lengths, arg \in Optional(Sizes) :
          \/ Refuse(t)
          \/ \E n \in GetBufferSize(length, arg) : Enter(t, m, length, n)
    BY DEF Begin
  <1>2. UNCHANGED <<stream, taken>> /\ Flags'
    BY TypeParts DEF Begin, kernel, Flags
  <1>3. length \in Nat /\ pc[t] = "idle"
    BY SizesAssumption DEF Begin
  <1>4. CASE Refuse(t)
    <2>1. pc' = [pc EXCEPT ![t] = "idle"] /\ "idle" \in PCs
      BY <1>3, <1>4 DEF IInv, TypeOK, PCs, Refuse
    <2>2. ~Transferring(t)' /\ "range" \in {"none", "ok"} \cup Errors
      BY <1>3, <1>4 DEF Transferring, Errors, Refuse
    <2>3. QED
      BY <1>2, <1>4, <2>1, <2>2, QuietStep DEF Refuse
  <1>5. ASSUME NEW n \in GetBufferSize(length, arg), Enter(t, m, length, n)
        PROVE  IInv'
    <2>1. n \in 0..length
      BY <1>3, BufferSizeFacts
    <2>2. e \in Ends /\ Peer(e) \in Ends
      BY TypeParts
    <2> DEFINE b == NewBuffer(e, m, length)
    <2>3. /\ b \in Seq(Bytes) /\ Len(b) = length /\ DOMAIN b = 1..length
          /\ m = "receive" => \A i \in 1..length : b[i] = Blank
      BY <1>3, <2>2, NewBufferFacts
    <2> HIDE DEF b
    <2>4. /\ taken[e] \in Nat /\ Len(stream[e]) \in Nat
          /\ taken[e] <= Len(stream[Peer(e)]) /\ Len(stream[Peer(e)]) \in Nat
      BY <2>2, LenProperties DEF IInv, TypeOK, Unread
    <2>5. TypeOK'
      <3>1. buffer' \in [Threads -> Seq(Bytes)]
        BY <1>5, <2>3 DEF IInv, TypeOK, Enter, b
      <3>2. /\ pc' \in [Threads -> PCs]
            /\ result' \in [Threads -> {"none", "ok"} \cup Errors]
        BY <1>5 DEF IInv, TypeOK, PCs, Enter
      <3>3. /\ op' \in [Threads -> Transfers \cup {"none"}]
            /\ size' \in [Threads -> Nat] /\ pos' \in [Threads -> Nat]
        BY <1>5, <2>1, <1>3 DEF IInv, TypeOK, Enter
      <3>4. origin' \in [Threads -> Nat]
        BY <1>5, <2>4 DEF IInv, TypeOK, Enter
      <3>5. calls' \in [Ends -> [Transfers -> Nat]]
        <4>1. calls \in [Ends -> [Transfers -> Nat]] /\ m \in Transfers
          BY DEF IInv, TypeOK
        <4>2. calls[e] \in [Transfers -> Nat] /\ calls[e][m] + 1 \in Nat
          BY <2>2, <4>1
        <4>3. calls' = [calls EXCEPT ![e] = [calls[e] EXCEPT ![m] = calls[e][m] + 1]]
          BY <1>5, <4>1, <4>2 DEF Enter
        <4>4. QED
          BY <2>2, <4>1, <4>2, <4>3
      <3>6. QED
        BY <1>2, <3>1, <3>2, <3>3, <3>4, <3>5 DEF IInv, TypeOK, Flags, Unread, Peer, Ends
    <2>6. ASSUME NEW u \in Threads
          PROVE  Moved(u)' /\ Told(u)' /\ InStep(u)'
      <3>1. CASE u = t
        <4>1. /\ op'[u] = m /\ size'[u] = n /\ pos'[u] = 0 /\ buffer'[u] = b
              /\ origin'[u] = IF m = "send" THEN Len(stream[e]) ELSE taken[e]
              /\ pc'[u] = IF n = 0 THEN "idle" ELSE "loop"
              /\ result'[u] = IF n = 0 THEN "ok" ELSE "none"
          BY <3>1, <1>5 DEF IInv, TypeOK, Enter, b
        <4>2. Source(u)' = IF m = "send" THEN e ELSE Peer(e)
          BY <4>1, <3>1 DEF Source
        <4>3. m \in {"send", "receive"}
          BY DEF Transfers
        <4>4. Moved(u)'
          BY <4>1, <4>2, <4>3, <2>1, <2>3, <2>4, <1>2, <1>3 DEF Moved
        <4>5. Told(u)'
          BY <4>1, <2>1 DEF Told, Errors
        <4>6. InStep(u)'
          BY <4>1, <4>3, <2>1, <2>4, <1>2, <1>3, <3>1 DEF InStep, Transferring
        <4>7. QED
          BY <4>4, <4>5, <4>6
      <3>2. CASE u # t
        <4>1. /\ op'[u] = op[u] /\ size'[u] = size[u] /\ pos'[u] = pos[u]
              /\ buffer'[u] = buffer[u] /\ origin'[u] = origin[u]
              /\ pc'[u] = pc[u] /\ result'[u] = result[u]
          BY <3>2, <1>5 DEF IInv, TypeOK, Enter
        <4>2. QED
          BY <4>1, <1>2, TypeParts DEF Moved, Source, Told, InStep, Transferring
      <3>3. QED
        BY <3>1, <3>2
    <2>7. QED
      BY <2>5, <2>6 DEF IInv, Contiguous
  <1>6. QED
    BY <1>1, <1>4, <1>5

\* What one turn of a loop leaves in the variables of its thread.
LEMMA AdvanceFacts ==
  ASSUME IInv, NEW t \in Threads, pc[t] = "loop",
         NEW n \in 1..(size[t] - pos[t]), Advance(t, n)
  PROVE  /\ pos' \in [Threads -> Nat] /\ pc' \in [Threads -> PCs]
         /\ result' \in [Threads -> {"none", "ok"} \cup Errors]
         /\ pos'[t] = pos[t] + n /\ pos'[t] <= size[t]
         /\ result'[t] = IF pos'[t] = size[t] THEN "ok" ELSE "none"
         /\ pc'[t] = IF pos'[t] = size[t] THEN "idle" ELSE "loop"
         /\ \A u \in Threads : u # t =>
              pos'[u] = pos[u] /\ pc'[u] = pc[u] /\ result'[u] = result[u]
         /\ UNCHANGED <<op, size, origin, calls, failed, keep_open>>
  <1>1. /\ pos \in [Threads -> Nat] /\ pc \in [Threads -> PCs]
        /\ result \in [Threads -> {"none", "ok"} \cup Errors]
        /\ size[t] \in Nat /\ pos[t] \in Nat
    BY DEF IInv, TypeOK
  <1>2. pos[t] + n \in Nat /\ {"idle", "loop"} \subseteq PCs /\ pos[t] + n <= size[t]
    BY <1>1 DEF PCs
  <1>3. QED
    BY <1>1, <1>2 DEF Advance

LEMMA SendChunkStep ==
  ASSUME IInv, NEW t \in Threads, SendChunk(t)
  PROVE  IInv'
  <1>1. PICK e \in Ends, s \in Seq(Bytes), b \in Seq(Bytes), o \in Nat, k \in Nat, z \in Nat :
          /\ e = EndOf[t] /\ s = stream[e] /\ b = buffer[t]
          /\ o = origin[t] /\ k = pos[t] /\ z = size[t]
    <2>1. /\ EndOf[t] \in Ends /\ buffer[t] \in Seq(Bytes)
          /\ origin[t] \in Nat /\ pos[t] \in Nat /\ size[t] \in Nat
      BY TypeParts
    <2>2. stream[EndOf[t]] \in Seq(Bytes)
      BY TypeParts DEF IInv, TypeOK
    <2>3. QED
      BY <2>1, <2>2
  <1>2. /\ pc[t] = "loop" /\ op[t] = "send" /\ Source(t) = e
        /\ UNCHANGED <<taken, shut, closed, broken, mode, buffer>>
    BY <1>1 DEF SendChunk, Source
  <1>3. PICK n \in 1..(z - k) :
          /\ n <= Room(e)
          /\ stream' = [stream EXCEPT ![e] = Extend(s, b, k, n)]
          /\ Advance(t, n)
    BY <1>1 DEF SendChunk
  <1>4. /\ z <= Len(b) /\ o + k = Len(s) /\ \A i \in 1..k : b[i] = s[o + i]
        /\ op[t] \in Roles[t] \cap Transfers
    BY <1>1, <1>2, TypeParts DEF Moved, InStep, Transferring
  <1>5. n \in 1..(Len(b) - k) /\ n \in 1..(size[t] - pos[t])
    BY <1>1, <1>3, <1>4, LenProperties
  <1> DEFINE r == Extend(s, b, k, n)
  <1>6. /\ r \in Seq(Bytes) /\ Len(r) = Len(s) + n
        /\ \A i \in 1..Len(s) : r[i] = s[i]
    BY <1>5, ExtendFacts
  <1>7. \A i \in 1..(k + n) : b[i] = r[o + i]
    BY <1>4, <1>5, SentFacts
  <1> HIDE DEF r
  <1>8. /\ stream' \in [Ends -> Seq(Bytes)] /\ stream'[e] = r
        /\ \A d \in Ends : d # e => stream'[d] = stream[d]
    BY <1>3, <1>6 DEF IInv, TypeOK, r
  <1>9. /\ pos'[t] = k + n /\ k + n <= z
        /\ result'[t] = IF k + n = z THEN "ok" ELSE "none"
        /\ pc'[t] = IF k + n = z THEN "idle" ELSE "loop"
    <2>1. /\ pos'[t] = pos[t] + n /\ pos'[t] <= size[t]
          /\ result'[t] = IF pos'[t] = size[t] THEN "ok" ELSE "none"
          /\ pc'[t] = IF pos'[t] = size[t] THEN "idle" ELSE "loop"
      BY <1>2, <1>3, <1>5, AdvanceFacts
    <2>2. QED
      BY <1>1, <2>1
  <1>10. /\ \A u \in Threads : u # t =>
              pos'[u] = pos[u] /\ pc'[u] = pc[u] /\ result'[u] = result[u]
         /\ UNCHANGED <<op, size, origin, calls, failed, keep_open>>
    BY <1>2, <1>3, <1>5, AdvanceFacts
  <1>11. TypeOK'
    <2>1. ASSUME NEW d \in Ends PROVE Unread(d)' \in 0..Capacity
      <3>1. Unread(d) \in 0..Capacity /\ taken[d] \in Nat /\ taken'[d] = taken[d]
        BY <1>2 DEF IInv, TypeOK
      <3>2. CASE Peer(d) = e
        <4>1. d = Peer(e)
          BY <3>2 DEF Peer, Ends
        <4>2. Unread(d) = Len(s) - taken[d] /\ Unread(d)' = Len(r) - taken[d]
          BY <1>1, <1>8, <3>1, <3>2 DEF Unread
        <4>3. QED
          BY <1>3, <1>6, <3>1, <4>1, <4>2, LenProperties, SizesAssumption DEF Room
      <3>3. CASE Peer(d) # e
        <4>1. stream'[Peer(d)] = stream[Peer(d)]
          BY <1>8, <3>3 DEF Peer, Ends
        <4>2. QED
          BY <3>1, <4>1 DEF Unread
      <3>4. QED
        BY <3>2, <3>3
    <2>2. /\ pos' \in [Threads -> Nat] /\ pc' \in [Threads -> PCs]
          /\ result' \in [Threads -> {"none", "ok"} \cup Errors]
      BY <1>2, <1>3, <1>5, AdvanceFacts
    <2>3. QED
      BY <1>2, <1>8, <1>10, <2>1, <2>2 DEF IInv, TypeOK
  <1>12. ASSUME NEW u \in Threads
         PROVE  Moved(u)' /\ Told(u)' /\ InStep(u)'
    <2>1. Source(u)' = Source(u) /\ Source(u) \in Ends
      BY <1>10, TypeParts DEF Source
    <2>2. CASE u = t
      <3>1. /\ op'[t] = "send" /\ size'[t] = z /\ origin'[t] = o /\ buffer'[t] = b
            /\ Source(t)' = e /\ stream'[Source(t)'] = r
        BY <1>1, <1>2, <1>8, <1>10, <2>1, <2>2
      <3>2. o + (k + n) = Len(r) /\ k + n \in Nat
        BY <1>4, <1>6
      <3>3. Moved(t)'
        BY <1>4, <1>7, <1>9, <3>1, <3>2 DEF Moved
      <3>4. Told(t)'
        BY <1>9, <3>1 DEF Told, Errors
      <3>5. InStep(t)'
        <4>1. CASE k + n = z
          BY <1>9, <4>1 DEF InStep, Transferring
        <4>2. CASE k + n # z
          <5>1. pos'[t] < size'[t] /\ result'[t] = "none"
            BY <1>9, <3>1, <4>2
          <5>2. Len(stream'[EndOf[t]]) = o + (k + n)
            BY <1>1, <1>8, <3>2
          <5>3. op'[t] \in Roles[t] \cap Transfers /\ op'[t] = "send"
            BY <1>4, <1>10, <3>1
          <5>4. origin'[t] + pos'[t] = Len(stream'[EndOf[t]])
            BY <1>9, <3>1, <5>2
          <5>5. QED
            BY <5>1, <5>3, <5>4 DEF InStep
        <4>3. QED
          BY <4>1, <4>2
      <3>6. QED
        BY <2>2, <3>3, <3>4, <3>5
    <2>3. CASE u # t
      <3>1. /\ pos'[u] = pos[u] /\ size'[u] = size[u] /\ origin'[u] = origin[u]
            /\ buffer'[u] = buffer[u] /\ op'[u] = op[u] /\ pc'[u] = pc[u]
            /\ result'[u] = result[u]
        BY <1>2, <1>10, <2>3
      <3>2. Moved(u)'
        <4>1. PICK q \in Seq(Bytes), j \in Nat, m \in Nat :
                q = stream[Source(u)] /\ j = origin[u] /\ m = pos[u]
          BY <2>1, TypeParts DEF IInv, TypeOK
        <4>2. PICK v \in Seq(Bytes) :
                /\ v = stream'[Source(u)] /\ Len(q) <= Len(v)
                /\ \A i \in 1..Len(q) : v[i] = q[i]
          <5>1. CASE Source(u) = e
            <6>1. q = s /\ stream'[Source(u)] = r
              BY <1>1, <1>8, <4>1, <5>1
            <6>2. Len(s) <= Len(r)
              BY <1>6, LenProperties
            <6>3. QED
              BY <1>6, <6>1, <6>2
          <5>2. CASE Source(u) # e
            BY <1>8, <2>1, <4>1, <5>2, LenProperties
          <5>3. QED
            BY <5>1, <5>2
        <4>3. Moved(u)
          BY TypeParts
        <4>4. j + m <= Len(q) /\ \A i \in 1..m : buffer[u][i] = q[j + i]
          BY <4>1, <4>3 DEF Moved
        <4>5. \A i \in 1..m : buffer[u][i] = v[j + i]
          BY <4>2, <4>4, LenProperties
        <4>6. j + m <= Len(v)
          BY <4>2, <4>4, LenProperties
        <4>7. QED
          BY <2>1, <3>1, <4>1, <4>2, <4>3, <4>5, <4>6 DEF Moved
      <3>3. Told(u)'
        BY <3>1, TypeParts DEF Told
      <3>4. InStep(u)'
        <4>1. SUFFICES ASSUME Transferring(u)' PROVE InStep(u)'
          BY DEF InStep
        <4>2. Transferring(u) /\ InStep(u)
          BY <3>1, <4>1, TypeParts DEF Transferring
        <4>3. op[u] = "send" => EndOf[u] # e
          BY <1>1, <1>2, <1>4, <2>3, <4>2, SingleAssumption DEF InStep
        <4>4. op[u] = "send" => stream'[EndOf[u]] = stream[EndOf[u]]
          BY <1>8, <4>3, TypeParts
        <4>5. QED
          BY <1>2, <3>1, <4>2, <4>4 DEF InStep
      <3>5. QED
        BY <3>2, <3>3, <3>4
    <2>4. QED
      BY <2>2, <2>3
  <1>13. QED
    BY <1>11, <1>12 DEF IInv, Contiguous

LEMMA ReceiveChunkStep ==
  ASSUME IInv, NEW t \in Threads, ReceiveChunk(t)
  PROVE  IInv'
  <1>1. PICK e \in Ends, s \in Seq(Bytes), b \in Seq(Bytes), o \in Nat, k \in Nat,
             z \in Nat, a \in Nat :
          /\ e = EndOf[t] /\ s = stream[Peer(e)] /\ b = buffer[t]
          /\ o = origin[t] /\ k = pos[t] /\ z = size[t] /\ a = taken[e]
    <2>1. /\ EndOf[t] \in Ends /\ buffer[t] \in Seq(Bytes)
          /\ origin[t] \in Nat /\ pos[t] \in Nat /\ size[t] \in Nat
      BY TypeParts
    <2>2. stream[Peer(EndOf[t])] \in Seq(Bytes) /\ taken[EndOf[t]] \in Nat
      BY TypeParts DEF IInv, TypeOK
    <2>3. QED
      BY <2>1, <2>2
  <1>2. /\ pc[t] = "loop" /\ op[t] = "receive" /\ Source(t) = Peer(e)
        /\ UNCHANGED <<stream, shut, closed, broken, mode>>
    BY <1>1 DEF ReceiveChunk, Source
  <1>3. PICK n \in 1..Wanted(t) :
          /\ n <= Unread(e)
          /\ buffer' = [buffer EXCEPT ![t] = Store(b, k, n, s, a)]
          /\ taken' = [taken EXCEPT ![e] = a + n]
          /\ Advance(t, n)
    BY <1>1 DEF ReceiveChunk
  <1>4. Wanted(t) \in Int /\ Wanted(t) <= z - k
    <2>1. z - k \in Int /\ RECEIVE_BUFFER_SIZE \in Int
      BY SizesAssumption
    <2>2. Wanted(t) = Min({z - k, RECEIVE_BUFFER_SIZE})
      BY <1>1 DEF Wanted
    <2>3. QED
      BY <2>1, <2>2, MinOfTwo
  <1>5. n \in 1..(z - k) /\ n \in 1..(size[t] - pos[t])
    BY <1>1, <1>3, <1>4
  <1>6. /\ z <= Len(b) /\ o + k = a /\ \A i \in 1..k : b[i] = s[o + i]
        /\ \A i \in 1..Len(b) : i > k => b[i] = Blank
        /\ op[t] \in Roles[t] \cap Transfers
    <2>1. Moved(t) /\ InStep(t)
      BY TypeParts
    <2>2. /\ z <= Len(b) /\ o + k = a /\ \A i \in 1..k : b[i] = s[o + i]
          /\ op[t] \in Roles[t] \cap Transfers
      BY <1>1, <1>2, <2>1 DEF Moved, InStep, Transferring
    <2>3. DOMAIN b = 1..Len(b)
      BY LenProperties
    <2>4. \A i \in 1..Len(b) : i > k => b[i] = Blank
      BY <1>1, <1>2, <2>1, <2>3 DEF Moved
    <2>5. QED
      BY <2>2, <2>4
  <1>7. Unread(e) = Len(s) - a /\ Unread(e) \in 0..Capacity /\ a + n <= Len(s)
    <2>1. Unread(e) = Len(s) - a /\ Unread(e) \in 0..Capacity
      BY <1>1 DEF Unread, IInv, TypeOK
    <2>2. QED
      BY <1>3, <1>5, <2>1, LenProperties
  <1> DEFINE r == Store(b, k, n, s, a)
  <1>8. /\ r \in Seq(Bytes) /\ Len(r) = Len(b)
        /\ \A i \in 1..Len(b) :
             r[i] = IF i \in (k + 1)..(k + n) THEN s[a + i - k] ELSE b[i]
    <2>1. n \in Nat /\ k + n <= Len(b) /\ a + n <= Len(s)
      BY <1>5, <1>6, <1>7, LenProperties
    <2>2. r \in Seq(Bytes) /\ Len(r) = Len(b)
      BY <2>1, StoreFacts
    <2>3. \A i \in 1..Len(b) :
            r[i] = IF i \in (k + 1)..(k + n) THEN s[a + i - k] ELSE b[i]
      BY StoredByte
    <2>4. QED
      BY <2>2, <2>3
  <1>9. /\ \A i \in 1..(k + n) : r[i] = s[o + i]
        /\ \A i \in 1..Len(r) : i > k + n => r[i] = Blank
    <2>1. ASSUME NEW i \in 1..(k + n)
          PROVE  r[i] = s[o + i]
      <3>1. i \in 1..Len(b)
        BY <1>5, <1>6, LenProperties
      <3>2. CASE i <= k
        <4>1. i \in 1..k /\ i \notin (k + 1)..(k + n)
          BY <3>2
        <4>2. QED
          BY <1>6, <1>8, <3>1, <4>1
      <3>3. CASE i > k
        <4>1. i \in (k + 1)..(k + n) /\ a + i - k = o + i
          BY <1>6, <3>3
        <4>2. QED
          BY <1>8, <3>1, <4>1
      <3>4. QED
        BY <3>2, <3>3
    <2>2. ASSUME NEW i \in 1..Len(r), i > k + n
          PROVE  r[i] = Blank
      <3>1. i \in 1..Len(b) /\ i > k /\ i \notin (k + 1)..(k + n)
        BY <1>5, <1>8, <2>2, LenProperties
      <3>2. QED
        BY <1>6, <1>8, <3>1
    <2>3. QED
      BY <2>1, <2>2
  <1> HIDE DEF r
  <1>10. /\ buffer' \in [Threads -> Seq(Bytes)] /\ buffer'[t] = r
         /\ \A u \in Threads : u # t => buffer'[u] = buffer[u]
    BY <1>3, <1>8 DEF IInv, TypeOK, r
  <1>11. /\ taken' \in [Ends -> Nat] /\ taken'[e] = a + n
         /\ \A d \in Ends : d # e => taken'[d] = taken[d]
    BY <1>3, <1>5 DEF IInv, TypeOK
  <1>12. /\ pos'[t] = k + n /\ k + n <= z
         /\ result'[t] = IF k + n = z THEN "ok" ELSE "none"
         /\ pc'[t] = IF k + n = z THEN "idle" ELSE "loop"
    <2>1. /\ pos'[t] = pos[t] + n /\ pos'[t] <= size[t]
          /\ result'[t] = IF pos'[t] = size[t] THEN "ok" ELSE "none"
          /\ pc'[t] = IF pos'[t] = size[t] THEN "idle" ELSE "loop"
      BY <1>2, <1>3, <1>5, AdvanceFacts
    <2>2. QED
      BY <1>1, <2>1
  <1>13. /\ \A u \in Threads : u # t =>
              pos'[u] = pos[u] /\ pc'[u] = pc[u] /\ result'[u] = result[u]
         /\ UNCHANGED <<op, size, origin, calls, failed, keep_open>>
    BY <1>2, <1>3, <1>5, AdvanceFacts
  <1>14. TypeOK'
    <2>1. ASSUME NEW d \in Ends PROVE Unread(d)' \in 0..Capacity
      <3>1. CASE d = e
        <4>1. Unread(d)' = Len(s) - (a + n)
          BY <1>1, <1>2, <1>11, <3>1 DEF Unread
        <4>2. QED
          BY <1>5, <1>7, <4>1, LenProperties, SizesAssumption
      <3>2. CASE d # e
        BY <1>2, <1>11, <3>2 DEF Unread, IInv, TypeOK
      <3>3. QED
        BY <3>1, <3>2
    <2>2. /\ pos' \in [Threads -> Nat] /\ pc' \in [Threads -> PCs]
          /\ result' \in [Threads -> {"none", "ok"} \cup Errors]
      BY <1>2, <1>3, <1>5, AdvanceFacts
    <2>3. QED
      BY <1>2, <1>10, <1>11, <1>13, <2>1, <2>2 DEF IInv, TypeOK
  <1>15. ASSUME NEW u \in Threads
         PROVE  Moved(u)' /\ Told(u)' /\ InStep(u)'
    <2>1. Source(u)' = Source(u) /\ Source(u) \in Ends
      BY <1>13, TypeParts DEF Source
    <2>2. CASE u = t
      <3>1. /\ op'[t] = "receive" /\ size'[t] = z /\ origin'[t] = o /\ buffer'[t] = r
            /\ stream'[Source(t)'] = s
        BY <1>1, <1>2, <1>10, <1>13, <2>1, <2>2
      <3>2. o + (k + n) = a + n /\ a + n <= Len(s) /\ k + n \in Nat
        BY <1>5, <1>6, <1>7
      <3>3. DOMAIN r = 1..Len(r)
        BY <1>8, LenProperties
      <3>4. Moved(t)'
        BY <1>6, <1>8, <1>9, <1>12, <3>1, <3>2, <3>3 DEF Moved
      <3>5. Told(t)'
        BY <1>12, <3>1 DEF Told, Errors
      <3>6. InStep(t)'
        <4>1. CASE k + n = z
          BY <1>12, <4>1 DEF InStep, Transferring
        <4>2. CASE k + n # z
          <5>1. pos'[t] < size'[t] /\ result'[t] = "none"
            BY <1>5, <1>12, <3>1, <4>2, SMTT(20)
          <5>2. taken'[EndOf[t]] = o + (k + n)
            BY <1>1, <1>11, <3>2
          <5>3. op'[t] \in Roles[t] \cap Transfers /\ op'[t] # "send"
            BY <1>6, <1>13, <3>1
          <5>4. origin'[t] + pos'[t] = taken'[EndOf[t]]
            BY <1>12, <3>1, <5>2
          <5>5. QED
            BY <5>1, <5>3, <5>4 DEF InStep
        <4>3. QED
          BY <4>1, <4>2
      <3>7. QED
        BY <2>2, <3>4, <3>5, <3>6
    <2>3. CASE u # t
      <3>1. /\ pos'[u] = pos[u] /\ size'[u] = size[u] /\ origin'[u] = origin[u]
            /\ buffer'[u] = buffer[u] /\ op'[u] = op[u] /\ pc'[u] = pc[u]
            /\ result'[u] = result[u]
        BY <1>10, <1>13, <2>3
      <3>2. Moved(u)' /\ Told(u)'
        BY <1>2, <2>1, <3>1, TypeParts DEF Moved, Told
      <3>3. InStep(u)'
        <4>1. SUFFICES ASSUME Transferring(u)' PROVE InStep(u)'
          BY DEF InStep
        <4>2. Transferring(u) /\ InStep(u)
          BY <3>1, <4>1, TypeParts DEF Transferring
        <4>3. op[u] # "send" => EndOf[u] # e
          BY <1>1, <1>2, <1>6, <2>3, <4>2, SingleAssumption DEF InStep, Transfers
        <4>4. op[u] # "send" => taken'[EndOf[u]] = taken[EndOf[u]]
          BY <1>11, <4>3, TypeParts
        <4>5. QED
          BY <1>2, <3>1, <4>2, <4>4 DEF InStep
      <3>4. QED
        BY <3>2, <3>3
    <2>4. QED
      BY <2>2, <2>3
  <1>16. QED
    BY <1>14, <1>15 DEF IInv, Contiguous

-----------------------------------------------------------------------------
(* The theorems.                                                           *)

LEMMA InitHolds == Init => IInv
  <1> SUFFICES ASSUME Init PROVE IInv
    OBVIOUS
  <1>1. Len(<<>>) = 0 /\ <<>> \in Seq(Bytes)
    OBVIOUS
  <1>2. TypeOK
    <2>1. ASSUME NEW e \in Ends PROVE Unread(e) = 0
      <3>1. Peer(e) \in Ends
        BY DEF Peer, Ends
      <3>2. QED
        BY <1>1, <3>1 DEF Init, Unread
    <2>2. stream \in [Ends -> Seq(Bytes)] /\ buffer \in [Threads -> Seq(Bytes)]
      BY <1>1 DEF Init
    <2>3. mode \in [Ends -> {"blocking", "timed", "nonblocking"}]
      BY SizesAssumption DEF Init
    <2>4. calls \in [Ends -> [Transfers -> Nat]]
      BY DEF Init
    <2>5. 0 \in 0..Capacity
      BY SizesAssumption
    <2>6. QED
      BY <2>1, <2>2, <2>3, <2>4, <2>5 DEF Init, TypeOK, PCs
  <1>3. ASSUME NEW t \in Threads
        PROVE  Moved(t) /\ Told(t) /\ InStep(t)
    <2>1. /\ op[t] = "none" /\ size[t] = 0 /\ pos[t] = 0 /\ buffer[t] = <<>>
          /\ origin[t] = 0 /\ pc[t] = "idle" /\ result[t] = "none"
      BY DEF Init
    <2>2. Source(t) \in Ends
      BY RolesAssumption DEF Source, Peer, Ends
    <2>3. Moved(t)
      BY <1>1, <2>1, <2>2 DEF Moved, Init
    <2>4. QED
      BY <2>1, <2>3 DEF Told, InStep, Transferring, Errors
  <1>4. QED
    BY <1>2, <1>3 DEF IInv, Contiguous

LEMMA StepHolds == IInv /\ [Next]_vars => IInv'
  <1> SUFFICES ASSUME IInv, [Next]_vars PROVE IInv'
    OBVIOUS
  <1>1. CASE \E t \in Threads : Begin(t)
    BY <1>1, BeginStep
  <1>2. CASE \E t \in Threads : Close(t) \/ CloseDescriptor(t)
    BY <1>2, CloseStep
  <1>3. CASE \E t \in Threads : AssignTimeout(t)
    BY <1>3, AssignTimeoutStep
  <1>4. CASE \E t \in Threads : SendChunk(t)
    BY <1>4, SendChunkStep
  <1>5. CASE \E t \in Threads : ReceiveChunk(t)
    BY <1>5, ReceiveChunkStep
  <1>6. CASE \E t \in Threads : Disconnect(t)
    BY <1>6, DisconnectStep
  <1>7. CASE \E t \in Threads : Timeout(t)
    BY <1>7, TimeoutStep
  <1>8. CASE \E t \in Threads : Wait(t) \/ Again(t) \/ Wake(t)
    BY <1>8, WaitStep
  <1>9. CASE \E t \in Threads : Select(t)
    BY <1>9, SelectStep
  <1>10. CASE Reset \/ Lose
    BY <1>10, BreakStep
  <1>11. CASE UNCHANGED vars
    <2>1. Flags'
      BY <1>11 DEF IInv, TypeOK, Flags, vars, kernel
    <2>2. QED
      BY <1>11, <2>1, FlagsStep DEF vars, kernel
  <1>12. QED
    BY <1>1, <1>2, <1>3, <1>4, <1>5, <1>6, <1>7, <1>8, <1>9, <1>10, <1>11
    DEF Next, Step

\* Every thread is, in the middle of a transfer, exactly where the connection
\* is: the loops of socket_send and socket_receive lose no place across
\* chunks, EAGAIN, select and the steps of other threads.
THEOREM Inductive == Spec => []IInv
  <1>1. QED
    BY InitHolds, StepHolds, PTL DEF Spec

\* The types of the variables, among them that neither end receives what was
\* not sent and that the connection never holds more than it can.
THEOREM TypeCorrect == Spec => []TypeOK
  <1>1. IInv => TypeOK
    BY DEF IInv
  <1>2. QED
    BY <1>1, Inductive, PTL

\* What a transfer moved, however it ended, is a piece of the connection
\* without gap or repetition, and it returns exactly when that is all of it.
THEOREM BytesContiguous == Spec => []Contiguous
  <1>1. IInv => Contiguous
    BY DEF IInv
  <1>2. QED
    BY <1>1, Inductive, PTL

-----------------------------------------------------------------------------
(* Errors have a cause.                                                    *)

CInv ==
  /\ \A e \in Ends : closed[e] => shut[e]
  /\ \A t \in Threads : pc[t] = "closing" => shut[EndOf[t]]
  /\ \A t \in Threads : pc[t] = "again" => mode[EndOf[t]] = "nonblocking"
  /\ "nonblocking" \notin Modes =>
       OnlySocketErrors /\ \A e \in Ends : mode[e] # "nonblocking"
  /\ ErrorsHaveCause

LEMMA ControlTypes ==
  ASSUME IInv
  PROVE  /\ Flags /\ pc \in [Threads -> PCs]
         /\ result \in [Threads -> {"none", "ok"} \cup Errors]
         /\ \A t \in Threads : EndOf[t] \in Ends
  BY RolesAssumption DEF IInv, TypeOK, Flags

\* A step of one thread that changes neither the ends nor the connection.
LEMMA QuietCause ==
  ASSUME IInv, CInv, NEW t \in Threads, UNCHANGED <<shut, closed, broken, mode>>,
         NEW label \in PCs \ {"closing"}, NEW answer,
         pc' = [pc EXCEPT ![t] = label], result' = [result EXCEPT ![t] = answer],
         label = "again" => mode[EndOf[t]] = "nonblocking",
         \/ answer \in {"none", "ok", "range", result[t]}
         \/ answer = "disconnected" /\ (broken # "no" \/ \E e \in Ends : shut[e])
         \/ answer = "timeout" /\ (broken = "lost" \/ mode[EndOf[t]] = "timed")
         \/ /\ answer = "escaped" /\ mode[EndOf[t]] = "nonblocking"
            /\ closed[EndOf[t]] \/ EndOf[t] \in High
  PROVE  CInv'
  <1>1. pc \in [Threads -> PCs] /\ result \in [Threads -> {"none", "ok"} \cup Errors]
    BY ControlTypes
  <1>2. ErrorsHaveCause'
    <2>1. SUFFICES ASSUME NEW u \in Threads
                   PROVE  /\ result'[u] = "disconnected" =>
                               broken # "no" \/ \E e \in Ends : shut[e]
                          /\ result'[u] = "timeout" =>
                               broken = "lost" \/ mode[EndOf[u]] = "timed" \/ Adjusts(EndOf[u])
                          /\ result'[u] = "escaped" =>
                               /\ mode[EndOf[u]] = "nonblocking" \/ Adjusts(EndOf[u])
                               /\ closed[EndOf[u]] \/ EndOf[u] \in High
      BY DEF ErrorsHaveCause
    <2>2. CASE u = t
      BY <1>1, <2>2 DEF CInv, ErrorsHaveCause
    <2>3. CASE u # t
      BY <1>1, <2>3 DEF CInv, ErrorsHaveCause
    <2>4. QED
      BY <2>2, <2>3
  <1>3. \A u \in Threads : /\ pc'[u] = IF u = t THEN label ELSE pc[u]
                           /\ result'[u] = IF u = t THEN answer ELSE result[u]
    BY <1>1
  <1>4. "nonblocking" \notin Modes => OnlySocketErrors'
    BY <1>3, ControlTypes DEF CInv, OnlySocketErrors
  <1>5. QED
    BY <1>2, <1>3, <1>4 DEF CInv

LEMMA GotoCause ==
  ASSUME IInv, CInv, NEW t \in Threads, NEW label \in {"loop", "wait", "again", "select"},
         Goto(t, label), label = "again" => mode[EndOf[t]] = "nonblocking"
  PROVE  CInv'
  <1>1. result' = [result EXCEPT ![t] = result[t]]
    BY ControlTypes DEF Goto
  <1>2. label \in PCs \ {"closing"}
    BY DEF PCs
  <1>3. QED
    BY <1>1, <1>2, QuietCause DEF Goto, kernel

LEMMA RaiseCause ==
  ASSUME IInv, CInv, NEW t \in Threads, NEW answer, Raise(t, answer),
         \/ answer = "disconnected" /\ (broken # "no" \/ \E e \in Ends : shut[e])
         \/ answer = "timeout" /\ (broken = "lost" \/ mode[EndOf[t]] = "timed")
         \/ /\ answer = "escaped" /\ mode[EndOf[t]] = "nonblocking"
            /\ closed[EndOf[t]] \/ EndOf[t] \in High
  PROVE  CInv'
  <1>1. "idle" \in PCs \ {"closing"}
    BY DEF PCs
  <1>2. QED
    BY <1>1, QuietCause DEF Raise, kernel

\* A descriptor that is closed was shut down first; so Gone tells a shutdown or
\* a broken connection.
LEMMA GoneCause ==
  ASSUME IInv, CInv, NEW e \in Ends, NEW m, Gone(e, m)
  PROVE  broken # "no" \/ \E d \in Ends : shut[d]
  BY DEF Gone, AtEnd, CInv, Peer, Ends

LEMMA TransferCause ==
  ASSUME IInv, CInv, NEW t \in Threads,
         \/ Begin(t) \/ SendChunk(t) \/ ReceiveChunk(t) \/ Disconnect(t) \/ Wait(t)
         \/ Timeout(t) \/ Again(t) \/ Select(t) \/ Wake(t)
  PROVE  CInv'
  <1>1. /\ pc \in [Threads -> PCs] /\ result \in [Threads -> {"none", "ok"} \cup Errors]
        /\ EndOf[t] \in Ends
    BY ControlTypes
  <1>2. CASE Begin(t)
    <2>1. UNCHANGED kernel
      BY <1>2 DEF Begin
    <2>2. CASE Refuse(t)
      <3>1. pc' = [pc EXCEPT ![t] = "idle"] /\ "idle" \in PCs \ {"closing"}
        BY <1>1, <1>2, <2>2 DEF Begin, Refuse, PCs
      <3>2. QED
        BY <2>1, <2>2, <3>1, QuietCause DEF Refuse, kernel
    <2>3. CASE \E m \in Roles[t] \cap Transfers, length \in Lengths : \E n : Enter(t, m, length, n)
      <3>1. \E label \in {"idle", "loop"}, answer \in {"ok", "none"} :
              pc' = [pc EXCEPT ![t] = label] /\ result' = [result EXCEPT ![t] = answer]
        BY <2>3 DEF Enter
      <3>2. {"idle", "loop"} \subseteq PCs \ {"closing"}
        BY DEF PCs
      <3>3. QED
        BY <2>1, <3>1, <3>2, QuietCause DEF kernel
    <2>4. QED
      BY <1>2, <2>2, <2>3 DEF Begin
  <1>3. CASE SendChunk(t) \/ ReceiveChunk(t)
    <2>1. UNCHANGED <<shut, closed, broken, mode>> /\ \E n : Advance(t, n)
      BY <1>3 DEF SendChunk, ReceiveChunk
    <2>2. \E label \in {"idle", "loop"}, answer \in {"ok", "none"} :
            pc' = [pc EXCEPT ![t] = label] /\ result' = [result EXCEPT ![t] = answer]
      BY <2>1 DEF Advance
    <2>3. {"idle", "loop"} \subseteq PCs \ {"closing"}
      BY DEF PCs
    <2>4. QED
      BY <2>1, <2>2, <2>3, QuietCause
  <1>4. CASE Disconnect(t)
    BY <1>1, <1>4, GoneCause, RaiseCause DEF Disconnect
  <1>5. CASE Wait(t) \/ Wake(t)
    BY <1>5, GotoCause DEF Wait, Wake
  <1>6. CASE Timeout(t)
    BY <1>6, RaiseCause DEF Timeout
  <1>7. CASE Again(t)
    BY <1>7, GotoCause DEF Again
  <1>8. CASE Select(t)
    <2>1. mode[EndOf[t]] = "nonblocking"
      BY <1>8 DEF Select, CInv
    <2>2. QED
      BY <1>8, <2>1, GotoCause, RaiseCause DEF Select
  <1>9. QED
    BY <1>2, <1>3, <1>4, <1>5, <1>6, <1>7, <1>8

\* No value given to the attribute timeout makes a socket non-blocking.
LEMMA NeverNonblocking ==
  ASSUME NEW value \in Optional(Timeouts)
  PROVE  SetMode(NormalizeTimeout(value)) # "nonblocking"
  <1>1. 0 \notin NormalizeTimeout(value)
    BY DEF NormalizeTimeout
  <1>2. QED
    BY <1>1 DEF SetMode

LEMMA OtherCause ==
  ASSUME IInv, CInv,
         \/ \E t \in Threads : Close(t) \/ CloseDescriptor(t) \/ AssignTimeout(t)
         \/ Reset \/ Lose \/ UNCHANGED vars
  PROVE  CInv'
  <1>1. /\ pc \in [Threads -> PCs] /\ Flags
        /\ \A t \in Threads : EndOf[t] \in Ends
    BY ControlTypes
  <1>2. ASSUME NEW t \in Threads, Close(t) PROVE CInv'
    BY <1>1, <1>2 DEF Close, CInv, ErrorsHaveCause, OnlySocketErrors, Flags
  <1>3. ASSUME NEW t \in Threads, CloseDescriptor(t) PROVE CInv'
    BY <1>1, <1>3 DEF CloseDescriptor, CInv, ErrorsHaveCause, OnlySocketErrors, Flags
  <1>4. ASSUME NEW t \in Threads, AssignTimeout(t) PROVE CInv'
    <2>1. PICK value \in Optional(Timeouts) :
            mode' = [mode EXCEPT ![EndOf[t]] = SetMode(NormalizeTimeout(value))]
      BY <1>4 DEF AssignTimeout
    <2>2. SetMode(NormalizeTimeout(value)) # "nonblocking"
      BY NeverNonblocking
    <2>3. /\ "timeout" \in Roles[t] /\ ~closed[EndOf[t]]
          /\ \A u \in Threads : EndOf[u] = EndOf[t] => pc[u] \in {"idle", "closing"}
          /\ UNCHANGED <<shut, closed, broken, pc, result>>
      BY <1>4 DEF AssignTimeout
    <2>4. \A e \in Ends : mode'[e] = IF e = EndOf[t] THEN SetMode(NormalizeTimeout(value))
                                     ELSE mode[e]
      BY <1>1, <2>1 DEF Flags
    <2>5. \A u \in Threads : mode'[EndOf[u]] = mode[EndOf[u]] \/ Adjusts(EndOf[u])
      BY <1>1, <2>3, <2>4 DEF Adjusts
    <2>6. ErrorsHaveCause'
      BY <2>3, <2>5 DEF CInv, ErrorsHaveCause
    <2>7. OnlySocketErrors' = OnlySocketErrors
      BY <2>3 DEF OnlySocketErrors
    <2>8. QED
      BY <1>1, <2>2, <2>3, <2>4, <2>6, <2>7 DEF CInv
  <1>5. CASE Reset \/ Lose
    <2>1. /\ broken = "no" /\ broken' # "no"
          /\ UNCHANGED <<shut, closed, mode, pc, result>>
      BY <1>5 DEF Reset, Lose
    <2>2. ErrorsHaveCause' /\ OnlySocketErrors' = OnlySocketErrors
      BY <2>1 DEF CInv, ErrorsHaveCause, OnlySocketErrors
    <2>3. QED
      BY <2>1, <2>2 DEF CInv
  <1>6. CASE UNCHANGED vars
    BY <1>6 DEF vars, kernel, CInv, ErrorsHaveCause, OnlySocketErrors
  <1>7. QED
    BY <1>2, <1>3, <1>4, <1>5, <1>6

LEMMA CauseHolds == IInv /\ CInv /\ [Next]_vars => CInv'
  BY TransferCause, OtherCause DEF Next, Step

LEMMA InitCause == Init => CInv
  BY DEF Init, CInv, ErrorsHaveCause, OnlySocketErrors

\* A transfer raises for a reason: a disconnection once an end was shut down or
\* the connection is broken, a timeout where one is or was set or the network
\* lost the connection, and an error that is no SocketError only where the socket
\* is or was non-blocking, and was closed under the transfer or has a descriptor
\* select does not take.
THEOREM ErrorsCaused == Spec => []ErrorsHaveCause
  <1>1. IInv /\ CInv /\ [Next]_vars => IInv' /\ CInv'
    BY StepHolds, CauseHolds
  <1>2. CInv => ErrorsHaveCause
    BY DEF CInv
  <1>3. QED
    BY InitHolds, InitCause, <1>1, <1>2, PTL DEF Spec

\* On sockets that were not handed over non-blocking every exception of a
\* transfer is a SocketError, whatever is assigned to the attribute timeout.
THEOREM SocketErrorsOnly ==
  ASSUME "nonblocking" \notin Modes
  PROVE  Spec => []OnlySocketErrors
  <1>1. IInv /\ CInv /\ [Next]_vars => IInv' /\ CInv'
    BY StepHolds, CauseHolds
  <1>2. IInv /\ CInv => OnlySocketErrors
    BY ControlTypes DEF CInv, ErrorsHaveCause, OnlySocketErrors
  <1>3. QED
    BY InitHolds, InitCause, <1>1, <1>2, PTL DEF Spec

-----------------------------------------------------------------------------
(* Messages of n bytes.                                                    *)

\* Where the k-th message of n bytes ends.
Upto(k, n) == k * n

LEMMA UptoFacts ==
  ASSUME NEW n \in Nat
  PROVE  /\ Upto(0, n) = 0
         /\ \A k \in Nat : Upto(k, n) \in Nat /\ Upto(k + 1, n) = Upto(k, n) + n
         /\ \A k, l \in Nat : k < l => Upto(k, n) + n <= Upto(l, n)
         /\ \A k, l \in Nat, i, j \in 1..n :
              Upto(k, n) + i = Upto(l, n) + j => k = l /\ i = j
  <1>1. \A k \in Nat : Upto(k, n) \in Nat /\ Upto(k + 1, n) = Upto(k, n) + n
    BY DEF Upto
  <1>2. \A k, l \in Nat : k < l => Upto(k, n) + n <= Upto(l, n)
    <2>1. SUFFICES ASSUME NEW k \in Nat, NEW l \in Nat, k < l
                   PROVE  Upto(k, n) + n <= Upto(l, n)
      OBVIOUS
    <2>2. PICK d \in Nat : l = (k + 1) + d
      <3>1. l - (k + 1) \in Nat /\ l = (k + 1) + (l - (k + 1))
        BY <2>1
      <3>2. QED
        BY <3>1
    <2>3. l * n = (k + 1) * n + d * n
      BY <2>2
    <2>4. d * n \in Nat /\ (k + 1) * n = k * n + n /\ k * n \in Nat /\ l * n \in Nat
      BY <2>2
    <2>5. QED
      BY <2>3, <2>4 DEF Upto
  <1>3. ASSUME NEW k \in Nat, NEW l \in Nat, NEW i \in 1..n, NEW j \in 1..n,
               Upto(k, n) + i = Upto(l, n) + j
        PROVE  k = l /\ i = j
    <2>1. Upto(k, n) \in Nat /\ Upto(l, n) \in Nat
      BY <1>1
    <2>2. ~(k < l) /\ ~(l < k)
      BY <1>2, <1>3, <2>1
    <2>3. k = l
      BY <2>2
    <2>4. QED
      BY <1>3, <2>1, <2>3
  <1>4. Upto(0, n) = 0
    BY DEF Upto
  <1>5. QED
    BY <1>1, <1>2, <1>3, <1>4

Sent(t) == calls[EndOf[t]]["send"]
Received(t) == calls[EndOf[t]]["receive"]

\* The stream of the end e is cut into messages.
Cut(n, e) ==
  ~failed[e] =>
    \A k \in Nat, i \in 1..n :
      Upto(k, n) + i <= Len(stream[e]) => stream[e][Upto(k, n) + i] = [call |-> k + 1, at |-> i]

\* The thread t sends the messages of its end, one after the other, ...
Sends(n, t) ==
  "send" \in Roles[t] /\ ~failed[EndOf[t]] =>
    /\ op[t] = "send" =>
         /\ Sent(t) \in Nat \ {0} /\ origin[t] = Upto(Sent(t) - 1, n)
         /\ \A i \in 1..n : buffer[t][i] = [call |-> Sent(t), at |-> i]
    /\ ~(op[t] = "send" /\ Transferring(t)) => Len(stream[EndOf[t]]) = Upto(Sent(t), n)

\* ... or receives those of the other end.
Receives(n, t) ==
  "receive" \in Roles[t] /\ ~failed[Peer(EndOf[t])] =>
    /\ op[t] = "receive" =>
         Received(t) \in Nat \ {0} /\ origin[t] = Upto(Received(t) - 1, n)
    /\ ~(op[t] = "receive" /\ Transferring(t)) => taken[EndOf[t]] = Upto(Received(t), n)

Framing(n, t) ==
  /\ op[t] # "none" => size[t] = n /\ op[t] \in Roles[t]
  /\ Sends(n, t) /\ Receives(n, t)

FInv(n) == (\A e \in Ends : Cut(n, e)) /\ \A t \in Threads : Framing(n, t)

\* A thread of which nothing changes, nor of the directions it works on.
LEMMA FramingStays ==
  ASSUME NEW n, NEW t, Framing(n, t),
         op'[t] = op[t], size'[t] = size[t], origin'[t] = origin[t], buffer'[t] = buffer[t],
         Transferring(t)' = Transferring(t), \A e \in Ends : failed[e] => failed'[e],
         EndOf[t] \in Ends, Peer(EndOf[t]) \in Ends,
         "send" \in Roles[t] => Sent(t)' = Sent(t) /\ stream'[EndOf[t]] = stream[EndOf[t]],
         "receive" \in Roles[t] => Received(t)' = Received(t) /\ taken'[EndOf[t]] = taken[EndOf[t]]
  PROVE  Framing(n, t)'
  <1>1. Sends(n, t)'
    BY DEF Framing, Sends
  <1>2. Receives(n, t)'
    BY DEF Framing, Receives
  <1>3. QED
    BY <1>1, <1>2 DEF Framing

\* A step that moves no byte, and in which a transfer may raise.
LEMMA QuietFraming ==
  ASSUME NEW n, IInv, FInv(n), UNCHANGED <<stream, taken, local>>, NEW t \in Threads,
         \A u \in Threads : u # t => pc'[u] = pc[u],
         \/ Transferring(t)' = Transferring(t) /\ failed' = failed
         \/ Transferring(t) /\ failed' = [failed EXCEPT ![Source(t)] = TRUE]
  PROVE  FInv(n)'
  <1>1. Flags /\ \A u \in Threads : EndOf[u] \in Ends /\ Peer(EndOf[u]) \in Ends
    BY ControlTypes DEF Peer, Ends
  <1>2. \A e \in Ends : failed[e] => failed'[e]
    BY <1>1 DEF Flags
  <1>3. \A e \in Ends : Cut(n, e)'
    BY <1>2 DEF FInv, Cut
  <1>4. ASSUME NEW u \in Threads, Transferring(u)' = Transferring(u) PROVE Framing(n, u)'
    BY <1>1, <1>2, <1>4, FramingStays DEF FInv, local, Sent, Received
  <1>5. CASE Transferring(t)' = Transferring(t) /\ failed' = failed
    <2>1. \A u \in Threads : Transferring(u)' = Transferring(u)
      BY <1>5 DEF Transferring
    <2>2. QED
      BY <1>3, <1>4, <2>1 DEF FInv
  <1>6. CASE Transferring(t) /\ failed' = [failed EXCEPT ![Source(t)] = TRUE]
    <2>1. ASSUME NEW u \in Threads, u # t PROVE Framing(n, u)'
      BY <1>4, <2>1 DEF Transferring
    <2>2. Framing(n, t)'
      <3>1. failed'[Source(t)] /\ op[t] \in Transfers /\ Framing(n, t)
        BY <1>1, <1>6, TypeParts DEF Flags, InStep, FInv
      <3>2. CASE op[t] = "send"
        <4>1. failed'[EndOf[t]]
          BY <3>1, <3>2 DEF Source
        <4>2. Receives(n, t)'
          BY <1>1, <1>2, <3>1, <3>2 DEF Framing, Receives, local, Received
        <4>3. QED
          BY <3>1, <4>1, <4>2 DEF Framing, Sends, local
      <3>3. CASE op[t] = "receive"
        <4>1. failed'[Peer(EndOf[t])]
          BY <3>1, <3>3 DEF Source
        <4>2. Sends(n, t)'
          BY <1>1, <1>2, <3>1, <3>3 DEF Framing, Sends, local, Sent
        <4>3. QED
          BY <3>1, <4>1, <4>2 DEF Framing, Receives, local
      <3>4. QED
        BY <3>1, <3>2, <3>3 DEF Transfers
    <2>3. QED
      BY <1>3, <2>1, <2>2 DEF FInv
  <1>7. QED
    BY <1>5, <1>6

LEMMA BeginFraming ==
  ASSUME NEW n \in Nat, Lengths = {n}, Sizes = {}, IInv, FInv(n),
         NEW t \in Threads, Begin(t)
  PROVE  FInv(n)'
  <1> DEFINE e == EndOf[t]
  <1>1. /\ e \in Ends /\ Peer(e) \in Ends /\ Framing(n, t)
        /\ \A u \in Threads : EndOf[u] \in Ends /\ Peer(EndOf[u]) \in Ends
    BY ControlTypes DEF FInv, Peer, Ends
  <1>2. /\ pc[t] = "idle" /\ ~Transferring(t)
        /\ UNCHANGED <<stream, taken, failed>>
    BY DEF Begin, Transferring, kernel
  <1>3. PICK m \in Roles[t] \cap Transfers : Enter(t, m, n, n)
    <2>1. Optional(Sizes) = {{}}
      BY DEF Optional
    <2>2. GetBufferSize(n, {}) = {n}
      BY DEF GetBufferSize
    <2>3. QED
      BY <2>1, <2>2 DEF Begin
  <1>4. /\ op \in [Threads -> Transfers \cup {"none"}] /\ pc \in [Threads -> PCs]
        /\ size \in [Threads -> Nat] /\ origin \in [Threads -> Nat]
        /\ buffer \in [Threads -> Seq(Bytes)]
        /\ calls \in [Ends -> [Transfers -> Nat]]
        /\ stream \in [Ends -> Seq(Bytes)] /\ taken \in [Ends -> Nat]
    BY DEF IInv, TypeOK
  <1>5. /\ op'[t] = m /\ size'[t] = n /\ buffer'[t] = NewBuffer(e, m, n)
        /\ origin'[t] = IF m = "send" THEN Len(stream[e]) ELSE taken[e]
        /\ calls'[e][m] = calls[e][m] + 1 /\ calls[e][m] \in Nat
        /\ pc'[t] = IF n = 0 THEN "idle" ELSE "loop"
    BY <1>1, <1>3, <1>4 DEF Enter
  <1>6. \A d \in Ends, l \in Transfers : d # e \/ l # m => calls'[d][l] = calls[d][l]
    BY <1>1, <1>3, <1>4 DEF Enter
  <1>7. ASSUME NEW u \in Threads, u # t PROVE Framing(n, u)'
    <2>1. /\ op'[u] = op[u] /\ size'[u] = size[u] /\ origin'[u] = origin[u]
          /\ buffer'[u] = buffer[u] /\ Transferring(u)' = Transferring(u)
      BY <1>3, <1>4, <1>7 DEF Enter, Transferring
    <2>2. \A l \in Roles[u] \cap Transfers : calls'[EndOf[u]][l] = calls[EndOf[u]][l]
      <3>1. ASSUME NEW l \in Roles[u] \cap Transfers, EndOf[u] = e, l = m PROVE FALSE
        BY <1>3, <1>7, <3>1, SingleAssumption
      <3>2. QED
        BY <1>1, <1>6, <3>1
    <2>3. /\ "send" \in Roles[u] => Sent(u)' = Sent(u)
          /\ "receive" \in Roles[u] => Received(u)' = Received(u)
      BY <2>2 DEF Sent, Received, Transfers
    <2>4. QED
      BY <1>1, <1>2, <2>1, <2>3, FramingStays DEF FInv
  <1>8. ASSUME m = "send" PROVE Framing(n, t)'
    <2>1. Sent(t)' = Sent(t) + 1 /\ Sent(t) \in Nat /\ Received(t)' = Received(t)
      BY <1>1, <1>5, <1>6, <1>8 DEF Sent, Received, Transfers
    <2>2. \A i \in 1..n : buffer'[t][i] = [call |-> Sent(t)', at |-> i]
      BY <1>5, <1>8, <2>1 DEF NewBuffer, Sent
    <2>3. Sends(n, t)'
      <3>1. SUFFICES ASSUME ~failed[e]
                     PROVE  /\ origin'[t] = Upto(Sent(t)' - 1, n)
                            /\ ~Transferring(t)' => Len(stream'[e]) = Upto(Sent(t)', n)
        BY <1>2, <1>5, <1>8, <2>1, <2>2 DEF Sends
      <3>2. Len(stream[e]) = Upto(Sent(t), n)
        BY <1>1, <1>2, <1>3, <1>8, <3>1 DEF Framing, Sends
      <3>3. Sent(t)' - 1 = Sent(t)
        BY <2>1
      <3>4. ~Transferring(t)' => n = 0
        BY <1>5 DEF Transferring
      <3>5. n = 0 => Upto(Sent(t) + 1, n) = Upto(Sent(t), n)
        BY <2>1 DEF Upto
      <3>6. QED
        BY <1>2, <1>5, <1>8, <2>1, <3>2, <3>3, <3>4, <3>5
    <2>4. Receives(n, t)'
      BY <1>1, <1>2, <1>5, <1>8, <2>1 DEF Framing, Receives
    <2>5. QED
      BY <1>3, <1>5, <2>3, <2>4 DEF Framing
  <1>9. ASSUME m = "receive" PROVE Framing(n, t)'
    <2>1. Received(t)' = Received(t) + 1 /\ Received(t) \in Nat /\ Sent(t)' = Sent(t)
      BY <1>1, <1>5, <1>6, <1>9 DEF Sent, Received, Transfers
    <2>2. Receives(n, t)'
      <3>1. SUFFICES ASSUME ~failed[Peer(e)]
                     PROVE  /\ origin'[t] = Upto(Received(t)' - 1, n)
                            /\ ~Transferring(t)' => taken'[e] = Upto(Received(t)', n)
        BY <1>2, <1>5, <1>9, <2>1 DEF Receives
      <3>2. taken[e] = Upto(Received(t), n)
        BY <1>1, <1>2, <1>3, <1>9, <3>1 DEF Framing, Receives
      <3>3. Received(t)' - 1 = Received(t)
        BY <2>1
      <3>4. ~Transferring(t)' => n = 0
        BY <1>5 DEF Transferring
      <3>5. n = 0 => Upto(Received(t) + 1, n) = Upto(Received(t), n)
        BY <2>1 DEF Upto
      <3>6. QED
        BY <1>2, <1>5, <1>9, <2>1, <3>2, <3>3, <3>4, <3>5
    <2>3. Sends(n, t)'
      BY <1>1, <1>2, <1>5, <1>9, <2>1 DEF Framing, Sends
    <2>4. QED
      BY <1>3, <1>5, <2>2, <2>3 DEF Framing
  <1>10. \A d \in Ends : Cut(n, d)'
    BY <1>2 DEF FInv, Cut
  <1>11. QED
    BY <1>3, <1>7, <1>8, <1>9, <1>10 DEF FInv, Transfers

\* The bytes of a chunk continue the message that is being sent.
LEMMA SendFraming ==
  ASSUME NEW n \in Nat, IInv, FInv(n), NEW t \in Threads, SendChunk(t)
  PROVE  FInv(n)'
  <1> DEFINE e == EndOf[t]
  <1>0. PICK s \in Seq(Bytes), b \in Seq(Bytes), o \in Nat, k \in Nat :
          s = stream[e] /\ b = buffer[t] /\ o = origin[t] /\ k = pos[t]
    <2>1. stream \in [Ends -> Seq(Bytes)] /\ e \in Ends
      BY ControlTypes DEF IInv, TypeOK
    <2>2. QED
      BY <2>1, TypeParts
  <1>1. /\ pc[t] = "loop" /\ op[t] = "send" /\ Transferring(t)
        /\ UNCHANGED <<taken, buffer>>
    BY DEF SendChunk, Transferring
  <1>2. PICK c \in 1..(size[t] - k) :
          stream' = [stream EXCEPT ![e] = Extend(s, b, k, c)] /\ Advance(t, c)
    BY <1>0 DEF SendChunk
  <1>3. /\ e \in Ends /\ Framing(n, t) /\ "send" \in Roles[t]
        /\ size[t] = n /\ Len(b) \in Nat /\ Len(s) \in Nat
        /\ n <= Len(b) /\ o + k = Len(s)
        /\ stream \in [Ends -> Seq(Bytes)]
    <2>1. stream \in [Ends -> Seq(Bytes)]
      BY DEF IInv, TypeOK
    <2>2. e \in Ends
      BY ControlTypes
    <2>3. QED
      BY <1>0, <1>1, <2>1, <2>2, TypeParts, LenProperties DEF FInv, Framing, InStep, Moved
  <1>4. c \in 1..(Len(b) - k) /\ c \in Nat /\ k + c <= n
    BY <1>2, <1>3
  <1> DEFINE r == Extend(s, b, k, c)
  <1>5. /\ r \in Seq(Bytes) /\ Len(r) = Len(s) + c
        /\ \A i \in 1..Len(s) : r[i] = s[i]
        /\ \A i \in 1..c : r[Len(s) + i] = b[k + i]
    <2>1. k + c <= Len(b)
      BY <1>4
    <2>2. r \in Seq(Bytes) /\ Len(r) = Len(s) + c
      BY <1>4, <2>1, ExtendFacts
    <2>3. \A i \in 1..Len(s) : r[i] = s[i]
      BY <1>4, <2>1, ExtendFacts
    <2>4. \A i \in 1..c : r[Len(s) + i] = b[k + i]
      BY <1>4, <2>1, ExtendFacts
    <2>5. QED
      BY <2>2, <2>3, <2>4
  <1>6. stream'[e] = r /\ \A d \in Ends : d # e => stream'[d] = stream[d]
    BY <1>2, <1>3
  <1> HIDE DEF r
  <1>7. /\ pos'[t] = k + c /\ pc'[t] = IF pos'[t] = size[t] THEN "idle" ELSE "loop"
        /\ \A u \in Threads : u # t => pc'[u] = pc[u]
        /\ UNCHANGED <<op, size, origin, calls, failed>>
    BY <1>0, <1>1, <1>2, AdvanceFacts
  <1>8. Cut(n, e)'
    <2>1. SUFFICES ASSUME ~failed[e], NEW l \in Nat, NEW i \in 1..n,
                          Upto(l, n) + i <= Len(r)
                   PROVE  r[Upto(l, n) + i] = [call |-> l + 1, at |-> i]
      BY <1>6, <1>7 DEF Cut
    <2>2. PICK j \in Nat : j = Sent(t) - 1
      BY <1>1, <1>3, <2>1 DEF Framing, Sends
    <2>3. /\ Len(s) = Upto(j, n) + k /\ Upto(j, n) \in Nat /\ Upto(l, n) \in Nat
          /\ \A x \in 1..n : b[x] = [call |-> j + 1, at |-> x]
      <3>1. Sent(t) \in Nat \ {0} /\ o = Upto(Sent(t) - 1, n)
            /\ \A x \in 1..n : b[x] = [call |-> Sent(t), at |-> x]
        BY <1>0, <1>1, <1>3, <2>1 DEF Framing, Sends
      <3>2. Sent(t) = j + 1
        BY <2>2, <3>1
      <3>3. QED
        BY <1>3, <2>2, <3>1, <3>2, UptoFacts
    <2>4. CASE Upto(l, n) + i <= Len(s)
      <3>1. s[Upto(l, n) + i] = [call |-> l + 1, at |-> i]
        BY <1>0, <1>3, <2>1, <2>4, SMTT(20) DEF FInv, Cut
      <3>2. Upto(l, n) + i \in 1..Len(s)
        BY <1>3, <2>3, <2>4, SMTT(20)
      <3>3. QED
        BY <1>5, <3>1, <3>2, SMTT(20)
    <2>5. CASE Upto(l, n) + i > Len(s)
      <3>1. PICK u \in Nat, v \in Nat, m \in Nat, d \in Nat :
              u = Upto(l, n) /\ v = Upto(j, n) /\ m = Len(s) /\ d = c
        BY <1>3, <1>4, <2>3
      <3>2. u + i > m /\ u + i <= m + d /\ k + d <= n /\ m = v + k
        <4>1. Upto(l, n) + i <= Len(s) + c /\ Upto(l, n) + i > Len(s)
          BY <1>3, <1>5, <2>1, <2>5
        <4>2. Len(s) = Upto(j, n) + k /\ k + c <= n
          BY <1>4, <2>3
        <4>3. QED
          BY <3>1, <4>1, <4>2
      <3>3. PICK x \in 1..d : x = (u + i) - m
        BY <3>2
      <3>4. PICK y \in 1..n : y = k + x
        BY <3>2, <3>3
      <3>5. u + i = v + y /\ u + i = m + x
        BY <3>2, <3>3, <3>4
      <3>6. l = j /\ i = y
        <4>1. \A p, q \in Nat : \A g, h \in 1..n :
                Upto(p, n) + g = Upto(q, n) + h => p = q /\ g = h
          BY UptoFacts
        <4>2. Upto(l, n) + i = Upto(j, n) + y
          BY <3>1, <3>5
        <4>3. QED
          BY <4>1, <4>2
      <3>7. r[m + x] = b[y] /\ b[y] = [call |-> j + 1, at |-> y]
        <4>1. \A p \in 1..c : r[Len(s) + p] = b[k + p]
          BY <1>5
        <4>2. x \in 1..c /\ m = Len(s) /\ y = k + x
          BY <3>1, <3>3, <3>4
        <4>3. r[m + x] = b[y]
          BY <4>1, <4>2
        <4>4. QED
          BY <2>3, <4>3
      <3>8. QED
        BY <3>1, <3>5, <3>6, <3>7
    <2>6. QED
      BY <1>3, <2>3, <2>4, <2>5, SMTT(20)
  <1>9. ASSUME NEW d \in Ends, d # e PROVE Cut(n, d)'
    BY <1>6, <1>7, <1>9 DEF FInv, Cut
  <1>10. ASSUME NEW u \in Threads, u # t PROVE Framing(n, u)'
    <2>1. "send" \in Roles[u] => EndOf[u] # e
      BY <1>3, <1>10, SingleAssumption DEF Transfers
    <2>2. EndOf[u] \in Ends /\ Peer(EndOf[u]) \in Ends
      BY ControlTypes DEF Peer, Ends
    <2>3. "send" \in Roles[u] => Sent(u)' = Sent(u) /\ stream'[EndOf[u]] = stream[EndOf[u]]
      BY <1>6, <1>7, <2>1, <2>2 DEF Sent
    <2>4. QED
      BY <1>1, <1>7, <1>10, <2>2, <2>3, FramingStays DEF FInv, Transferring, Received
  <1>11. Framing(n, t)'
    <2>1. Receives(n, t)'
      BY <1>1, <1>3, <1>7 DEF Framing, Receives, Received
    <2>2. Sends(n, t)'
      <3>1. SUFFICES ASSUME ~failed[e], ~Transferring(t)'
                     PROVE  Len(r) = Upto(Sent(t), n)
        BY <1>1, <1>3, <1>6, <1>7 DEF Framing, Sends, Sent
      <3>2. k + c = n
        BY <1>3, <1>7, <3>1 DEF Transferring
      <3>3. Sent(t) \in Nat \ {0} /\ o = Upto(Sent(t) - 1, n)
        BY <1>0, <1>1, <1>3, <3>1 DEF Framing, Sends
      <3>4. PICK j \in Nat : Sent(t) = j + 1 /\ Sent(t) - 1 = j
        <4>1. Sent(t) - 1 \in Nat /\ Sent(t) = (Sent(t) - 1) + 1
          BY <3>3
        <4>2. QED
          BY <4>1
      <3>5. Upto(j, n) \in Nat /\ Upto(j + 1, n) = Upto(j, n) + n
        BY UptoFacts
      <3>6. QED
        BY <1>3, <1>4, <1>5, <3>2, <3>3, <3>4, <3>5, SMTT(20)
    <2>3. QED
      BY <1>3, <1>7, <2>1, <2>2 DEF Framing
  <1>12. QED
    BY <1>8, <1>9, <1>10, <1>11 DEF FInv

LEMMA ReceiveFraming ==
  ASSUME NEW n \in Nat, IInv, FInv(n), NEW t \in Threads, ReceiveChunk(t)
  PROVE  FInv(n)'
  <1> DEFINE e == EndOf[t]
             k == pos[t]
  <1>1. /\ pc[t] = "loop" /\ op[t] = "receive" /\ Transferring(t) /\ stream' = stream
    BY DEF ReceiveChunk, Transferring
  <1>2. /\ e \in Ends /\ Peer(e) \in Ends /\ Framing(n, t) /\ "receive" \in Roles[t]
        /\ size[t] = n /\ k \in Nat /\ origin[t] \in Nat
        /\ origin[t] + k = taken[e] /\ taken \in [Ends -> Nat]
        /\ buffer \in [Threads -> Seq(Bytes)]
    <2>1. taken \in [Ends -> Nat] /\ buffer \in [Threads -> Seq(Bytes)]
      BY DEF IInv, TypeOK
    <2>2. e \in Ends /\ Peer(e) \in Ends
      BY ControlTypes DEF Peer, Ends
    <2>3. QED
      BY <1>1, <2>1, <2>2, TypeParts DEF FInv, Framing, InStep
  <1>3. PICK c \in 1..Wanted(t) :
          /\ buffer' = [buffer EXCEPT ![t] = Store(@, k, c, stream[Peer(e)], taken[e])]
          /\ taken' = [taken EXCEPT ![e] = @ + c]
          /\ Advance(t, c)
    BY DEF ReceiveChunk
  <1>4. c \in 1..(size[t] - k)
    <2>1. Wanted(t) \in Int /\ Wanted(t) <= size[t] - k
      <3>1. size[t] - k \in Int /\ RECEIVE_BUFFER_SIZE \in Int
        BY <1>2, SizesAssumption
      <3>2. QED
        BY <3>1, MinOfTwo DEF Wanted
    <2>2. QED
      BY <1>2, <2>1
  <1>5. /\ pos'[t] = k + c /\ pc'[t] = IF pos'[t] = size[t] THEN "idle" ELSE "loop"
        /\ \A u \in Threads : u # t => pc'[u] = pc[u]
        /\ UNCHANGED <<op, size, origin, calls, failed>>
    BY <1>1, <1>3, <1>4, AdvanceFacts
  <1>6. taken'[e] = taken[e] + c /\ \A d \in Ends : d # e => taken'[d] = taken[d]
    BY <1>2, <1>3
  <1>7. \A u \in Threads : u # t => buffer'[u] = buffer[u]
    BY <1>2, <1>3
  <1>8. ASSUME NEW u \in Threads, u # t PROVE Framing(n, u)'
    <2>1. "receive" \in Roles[u] => EndOf[u] # e
      BY <1>2, <1>8, SingleAssumption DEF Transfers
    <2>2. EndOf[u] \in Ends /\ Peer(EndOf[u]) \in Ends
      BY ControlTypes DEF Peer, Ends
    <2>3. "receive" \in Roles[u] =>
            Received(u)' = Received(u) /\ taken'[EndOf[u]] = taken[EndOf[u]]
      BY <1>5, <1>6, <2>1, <2>2 DEF Received
    <2>4. QED
      BY <1>1, <1>5, <1>7, <1>8, <2>2, <2>3, FramingStays DEF FInv, Transferring, Sent
  <1>9. Framing(n, t)'
    <2>1. Sends(n, t)'
      BY <1>1, <1>2, <1>5 DEF Framing, Sends, Sent
    <2>2. Receives(n, t)'
      <3>1. SUFFICES ASSUME ~failed[Peer(e)], ~Transferring(t)'
                     PROVE  taken[e] + c = Upto(Received(t), n)
        BY <1>1, <1>2, <1>5, <1>6 DEF Framing, Receives, Received
      <3>2. k + c = n /\ c \in Nat
        BY <1>2, <1>4, <1>5, <3>1 DEF Transferring
      <3>3. Received(t) \in Nat \ {0} /\ origin[t] = Upto(Received(t) - 1, n)
        BY <1>1, <1>2, <3>1 DEF Framing, Receives
      <3>4. PICK j \in Nat : Received(t) = j + 1 /\ Received(t) - 1 = j
        <4>1. Received(t) - 1 \in Nat /\ Received(t) = (Received(t) - 1) + 1
          BY <3>3
        <4>2. QED
          BY <4>1
      <3>5. Upto(j, n) \in Nat /\ Upto(j + 1, n) = Upto(j, n) + n
        BY UptoFacts
      <3>6. QED
        BY <1>2, <3>2, <3>3, <3>4, <3>5
    <2>3. QED
      BY <1>2, <1>5, <2>1, <2>2 DEF Framing
  <1>10. \A d \in Ends : Cut(n, d)'
    BY <1>1, <1>5 DEF FInv, Cut
  <1>11. QED
    BY <1>8, <1>9, <1>10 DEF FInv

LEMMA OtherFraming ==
  ASSUME NEW n \in Nat, IInv, FInv(n),
         \/ \E t \in Threads :
              \/ Close(t) \/ AssignTimeout(t) \/ Disconnect(t) \/ Wait(t) \/ Timeout(t)
              \/ Again(t) \/ Select(t) \/ Wake(t) \/ CloseDescriptor(t)
         \/ Reset \/ Lose \/ UNCHANGED vars
  PROVE  FInv(n)'
  <1>1. pc \in [Threads -> PCs]
    BY ControlTypes
  <1>2. ASSUME NEW t \in Threads, Close(t) \/ CloseDescriptor(t) PROVE FInv(n)'
    <2>1. PICK label \in {"idle", "closing"} : pc' = [pc EXCEPT ![t] = label]
      BY <1>2 DEF Close, CloseDescriptor
    <2>2. /\ pc[t] \in {"idle", "closing"} /\ UNCHANGED <<stream, taken, local, failed>>
      BY <1>2 DEF Close, CloseDescriptor
    <2>3. Transferring(t)' = Transferring(t)
      BY <1>1, <2>1, <2>2 DEF Transferring
    <2>4. \A u \in Threads : u # t => pc'[u] = pc[u]
      BY <1>1, <2>1
    <2>5. QED
      BY <2>2, <2>3, <2>4, QuietFraming
  <1>3. ASSUME NEW t \in Threads, NEW label \in {"loop", "wait", "again", "select"},
               Goto(t, label), Transferring(t)
        PROVE  FInv(n)'
    <2>1. /\ pc' = [pc EXCEPT ![t] = label] /\ UNCHANGED <<stream, taken, local, failed>>
      BY <1>3 DEF Goto, kernel
    <2>2. Transferring(t)' = Transferring(t)
      BY <1>1, <1>3, <2>1 DEF Transferring
    <2>3. \A u \in Threads : u # t => pc'[u] = pc[u]
      BY <1>1, <2>1
    <2>4. QED
      BY <2>1, <2>2, <2>3, QuietFraming
  <1>4. ASSUME NEW t \in Threads, NEW error, Raise(t, error), Transferring(t)
        PROVE  FInv(n)'
    <2>1. \A u \in Threads : u # t => pc'[u] = pc[u]
      BY <1>1, <1>4 DEF Raise
    <2>2. QED
      BY <1>4, <2>1, QuietFraming DEF Raise, kernel
  <1>5. ASSUME NEW t \in Threads,
               \/ Disconnect(t) \/ Wait(t) \/ Timeout(t) \/ Again(t) \/ Select(t) \/ Wake(t)
        PROVE  FInv(n)'
    <2>1. Transferring(t)
      BY <1>5 DEF Disconnect, Wait, Timeout, Again, Select, Wake, Transferring
    <2>2. \/ \E label \in {"loop", "wait", "again", "select"} : Goto(t, label)
          \/ \E error \in Errors : Raise(t, error)
      BY <1>5 DEF Disconnect, Wait, Timeout, Again, Select, Wake, Errors
    <2>3. QED
      BY <1>3, <1>4, <2>1, <2>2
  <1>6. CASE (\E t \in Threads : AssignTimeout(t)) \/ Reset \/ Lose \/ UNCHANGED vars
    <2>1. UNCHANGED <<stream, taken, local, failed, pc>>
      BY <1>6 DEF AssignTimeout, Reset, Lose, vars, kernel
    <2>2. \A e \in Ends : Cut(n, e)'
      BY <2>1 DEF FInv, Cut
    <2>3. ASSUME NEW u \in Threads PROVE Framing(n, u)'
      <3>1. EndOf[u] \in Ends /\ Peer(EndOf[u]) \in Ends
        BY ControlTypes DEF Peer, Ends
      <3>2. QED
        BY <2>1, <3>1, FramingStays DEF FInv, local, Transferring, Sent, Received
    <2>4. QED
      BY <2>2, <2>3 DEF FInv
  <1>7. QED
    BY <1>2, <1>5, <1>6

LEMMA InitFraming ==
  ASSUME NEW n \in Nat, Init
  PROVE  FInv(n)
  <1>1. ASSUME NEW e \in Ends PROVE Cut(n, e)
    <2>1. stream[e] = <<>> /\ Len(<<>>) = 0
      BY DEF Init
    <2>2. ASSUME NEW k \in Nat, NEW i \in 1..n PROVE ~(Upto(k, n) + i <= 0)
      <3>1. Upto(k, n) \in Nat
        BY UptoFacts
      <3>2. QED
        BY <3>1
    <2>3. QED
      BY <2>1, <2>2 DEF Cut
  <1>2. ASSUME NEW t \in Threads PROVE Framing(n, t)
    <2>1. EndOf[t] \in Ends
      BY RolesAssumption
    <2>2. /\ op[t] = "none" /\ Len(stream[EndOf[t]]) = 0 /\ taken[EndOf[t]] = 0
          /\ Sent(t) = 0 /\ Received(t) = 0
      BY <2>1 DEF Init, Sent, Received, Transfers
    <2>3. QED
      BY <2>2, UptoFacts DEF Framing, Sends, Receives
  <1>3. QED
    BY <1>1, <1>2 DEF FInv

LEMMA FramingFrames == \A n \in Nat : IInv /\ FInv(n) => Framed
  <1>1. SUFFICES ASSUME NEW n \in Nat, IInv, FInv(n), NEW t \in Threads, op[t] = "receive",
                        result[t] = "ok", ~failed[Source(t)], NEW i \in 1..size[t]
                 PROVE  buffer[t][i] = [call |-> Received(t), at |-> i]
    BY DEF Framed, Received
  <1>2. /\ Source(t) = Peer(EndOf[t]) /\ Source(t) \in Ends /\ Framing(n, t)
        /\ pos[t] = size[t] /\ Moved(t)
    BY <1>1, TypeParts DEF Source, Told, FInv
  <1>3. /\ size[t] = n /\ Received(t) \in Nat \ {0}
        /\ origin[t] = Upto(Received(t) - 1, n)
    BY <1>1, <1>2 DEF Framing, Receives
  <1>4. PICK k \in Nat : Received(t) = k + 1 /\ k = Received(t) - 1
    <2>1. Received(t) - 1 \in Nat /\ Received(t) = (Received(t) - 1) + 1
      BY <1>3
    <2>2. QED
      BY <2>1
  <1>5. /\ buffer[t][i] = stream[Source(t)][origin[t] + i]
        /\ origin[t] + n <= Len(stream[Source(t)])
    BY <1>1, <1>2, <1>3 DEF Moved
  <1>6. PICK u \in Nat, m \in Nat : u = Upto(k, n) /\ m = Len(stream[Source(t)])
    <2>1. stream[Source(t)] \in Seq(Bytes)
      BY <1>1, <1>2 DEF IInv, TypeOK
    <2>2. QED
      BY <1>1, <2>1, UptoFacts, LenProperties
  <1>7. u + i <= m
    BY <1>1, <1>3, <1>4, <1>5, <1>6
  <1>8. stream[Source(t)][Upto(k, n) + i] = [call |-> k + 1, at |-> i]
    BY <1>1, <1>2, <1>3, <1>6, <1>7 DEF FInv, Cut
  <1>9. QED
    BY <1>3, <1>4, <1>5, <1>8

\* Messages of n bytes, each given whole to a call: as long as no transfer of a
\* direction raised, the k-th receive returns the k-th message, byte by byte.
THEOREM MessagesFramed ==
  ASSUME NEW CONSTANT n, Lengths = {n}, Sizes = {}
  PROVE  Spec => []Framed
  <1>1. n \in Nat
    BY SizesAssumption
  <1>2. Init => IInv /\ FInv(n)
    BY <1>1, InitHolds, InitFraming
  <1>3. IInv /\ FInv(n) /\ [Next]_vars => IInv' /\ FInv(n)'
    BY <1>1, StepHolds, BeginFraming, SendFraming, ReceiveFraming, OtherFraming
    DEF Next, Step
  <1>4. IInv /\ FInv(n) => Framed
    BY <1>1, FramingFrames
  <1>5. QED
    BY <1>2, <1>3, <1>4, PTL DEF Spec

-----------------------------------------------------------------------------
(* The two ends implement MessageChannel: the step in which a transfer is  *)
(* done is a step of the channel, the chunks before it are not seen.       *)

SentAll == [d \in Ends |-> IF failed[d] THEN 0 ELSE Completed(d, "send")]
ReceivedAll == [d \in Ends |-> IF failed[d] THEN 0 ELSE Completed(Peer(d), "receive")]
InboxAll == [d \in Ends |-> IF failed[d] THEN {} ELSE Held(Peer(d))]

LEMMA PeerFacts ==
  ASSUME NEW d \in Ends
  PROVE  Peer(d) \in Ends /\ Peer(d) # d /\ Peer(Peer(d)) = d
  BY DEF Peer, Ends

\* Only one thread of an end makes a transfer.
LEMMA OnlyOne ==
  ASSUME IInv, NEW t \in Threads, NEW u \in Threads, EndOf[u] = EndOf[t],
         op[u] \in Roles[t], Transferring(u)
  PROVE  u = t
  <1>1. op[u] \in Roles[u] \cap Transfers
    BY TypeParts DEF InStep
  <1>2. QED
    BY <1>1, SingleAssumption

LEMMA CompletedFacts ==
  ASSUME IInv, NEW t \in Threads, NEW m \in Roles[t] \cap Transfers
  PROVE  Completed(EndOf[t], m) =
           IF op[t] = m /\ Transferring(t) THEN calls[EndOf[t]][m] - 1 ELSE calls[EndOf[t]][m]
  BY OnlyOne DEF Completed

LEMMA CompletedStays ==
  ASSUME NEW e, NEW m, calls'[e][m] = calls[e][m],
         \A u \in Threads : EndOf[u] = e =>
           (op'[u] = m /\ Transferring(u)' <=> op[u] = m /\ Transferring(u))
  PROVE  Completed(e, m)' = Completed(e, m)
  BY DEF Completed

\* A transfer that begins is not over.
LEMMA CompletedBegins ==
  ASSUME IInv, NEW t \in Threads, ~Transferring(t), NEW m \in Roles[t] \cap Transfers,
         op'[t] = m, Transferring(t)', calls'[EndOf[t]][m] = calls[EndOf[t]][m] + 1
  PROVE  Completed(EndOf[t], m)' = Completed(EndOf[t], m)
  <1>1. Completed(EndOf[t], m) = calls[EndOf[t]][m]
    BY CompletedFacts
  <1>2. Completed(EndOf[t], m)' = calls'[EndOf[t]][m] - 1
    BY DEF Completed
  <1>3. calls[EndOf[t]][m] \in Nat
    BY ControlTypes DEF IInv, TypeOK
  <1>4. QED
    BY <1>1, <1>2, <1>3

LEMMA CompletedEnds ==
  ASSUME IInv, NEW t \in Threads, Transferring(t), ~Transferring(t)',
         UNCHANGED <<op, calls>>, \A u \in Threads : u # t => pc'[u] = pc[u]
  PROVE  Completed(EndOf[t], op[t])' = Completed(EndOf[t], op[t]) + 1
  <1>1. op[t] \in Roles[t] \cap Transfers
    BY TypeParts DEF InStep
  <1>2. Completed(EndOf[t], op[t]) = calls[EndOf[t]][op[t]] - 1
    BY <1>1, CompletedFacts
  <1>3. ASSUME NEW u \in Threads, EndOf[u] = EndOf[t], op[u] = op[t], Transferring(u)'
        PROVE  FALSE
    <2>1. u # t
      BY <1>3
    <2>2. Transferring(u)
      BY <1>3, <2>1 DEF Transferring
    <2>3. QED
      BY <1>1, <1>3, <2>1, <2>2, OnlyOne
  <1>4. Completed(EndOf[t], op[t])' = calls[EndOf[t]][op[t]]
    BY <1>3 DEF Completed
  <1>5. calls[EndOf[t]][op[t]] \in Nat
    BY <1>1, ControlTypes DEF IInv, TypeOK
  <1>6. QED
    BY <1>2, <1>4, <1>5

LEMMA HeldStays ==
  ASSUME NEW e,
         \A u \in Threads : EndOf[u] = e =>
           /\ op'[u] = "receive" /\ result'[u] = "ok" <=> op[u] = "receive" /\ result[u] = "ok"
           /\ op[u] = "receive" /\ result[u] = "ok" => buffer'[u] = buffer[u]
  PROVE  Held(e)' = Held(e)
  BY DEF Held

\* Only one thread of an end has received anything.
LEMMA HeldByOne ==
  ASSUME NEW n, FInv(n), NEW t \in Threads, "receive" \in Roles[t],
         NEW u \in Threads, EndOf[u] = EndOf[t], op[u] = "receive"
  PROVE  u = t
  <1>1. "receive" \in Roles[u]
    BY DEF FInv, Framing
  <1>2. QED
    BY <1>1, SingleAssumption DEF Transfers

\* A step that the callers do not see.
LEMMA Unseen ==
  ASSUME UNCHANGED <<op, calls, result, failed>>,
         \A u \in Threads : Transferring(u)' = Transferring(u),
         \A u \in Threads : result[u] = "ok" => buffer'[u] = buffer[u]
  PROVE  UNCHANGED Channel!mvars
  <1>1. \A e, m : Completed(e, m)' = Completed(e, m)
    BY CompletedStays
  <1>2. \A e : Held(e)' = Held(e)
    BY HeldStays
  <1>3. SentAll' = SentAll /\ ReceivedAll' = ReceivedAll /\ InboxAll' = InboxAll
    BY <1>1, <1>2 DEF SentAll, ReceivedAll, InboxAll
  <1>4. QED
    BY <1>3 DEF Channel!mvars, SentAll, ReceivedAll, InboxAll

\* A transfer that raises loses its direction, and no other.
LEMMA RaiseLoses ==
  ASSUME IInv, NEW t \in Threads, Transferring(t), NEW error \in Errors, Raise(t, error)
  PROVE  \E d \in Ends : Channel!Lose(d)
  <1>0. PICK s \in Ends : s = Source(t)
    BY TypeParts
  <1>1. /\ s \in Ends /\ failed \in [Ends -> BOOLEAN] /\ pc \in [Threads -> PCs]
        /\ result \in [Threads -> {"none", "ok"} \cup Errors]
        /\ op[t] \in Transfers /\ result[t] = "none" /\ EndOf[t] \in Ends
    BY ControlTypes, TypeParts DEF Flags, InStep
  <1>2. /\ failed' = [failed EXCEPT ![s] = TRUE] /\ UNCHANGED <<op, calls, buffer>>
        /\ \A u \in Threads : u # t => pc'[u] = pc[u] /\ result'[u] = result[u]
        /\ result'[t] = error /\ error # "ok"
    BY <1>0, <1>1 DEF Raise, local, Errors
  <1>3. ASSUME NEW d \in Ends, d # s
        PROVE  /\ failed'[d] = failed[d]
               /\ Completed(d, "send")' = Completed(d, "send")
               /\ Completed(Peer(d), "receive")' = Completed(Peer(d), "receive")
               /\ Held(Peer(d))' = Held(Peer(d))
    <2>1. failed'[d] = failed[d]
      BY <1>1, <1>2, <1>3
    <2>2. /\ EndOf[t] = d => op[t] # "send"
          /\ EndOf[t] = Peer(d) => op[t] # "receive"
      BY <1>0, <1>1, <1>3, PeerFacts DEF Source
    <2>3. \A u \in Threads : u # t => Transferring(u)' = Transferring(u)
      BY <1>2 DEF Transferring
    <2>4. Completed(d, "send")' = Completed(d, "send")
      BY <1>2, <2>2, <2>3, CompletedStays
    <2>5. Completed(Peer(d), "receive")' = Completed(Peer(d), "receive")
      BY <1>2, <2>2, <2>3, CompletedStays
    <2>6. Held(Peer(d))' = Held(Peer(d))
      BY <1>2, <2>2, HeldStays
    <2>7. QED
      BY <2>1, <2>4, <2>5, <2>6
  <1>4. failed'[s]
    BY <1>1, <1>2
  <1>5. /\ SentAll' = [SentAll EXCEPT ![s] = 0]
        /\ ReceivedAll' = [ReceivedAll EXCEPT ![s] = 0]
        /\ InboxAll' = [InboxAll EXCEPT ![s] = {}]
    BY <1>1, <1>3, <1>4 DEF SentAll, ReceivedAll, InboxAll
  <1>6. QED
    BY <1>2, <1>5 DEF Channel!Lose, SentAll, ReceivedAll, InboxAll

\* A call that begins takes nothing but the message its thread had.
LEMMA BeginTurns ==
  ASSUME NEW n \in Nat, n # 0, Lengths = {n}, Sizes = {}, IInv, FInv(n),
         NEW t \in Threads, Begin(t)
  PROVE  Channel!Turn(Peer(EndOf[t])) \/ UNCHANGED Channel!mvars
  <1> DEFINE e == EndOf[t]
  <1>1. e \in Ends /\ Peer(e) \in Ends /\ Peer(Peer(e)) = e /\ Framing(n, t)
    BY ControlTypes, PeerFacts DEF FInv
  <1>2. pc[t] = "idle" /\ ~Transferring(t) /\ failed' = failed
    BY DEF Begin, Transferring
  <1>3. PICK m \in Roles[t] \cap Transfers : Enter(t, m, n, n)
    <2>1. Optional(Sizes) = {{}}
      BY DEF Optional
    <2>2. GetBufferSize(n, {}) = {n}
      BY DEF GetBufferSize
    <2>3. QED
      BY <2>1, <2>2 DEF Begin
  <1>4. /\ op \in [Threads -> Transfers \cup {"none"}] /\ pc \in [Threads -> PCs]
        /\ buffer \in [Threads -> Seq(Bytes)]
        /\ result \in [Threads -> {"none", "ok"} \cup Errors]
        /\ calls \in [Ends -> [Transfers -> Nat]]
    BY DEF IInv, TypeOK
  <1>5. /\ op'[t] = m /\ pc'[t] = "loop" /\ Transferring(t)' /\ result'[t] = "none"
        /\ calls'[e][m] = calls[e][m] + 1
    BY <1>1, <1>3, <1>4 DEF Enter, Transferring
  <1>6. \A d \in Ends, l \in Transfers : d # e \/ l # m => calls'[d][l] = calls[d][l]
    BY <1>1, <1>3, <1>4 DEF Enter
  <1>7. \A u \in Threads : u # t =>
          /\ op'[u] = op[u] /\ buffer'[u] = buffer[u] /\ result'[u] = result[u]
          /\ Transferring(u)' = Transferring(u)
    BY <1>3, <1>4 DEF Enter, Transferring
  <1>8. \A d \in Ends, l \in Transfers : Completed(d, l)' = Completed(d, l)
    <2>1. Completed(e, m)' = Completed(e, m)
      BY <1>2, <1>5, CompletedBegins
    <2>2. ASSUME NEW d \in Ends, NEW l \in Transfers, d # e \/ l # m
          PROVE  Completed(d, l)' = Completed(d, l)
      BY <1>2, <1>5, <1>6, <1>7, <2>2, CompletedStays
    <2>3. QED
      BY <2>1, <2>2
  <1>9. \A d \in Ends : d # e => Held(d)' = Held(d)
    BY <1>7, HeldStays
  <1>10. Held(e)' = {} \/ Held(e)' = Held(e)
    <2>1. CASE op[t] = "receive"
      <3>1. "receive" \in Roles[t]
        BY <1>1, <2>1 DEF Framing
      <3>2. \A u \in Threads : EndOf[u] = e /\ u # t => op[u] # "receive"
        BY <3>1, HeldByOne
      <3>3. QED
        BY <1>5, <1>7, <3>2 DEF Held
    <2>2. CASE op[t] # "receive"
      BY <1>5, <1>7, <2>2, HeldStays
    <2>3. QED
      BY <2>1, <2>2
  <1>11. SentAll' = SentAll /\ ReceivedAll' = ReceivedAll
    BY <1>2, <1>8, PeerFacts DEF SentAll, ReceivedAll, Transfers
  <1>12. InboxAll' = [InboxAll EXCEPT ![Peer(e)] = {}] \/ InboxAll' = InboxAll
    <2>1. \A d \in Ends : d # Peer(e) => Peer(d) \in Ends /\ Peer(d) # e
      BY <1>1, PeerFacts
    <2>2. CASE Held(e)' = Held(e)
      BY <1>1, <1>2, <1>9, <2>1, <2>2 DEF InboxAll
    <2>3. CASE Held(e)' = {}
      BY <1>1, <1>2, <1>9, <2>1, <2>3 DEF InboxAll
    <2>4. QED
      BY <1>10, <2>2, <2>3
  <1>13. QED
    BY <1>2, <1>11, <1>12 DEF Channel!Turn, Channel!mvars, SentAll, ReceivedAll, InboxAll

\* What else the map needs: an end without a sender sent nothing, and a buffer
\* is as long as a message.
RInv(n) ==
  /\ \A d \in Ends :
       (\A t \in Threads : EndOf[t] = d => "send" \notin Roles[t]) => stream[d] = <<>>
  /\ \A t \in Threads : op[t] # "none" => DOMAIN buffer[t] = 1..n

LEMMA RInvStep ==
  ASSUME NEW n \in Nat, Lengths = {n}, IInv, RInv(n), [Next]_vars
  PROVE  RInv(n)'
  <1>1. /\ op \in [Threads -> Transfers \cup {"none"}] /\ buffer \in [Threads -> Seq(Bytes)]
        /\ stream \in [Ends -> Seq(Bytes)]
    BY DEF IInv, TypeOK
  <1>2. CASE UNCHANGED <<stream, op, buffer>>
    BY <1>2 DEF RInv
  <1>3. ASSUME NEW t \in Threads, Begin(t), ~UNCHANGED <<stream, op, buffer>>
        PROVE  RInv(n)'
    <2>1. PICK m \in Transfers : /\ op' = [op EXCEPT ![t] = m]
                                 /\ buffer' = [buffer EXCEPT ![t] = NewBuffer(EndOf[t], m, n)]
                                 /\ stream' = stream
      BY <1>3 DEF Begin, Refuse, Enter, local, kernel
    <2>2. DOMAIN NewBuffer(EndOf[t], m, n) = 1..n
      BY DEF NewBuffer
    <2>3. QED
      BY <1>1, <2>1, <2>2 DEF RInv
  <1>4. ASSUME NEW t \in Threads, SendChunk(t) PROVE RInv(n)'
    <2>1. "send" \in Roles[t] /\ EndOf[t] \in Ends
      BY <1>4, TypeParts DEF SendChunk, InStep, Transferring
    <2>2. UNCHANGED <<op, buffer>> /\ \A d \in Ends : d # EndOf[t] => stream'[d] = stream[d]
      BY <1>1, <1>4 DEF SendChunk, Advance
    <2>3. QED
      BY <2>1, <2>2 DEF RInv
  <1>5. ASSUME NEW t \in Threads, ReceiveChunk(t) PROVE RInv(n)'
    <2>1. UNCHANGED <<op, stream>>
          /\ \A u \in Threads : DOMAIN buffer'[u] = DOMAIN buffer[u]
      BY <1>1, <1>5 DEF ReceiveChunk, Advance, Store
    <2>2. QED
      BY <2>1 DEF RInv
  <1>6. ASSUME NEW t \in Threads,
               \/ Close(t) \/ AssignTimeout(t) \/ Disconnect(t) \/ Wait(t) \/ Timeout(t)
               \/ Again(t) \/ Select(t) \/ Wake(t) \/ CloseDescriptor(t)
        PROVE  UNCHANGED <<stream, op, buffer>>
    BY <1>6 DEF Close, AssignTimeout, Disconnect, Wait, Timeout, Again, Select, Wake,
                CloseDescriptor, Goto, Raise, local, kernel
  <1>7. ASSUME Reset \/ Lose \/ UNCHANGED vars
        PROVE  UNCHANGED <<stream, op, buffer>>
    BY <1>7 DEF Reset, Lose, vars, local, kernel
  <1>8. QED
    BY <1>2, <1>3, <1>4, <1>5, <1>6, <1>7 DEF Next, Step

\* All that is on the connection belongs to messages that were sent, or to the
\* one that is being sent and not all of it.
LEMMA SentBound ==
  ASSUME NEW n \in Nat, n # 0, IInv, FInv(n), RInv(n), NEW d \in Ends, ~failed[d]
  PROVE  /\ Completed(d, "send") \in Nat
         /\ Len(stream[d]) < Upto(Completed(d, "send") + 1, n)
  <1>1. /\ calls[d]["send"] \in Nat /\ stream[d] \in Seq(Bytes) /\ Len(stream[d]) \in Nat
    BY LenProperties DEF IInv, TypeOK, Transfers
  <1>2. CASE \A t \in Threads : EndOf[t] = d => "send" \notin Roles[t]
    <2>1. Len(stream[d]) = 0
      BY <1>2 DEF RInv
    <2>2. \A t \in Threads : EndOf[t] = d /\ op[t] = "send" => ~Transferring(t)
      BY <1>2, TypeParts DEF InStep
    <2>3. Completed(d, "send") = calls[d]["send"]
      BY <2>2 DEF Completed
    <2>4. PICK k \in Nat : k = Completed(d, "send")
      BY <1>1, <2>3
    <2>5. Upto(k, n) \in Nat /\ Upto(k + 1, n) = Upto(k, n) + n
      BY UptoFacts
    <2>6. QED
      BY <2>1, <2>4, <2>5
  <1>3. ASSUME NEW t \in Threads, EndOf[t] = d, "send" \in Roles[t]
        PROVE  /\ Completed(d, "send") \in Nat
               /\ Len(stream[d]) < Upto(Completed(d, "send") + 1, n)
    <2>1. /\ Framing(n, t) /\ Sends(n, t) /\ "send" \in Roles[t] \cap Transfers
          /\ pos[t] \in Nat /\ size[t] \in Nat /\ origin[t] \in Nat
      BY <1>3, TypeParts DEF FInv, Framing, Transfers
    <2>2. CASE op[t] = "send" /\ Transferring(t)
      <3>1. /\ Completed(d, "send") = calls[d]["send"] - 1
            /\ Sent(t) = calls[d]["send"] /\ Sent(t) \in Nat \ {0}
            /\ origin[t] = Upto(Sent(t) - 1, n)
        BY <1>3, <2>1, <2>2, CompletedFacts DEF Sends, Sent
      <3>2. PICK k \in Nat : k = Completed(d, "send") /\ origin[t] = Upto(k, n)
        BY <3>1
      <3>3. pos[t] < n /\ Len(stream[d]) = origin[t] + pos[t]
        BY <1>3, <2>1, <2>2, TypeParts DEF InStep, Framing
      <3>4. Upto(k, n) \in Nat /\ Upto(k + 1, n) = Upto(k, n) + n
        BY UptoFacts
      <3>5. QED
        BY <2>1, <3>2, <3>3, <3>4
    <2>3. CASE ~(op[t] = "send" /\ Transferring(t))
      <3>1. Completed(d, "send") = calls[d]["send"] /\ Sent(t) = calls[d]["send"]
        BY <1>3, <2>1, <2>3, CompletedFacts DEF Sent
      <3>2. PICK k \in Nat : k = Completed(d, "send") /\ Len(stream[d]) = Upto(k, n)
        BY <1>1, <1>3, <2>1, <2>3, <3>1 DEF Sends
      <3>3. Upto(k, n) \in Nat /\ Upto(k + 1, n) = Upto(k, n) + n
        BY UptoFacts
      <3>4. QED
        BY <3>2, <3>3
    <2>4. QED
      BY <2>2, <2>3
  <1>4. QED
    BY <1>2, <1>3

LEMMA SendRefines ==
  ASSUME IInv, NEW t \in Threads, SendChunk(t)
  PROVE  Channel!Send(EndOf[t]) \/ UNCHANGED Channel!mvars
  <1> DEFINE e == EndOf[t]
  <1>1. /\ pc[t] = "loop" /\ op[t] = "send" /\ Transferring(t) /\ e \in Ends
        /\ buffer' = buffer /\ result[t] = "none"
    BY TypeParts DEF SendChunk, Transferring, InStep
  <1>2. PICK c \in 1..(size[t] - pos[t]) : Advance(t, c)
    BY DEF SendChunk
  <1>3. /\ pc'[t] = IF pos'[t] = size[t] THEN "idle" ELSE "loop"
        /\ result'[t] = IF pos'[t] = size[t] THEN "ok" ELSE "none"
        /\ \A u \in Threads : u # t => pc'[u] = pc[u] /\ result'[u] = result[u]
        /\ UNCHANGED <<op, calls, failed>>
    BY <1>1, <1>2, AdvanceFacts
  <1>4. \A u \in Threads : u # t => Transferring(u)' = Transferring(u)
    BY <1>3 DEF Transferring
  <1>5. CASE pos'[t] # size[t]
    <2>1. Transferring(t)' /\ result'[t] = "none"
      BY <1>3, <1>5 DEF Transferring
    <2>2. UNCHANGED result
      BY <1>1, <1>3, <2>1, ControlTypes, <1>2 DEF Advance
    <2>3. \A u \in Threads : Transferring(u)' = Transferring(u)
      BY <1>1, <1>4, <2>1 DEF Transferring
    <2>4. QED
      BY <1>1, <1>3, <2>2, <2>3, Unseen
  <1>6. CASE pos'[t] = size[t]
    <2>1. ~Transferring(t)'
      BY <1>3, <1>6 DEF Transferring
    <2>2. Completed(e, "send")' = Completed(e, "send") + 1
      BY <1>1, <1>3, <2>1, CompletedEnds
    <2>3. \A d \in Ends : d # e => Completed(d, "send")' = Completed(d, "send")
      BY <1>1, <1>3, <1>4, CompletedStays
    <2>4. \A d \in Ends : Completed(d, "receive")' = Completed(d, "receive")
      BY <1>1, <1>3, <1>4, CompletedStays
    <2>5. \A d \in Ends : Held(d)' = Held(d)
      BY <1>1, <1>3, HeldStays
    <2>6. ReceivedAll' = ReceivedAll /\ InboxAll' = InboxAll
      BY <1>3, <2>4, <2>5, PeerFacts DEF ReceivedAll, InboxAll
    <2>7. SentAll' = IF failed[e] THEN SentAll ELSE [SentAll EXCEPT ![e] = SentAll[e] + 1]
      BY <1>1, <1>3, <2>2, <2>3 DEF SentAll
    <2>8. QED
      BY <1>3, <2>6, <2>7 DEF Channel!Send, Channel!mvars, SentAll, ReceivedAll, InboxAll
  <1>7. QED
    BY <1>5, <1>6

\* A receive that returns hands over the next message, which was sent.
LEMMA ReceiveRefines ==
  ASSUME NEW n \in Nat, n # 0, Lengths = {n}, IInv, FInv(n), RInv(n),
         IInv', FInv(n)', RInv(n)', Framed', NEW t \in Threads, ReceiveChunk(t)
  PROVE  Channel!Receive(Peer(EndOf[t])) \/ UNCHANGED Channel!mvars
  <1> DEFINE e == EndOf[t]
             d == Peer(e)
  <1>1. /\ pc[t] = "loop" /\ op[t] = "receive" /\ Transferring(t)
        /\ e \in Ends /\ d \in Ends /\ Peer(d) = e /\ stream' = stream
        /\ result[t] = "none" /\ "receive" \in Roles[t] /\ Framing(n, t)
    BY TypeParts, PeerFacts DEF ReceiveChunk, Transferring, InStep, FInv
  <1>2. PICK c \in 1..(size[t] - pos[t]) : Advance(t, c)
    <2>1. /\ size[t] - pos[t] \in Int /\ RECEIVE_BUFFER_SIZE \in Int
      BY TypeParts, SizesAssumption
    <2>2. Wanted(t) \in Int /\ Wanted(t) <= size[t] - pos[t]
      BY <2>1, MinOfTwo DEF Wanted
    <2>3. QED
      BY <2>1, <2>2 DEF ReceiveChunk
  <1>3. /\ pc'[t] = IF pos'[t] = size[t] THEN "idle" ELSE "loop"
        /\ result'[t] = IF pos'[t] = size[t] THEN "ok" ELSE "none"
        /\ \A u \in Threads : u # t => pc'[u] = pc[u] /\ result'[u] = result[u]
        /\ UNCHANGED <<op, calls, failed>>
    BY <1>1, <1>2, AdvanceFacts
  <1>4. \A u \in Threads : u # t =>
          Transferring(u)' = Transferring(u) /\ buffer'[u] = buffer[u]
    BY <1>3 DEF Transferring, ReceiveChunk, IInv, TypeOK
  <1>5. CASE pos'[t] # size[t]
    <2>1. Transferring(t)' /\ result'[t] = "none"
      BY <1>3, <1>5 DEF Transferring
    <2>2. UNCHANGED result
      BY <1>1, <1>3, <2>1, ControlTypes, <1>2 DEF Advance
    <2>3. \A u \in Threads : Transferring(u)' = Transferring(u)
      BY <1>1, <1>4, <2>1 DEF Transferring
    <2>4. QED
      BY <1>1, <1>3, <1>4, <2>2, <2>3, Unseen
  <1>6. CASE pos'[t] = size[t]
    <2>1. ~Transferring(t)' /\ result'[t] = "ok"
      BY <1>3, <1>6 DEF Transferring
    <2>2. Completed(e, "receive")' = Completed(e, "receive") + 1
      BY <1>1, <1>3, <2>1, CompletedEnds
    <2>3. \A x \in Ends : x # e => Completed(x, "receive")' = Completed(x, "receive")
      BY <1>1, <1>3, <1>4, CompletedStays
    <2>4. \A x \in Ends : Completed(x, "send")' = Completed(x, "send")
      BY <1>1, <1>3, <1>4, CompletedStays
    <2>5. \A x \in Ends : x # e => Held(x)' = Held(x)
      BY <1>1, <1>3, <1>4, HeldStays
    <2>6. SentAll' = SentAll
      BY <1>3, <2>4 DEF SentAll
    <2>7. CASE failed[d]
      <3>1. ReceivedAll' = ReceivedAll /\ InboxAll' = InboxAll
        BY <1>1, <1>3, <2>3, <2>5, <2>7, PeerFacts DEF ReceivedAll, InboxAll
      <3>2. QED
        BY <1>3, <2>6, <3>1 DEF Channel!mvars, SentAll, ReceivedAll, InboxAll
    <2>8. CASE ~failed[d]
      <3>1. PICK k \in Nat : k = Completed(e, "receive") /\ Received(t) = k + 1
        <4>1. Received(t) \in Nat \ {0}
          BY <1>1, <2>8 DEF Framing, Receives
        <4>2. Completed(e, "receive") = Received(t) - 1
          BY <1>1, CompletedFacts DEF Received, Transfers
        <4>3. QED
          BY <4>1, <4>2
      <3>2. buffer'[t] = [i \in 1..n |-> [call |-> k + 1, at |-> i]]
        <4>1. /\ op'[t] = "receive" /\ Source(t)' = d /\ ~failed'[d]
              /\ size'[t] = n /\ Received(t)' = k + 1
          BY <1>1, <1>2, <1>3, <2>8, <3>1 DEF Source, Received, Advance, Framing
        <4>2. \A i \in 1..n : buffer'[t][i] = [call |-> k + 1, at |-> i]
          BY <2>1, <4>1 DEF Framed, Received
        <4>3. buffer'[t] \in Seq(Bytes) /\ DOMAIN buffer'[t] = 1..n
          BY <4>1 DEF IInv, TypeOK, RInv
        <4>4. QED
          BY <4>2, <4>3
      <3>3. Held(e)' = {[i \in 1..n |-> [call |-> k + 1, at |-> i]]}
        <4>1. \A u \in Threads : EndOf[u] = e /\ op'[u] = "receive" => u = t
          BY <1>1, <1>3, HeldByOne
        <4>2. QED
          BY <1>1, <1>3, <2>1, <3>2, <4>1 DEF Held
      <3>4. k < Completed(d, "send")
        <4>1. taken'[e] = Upto(k + 1, n)
          BY <1>1, <1>3, <2>1, <2>8, <3>1 DEF FInv, Framing, Receives, Received
        <4>2. taken'[e] \in Nat /\ Len(stream[d]) \in Nat /\ taken'[e] <= Len(stream[d])
          <5>1. stream[d] \in Seq(Bytes) /\ taken'[e] \in Nat
            BY <1>1 DEF IInv, TypeOK
          <5>2. Unread(e)' \in 0..Capacity
            BY <1>1 DEF IInv, TypeOK
          <5>3. Len(stream[d]) \in Nat /\ Len(stream[d]) - taken'[e] \in 0..Capacity
            BY <1>1, <5>1, <5>2, LenProperties DEF Unread
          <5>4. QED
            BY <5>1, <5>3, SizesAssumption
        <4>3. PICK j \in Nat : j = Completed(d, "send") /\ Len(stream[d]) < Upto(j + 1, n)
          BY <1>1, <2>8, SentBound
        <4>4. ~(j + 1 <= k + 1)
          <5>1. Upto(j + 1, n) \in Nat /\ Upto(k + 1, n) \in Nat
            <6>1. j + 1 \in Nat /\ k + 1 \in Nat
              OBVIOUS
            <6>2. QED
              BY <6>1, UptoFacts
          <5>2. j + 1 < k + 1 => Upto(j + 1, n) <= Upto(k + 1, n)
            BY <5>1, UptoFacts
          <5>3. QED
            BY <4>1, <4>2, <4>3, <5>1, <5>2
        <4>5. QED
          BY <4>3, <4>4
      <3>5. ReceivedAll[d] = k /\ SentAll[d] = Completed(d, "send")
        BY <1>1, <2>8, <3>1 DEF ReceivedAll, SentAll
      <3>6. ReceivedAll' = [ReceivedAll EXCEPT ![d] = k + 1]
        BY <1>1, <1>3, <2>2, <2>3, <2>8, <3>1, PeerFacts, ZenonT(40) DEF ReceivedAll
      <3>7. InboxAll' = [InboxAll EXCEPT ![d] = Held(e)']
        BY <1>1, <1>3, <2>5, <2>8, PeerFacts, ZenonT(40) DEF InboxAll
      <3>8. Channel!Message(k + 1) = [i \in 1..n |-> [call |-> k + 1, at |-> i]]
        BY DEF Channel!Message
      <3>9. QED
        BY <1>1, <1>3, <2>6, <2>8, <3>3, <3>4, <3>5, <3>6, <3>7, <3>8
           DEF Channel!Receive, SentAll, ReceivedAll, InboxAll
    <2>9. QED
      BY <2>7, <2>8
  <1>7. QED
    BY <1>5, <1>6

LEMMA OtherRefines ==
  ASSUME IInv,
         \/ \E t \in Threads :
              \/ Close(t) \/ AssignTimeout(t) \/ Disconnect(t) \/ Wait(t) \/ Timeout(t)
              \/ Again(t) \/ Select(t) \/ Wake(t) \/ CloseDescriptor(t)
         \/ Reset \/ Lose \/ UNCHANGED vars
  PROVE  (\E d \in Ends : Channel!Lose(d)) \/ UNCHANGED Channel!mvars
  <1>1. pc \in [Threads -> PCs]
    BY ControlTypes
  <1>2. ASSUME NEW t \in Threads, Close(t) \/ CloseDescriptor(t)
        PROVE  UNCHANGED Channel!mvars
    <2>1. /\ \E label \in {"idle", "closing"} : pc' = [pc EXCEPT ![t] = label]
          /\ pc[t] \in {"idle", "closing"}
          /\ UNCHANGED <<op, calls, result, failed, buffer>>
      BY <1>2 DEF Close, CloseDescriptor, local
    <2>2. \A u \in Threads : Transferring(u)' = Transferring(u)
      BY <1>1, <2>1 DEF Transferring
    <2>3. QED
      BY <2>1, <2>2, Unseen
  <1>3. ASSUME NEW t \in Threads, Transferring(t),
               \E label \in {"loop", "wait", "again", "select"} : Goto(t, label)
        PROVE  UNCHANGED Channel!mvars
    <2>1. UNCHANGED <<op, calls, result, failed, buffer>>
      BY <1>3 DEF Goto, local
    <2>2. \A u \in Threads : Transferring(u)' = Transferring(u)
      BY <1>1, <1>3 DEF Transferring, Goto
    <2>3. QED
      BY <2>1, <2>2, Unseen
  <1>4. ASSUME NEW t \in Threads,
               \/ Disconnect(t) \/ Wait(t) \/ Timeout(t) \/ Again(t) \/ Select(t) \/ Wake(t)
        PROVE  (\E d \in Ends : Channel!Lose(d)) \/ UNCHANGED Channel!mvars
    <2>1. Transferring(t)
      BY <1>4 DEF Disconnect, Wait, Timeout, Again, Select, Wake, Transferring
    <2>2. \/ \E label \in {"loop", "wait", "again", "select"} : Goto(t, label)
          \/ \E error \in Errors : Raise(t, error)
      BY <1>4 DEF Disconnect, Wait, Timeout, Again, Select, Wake, Errors
    <2>3. QED
      BY <1>3, <2>1, <2>2, RaiseLoses
  <1>5. CASE (\E t \in Threads : AssignTimeout(t)) \/ Reset \/ Lose \/ UNCHANGED vars
    <2>1. UNCHANGED <<op, calls, result, failed, buffer, pc>>
      BY <1>5 DEF AssignTimeout, Reset, Lose, vars, local
    <2>2. QED
      BY <2>1, Unseen DEF Transferring
  <1>6. QED
    BY <1>2, <1>4, <1>5

LEMMA InitRefines ==
  ASSUME Init
  PROVE  Channel!MInit
  <1>1. \A e \in Ends : Held(e) = {}
    BY DEF Init, Held
  <1>2. \A e \in Ends, m \in Transfers : Completed(e, m) = 0
    BY DEF Init, Completed, Transferring
  <1>3. \A e \in Ends : ~failed[e]
    BY DEF Init
  <1>4. /\ SentAll = [d \in Ends |-> 0] /\ ReceivedAll = [d \in Ends |-> 0]
        /\ InboxAll = [d \in Ends |-> {}]
    BY <1>1, <1>2, <1>3, PeerFacts DEF SentAll, ReceivedAll, InboxAll, Transfers
  <1>5. QED
    BY <1>4 DEF Init, Channel!MInit, SentAll, ReceivedAll, InboxAll

\* Messages of n bytes (not of none, which a receive would not wait for): in each
\* direction, until a transfer of it raises, every receive that returns hands
\* over, whole, the next of the messages whose send returned, for any threads,
\* chunks, waits, timeouts and closes.
THEOREM ChannelImplemented ==
  ASSUME NEW CONSTANT n, n # 0, Lengths = {n}, Sizes = {}
  PROVE  Spec => ImplementsMessageChannel
  <1>1. n \in Nat
    BY SizesAssumption
  <1> DEFINE I == IInv /\ FInv(n) /\ RInv(n)
  <1>2. Init => I /\ Channel!MInit
    <2>1. Init => RInv(n)
      BY DEF Init, RInv
    <2>2. QED
      BY <1>1, <2>1, InitHolds, InitFraming, InitRefines
  <1>3. I /\ [Next]_vars => I'
    BY <1>1, StepHolds, BeginFraming, SendFraming, ReceiveFraming, OtherFraming, RInvStep
    DEF Next, Step
  <1>4. I => Framed
    BY <1>1, FramingFrames
  <1>5. I /\ I' /\ Framed' /\ [Next]_vars => [Channel!MNext]_(Channel!mvars)
    <2>1. SUFFICES ASSUME I, I', Framed', [Next]_vars PROVE [Channel!MNext]_(Channel!mvars)
      OBVIOUS
    <2>2. \A t \in Threads : EndOf[t] \in Ends /\ Peer(EndOf[t]) \in Ends
      BY <2>1, TypeParts
    <2>3. ASSUME NEW t \in Threads, Begin(t) \/ SendChunk(t) \/ ReceiveChunk(t)
          PROVE  Channel!MNext \/ UNCHANGED Channel!mvars
      BY <1>1, <2>1, <2>2, <2>3, BeginTurns, SendRefines, ReceiveRefines DEF Channel!MNext
    <2>4. ASSUME \/ \E t \in Threads :
                      \/ Close(t) \/ AssignTimeout(t) \/ Disconnect(t) \/ Wait(t)
                      \/ Timeout(t) \/ Again(t) \/ Select(t) \/ Wake(t)
                      \/ CloseDescriptor(t)
                 \/ Reset \/ Lose \/ UNCHANGED vars
          PROVE  Channel!MNext \/ UNCHANGED Channel!mvars
      BY <2>1, <2>4, OtherRefines DEF Channel!MNext
    <2>5. QED
      BY <2>1, <2>3, <2>4 DEF Next, Step
  <1>6. QED
    BY <1>2, <1>3, <1>4, <1>5, PTL DEF Spec, ImplementsMessageChannel, Channel!MSpec
=============================================================================
