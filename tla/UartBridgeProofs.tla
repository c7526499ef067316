--------------------------- MODULE UartBridgeProofs ---------------------------
(***************************************************************************)
(* For every ring, packet and chunk size, and every number of bytes and    *)
(* USB sessions: a configured OUT endpoint is armed or about to be, with   *)
(* the toggle of the host's next packet while no request has met a packet; *)
(* and as long as no bus reset has struck while a byte was being taken     *)
(* either, every byte acknowledged comes out once and in order, or was     *)
(* dropped at a full ring, or flushed by a bus reset.                      *)
(***************************************************************************)
EXTENDS UartBridge, SequenceTheorems, TLAPS

\* The bytes sent so far, those of a packet whose acknowledgement was lost included.
Count == sent + again

\* Cells are kept for bytes copied out, and only within uart_driver_recv.
KeptInv == kept <= Len(local) /\ (at # "recv" => kept = 0)

\* A byte being taken is at the head of the queue, unless a bus reset has struck.
TakeInv == /\ struck => ~calm /\ at \in {"look", "advance"}
           /\ at \in {"look", "advance"} => side = "tx" /\ (at = "look" => Len(local) < Chunk)
           /\ at = "advance" /\ ~struck => queue # << >>

\* The bytes sent are within the bound; towards the host there is no packet.
SideInv == /\ Count <= MaxBytes
           /\ side = "rx" => ~done /\ again = 0 /\ setup = "none" /\ ~configured

\* While calm, the packet in the buffer holds the newest bytes.
PacketInv == calm /\ done => /\ Len(packet) = ep.len /\ ep.len <= Count
                             /\ \A i \in 1..ep.len : packet[i] = Count - ep.len + i

\* Ascending, and all of the first n bytes but those missing.
Flow(bytes, missing, n) ==
    /\ \A i, j \in 1..Len(bytes) : i < j => bytes[i] < bytes[j]
    /\ { bytes[i] : i \in 1..Len(bytes) } = (1..n) \ missing
    /\ missing \subseteq 1..n

FlowInv == calm => Flow(Taken, gone, Count)

BridgeInv == TypeOK /\ KeptInv /\ TakeInv /\ SideInv /\ OutArmed /\ InStep /\ PacketInv /\ FlowInv

----------------------------------------------------------------------------
(* Sequences of bytes                                                      *)

\* The constants, in pieces the provers can use.
LEMMA Sizes == /\ Capacity \in Nat /\ Capacity >= 1 /\ MaxPacket \in Nat /\ MaxPacket >= 1
               /\ Chunk \in Nat /\ Chunk >= 1 /\ MaxBytes \in Nat /\ MaxEpoch \in Nat /\ MaxEpoch >= 1
               /\ Bytes \subseteq Nat /\ 0 \in Bytes
  BY BridgeAssumption DEF Bytes

\* One after the other.
LEMMA Joined == ASSUME NEW a \in Seq(Bytes), NEW b \in Seq(Bytes)
                PROVE  /\ a \o b \in Seq(Bytes)
                       /\ Len(a) \in Nat /\ Len(b) \in Nat /\ Len(a \o b) = Len(a) + Len(b)
                       /\ \A i \in 1..Len(a) : (a \o b)[i] = a[i]
                       /\ \A i \in 1..Len(b) : (a \o b)[Len(a) + i] = b[i]
<1>1. Len(a) \in Nat /\ Len(b) \in Nat
  BY LenProperties
<1>2. /\ a \o b \in Seq(Bytes) /\ Len(a \o b) = Len(a) + Len(b)
      /\ \A i \in 1..Len(a) + Len(b) : (a \o b)[i] = IF i <= Len(a) THEN a[i] ELSE b[i - Len(a)]
  BY ConcatProperties
<1>3. \A i \in 1..Len(a) : i \in 1..Len(a) + Len(b) /\ i <= Len(a)
  BY <1>1
<1>4. \A i \in 1..Len(b) : /\ Len(a) + i \in 1..Len(a) + Len(b) /\ ~(Len(a) + i <= Len(a))
                           /\ (Len(a) + i) - Len(a) = i
  BY <1>1
<1>5. \A i \in 1..Len(b) : (a \o b)[Len(a) + i] = b[i]
  BY <1>2, <1>4
<1> QED
  BY <1>1, <1>2, <1>3, <1>5

\* The order of joining does not matter.
LEMMA Regrouped == ASSUME NEW a \in Seq(Bytes), NEW b \in Seq(Bytes), NEW c \in Seq(Bytes)
                   PROVE  (a \o b) \o c = a \o (b \o c)
BY ConcatAssociative

\* The first n bytes.
LEMMA Begun == ASSUME NEW s \in Seq(Bytes), NEW n \in 0..Len(s)
               PROVE  /\ SubSeq(s, 1, n) \in Seq(Bytes) /\ Len(SubSeq(s, 1, n)) = n
                      /\ \A i \in 1..n : i \in 1..Len(s) /\ SubSeq(s, 1, n)[i] = s[i]
<1>1. Len(s) \in Nat /\ n \in Nat /\ 1 \in Int /\ n \in Int
  BY LenProperties
<1>2. \A i \in 1..n : i \in 1..Len(s) /\ s[i] \in Bytes
  BY <1>1, ElementOfSeq
<1>3. /\ SubSeq(s, 1, n) \in Seq(Bytes) /\ Len(SubSeq(s, 1, n)) = IF 1 <= n THEN n - 1 + 1 ELSE 0
      /\ \A i \in 1..n - 1 + 1 : SubSeq(s, 1, n)[i] = s[1 + i - 1]
  BY <1>1, <1>2, SubSeqProperties
<1>4. \A i \in 1..n : i \in 1..n - 1 + 1 /\ 1 + i - 1 = i
  BY <1>1
<1>5. \A i \in 1..n : SubSeq(s, 1, n)[i] = s[i]
  BY <1>3, <1>4
<1> QED
  BY <1>1, <1>2, <1>3, <1>5

\* Taking the oldest byte of one queue to the end of another.
LEMMA HandedOn == ASSUME NEW a \in Seq(Bytes), NEW b \in Seq(Bytes), b # << >>
                  PROVE  /\ Append(a, Head(b)) \in Seq(Bytes) /\ Tail(b) \in Seq(Bytes)
                         /\ Len(Append(a, Head(b))) = Len(a) + 1 /\ Len(Tail(b)) = Len(b) - 1
                         /\ Append(a, Head(b)) \o Tail(b) = a \o b
<1>1. Head(b) \in Bytes /\ Tail(b) \in Seq(Bytes) /\ Len(Tail(b)) = Len(b) - 1
  BY HeadTailProperties
<1>2. Append(a, Head(b)) = a \o <<Head(b)>> /\ Append(a, Head(b)) \in Seq(Bytes)
      /\ Len(Append(a, Head(b))) = Len(a) + 1
  BY <1>1, AppendIsConcat, AppendProperties
<1>3. <<Head(b)>> \in Seq(Bytes) /\ Len(<<Head(b)>>) = 1 /\ <<Head(b)>>[1] = Head(b)
  BY <1>1
<1>4. <<Head(b)>> \o Tail(b) = b
  <2> DEFINE h == <<Head(b)>>
             t == Tail(b)
  <2>1. /\ h \o t \in Seq(Bytes) /\ Len(h \o t) = Len(h) + Len(t)
        /\ \A i \in 1..Len(h) : (h \o t)[i] = h[i]
        /\ \A i \in 1..Len(t) : (h \o t)[Len(h) + i] = t[i]
    BY <1>1, <1>3, Joined
  <2>2. Len(h \o t) = Len(b) /\ Len(b) \in Nat /\ Len(b) >= 1
    BY <1>1, <1>3, <2>1, EmptySeq
  <2>3. \A i \in 1..Len(t) : t[i] = b[i + 1]
    BY HeadTailProperties
  <2>4. Head(b) = b[1]
    OBVIOUS
  <2>5. (h \o t)[1] = b[1]
    BY <1>3, <2>1, <2>4
  <2> HIDE DEF h, t
  <2>6. ASSUME NEW i \in 1..Len(b) PROVE (h \o t)[i] = b[i]
    <3>1. CASE i = 1
      BY <2>5, <3>1
    <3>2. CASE i > 1
      <4>1. i - 1 \in 1..Len(t) /\ Len(h) + (i - 1) = i /\ (i - 1) + 1 = i
        BY <1>1, <1>3, <2>2, <3>2 DEF h, t
      <4> QED
        BY <2>1, <2>3, <4>1
    <3> QED
      BY <2>2, <3>1, <3>2
  <2>7. h \o t = b
    BY <2>1, <2>2, <2>6, SeqEqual
  <2> QED
    BY <2>7 DEF h, t
<1>5. (a \o <<Head(b)>>) \o Tail(b) = a \o (<<Head(b)>> \o Tail(b))
  BY <1>1, <1>3, ConcatAssociative
<1> QED
  BY <1>1, <1>2, <1>4, <1>5

----------------------------------------------------------------------------
(* The flow of bytes                                                       *)

\* The next bytes arrive.
LEMMA FlowGrows ==
  ASSUME NEW s \in Seq(Bytes), NEW p \in Seq(Bytes), NEW missing, NEW n \in Nat,
         Flow(s, missing, n), \A i \in 1..Len(p) : p[i] = n + i
  PROVE  Flow(s \o p, missing, n + Len(p))
<1> DEFINE t == s \o p
           m == Len(s)
           k == Len(p)
<1>1. /\ t \in Seq(Bytes) /\ m \in Nat /\ k \in Nat /\ Len(t) = m + k
      /\ \A i \in 1..m : t[i] = s[i]
      /\ \A i \in 1..k : t[m + i] = p[i]
  BY Joined
<1>2. \A i \in 1..m : s[i] \in 1..n
  BY DEF Flow
<1>3. \A i \in 1..k : t[m + i] = n + i
  BY <1>1
<1> HIDE DEF t
<1>4. ASSUME NEW i \in 1..m + k PROVE i \in 1..m \/ (i - m \in 1..k /\ t[i] = n + (i - m))
  <2>1. CASE i > m
    <3>1. i - m \in 1..k /\ m + (i - m) = i
      BY <1>1, <2>1
    <3> QED
      BY <1>3, <3>1
  <2> QED
    BY <1>1, <2>1
<1>5. ASSUME NEW i \in 1..Len(t), NEW j \in 1..Len(t), i < j PROVE t[i] < t[j]
  <2>1. CASE j \in 1..m
    <3>1. i \in 1..m
      BY <1>1, <1>5, <2>1
    <3> QED
      BY <1>1, <1>5, <2>1, <3>1 DEF Flow
  <2>2. CASE i \in 1..m /\ j \notin 1..m
    <3>1. t[i] \in 1..n /\ j - m \in 1..k /\ t[j] = n + (j - m)
      BY <1>1, <1>2, <1>4, <2>2
    <3> QED
      BY <3>1
  <2>3. CASE i \notin 1..m
    <3>1. j \notin 1..m
      BY <1>1, <1>5, <2>3
    <3>2. t[i] = n + (i - m) /\ t[j] = n + (j - m)
      BY <1>1, <1>4, <2>3, <3>1
    <3> QED
      BY <1>1, <1>5, <3>2
  <2> QED
    BY <2>1, <2>2, <2>3
<1>6. ASSUME NEW b \in { t[i] : i \in 1..Len(t) } PROVE b \in (1..n + k) \ missing
  <2>1. PICK i \in 1..Len(t) : b = t[i]
    OBVIOUS
  <2>2. CASE i \in 1..m
    <3>1. b \in (1..n) \ missing
      BY <1>1, <2>1, <2>2 DEF Flow
    <3> QED
      BY <1>1, <3>1
  <2>3. CASE i \notin 1..m
    <3>1. i - m \in 1..k /\ b = n + (i - m)
      BY <1>1, <1>4, <2>1, <2>3
    <3>2. b \in 1..n + k /\ b \notin 1..n
      BY <1>1, <3>1
    <3> QED
      BY <3>2 DEF Flow
  <2> QED
    BY <2>2, <2>3
<1>7. ASSUME NEW b \in (1..n + k) \ missing PROVE b \in { t[i] : i \in 1..Len(t) }
  <2>1. CASE b <= n
    <3>1. b \in (1..n) \ missing
      BY <1>1, <2>1
    <3>2. PICK i \in 1..m : b = s[i]
      BY <3>1 DEF Flow
    <3>3. b = t[i] /\ i \in 1..Len(t)
      BY <1>1, <3>2
    <3> QED
      BY <3>3
  <2>2. CASE b > n
    <3>1. b - n \in 1..k /\ n + (b - n) = b /\ m + (b - n) \in 1..Len(t)
      BY <1>1, <2>2
    <3>2. t[m + (b - n)] = b
      BY <1>3, <3>1
    <3> QED
      BY <3>1, <3>2
  <2> QED
    BY <1>1, <2>1, <2>2
<1>8. missing \subseteq 1..n + k
  BY <1>1 DEF Flow
<1>9. { t[i] : i \in 1..Len(t) } = (1..n + k) \ missing
  BY <1>6, <1>7
<1> QED
  BY <1>5, <1>8, <1>9 DEF Flow, t

\* The last ones are dropped.
LEMMA FlowCut ==
  ASSUME NEW s \in Seq(Bytes), NEW t \in Seq(Bytes), NEW missing, NEW n \in Nat, Flow(s, missing, n),
         Len(t) <= Len(s), \A i \in 1..Len(t) : t[i] = s[i]
  PROVE  Flow(t, missing \union { s[i] : i \in Len(t) + 1..Len(s) }, n)
<1> DEFINE lost == { s[i] : i \in Len(t) + 1..Len(s) }
<1>1. Len(s) \in Nat /\ Len(t) \in Nat
  BY LenProperties
<1>2. \A i \in 1..Len(s) : s[i] \in Nat /\ s[i] \in (1..n) \ missing
  BY ElementOfSeq, Sizes DEF Flow
<1>3. \A i, j \in 1..Len(t) : i < j => t[i] < t[j]
  BY <1>1 DEF Flow
<1>4. lost \subseteq 1..n
  BY <1>1, <1>2
<1>5. ASSUME NEW i \in 1..Len(t) PROVE t[i] \in (1..n) \ (missing \union lost)
  <2>1. i \in 1..Len(s) /\ t[i] = s[i]
    BY <1>1
  <2>2. ASSUME NEW j \in Len(t) + 1..Len(s) PROVE s[i] # s[j]
    <3>1. j \in 1..Len(s) /\ i < j
      BY <1>1
    <3>2. s[i] < s[j] /\ s[i] \in Nat /\ s[j] \in Nat
      BY <1>2, <2>1, <3>1 DEF Flow
    <3> QED
      BY <3>2
  <2> QED
    BY <1>2, <2>1, <2>2
<1>6. ASSUME NEW b \in (1..n) \ (missing \union lost) PROVE b \in { t[i] : i \in 1..Len(t) }
  <2>1. PICK i \in 1..Len(s) : b = s[i]
    BY DEF Flow
  <2>2. i \in 1..Len(t)
    <3>1. i \notin Len(t) + 1..Len(s)
      BY <2>1
    <3> QED
      BY <1>1, <3>1
  <2> QED
    BY <2>1, <2>2
<1>7. { t[i] : i \in 1..Len(t) } = (1..n) \ (missing \union lost)
  BY <1>5, <1>6
<1> QED
  BY <1>3, <1>4, <1>7 DEF Flow

----------------------------------------------------------------------------
(* The types                                                               *)

\* The variables' types, one by one.
LEMMA Types ==
  ASSUME TypeOK
  PROVE  /\ side \in {"tx", "rx"} /\ at \in {"tx", "look", "advance", "send", "recv", "usb"}
         /\ struck \in BOOLEAN /\ queue \in Seq(Bytes) /\ local \in Seq(Bytes) /\ packet \in Seq(Bytes) /\ wire \in Seq(Bytes)
         /\ Len(queue) \in Nat /\ Len(local) \in Nat /\ Len(packet) \in Nat /\ Len(wire) \in Nat
         /\ Len(queue) + kept <= Capacity /\ Len(local) <= Chunk /\ Len(packet) <= MaxPacket
         /\ kept \in Nat /\ kept <= Chunk
         /\ ep \in Endpoint /\ ep.avail \in BOOLEAN /\ ep.pid \in {0, 1} /\ ep.next \in {0, 1}
         /\ ep.len \in 0..MaxPacket /\ ep.len \in Nat
         /\ done \in BOOLEAN /\ setup \in {"none", "config", "clear", "close"}
         /\ configured \in BOOLEAN /\ hostPid \in {0, 1} /\ again \in 0..MaxPacket /\ again \in Nat
         /\ epoch \in 1..MaxEpoch /\ sent \in Bytes /\ sent \in Nat /\ gone \subseteq Bytes
         /\ calm \in BOOLEAN
<1>1. /\ queue \in Seq(Bytes) /\ local \in Seq(Bytes) /\ packet \in Seq(Bytes) /\ wire \in Seq(Bytes)
  BY DEF TypeOK
<1>2. /\ Len(queue) \in Nat /\ Len(local) \in Nat /\ Len(packet) \in Nat /\ Len(wire) \in Nat
  BY <1>1, LenProperties
<1>3. /\ ep \in Endpoint /\ ep.avail \in BOOLEAN /\ ep.pid \in {0, 1} /\ ep.next \in {0, 1}
      /\ ep.len \in 0..MaxPacket
  BY DEF TypeOK, Endpoint
<1>4. ep.len \in Nat /\ again \in 0..MaxPacket /\ again \in Nat /\ kept \in Nat /\ kept <= Chunk
      /\ sent \in Bytes /\ sent \in Nat
  BY <1>3, Sizes DEF TypeOK
<1> QED
  BY <1>1, <1>2, <1>3, <1>4 DEF TypeOK

\* What the handler is given is a sequence of bytes.
LEMMA ReceivedBytes ==
  ASSUME TypeOK
  PROVE  /\ Received \in Seq(Bytes) /\ Len(Received) = ep.len
         /\ \A i \in 1..ep.len : Received[i] = IF i <= Len(packet) THEN packet[i] ELSE 0
<1> DEFINE n == ep.len
           b == [i \in 1..n |-> IF i <= Len(packet) THEN packet[i] ELSE 0]
<1>1. n \in Nat /\ packet \in Seq(Bytes) /\ Len(packet) \in Nat
  BY Types
<1>2. \A i \in 1..n : (IF i <= Len(packet) THEN packet[i] ELSE 0) \in Bytes
  BY <1>1, ElementOfSeq, Sizes
<1>3. b \in [1..n -> Bytes]
  BY <1>2
<1>4. Received = b
  BY DEF Received
<1> HIDE DEF n, b
<1>5. b \in Seq(Bytes) /\ Len(b) = n
  BY <1>1, <1>3, SeqDef
<1> QED
  BY <1>4, <1>5 DEF n, b

\* A packet put into the queue: the first bytes of it go in, the others are gone.
LEMMA PutEffect ==
  ASSUME TypeOK, NEW p \in Seq(Bytes), Put(p)
  PROVE  \E r \in 0..Len(p) :
            /\ SubSeq(p, 1, r) \in Seq(Bytes) /\ queue' = queue \o SubSeq(p, 1, r)
            /\ queue' \in Seq(Bytes) /\ Len(queue') = Len(queue) + r /\ Len(queue') + kept <= Capacity
            /\ queue # << >> => queue' # << >>
            /\ gone' = IF calm THEN gone \union { p[i] : i \in r + 1..Len(p) } ELSE {}
            /\ gone' \subseteq Bytes
<1> DEFINE r == Room(Len(p))
<1>1. /\ Len(p) \in Nat /\ Len(queue) \in Nat /\ kept \in Nat /\ Len(queue) + kept <= Capacity
      /\ queue \in Seq(Bytes)
  BY Types, LenProperties
<1>2. r \in 0..Len(p) /\ Len(queue) + r + kept <= Capacity
  BY <1>1, Sizes DEF Room
<1>3. queue' = queue \o SubSeq(p, 1, r)
      /\ gone' = IF calm THEN gone \union { p[i] : i \in r + 1..Len(p) } ELSE {}
  BY DEF Put
<1> HIDE DEF r
<1>4. SubSeq(p, 1, r) \in Seq(Bytes) /\ Len(SubSeq(p, 1, r)) = r
  BY <1>2, Begun
<1>5. queue' \in Seq(Bytes) /\ Len(queue') = Len(queue) + r
  BY <1>1, <1>3, <1>4, Joined
<1>6. \A i \in r + 1..Len(p) : p[i] \in Bytes
  BY <1>1, <1>2, ElementOfSeq
<1>7. gone' \subseteq Bytes
  BY <1>3, <1>6, Types
<1>8. queue # << >> => queue' # << >>
  <2>1. (queue = << >> <=> Len(queue) = 0) /\ (queue' = << >> <=> Len(queue') = 0)
    BY <1>1, <1>5, EmptySeq
  <2> QED
    BY <1>1, <1>2, <1>5, <2>1
<1> QED
  BY <1>1, <1>2, <1>3, <1>4, <1>5, <1>7, <1>8

\* Arming an endpoint.
LEMMA Armed == ASSUME NEW e \in Endpoint
               PROVE  /\ usb_start_transfer(e) \in Endpoint
                      /\ usb_start_transfer(e).avail /\ usb_start_transfer(e).pid = e.next
                      /\ usb_start_transfer(e).next = 1 - e.next
                      /\ [e EXCEPT !.next = 0] \in Endpoint /\ [e EXCEPT !.next = 0].next = 0
                      /\ [e EXCEPT !.next = 0].avail = e.avail
<1>1. e.next \in {0, 1} /\ 1 - e.next \in {0, 1} /\ MaxPacket \in 0..MaxPacket
  BY Sizes DEF Endpoint
<1> DEFINE k == 1 - e.next
<1>2. usb_start_transfer(e) = [e EXCEPT !.avail = TRUE, !.pid = e.next, !.next = k, !.len = MaxPacket]
  BY DEF usb_start_transfer
<1> HIDE DEF k
<1>3. k \in {0, 1}
  BY <1>1 DEF k
<1>4. usb_start_transfer(e) \in Endpoint
  BY <1>1, <1>2, <1>3 DEF Endpoint
<1>5. usb_start_transfer(e).avail /\ usb_start_transfer(e).pid = e.next /\ usb_start_transfer(e).next = k
  BY <1>2 DEF Endpoint
<1>6. [e EXCEPT !.next = 0] \in Endpoint /\ [e EXCEPT !.next = 0].next = 0
      /\ [e EXCEPT !.next = 0].avail = e.avail
  BY DEF Endpoint
<1> QED
  BY <1>4, <1>5, <1>6 DEF k

\* A packet taken by the endpoint.
LEMMA PacketTaken == ASSUME NEW e \in Endpoint, NEW n \in 1..MaxPacket
                     PROVE  LET f == [e EXCEPT !.avail = FALSE, !.len = n]
                            IN  /\ f \in Endpoint /\ ~f.avail /\ f.len = n /\ f.next = e.next
                                /\ f.pid = e.pid
<1>1. n \in 0..MaxPacket
  OBVIOUS
<1> QED
  BY <1>1 DEF Endpoint

Typed == TypeOK /\ KeptInv /\ TakeInv /\ SideInv

\* At the start nothing is anywhere.
LEMMA TypedAtInit == Init => Typed
<1> SUFFICES ASSUME Init PROVE Typed
  OBVIOUS
<1>1. ep \in Endpoint
  BY Sizes DEF Init, Endpoint
<1>2. << >> \in Seq(Bytes) /\ Len(<< >>) = 0
  BY EmptySeq
<1>3. /\ queue \in Seq(Bytes) /\ local \in Seq(Bytes) /\ packet \in Seq(Bytes) /\ wire \in Seq(Bytes)
      /\ Len(queue) = 0 /\ Len(local) = 0 /\ Len(packet) = 0
  BY <1>2 DEF Init
<1>4. /\ side \in {"tx", "rx"} /\ at = "tx" /\ struck = FALSE /\ kept = 0 /\ done = FALSE /\ setup = "none"
      /\ configured = FALSE /\ hostPid = 0 /\ again = 0 /\ epoch = 1 /\ sent = 0 /\ gone = {} /\ calm = TRUE
  BY DEF Init
<1>5. 0 \in 0..Chunk /\ 0 \in 0..MaxPacket /\ 1 \in 1..MaxEpoch /\ 0 + 0 <= Capacity /\ 0 <= Chunk
      /\ 0 <= MaxPacket /\ 0 + 0 <= MaxBytes
  BY Sizes
<1>6. TypeOK
  BY <1>1, <1>3, <1>4, <1>5, Sizes DEF TypeOK
<1>7. KeptInv /\ TakeInv /\ SideInv
  BY <1>3, <1>4, <1>5 DEF KeptInv, TakeInv, SideInv, Count
<1> QED
  BY <1>6, <1>7 DEF Typed

\* A completion.
LEMMA HandlerTyped == Typed /\ uart_data_out_handler => Typed'
<1> SUFFICES ASSUME Typed, uart_data_out_handler PROVE Typed'
  OBVIOUS
<1>1. TypeOK /\ KeptInv /\ TakeInv /\ SideInv
  BY DEF Typed
<1>2. /\ done /\ done' = FALSE /\ Put(Received) /\ ep' = usb_start_transfer(ep) /\ packet' = << >>
      /\ UNCHANGED <<side, at, struck, local, kept, setup, configured, hostPid, again, epoch, sent, wire, calm>>
  BY DEF uart_data_out_handler, loop
<1>3. /\ queue' \in Seq(Bytes) /\ Len(queue') + kept <= Capacity /\ gone' \subseteq Bytes
      /\ (queue # << >> => queue' # << >>)
  <2>1. Received \in Seq(Bytes)
    BY <1>1, ReceivedBytes
  <2> QED
    BY <1>1, <1>2, <2>1, PutEffect
<1>4. ep' \in Endpoint
  BY <1>1, <1>2, Types, Armed
<1>5. packet' \in Seq(Bytes) /\ Len(packet') <= MaxPacket
  BY <1>2, EmptySeq, Sizes
<1>6. TypeOK'
  BY <1>1, <1>2, <1>3, <1>4, <1>5 DEF TypeOK
<1>7. KeptInv' /\ TakeInv' /\ SideInv'
  BY <1>1, <1>2, <1>3 DEF KeptInv, TakeInv, SideInv, Count
<1> QED
  BY <1>6, <1>7 DEF Typed

\* What a request does to the host's side of the pipe.
LEMMA HostAfterSetup ==
  ASSUME ServeSetup
  PROVE  \/ UNCHANGED <<configured, hostPid, again, sent>>
         \/ configured' = TRUE /\ hostPid' = 0 /\ again' = 0 /\ sent' = sent + again
BY DEF ServeSetup

\* A request served.
LEMMA SetupTyped == Typed /\ ServeSetup => Typed'
<1> SUFFICES ASSUME Typed, ServeSetup PROVE Typed'
  OBVIOUS
<1>1. TypeOK /\ KeptInv /\ TakeInv /\ SideInv
  BY DEF Typed
<1>2. /\ setup # "none" /\ setup' = "none" /\ ep' = usb_start_transfer([ep EXCEPT !.next = 0])
      /\ calm' = (calm /\ ~done /\ (setup = "close" => NextPid = 0))
      /\ UNCHANGED <<side, queue, at, struck, local, kept, done, packet, epoch>>
  BY DEF ServeSetup, loop
<1>3. \/ UNCHANGED <<configured, hostPid, again, sent>>
      \/ configured' = TRUE /\ hostPid' = 0 /\ again' = 0 /\ sent' = sent + again
  BY HostAfterSetup
<1>4. side = "tx"
  BY <1>1, <1>2, Types DEF SideInv
<1>5. ep' \in Endpoint
  BY <1>1, <1>2, Types, Armed
<1>6. wire' \in Seq(Bytes) /\ gone' \subseteq Bytes
  <2>1. IF calm' THEN UNCHANGED <<wire, gone>> ELSE wire' = << >> /\ gone' = {}
    BY DEF ServeSetup
  <2> QED
    BY <1>1, <2>1, EmptySeq, Types
<1>7. /\ configured' \in BOOLEAN /\ hostPid' \in {0, 1} /\ again' \in 0..MaxPacket
      /\ sent' \in Bytes /\ sent' + again' <= MaxBytes
  <2>1. sent + again <= MaxBytes /\ sent \in Nat /\ again \in Nat
    BY <1>1, Types DEF SideInv, Count
  <2>2. sent + again \in Bytes /\ 0 \in 0..MaxPacket /\ sent + again + 0 <= MaxBytes
    BY <2>1, Sizes DEF Bytes
  <2> QED
    BY <1>1, <1>3, <2>1, <2>2, Types
<1>8. calm' \in BOOLEAN
  BY <1>2
<1>9. TypeOK'
  BY <1>1, <1>2, <1>5, <1>6, <1>7, <1>8 DEF TypeOK
<1>10. KeptInv' /\ TakeInv' /\ SideInv'
  BY <1>1, <1>2, <1>4, <1>7 DEF KeptInv, TakeInv, SideInv, Count
<1> QED
  BY <1>9, <1>10 DEF Typed

\* A bus reset.
LEMMA ResetTyped == Typed /\ usb_bus_reset => Typed'
<1> SUFFICES ASSUME Typed, usb_bus_reset PROVE Typed'
  OBVIOUS
<1>1. TypeOK /\ KeptInv /\ TakeInv /\ SideInv
  BY DEF Typed
<1>2. /\ side = "tx" /\ epoch < MaxEpoch /\ epoch' = epoch + 1 /\ queue' = << >>
      /\ struck' = (at \in {"look", "advance"}) /\ calm' = (calm /\ ~struck')
      /\ wire' = (IF calm' THEN wire ELSE << >>)
      /\ gone' = IF calm' THEN gone \union { queue[i] : i \in DOMAIN queue } ELSE {}
      /\ ep' = [ep EXCEPT !.next = 0] /\ configured' = FALSE /\ again' = 0 /\ sent' = sent + again
      /\ UNCHANGED <<side, at, local, kept, done, packet, setup, hostPid>>
  BY DEF usb_bus_reset, loop
<1>3. queue' \in Seq(Bytes) /\ Len(queue') + kept <= Capacity
  <2>1. queue' \in Seq(Bytes) /\ Len(queue') = 0
    BY <1>2, EmptySeq
  <2>2. 0 + kept <= Capacity
    BY <1>1, Types, Sizes
  <2> QED
    BY <2>1, <2>2
<1>4. gone' \subseteq Bytes /\ wire' \in Seq(Bytes)
  <2>1. \A i \in DOMAIN queue : queue[i] \in Bytes
    <3>1. queue \in Seq(Bytes)
      BY <1>1, Types
    <3>2. DOMAIN queue = 1..Len(queue)
      BY <3>1, LenProperties
    <3> QED
      BY <3>1, <3>2, ElementOfSeq
  <2> QED
    BY <1>1, <1>2, <2>1, Types, EmptySeq
<1>5. ep' \in Endpoint
  BY <1>1, <1>2, Types, Armed
<1>6. again' \in 0..MaxPacket /\ sent' \in Bytes /\ sent' + again' <= MaxBytes
  <2>1. sent \in Nat /\ again \in Nat /\ sent + again <= MaxBytes
    BY <1>1, Types DEF SideInv, Count
  <2>2. sent + again \in Bytes /\ 0 \in 0..MaxPacket /\ sent + again + 0 <= MaxBytes
    BY <2>1, Sizes DEF Bytes
  <2> QED
    BY <1>2, <2>2
<1>7. epoch' \in 1..MaxEpoch
  BY SMTT(20), <1>1, <1>2, Types, Sizes
<1>8. TypeOK'
  <2>1. struck' \in BOOLEAN /\ calm' \in BOOLEAN
    BY <1>2
  <2> QED
    BY <1>1, <1>2, <1>3, <1>4, <1>5, <1>6, <1>7, <2>1 DEF TypeOK
<1>9. KeptInv' /\ TakeInv' /\ SideInv'
  BY <1>1, <1>2, <1>6 DEF KeptInv, TakeInv, SideInv, Count
<1> QED
  BY <1>8, <1>9 DEF Typed

\* A packet of the host, new or a repetition, is taken when its toggle is the
\* endpoint's; the bytes the host is done with, and those it will repeat, are a
\* packet more if it was new.
LEMMA PacketEffect ==
  ASSUME Typed, NEW n \in 1..MaxPacket, HostPacket(n)
  PROVE  /\ side = "tx" /\ configured /\ setup \in {"none", "close"} /\ ep.avail
         /\ Count' = sent + n /\ (again = 0 \/ again = n) /\ sent + n <= MaxBytes
         /\ sent' \in Bytes /\ again' \in 0..MaxPacket /\ hostPid' \in {0, 1}
         /\ \/ hostPid' = 1 - hostPid /\ again' = 0
            \/ hostPid' = hostPid /\ again' = n
         /\ \/ /\ ep.pid = hostPid /\ done' = TRUE
               /\ packet' = [i \in 1..n |-> IF calm THEN sent + i ELSE 0]
               /\ packet' \in Seq(Bytes) /\ Len(packet') = n
               /\ ep' = [ep EXCEPT !.avail = FALSE, !.len = n]
            \/ ep.pid # hostPid /\ UNCHANGED <<packet, ep, done>>
         /\ UNCHANGED <<side, queue, at, struck, local, kept, setup, configured, epoch, wire, gone, calm>>
<1>1. TypeOK /\ KeptInv /\ TakeInv /\ SideInv
  BY DEF Typed
<1>2. n \in Nat /\ n \in 0..MaxPacket /\ sent \in Nat /\ hostPid \in {0, 1}
  BY <1>1, Types, Sizes
<1>3. /\ side = "tx" /\ configured /\ setup \in {"none", "close"} /\ ep.avail
      /\ (again = 0 \/ again = n) /\ sent + n <= MaxBytes
      /\ UNCHANGED <<side, queue, at, struck, local, kept, setup, configured, epoch, wire, gone, calm>>
  BY DEF HostPacket, loop, history
<1>4. \/ hostPid' = 1 - hostPid /\ sent' = sent + n /\ again' = 0
      \/ hostPid' = hostPid /\ sent' = sent /\ again' = n
  BY DEF HostPacket
<1>5. /\ Count' = sent + n /\ sent' \in Bytes /\ again' \in 0..MaxPacket /\ hostPid' \in {0, 1}
  <2>1. sent + n \in Bytes /\ sent \in Bytes /\ sent + n + 0 = sent + n /\ 1 - hostPid \in {0, 1}
        /\ 0 \in 0..MaxPacket
    BY <1>1, <1>2, <1>3, Types, Sizes DEF Bytes
  <2>2. Count' = sent' + again'
    BY DEF Count
  <2> QED
    BY <1>2, <1>4, <2>1, <2>2
<1>6. CASE ep.pid = hostPid
  <2> DEFINE p == [i \in 1..n |-> IF calm THEN sent + i ELSE 0]
  <2>1. packet' = p /\ ep' = [ep EXCEPT !.avail = FALSE, !.len = n] /\ done' = TRUE
    BY <1>6 DEF HostPacket
  <2>2. \A i \in 1..n : (IF calm THEN sent + i ELSE 0) \in Bytes
    <3>1. \A i \in 1..n : sent + i \in 0..MaxBytes
      BY <1>2, <1>3, Sizes
    <3> QED
      BY <3>1, Sizes DEF Bytes
  <2>3. p \in [1..n -> Bytes]
    BY <2>2
  <2> HIDE DEF p
  <2>4. p \in Seq(Bytes) /\ Len(p) = n
    BY <1>2, <2>3, SeqDef
  <2> QED
    BY <1>3, <1>4, <1>5, <1>6, <2>1, <2>4 DEF p
<1>7. CASE ep.pid # hostPid
  <2>1. UNCHANGED <<packet, ep, done>>
    BY <1>7 DEF HostPacket
  <2> QED
    BY <1>3, <1>4, <1>5, <1>7, <2>1
<1> QED
  BY <1>6, <1>7

\* A packet of the host.
LEMMA HostPacketTyped == ASSUME Typed, NEW n \in 1..MaxPacket, HostPacket(n) PROVE Typed'
<1>1. TypeOK /\ KeptInv /\ TakeInv /\ SideInv
  BY DEF Typed
<1>2. n \in Nat /\ n <= MaxPacket
  BY Sizes
<1>3. /\ side = "tx" /\ Count' = sent + n /\ sent + n <= MaxBytes
      /\ sent' \in Bytes /\ again' \in 0..MaxPacket /\ hostPid' \in {0, 1}
      /\ UNCHANGED <<side, queue, at, struck, local, kept, setup, configured, epoch, wire, gone, calm>>
  BY PacketEffect
<1>4. ep' \in Endpoint /\ done' \in BOOLEAN /\ packet' \in Seq(Bytes) /\ Len(packet') <= MaxPacket
  <2>1. \/ /\ ep' = [ep EXCEPT !.avail = FALSE, !.len = n] /\ done' = TRUE
           /\ packet' \in Seq(Bytes) /\ Len(packet') = n
        \/ UNCHANGED <<packet, ep, done>>
    BY PacketEffect
  <2>2. [ep EXCEPT !.avail = FALSE, !.len = n] \in Endpoint
    BY <1>1, PacketTaken, Types
  <2> QED
    BY <1>1, <1>2, <2>1, <2>2, Types
<1>5. TypeOK'
  BY <1>1, <1>3, <1>4 DEF TypeOK
<1>6. KeptInv' /\ TakeInv' /\ SideInv'
  BY <1>1, <1>3 DEF KeptInv, TakeInv, SideInv
<1> QED
  BY <1>5, <1>6 DEF Typed

\* A request of the host.
LEMMA HostSetupTyped == ASSUME Typed, NEW s \in {"config", "clear", "close"}, HostSetup(s) PROVE Typed'
<1>1. /\ side = "tx" /\ setup' = s
      /\ UNCHANGED <<side, queue, at, struck, local, kept, ep, done, packet, configured, hostPid, again, epoch,
                     sent, wire, gone, calm>>
  BY DEF HostSetup, loop, history
<1>2. TypeOK'
  BY <1>1 DEF TypeOK, Typed
<1>3. KeptInv' /\ TakeInv' /\ SideInv'
  BY <1>1 DEF KeptInv, TakeInv, SideInv, Count, Typed
<1> QED
  BY <1>2, <1>3 DEF Typed

\* What the UART receives is put into the queue.
LEMMA Heard ==
  ASSUME Typed, NEW n \in 1..MaxPacket, uart0_rx_isr(n)
  PROVE  LET p == [i \in 1..n |-> sent + i]
         IN  /\ p \in Seq(Bytes) /\ Len(p) = n /\ Put(p)
             /\ side = "rx" /\ again = 0 /\ ~done /\ n \in Nat
             /\ sent + n <= MaxBytes /\ sent + n \in Bytes /\ sent' = sent + n
             /\ UNCHANGED <<side, at, struck, local, kept, ep, done, packet, setup, configured, hostPid, again,
                            epoch, wire, calm>>
<1> DEFINE p == [i \in 1..n |-> sent + i]
<1>1. TypeOK /\ SideInv /\ sent \in Nat /\ n \in Nat
  BY Types, Sizes DEF Typed
<1>2. /\ side = "rx" /\ sent + n <= MaxBytes /\ Put(p) /\ sent' = sent + n
      /\ UNCHANGED <<side, at, struck, local, kept, ep, done, packet, setup, configured, hostPid, again,
                     epoch, wire, calm>>
  BY DEF uart0_rx_isr, loop, usb
<1>3. \A i \in 1..n : sent + i \in Bytes
  BY <1>1, <1>2, Sizes DEF Bytes
<1>4. p \in [1..n -> Bytes]
  BY <1>3
<1>5. sent + n \in Bytes /\ again = 0 /\ ~done
  BY <1>1, <1>2, Sizes DEF Bytes, SideInv
<1> HIDE DEF p
<1>6. p \in Seq(Bytes) /\ Len(p) = n
  BY <1>1, <1>4, SeqDef
<1> QED
  BY <1>1, <1>2, <1>5, <1>6 DEF p

\* The UART's interrupt.
LEMMA RxTyped == ASSUME Typed, NEW n \in 1..MaxPacket, uart0_rx_isr(n) PROVE Typed'
<1> DEFINE p == [i \in 1..n |-> sent + i]
<1>1. /\ p \in Seq(Bytes) /\ Put(p)
      /\ side = "rx" /\ again = 0 /\ ~done /\ n \in Nat
      /\ sent + n <= MaxBytes /\ sent + n \in Bytes /\ sent' = sent + n
      /\ UNCHANGED <<side, at, struck, local, kept, ep, done, packet, setup, configured, hostPid, again,
                     epoch, wire, calm>>
  BY Heard
<1> HIDE DEF p
<1>2. TypeOK /\ KeptInv /\ TakeInv /\ SideInv /\ sent \in Nat
  BY Types DEF Typed
<1>3. /\ queue' \in Seq(Bytes) /\ Len(queue') + kept <= Capacity /\ gone' \subseteq Bytes
      /\ (queue # << >> => queue' # << >>)
  BY <1>1, <1>2, PutEffect
<1>4. TypeOK'
  BY <1>1, <1>2, <1>3 DEF TypeOK
<1>5. sent' + again' <= MaxBytes
  BY <1>1, <1>2
<1>6. KeptInv' /\ TakeInv' /\ SideInv'
  BY <1>1, <1>2, <1>3, <1>5 DEF KeptInv, TakeInv, SideInv, Count
<1> QED
  BY <1>4, <1>6 DEF Typed

\* The loop's condition, and its first load of the tail.
LEMMA LookTyped == Typed /\ Look => Typed'
<1> SUFFICES ASSUME Typed, Look PROVE Typed'
  OBVIOUS
<1>1. /\ at = "tx" /\ side = "tx" /\ Len(local) < Chunk /\ at' = "look"
      /\ UNCHANGED <<side, queue, struck, local, kept, ep, done, packet, setup, configured, hostPid, again,
                     epoch, sent, wire, gone, calm>>
  BY DEF Look, usb, history
<1>2. TypeOK'
  BY <1>1 DEF TypeOK, Typed
<1>3. KeptInv' /\ TakeInv' /\ SideInv'
  BY <1>1 DEF KeptInv, TakeInv, SideInv, Count, Typed
<1> QED
  BY <1>2, <1>3 DEF Typed

\* A byte copied out of the queue.
LEMMA CopyTyped == Typed /\ Copy => Typed'
<1> SUFFICES ASSUME Typed, Copy PROVE Typed'
  OBVIOUS
<1>1. TypeOK /\ KeptInv /\ TakeInv /\ SideInv
  BY DEF Typed
<1>2. /\ at = "look" /\ at' = "advance" /\ (queue # << >> \/ struck)
      /\ local' = Append(local, IF queue # << >> THEN Head(queue) ELSE 0)
      /\ UNCHANGED <<side, queue, struck, kept, ep, done, packet, setup, configured, hostPid, again,
                     epoch, sent, wire, gone, calm>>
  BY DEF Copy, usb, history
<1>3. Len(local) < Chunk /\ kept = 0 /\ queue \in Seq(Bytes) /\ local \in Seq(Bytes) /\ Len(local) \in Nat
  BY <1>1, <1>2, Types DEF TakeInv, KeptInv
<1>4. (IF queue # << >> THEN Head(queue) ELSE 0) \in Bytes
  BY <1>3, HeadTailProperties, Sizes
<1>5. local' \in Seq(Bytes) /\ Len(local') = Len(local) + 1
  BY <1>2, <1>3, <1>4, AppendProperties
<1>6. Len(local') <= Chunk /\ kept <= Len(local')
  BY <1>3, <1>5, Sizes
<1>7. TypeOK'
  BY <1>1, <1>2, <1>5, <1>6 DEF TypeOK
<1>8. KeptInv' /\ TakeInv' /\ SideInv'
  BY <1>1, <1>2, <1>3, <1>6 DEF KeptInv, TakeInv, SideInv, Count
<1> QED
  BY <1>7, <1>8 DEF Typed

\* The tail stored.
LEMMA AdvanceTyped == Typed /\ Advance => Typed'
<1> SUFFICES ASSUME Typed, Advance PROVE Typed'
  OBVIOUS
<1>1. TypeOK /\ KeptInv /\ TakeInv /\ SideInv
  BY DEF Typed
<1>2. /\ at = "advance" /\ at' = "tx" /\ struck' = FALSE
      /\ UNCHANGED <<side, local, kept, ep, done, packet, setup, configured, hostPid, again,
                     epoch, sent, wire, gone, calm>>
  BY DEF Advance, usb, history
<1>3. kept = 0
  BY <1>1, <1>2 DEF KeptInv
<1>4. queue' \in Seq(Bytes) /\ Len(queue') <= Capacity /\ Len(queue') \in Nat
  <2>1. CASE struck
    <3>1. PICK n \in 0..Capacity : queue' = [i \in 1..n |-> 0]
      BY <2>1 DEF Advance
    <3> DEFINE z == [i \in 1..n |-> 0]
    <3>2. n \in Nat /\ n <= Capacity /\ z \in [1..n -> Bytes]
      BY Sizes
    <3> HIDE DEF z
    <3>3. z \in Seq(Bytes) /\ Len(z) = n
      BY <3>2, SeqDef
    <3> QED
      BY <3>1, <3>2, <3>3 DEF z
  <2>2. CASE ~struck
    <3>1. queue # << >> /\ queue' = Tail(queue)
      BY <1>1, <1>2, <2>2 DEF Advance, TakeInv
    <3>2. Tail(queue) \in Seq(Bytes) /\ Len(Tail(queue)) = Len(queue) - 1
      BY <1>1, <3>1, Types, HandedOn
    <3>3. Len(queue) \in Nat /\ Len(queue) <= Capacity /\ Len(queue') \in Nat
      BY <1>1, <1>3, <3>1, <3>2, Types, LenProperties, Sizes
    <3> QED
      BY <3>1, <3>2, <3>3, Sizes
  <2> QED
    BY <2>1, <2>2
<1>5. Len(queue') + kept <= Capacity
  BY <1>3, <1>4, Sizes
<1>6. TypeOK'
  BY <1>1, <1>2, <1>4, <1>5 DEF TypeOK
<1>7. KeptInv' /\ TakeInv' /\ SideInv'
  BY <1>1, <1>2, <1>3 DEF KeptInv, TakeInv, SideInv, Count
<1> QED
  BY <1>6, <1>7 DEF Typed

\* The end of the copying.
LEMMA CopiedTyped == Typed /\ Copied => Typed'
<1> SUFFICES ASSUME Typed, Copied PROVE Typed'
  OBVIOUS
<1>1. /\ at # "recv" /\ at' = "send" /\ struck' = FALSE
      /\ UNCHANGED <<side, queue, local, kept, ep, done, packet, setup, configured, hostPid, again, epoch,
                     sent, wire, gone, calm>>
  BY DEF Copied, LoopOver, usb, history
<1>2. TypeOK'
  BY <1>1 DEF TypeOK, Typed
<1>3. KeptInv' /\ TakeInv' /\ SideInv'
  BY <1>1 DEF KeptInv, TakeInv, SideInv, Count, Typed
<1> QED
  BY <1>2, <1>3 DEF Typed

\* A byte sent to the UART.
LEMMA SendTyped == Typed /\ uart_driver_send => Typed'
<1> SUFFICES ASSUME Typed, uart_driver_send PROVE Typed'
  OBVIOUS
<1>1. TypeOK /\ KeptInv /\ TakeInv /\ SideInv
  BY DEF Typed
<1>2. /\ at = "send"
      /\ UNCHANGED <<side, queue, struck, kept, ep, done, packet, setup, configured, hostPid, again, epoch,
                     sent, gone, calm>>
  BY DEF uart_driver_send, usb
<1>3. kept = 0
  BY <1>1, <1>2 DEF KeptInv
<1>4. /\ local' \in Seq(Bytes) /\ Len(local') \in Nat /\ Len(local') <= Chunk /\ wire' \in Seq(Bytes)
      /\ at' \in {"send", "recv"}
  <2>1. CASE local # << >>
    <3>1. local' = Tail(local) /\ at' = at /\ wire' = (IF calm THEN Append(wire, Head(local)) ELSE wire)
      BY <2>1 DEF uart_driver_send
    <3>2. /\ Append(wire, Head(local)) \in Seq(Bytes) /\ Tail(local) \in Seq(Bytes)
          /\ Len(Tail(local)) = Len(local) - 1
      BY <1>1, <2>1, Types, HandedOn
    <3>3. Len(local') \in Nat
      BY <3>1, <3>2, LenProperties
    <3> QED
      BY <1>1, <1>2, <3>1, <3>2, <3>3, Types, Sizes
  <2>2. CASE local = << >>
    <3>1. local' = local /\ wire' = wire /\ at' = "recv"
      BY <2>2 DEF uart_driver_send
    <3> QED
      BY <1>1, <3>1, Types
  <2> QED
    BY <2>1, <2>2
<1>5. TypeOK'
  BY <1>1, <1>2, <1>4 DEF TypeOK
<1>6. KeptInv' /\ TakeInv' /\ SideInv'
  BY <1>1, <1>2, <1>3, <1>4 DEF KeptInv, TakeInv, SideInv, Count
<1> QED
  BY <1>5, <1>6 DEF Typed

\* A byte of the UART copied out of the queue; its cell may be given back later.
LEMMA RecvTyped == Typed /\ uart_driver_recv => Typed'
<1> SUFFICES ASSUME Typed, uart_driver_recv PROVE Typed'
  OBVIOUS
<1>1. TypeOK /\ KeptInv /\ TakeInv /\ SideInv
  BY DEF Typed
<1>2. /\ at = "recv"
      /\ UNCHANGED <<side, struck, ep, done, packet, setup, configured, hostPid, again, epoch,
                     sent, wire, gone, calm>>
  BY DEF uart_driver_recv, usb, history
<1>3. CASE side = "rx" /\ More
  <2>1. /\ Len(local) < Chunk /\ queue # << >> /\ local' = Append(local, Head(queue))
        /\ queue' = Tail(queue) /\ (kept' = 0 \/ kept' = kept + 1) /\ at' = at
    BY <1>3 DEF uart_driver_recv, More
  <2>2. /\ local' \in Seq(Bytes) /\ queue' \in Seq(Bytes) /\ Len(local') = Len(local) + 1
        /\ Len(queue') = Len(queue) - 1
    BY <1>1, <2>1, Types, HandedOn
  <2>3. kept' \in Nat /\ kept' <= kept + 1
    BY SMTT(20), <1>1, <2>1, Types
  <2>4. kept <= Len(local) /\ Len(queue) + kept <= Capacity /\ Len(local) \in Nat /\ Len(queue) \in Nat
        /\ kept \in Nat
    BY <1>1, Types DEF KeptInv
  <2>5. /\ Len(local') <= Chunk /\ Len(queue') + kept' <= Capacity /\ kept' <= Len(local')
        /\ kept' \in 0..Chunk
    BY <2>1, <2>2, <2>3, <2>4, Sizes
  <2>6. TypeOK'
    BY <1>1, <1>2, <2>1, <2>2, <2>5 DEF TypeOK
  <2>7. KeptInv' /\ TakeInv' /\ SideInv'
    BY <1>1, <1>2, <2>1, <2>5 DEF KeptInv, TakeInv, SideInv, Count
  <2> QED
    BY <2>6, <2>7 DEF Typed
<1>4. CASE ~(side = "rx" /\ More)
  <2>1. kept' = 0 /\ at' \in {"tx", "usb"} /\ queue' = queue /\ local' = local
    BY <1>4 DEF uart_driver_recv
  <2>2. kept' \in 0..Chunk /\ Len(queue') + kept' <= Capacity /\ kept' <= Len(local')
    BY <1>1, <2>1, Types, Sizes
  <2>3. TypeOK'
    BY <1>1, <1>2, <2>1, <2>2 DEF TypeOK
  <2>4. KeptInv' /\ TakeInv' /\ SideInv'
    BY <1>1, <1>2, <2>1, <2>2 DEF KeptInv, TakeInv, SideInv, Count
  <2> QED
    BY <2>3, <2>4 DEF Typed
<1> QED
  BY <1>3, <1>4

\* The chunk goes to the host.
LEMMA ToHostTyped == Typed /\ ToHost => Typed'
<1> SUFFICES ASSUME Typed, ToHost PROVE Typed'
  OBVIOUS
<1>1. TypeOK /\ KeptInv /\ TakeInv /\ SideInv
  BY DEF Typed
<1>2. /\ at = "usb" /\ at' = "tx" /\ wire' = wire \o local /\ local' = << >>
      /\ UNCHANGED <<side, queue, struck, kept, ep, done, packet, setup, configured, hostPid, again, epoch,
                     sent, gone, calm>>
  BY DEF ToHost, usb
<1>3. wire' \in Seq(Bytes) /\ local' \in Seq(Bytes) /\ Len(local') = 0 /\ 0 <= Chunk
  BY <1>1, <1>2, Types, Joined, EmptySeq, Sizes
<1>4. kept = 0
  BY <1>1, <1>2 DEF KeptInv
<1>5. TypeOK'
  BY <1>1, <1>2, <1>3 DEF TypeOK
<1>6. KeptInv' /\ TakeInv' /\ SideInv'
  BY <1>1, <1>2, <1>3, <1>4 DEF KeptInv, TakeInv, SideInv, Count
<1> QED
  BY <1>5, <1>6 DEF Typed

\* No step leaves the types.
LEMMA TypedStep == Typed /\ [Next]_vars => Typed'
<1> SUFFICES ASSUME Typed, [Next]_vars PROVE Typed'
  OBVIOUS
<1>1. ASSUME NEW n \in 1..MaxPacket, HostPacket(n) PROVE Typed'
  BY <1>1, HostPacketTyped
<1>2. ASSUME NEW s \in {"config", "clear", "close"}, HostSetup(s) PROVE Typed'
  BY <1>2, HostSetupTyped
<1>3. ASSUME NEW n \in 1..MaxPacket, uart0_rx_isr(n) PROVE Typed'
  BY <1>3, RxTyped
<1>4. CASE uart_bridge_task
  BY <1>4, LookTyped, CopyTyped, AdvanceTyped, CopiedTyped, SendTyped, RecvTyped, ToHostTyped DEF uart_bridge_task
<1>5. CASE UNCHANGED vars
  BY <1>5 DEF vars, loop, usb, history, Typed, TypeOK, KeptInv, TakeInv, SideInv, Count
<1> QED
  BY <1>1, <1>2, <1>3, <1>4, <1>5, HandlerTyped, SetupTyped, ResetTyped DEF Next, Host

----------------------------------------------------------------------------
(* The toggles                                                             *)

\* What the toggles and the packet in the buffer depend on.
pipe == <<ep, done, packet, setup, configured, hostPid, again, sent, calm>>

\* A step that touches none of it.
LEMMA PipeAlone == ASSUME OutArmed, InStep, PacketInv, UNCHANGED pipe
                   PROVE  OutArmed' /\ InStep' /\ PacketInv'
BY DEF pipe, OutArmed, InStep, PacketInv, NextPid, Count

\* While calm, a packet the endpoint does not take is a repetition, and one it
\* takes is new and finds no other.
LEMMA TakenOnce ==
  ASSUME Typed, InStep, calm, NEW n \in 1..MaxPacket, HostPacket(n)
  PROVE  /\ ep.next = 1 - NextPid
         /\ ep.pid = hostPid => again = 0 /\ ~done /\ Count = sent /\ NextPid = hostPid
         /\ ep.pid # hostPid => again = n /\ Count' = Count /\ NextPid = 1 - hostPid
<1>1. /\ configured /\ setup \in {"none", "close"} /\ ep.avail /\ (again = 0 \/ again = n)
      /\ Count' = sent + n
  BY PacketEffect
<1>2. hostPid \in {0, 1} /\ again \in Nat /\ sent \in Nat
  BY Types DEF Typed
<1>3. ep.pid = NextPid /\ ep.next = 1 - NextPid /\ (done => ep.next = NextPid)
  BY <1>1 DEF InStep
<1>4. NextPid \in {0, 1} /\ (NextPid = hostPid <=> again = 0) /\ (again # 0 => NextPid = 1 - hostPid)
  BY <1>2 DEF NextPid
<1>5. ~done
  BY <1>3, <1>4
<1> QED
  BY <1>1, <1>2, <1>3, <1>4, <1>5 DEF Count

\* The host's packet: the endpoint has it, and stays in step.
LEMMA PacketInStep ==
  ASSUME Typed, OutArmed, InStep, PacketInv, NEW n \in 1..MaxPacket, HostPacket(n)
  PROVE  OutArmed' /\ InStep' /\ PacketInv'
<1>1. /\ ep.avail /\ Count' = sent + n /\ hostPid \in {0, 1} /\ n \in Nat /\ n # 0
      /\ sent \in Nat /\ calm \in BOOLEAN
  <2>1. ep.avail /\ Count' = sent + n
    BY PacketEffect
  <2>2. hostPid \in {0, 1} /\ sent \in Nat /\ calm \in BOOLEAN
    BY Types DEF Typed
  <2> QED
    BY <2>1, <2>2, Sizes
<1>2. /\ \/ hostPid' = 1 - hostPid /\ again' = 0
         \/ hostPid' = hostPid /\ again' = n
      /\ calm' = calm
  BY PacketEffect
<1>3. NextPid' = 1 - hostPid
  BY <1>1, <1>2 DEF NextPid
<1>4. CASE ep.pid = hostPid
  <2>1. /\ done' = TRUE /\ packet' = [i \in 1..n |-> IF calm THEN sent + i ELSE 0] /\ Len(packet') = n
        /\ ep' = [ep EXCEPT !.avail = FALSE, !.len = n]
    BY <1>4, PacketEffect
  <2>2. ~ep'.avail /\ ep'.len = n /\ ep'.next = ep.next
    BY <2>1, PacketTaken, Types DEF Typed
  <2>3. OutArmed'
    BY <2>1 DEF OutArmed
  <2>4. InStep'
    <3>1. calm => ep.next = 1 - hostPid
      BY <1>4, TakenOnce
    <3> QED
      BY <1>2, <1>3, <2>2, <3>1 DEF InStep
  <2>5. PacketInv'
    <3> SUFFICES ASSUME calm PROVE /\ Len(packet') = ep'.len /\ ep'.len <= Count'
                                   /\ \A i \in 1..ep'.len : packet'[i] = Count' - ep'.len + i
      BY <1>2 DEF PacketInv
    <3>1. \A i \in 1..n : packet'[i] = sent + i
      BY <2>1
    <3>2. n <= sent + n /\ \A i \in 1..n : sent + n - n + i = sent + i
      BY <1>1
    <3> QED
      BY <1>1, <2>1, <2>2, <3>1, <3>2
  <2> QED
    BY <2>3, <2>4, <2>5
<1>5. CASE ep.pid # hostPid
  <2>1. UNCHANGED <<packet, ep, done>>
    BY <1>5, PacketEffect
  <2>2. OutArmed'
    BY <1>1, <2>1 DEF OutArmed
  <2>3. calm => NextPid = 1 - hostPid /\ Count' = Count
    BY <1>5, TakenOnce
  <2>4. InStep'
    <3>1. configured /\ setup \in {"none", "close"}
      BY PacketEffect
    <3> QED
      BY <1>2, <1>3, <2>1, <2>3, <3>1 DEF InStep
  <2>5. PacketInv'
    BY <1>2, <2>1, <2>3 DEF PacketInv
  <2> QED
    BY <2>2, <2>4, <2>5
<1> QED
  BY <1>4, <1>5

\* A completion arms the endpoint with the toggle that follows.
LEMMA HandlerInStep ==
  ASSUME Typed, OutArmed, InStep, PacketInv, uart_data_out_handler
  PROVE  OutArmed' /\ InStep' /\ PacketInv'
<1>1. /\ done /\ ~done' /\ ep' = usb_start_transfer(ep)
      /\ UNCHANGED <<setup, configured, hostPid, again, calm>>
  BY DEF uart_data_out_handler
<1>2. ep'.avail /\ ep'.pid = ep.next /\ ep'.next = 1 - ep.next
  BY <1>1, Armed, Types DEF Typed
<1>3. NextPid' = NextPid
  BY <1>1 DEF NextPid
<1>4. InStep'
  BY <1>1, <1>2, <1>3 DEF InStep
<1> QED
  BY <1>1, <1>2, <1>4 DEF OutArmed, PacketInv

\* A request arms it from DATA0, where the host is then, if all is calm.
LEMMA SetupInStep ==
  ASSUME Typed, OutArmed, InStep, PacketInv, ServeSetup
  PROVE  OutArmed' /\ InStep' /\ PacketInv'
<1>1. /\ setup' = "none" /\ ep' = usb_start_transfer([ep EXCEPT !.next = 0])
      /\ calm' = (calm /\ ~done /\ (setup = "close" => NextPid = 0)) /\ done' = done
  BY DEF ServeSetup
<1>2. IF setup = "close"
      THEN UNCHANGED <<configured, hostPid, again, sent>>
      ELSE configured' = TRUE /\ hostPid' = 0 /\ again' = 0 /\ sent' = sent + again
  BY DEF ServeSetup
<1>3. ep'.avail /\ ep'.pid = 0 /\ ep'.next = 1
  <2> DEFINE e == [ep EXCEPT !.next = 0]
  <2>1. e \in Endpoint /\ e.next = 0
    BY Armed, Types DEF Typed
  <2>2. ep' = usb_start_transfer(e)
    BY <1>1
  <2> HIDE DEF e
  <2>3. ep'.avail /\ ep'.pid = e.next /\ ep'.next = 1 - e.next
    BY <2>1, <2>2, Armed
  <2> QED
    BY <2>1, <2>3
<1>4. calm' => ~done' /\ NextPid' = 0
  BY <1>1, <1>2 DEF NextPid
<1>5. InStep'
  BY <1>3, <1>4 DEF InStep
<1> QED
  BY <1>3, <1>4, <1>5 DEF OutArmed, PacketInv

\* No step refuses the host or takes its packet for a repetition.
LEMMA InStepStep ==
  ASSUME Typed, OutArmed, InStep, PacketInv, [Next]_vars
  PROVE  OutArmed' /\ InStep' /\ PacketInv'
<1>1. CASE uart_data_out_handler
  BY <1>1, HandlerInStep
<1>2. CASE ServeSetup
  BY <1>2, SetupInStep
<1>3. CASE usb_bus_reset
  BY <1>3 DEF usb_bus_reset, OutArmed, InStep, PacketInv
<1>4. ASSUME NEW n \in 1..MaxPacket, HostPacket(n) PROVE OutArmed' /\ InStep' /\ PacketInv'
  BY <1>4, PacketInStep
<1>5. ASSUME NEW s \in {"config", "clear", "close"}, HostSetup(s) PROVE OutArmed' /\ InStep' /\ PacketInv'
  <2>1. /\ setup = "none" /\ setup' = s /\ s # "none"
        /\ UNCHANGED <<ep, done, packet, configured, hostPid, again, sent, calm>>
    BY <1>5 DEF HostSetup, history
  <2> QED
    BY <2>1 DEF OutArmed, InStep, PacketInv, NextPid, Count
<1>6. ASSUME NEW n \in 1..MaxPacket, uart0_rx_isr(n) PROVE OutArmed' /\ InStep' /\ PacketInv'
  BY <1>6, Heard DEF OutArmed, InStep, PacketInv, NextPid, Typed, SideInv
<1>7. CASE uart_bridge_task
  <2>1. UNCHANGED pipe
    BY <1>7 DEF uart_bridge_task, Look, Copy, Advance, Copied, uart_driver_send, uart_driver_recv, ToHost, usb, history,
                pipe
  <2> QED
    BY <2>1, PipeAlone
<1>8. CASE UNCHANGED vars
  BY <1>8, PipeAlone DEF vars, usb, history, pipe
<1> QED
  BY <1>1, <1>2, <1>3, <1>4, <1>5, <1>6, <1>7, <1>8 DEF Next, Host

----------------------------------------------------------------------------
(* From the host or the UART to the other end                              *)

\* What has left the buffer of the endpoint.
Inside == wire \o local \o Waiting

\* What waits in the queue.
LEMMA WaitingBytes == ASSUME Typed
                      PROVE  /\ calm => Waiting \in Seq(Bytes)
                             /\ at # "advance" => Waiting = queue
                             /\ calm /\ at = "advance" => queue # << >> /\ Waiting = Tail(queue)
<1>1. queue \in Seq(Bytes)
  BY Types DEF Typed
<1>2. at # "advance" => Waiting = queue
  BY DEF Waiting
<1>3. calm /\ at = "advance" => queue # << >> /\ Waiting = Tail(queue)
  BY Types DEF Waiting, Typed, TakeInv
<1>4. queue # << >> => Tail(queue) \in Seq(Bytes)
  BY <1>1, HeadTailProperties
<1> QED
  BY <1>1, <1>2, <1>3, <1>4

\* Taken, in its parts.
LEMMA TakenParts == ASSUME Typed, calm
                    PROVE  /\ wire \o local \in Seq(Bytes) /\ Inside \in Seq(Bytes)
                           /\ Taken \in Seq(Bytes) /\ (done => Taken = Inside \o Received)
                           /\ (~done => Taken = Inside)
<1>1. /\ wire \in Seq(Bytes) /\ local \in Seq(Bytes) /\ Waiting \in Seq(Bytes)
      /\ Received \in Seq(Bytes)
  BY Types, ReceivedBytes, WaitingBytes DEF Typed
<1>2. wire \o local \in Seq(Bytes)
  BY <1>1, Joined
<1>3. Inside \in Seq(Bytes)
  BY <1>1, <1>2, Joined DEF Inside
<1>4. done => Taken = Inside \o Received
  BY DEF Taken, Inside
<1>5. ~done => Taken = Inside
  <2>1. ~done => Taken = Inside \o << >>
    BY DEF Taken, Inside
  <2>2. Inside \o << >> = Inside
    BY <1>3, ConcatEmptySeq
  <2> QED
    BY <2>1, <2>2
<1>6. Inside \o Received \in Seq(Bytes)
  BY <1>1, <1>3, Joined
<1> QED
  BY <1>2, <1>3, <1>4, <1>5, <1>6

\* Of the newest bytes all but the first r are dropped.
LEMMA FlowDrops ==
  ASSUME NEW a \in Seq(Bytes), NEW b \in Seq(Bytes), NEW r \in 0..Len(b), NEW missing, NEW n \in Nat,
         Flow(a \o b, missing, n)
  PROVE  Flow(a \o SubSeq(b, 1, r), missing \union { b[i] : i \in r + 1..Len(b) }, n)
<1> DEFINE s == a \o b
           c == SubSeq(b, 1, r)
           t == a \o c
           m == Len(a)
           k == Len(b)
<1>1. /\ s \in Seq(Bytes) /\ m \in Nat /\ k \in Nat /\ Len(s) = m + k
      /\ \A i \in 1..m : s[i] = a[i]
      /\ \A i \in 1..k : s[m + i] = b[i]
  BY Joined
<1>2. c \in Seq(Bytes) /\ Len(c) = r /\ \A i \in 1..r : c[i] = b[i]
  BY Begun
<1> HIDE DEF c
<1>3. /\ t \in Seq(Bytes) /\ Len(t) = m + r
      /\ \A i \in 1..m : t[i] = a[i]
      /\ \A i \in 1..r : t[m + i] = c[i]
  BY <1>2, Joined
<1>4. r \in Nat /\ r <= k
  BY <1>1
<1> HIDE DEF s, t
<1>5. ASSUME NEW i \in 1..Len(t) PROVE t[i] = s[i]
  <2>1. CASE i <= m
    BY <1>1, <1>3, <1>4, <2>1
  <2>2. CASE i > m
    <3>1. i - m \in 1..r /\ i - m \in 1..k /\ m + (i - m) = i
      BY <1>1, <1>3, <1>4, <2>2
    <3>2. t[i] = c[i - m] /\ s[i] = b[i - m] /\ c[i - m] = b[i - m]
      BY <1>1, <1>2, <1>3, <3>1
    <3> QED
      BY <3>2
  <2> QED
    BY <1>1, <1>3, <1>4, <2>1, <2>2
<1>6. Len(t) <= Len(s)
  BY <1>1, <1>3, <1>4
<1>7. Flow(t, missing \union { s[i] : i \in Len(t) + 1..Len(s) }, n)
  <2>1. Flow(s, missing, n)
    BY DEF s
  <2> QED
    BY <1>1, <1>3, <1>5, <1>6, <2>1, FlowCut
<1>8. { s[i] : i \in Len(t) + 1..Len(s) } = { b[i] : i \in r + 1..k }
  <2>1. ASSUME NEW i \in Len(t) + 1..Len(s) PROVE i - m \in r + 1..k /\ s[i] = b[i - m]
    <3>1. i - m \in r + 1..k /\ i - m \in 1..k /\ m + (i - m) = i
      BY <1>1, <1>3, <1>4
    <3> QED
      BY <1>1, <3>1
  <2>2. ASSUME NEW i \in r + 1..k PROVE m + i \in Len(t) + 1..Len(s) /\ s[m + i] = b[i]
    <3>1. i \in 1..k /\ m + i \in Len(t) + 1..Len(s)
      BY <1>1, <1>3, <1>4
    <3> QED
      BY <1>1, <3>1
  <2> DEFINE x == { s[i] : i \in Len(t) + 1..Len(s) }
             y == { b[i] : i \in r + 1..k }
  <2>3. ASSUME NEW v \in x PROVE v \in y
    <3>1. PICK i \in Len(t) + 1..Len(s) : v = s[i]
      OBVIOUS
    <3> QED
      BY <2>1, <3>1
  <2>4. ASSUME NEW v \in y PROVE v \in x
    <3>1. PICK i \in r + 1..k : v = b[i]
      OBVIOUS
    <3> QED
      BY <2>2, <3>1
  <2> QED
    BY <2>3, <2>4
<1> QED
  BY <1>7, <1>8 DEF t, c

\* What arrives goes behind what waits.
LEMMA WaitingGrows ==
  ASSUME Typed, calm, NEW c \in Seq(Bytes), queue' = queue \o c, UNCHANGED at
  PROVE  Waiting' = Waiting \o c
<1>1. queue \in Seq(Bytes)
  BY Types DEF Typed
<1>2. CASE at # "advance"
  BY <1>2 DEF Waiting
<1>3. CASE at = "advance"
  <2>1. queue # << >> /\ Waiting = Tail(queue) /\ Waiting' = Tail(queue \o c)
    BY <1>3, WaitingBytes DEF Waiting
  <2> DEFINE q == queue
             h == Head(q)
             r == Tail(q)
  <2>2. /\ h \in Bytes /\ r \in Seq(Bytes) /\ Len(q) = Len(r) + 1 /\ Len(r) \in Nat
        /\ \A i \in 1..Len(r) : r[i] = q[i + 1]
    BY <1>1, <2>1, HeadTailProperties, LenProperties
  <2>3. /\ q \o c \in Seq(Bytes) /\ Len(q \o c) = Len(q) + Len(c) /\ Len(c) \in Nat /\ Len(q) \in Nat
        /\ (\A i \in 1..Len(q) : (q \o c)[i] = q[i]) /\ (\A i \in 1..Len(c) : (q \o c)[Len(q) + i] = c[i])
    BY <1>1, Joined
  <2>4. /\ r \o c \in Seq(Bytes) /\ Len(r \o c) = Len(r) + Len(c)
        /\ (\A i \in 1..Len(r) : (r \o c)[i] = r[i]) /\ (\A i \in 1..Len(c) : (r \o c)[Len(r) + i] = c[i])
    BY <2>2, Joined
  <2> DEFINE s == q \o c
             t == r \o c
  <2>5. s # << >>
    BY <2>2, <2>3, EmptySeq
  <2>6. /\ Tail(s) \in Seq(Bytes) /\ Len(Tail(s)) = Len(s) - 1
        /\ \A i \in 1..Len(Tail(s)) : Tail(s)[i] = s[i + 1]
    BY <2>3, <2>5, HeadTailProperties
  <2> HIDE DEF q, h, r, s, t
  <2>7. Len(t) = Len(Tail(s)) /\ Len(t) \in Nat
    <3>1. Len(t) = Len(r) + Len(c) /\ Len(Tail(s)) = (Len(r) + 1) + Len(c) - 1
      BY <2>2, <2>3, <2>4, <2>6 DEF s, t
    <3>2. Len(r) \in Nat /\ Len(c) \in Nat
      BY <2>2, <2>3
    <3>3. \A a, b \in Nat : (a + 1) + b - 1 = a + b /\ a + b \in Nat
      OBVIOUS
    <3>4. (Len(r) + 1) + Len(c) - 1 = Len(r) + Len(c) /\ Len(r) + Len(c) \in Nat
      BY <3>2, <3>3
    <3> QED
      BY Zenon, <3>1, <3>4
  <2>8. ASSUME NEW i \in 1..Len(t) PROVE t[i] = Tail(s)[i]
    <3>1. Tail(s)[i] = s[i + 1]
      BY <2>6, <2>7
    <3>2. CASE i <= Len(r)
      <4>1. i \in 1..Len(r) /\ i + 1 \in 1..Len(q)
        BY <2>2, <3>2
      <4> QED
        BY <2>2, <2>3, <2>4, <3>1, <4>1 DEF s, t
    <3>3. CASE i > Len(r)
      <4>1. i - Len(r) \in 1..Len(c) /\ Len(r) + (i - Len(r)) = i /\ Len(q) + (i - Len(r)) = i + 1
        BY <2>2, <2>3, <2>4, <3>3 DEF t
      <4> QED
        BY <2>3, <2>4, <3>1, <4>1 DEF s, t
    <3> QED
      BY <2>2, <2>7, <3>2, <3>3
  <2>9. t = Tail(s)
    BY <2>4, <2>6, <2>7, <2>8, SeqEqual DEF t
  <2> QED
    BY <2>1, <2>9 DEF s, t, r, q
<1> QED
  BY <1>2, <1>3

\* A packet put into the queue behind what is inside.
LEMMA FlowPut ==
  ASSUME Typed, calm, NEW p \in Seq(Bytes), Put(p), NEW n \in Nat, Flow(Inside \o p, gone, n),
         UNCHANGED <<at, wire, local>>
  PROVE  Inside' \in Seq(Bytes) /\ Flow(Inside', gone', n)
<1>1. /\ wire \o local \in Seq(Bytes) /\ Waiting \in Seq(Bytes) /\ Inside \in Seq(Bytes) /\ TypeOK
  BY TakenParts, WaitingBytes DEF Typed
<1>2. PICK r \in 0..Len(p) :
        /\ SubSeq(p, 1, r) \in Seq(Bytes) /\ queue' = queue \o SubSeq(p, 1, r)
        /\ gone' = IF calm THEN gone \union { p[i] : i \in r + 1..Len(p) } ELSE {}
  BY <1>1, PutEffect
<1>3. Inside' = (wire \o local) \o (Waiting \o SubSeq(p, 1, r))
  <2>1. Waiting' = Waiting \o SubSeq(p, 1, r)
    BY <1>2, WaitingGrows
  <2> QED
    BY <2>1 DEF Inside
<1>4. Inside' = Inside \o SubSeq(p, 1, r)
  <2> DEFINE c == SubSeq(p, 1, r)
             w == wire \o local
             q == Waiting
  <2>1. c \in Seq(Bytes) /\ w \in Seq(Bytes) /\ q \in Seq(Bytes)
    BY <1>1, <1>2
  <2>2. Inside' = w \o (q \o c) /\ Inside = w \o q
    BY <1>3 DEF Inside
  <2> HIDE DEF c, w, q
  <2>3. (w \o q) \o c = w \o (q \o c)
    BY <2>1, Regrouped
  <2> QED
    BY <2>2, <2>3 DEF c
<1>5. Inside' \in Seq(Bytes)
  BY <1>1, <1>2, <1>4, Joined
<1>6. Flow(Inside \o SubSeq(p, 1, r), gone \union { p[i] : i \in r + 1..Len(p) }, n)
  BY <1>1, FlowDrops
<1> QED
  BY <1>2, <1>4, <1>5, <1>6

\* The main loop hands the bytes on.
LEMMA FlowCarried == ASSUME Typed, calm, uart_bridge_task PROVE Inside' = Inside
<1>1. /\ wire \in Seq(Bytes) /\ local \in Seq(Bytes) /\ queue \in Seq(Bytes) /\ ~struck
  BY Types DEF Typed, TakeInv
<1>2. ASSUME queue # << >>, at # "advance", local' = Append(local, Head(queue)), Waiting' = Tail(queue),
             wire' = wire
      PROVE  Inside' = Inside
  <2>1. /\ local' \in Seq(Bytes) /\ Waiting' \in Seq(Bytes) /\ local' \o Waiting' = local \o queue
    BY <1>1, <1>2, HandedOn
  <2> DEFINE a == local'
             b == Waiting'
  <2>2. a \in Seq(Bytes) /\ b \in Seq(Bytes) /\ a \o b = local \o queue /\ Inside' = (wire \o a) \o b
    BY <1>2, <2>1 DEF Inside
  <2> HIDE DEF a, b
  <2>3. (wire \o a) \o b = wire \o (a \o b)
    BY <1>1, <2>2, Regrouped
  <2>4. (wire \o local) \o queue = wire \o (local \o queue)
    BY <1>1, Regrouped
  <2>5. Inside = (wire \o local) \o queue
    BY <1>2, WaitingBytes DEF Inside
  <2> QED
    BY <2>2, <2>3, <2>4, <2>5
<1>3. CASE Look
  BY <1>3 DEF Look, history, Inside, Waiting
<1>4. CASE Copy
  <2>1. queue # << >> /\ at = "look" /\ at' = "advance" /\ UNCHANGED <<queue, wire>>
    BY <1>1, <1>4 DEF Copy, history
  <2>2. local' = Append(local, Head(queue))
    BY <1>4, <2>1 DEF Copy
  <2>3. Waiting' = Tail(queue)
    BY <2>1 DEF Waiting
  <2> QED
    BY <1>2, <2>1, <2>2, <2>3
<1>5. CASE Advance
  <2>1. at = "advance" /\ at' = "tx" /\ queue' = Tail(queue) /\ UNCHANGED <<wire, local>>
    BY <1>1, <1>5 DEF Advance, history
  <2>2. Waiting' = Waiting
    BY <2>1 DEF Waiting
  <2> QED
    BY <2>1, <2>2 DEF Inside
<1>6. CASE Copied
  <2>1. at # "advance" /\ at' = "send" /\ UNCHANGED <<queue, wire, local>>
    BY <1>6 DEF Copied, LoopOver, history
  <2>2. Waiting' = Waiting
    BY <2>1 DEF Waiting
  <2> QED
    BY <2>1, <2>2 DEF Inside
<1>7. CASE uart_driver_send
  <2>1. Waiting' = Waiting
    BY <1>7 DEF uart_driver_send, Waiting
  <2>2. CASE local # << >>
    <3>1. wire' = Append(wire, Head(local)) /\ local' = Tail(local)
      BY <1>7, <2>2 DEF uart_driver_send
    <3>2. wire' \o local' = wire \o local
      BY <1>1, <2>2, <3>1, HandedOn
    <3> QED
      BY <2>1, <3>2 DEF Inside
  <2>3. CASE local = << >>
    BY <1>7, <2>1, <2>3 DEF uart_driver_send, Inside
  <2> QED
    BY <2>2, <2>3
<1>8. CASE uart_driver_recv
  <2>1. at = "recv" /\ at' # "advance"
    BY <1>8 DEF uart_driver_recv
  <2>2. CASE side = "rx" /\ More
    <3>1. /\ queue # << >> /\ local' = Append(local, Head(queue)) /\ queue' = Tail(queue) /\ wire' = wire
      BY <1>8, <2>2 DEF uart_driver_recv, More, history
    <3>2. Waiting' = Tail(queue)
      BY <2>1, <3>1 DEF Waiting
    <3> QED
      BY <1>2, <2>1, <3>1, <3>2
  <2>3. CASE ~(side = "rx" /\ More)
    <3>1. UNCHANGED <<queue, local, wire>>
      BY <1>8, <2>3 DEF uart_driver_recv, history
    <3>2. Waiting' = Waiting
      BY <2>1, <3>1 DEF Waiting
    <3> QED
      BY <3>1, <3>2 DEF Inside
  <2> QED
    BY <2>2, <2>3
<1>9. CASE ToHost
  <2>1. wire' = wire \o local /\ local' = << >> /\ Waiting' = Waiting
    BY <1>9 DEF ToHost, Waiting
  <2>2. (wire \o local) \o << >> = wire \o local
    BY <1>1, TakenParts, ConcatEmptySeq
  <2> QED
    BY <2>1, <2>2 DEF Inside
<1> QED
  BY <1>3, <1>4, <1>5, <1>6, <1>7, <1>8, <1>9 DEF uart_bridge_task

\* A packet the endpoint takes joins the flow.
LEMMA FlowPacket ==
  ASSUME Typed, InStep, FlowInv, calm, NEW n \in 1..MaxPacket, HostPacket(n), ep.pid = hostPid
  PROVE  Flow(Taken', gone', Count')
<1>1. /\ again = 0 /\ ~done /\ Count = sent
  BY TakenOnce
<1>2. /\ done' = TRUE /\ packet' = [i \in 1..n |-> IF calm THEN sent + i ELSE 0] /\ Len(packet') = n
      /\ ep' = [ep EXCEPT !.avail = FALSE, !.len = n] /\ Count' = sent + n /\ packet' \in Seq(Bytes)
      /\ UNCHANGED <<queue, at, local, wire, gone>>
  BY PacketEffect
<1>3. ep'.len = n /\ n \in Nat /\ sent \in Nat
  <2>1. ep \in Endpoint /\ sent \in Nat
    BY Types DEF Typed
  <2>2. [ep EXCEPT !.avail = FALSE, !.len = n].len = n
    BY <2>1, PacketTaken
  <2> QED
    BY <1>2, <2>1, <2>2
<1> DEFINE p == Received'
<1>4. p = [i \in 1..n |-> IF i <= n THEN packet'[i] ELSE 0]
  BY <1>2, <1>3 DEF Received
<1>5. \A i \in 1..n : i <= n /\ packet'[i] = sent + i /\ packet'[i] \in Bytes
  BY <1>2, <1>3, ElementOfSeq
<1>6. \A i \in 1..n : p[i] = sent + i /\ p[i] \in Bytes
  BY <1>4, <1>5
<1>7. p \in Seq(Bytes) /\ Len(p) = n
  <2>1. p \in [1..n -> Bytes]
    BY <1>4, <1>6
  <2> HIDE DEF p
  <2> QED
    BY <1>3, <2>1, SeqDef
<1>8. Taken' = Inside \o p /\ Taken = Inside /\ Inside \in Seq(Bytes)
  BY <1>1, <1>2, TakenParts DEF Taken, Inside, Waiting
<1>9. Flow(Inside, gone, sent)
  BY <1>1, <1>8 DEF FlowInv
<1> HIDE DEF p
<1>10. Flow(Inside \o p, gone, sent + n)
  BY <1>3, <1>6, <1>7, <1>8, <1>9, FlowGrows
<1> QED
  BY <1>2, <1>8, <1>10

\* A bus reset flushes the queue.
LEMMA FlowFlushed ==
  ASSUME Typed, FlowInv, calm', usb_bus_reset
  PROVE  Flow(Taken', gone', Count')
<1>1. /\ ~done /\ ~done' /\ queue' = << >> /\ UNCHANGED <<local, wire>> /\ calm
      /\ gone' = gone \union { queue[i] : i \in DOMAIN queue }
      /\ again' = 0 /\ sent' = sent + again /\ Waiting = queue /\ Waiting' = << >>
  <2>1. calm /\ at \notin {"look", "advance"} /\ at' = at
    BY DEF usb_bus_reset
  <2> QED
    BY <2>1 DEF usb_bus_reset, Waiting
<1>2. /\ wire \o local \in Seq(Bytes) /\ queue \in Seq(Bytes) /\ Len(queue) \in Nat /\ Count \in Nat
      /\ Taken = (wire \o local) \o queue
  <2>1. queue \in Seq(Bytes) /\ Len(queue) \in Nat /\ sent \in Nat /\ again \in Nat
    BY Types DEF Typed
  <2>2. wire \o local \in Seq(Bytes) /\ Taken = Inside
    BY <1>1, TakenParts
  <2>3. Inside = (wire \o local) \o queue
    BY <1>1 DEF Inside
  <2>4. Count \in Nat
    BY <2>1 DEF Count
  <2> QED
    BY <2>1, <2>2, <2>3, <2>4
<1>3. Count' = Count
  BY <1>1, Types DEF Count, Typed
<1> DEFINE w == wire \o local
<1>4. Taken' = w
  <2>1. Taken' = (w \o << >>) \o << >>
    BY <1>1 DEF Taken
  <2> HIDE DEF w
  <2>2. w \in Seq(Bytes)
    BY <1>2 DEF w
  <2> QED
    BY <2>1, <2>2, ConcatEmptySeq
<1>5. Flow(w \o queue, gone, Count)
  BY <1>1, <1>2 DEF FlowInv
<1>6. SubSeq(queue, 1, 0) = << >>
  <2>1. 0 \in 0..Len(queue)
    BY <1>2
  <2>2. SubSeq(queue, 1, 0) \in Seq(Bytes) /\ Len(SubSeq(queue, 1, 0)) = 0
    BY <1>2, <2>1, Begun
  <2> QED
    BY <2>2, EmptySeq
<1>7. DOMAIN queue = 0 + 1..Len(queue) /\ 0 \in 0..Len(queue)
  BY <1>2, LenProperties
<1> HIDE DEF w
<1>8. Flow(w \o SubSeq(queue, 1, 0), gone \union { queue[i] : i \in 0 + 1..Len(queue) }, Count)
  <2>1. w \in Seq(Bytes)
    BY <1>2 DEF w
  <2> QED
    BY <1>2, <1>5, <1>7, <2>1, FlowDrops
<1>9. w \o SubSeq(queue, 1, 0) = w
  <2>1. w \in Seq(Bytes)
    BY <1>2 DEF w
  <2> QED
    BY <1>6, <2>1, ConcatEmptySeq
<1> QED
  BY <1>1, <1>3, <1>4, <1>7, <1>8, <1>9

\* A completion puts the packet into the queue.
LEMMA FlowHandled ==
  ASSUME Typed, FlowInv, calm, uart_data_out_handler
  PROVE  Flow(Taken', gone', Count')
<1>1. /\ done /\ ~done' /\ Put(Received) /\ UNCHANGED <<at, local, wire, sent, again>>
  BY DEF uart_data_out_handler, loop
<1>2. /\ Received \in Seq(Bytes) /\ Taken = Inside \o Received /\ Count \in Nat
  BY SMTT(20), <1>1, TakenParts, ReceivedBytes, Types DEF Typed, Count
<1>3. Inside' \in Seq(Bytes) /\ Flow(Inside', gone', Count)
  <2>1. Flow(Inside \o Received, gone, Count)
    BY <1>2 DEF FlowInv
  <2> QED
    BY <1>1, <1>2, <2>1, FlowPut
<1>4. Taken' = Inside'
  <2>1. Taken' = Inside' \o << >>
    BY <1>1 DEF Taken, Inside
  <2> QED
    BY <1>3, <2>1, ConcatEmptySeq
<1>5. Count' = Count
  BY <1>1 DEF Count
<1> QED
  BY <1>3, <1>4, <1>5

\* The bytes of the UART join the flow, and go into the queue.
LEMMA FlowHeard ==
  ASSUME Typed, FlowInv, calm, NEW n \in 1..MaxPacket, uart0_rx_isr(n)
  PROVE  Flow(Taken', gone', Count')
<1> DEFINE p == [i \in 1..n |-> sent + i]
<1>1. /\ p \in Seq(Bytes) /\ Len(p) = n /\ Put(p) /\ again = 0 /\ ~done /\ ~done' /\ n \in Nat
      /\ sent' = sent + n /\ UNCHANGED <<at, local, wire, again>>
  BY Heard
<1>2. \A i \in 1..n : p[i] = sent + i
  OBVIOUS
<1> HIDE DEF p
<1>3. /\ Inside \in Seq(Bytes) /\ Taken = Inside /\ sent \in Nat /\ Count = sent /\ Count' = sent + n
      /\ sent + n \in Nat
  BY <1>1, TakenParts, Types DEF Typed, Count
<1>4. Flow(Inside \o p, gone, sent + n)
  <2>1. Flow(Inside, gone, sent)
    BY <1>3 DEF FlowInv
  <2> QED
    BY <1>1, <1>2, <1>3, <2>1, FlowGrows
<1>5. Inside' \in Seq(Bytes) /\ Flow(Inside', gone', sent + n)
  BY <1>1, <1>3, <1>4, FlowPut
<1>6. Taken' = Inside'
  <2>1. Taken' = Inside' \o << >>
    BY <1>1 DEF Taken, Inside
  <2> QED
    BY <1>5, <2>1, ConcatEmptySeq
<1> QED
  BY <1>3, <1>5, <1>6

\* What decides Taken and the count, but for the way from one end to the other.
LEMMA FlowAlone ==
  ASSUME FlowInv, Inside' = Inside, UNCHANGED <<done, packet, ep, gone, calm>>, Count' = Count
  PROVE  FlowInv'
<1>1. Taken' = Taken
  BY DEF Taken, Inside, Received
<1> QED
  BY <1>1 DEF FlowInv

\* No step loses, repeats or reorders a byte.
LEMMA FlowStep == ASSUME Typed, InStep, FlowInv, [Next]_vars PROVE FlowInv'
<1>1. CASE uart_data_out_handler
  <2>1. calm' = calm
    BY <1>1 DEF uart_data_out_handler
  <2> QED
    BY <1>1, <2>1, FlowHandled DEF FlowInv
<1>2. CASE ServeSetup
  <2> SUFFICES ASSUME calm' PROVE Flow(Taken', gone', Count')
    BY DEF FlowInv
  <2>1. calm /\ ~done /\ UNCHANGED <<wire, gone, queue, at, local, done>>
    BY <1>2 DEF ServeSetup, loop
  <2>2. Taken' = Taken
    BY <2>1 DEF Taken, Waiting
  <2>3. \/ UNCHANGED <<configured, hostPid, again, sent>>
        \/ configured' = TRUE /\ hostPid' = 0 /\ again' = 0 /\ sent' = sent + again
    BY <1>2, HostAfterSetup
  <2>4. Count' = Count
    BY <2>3, Types DEF Count, Typed
  <2> QED
    BY <2>1, <2>2, <2>4 DEF FlowInv
<1>3. CASE usb_bus_reset
  BY <1>3, FlowFlushed DEF FlowInv
<1>4. ASSUME NEW n \in 1..MaxPacket, HostPacket(n) PROVE FlowInv'
  <2>1. calm' = calm /\ UNCHANGED <<queue, at, local, wire, gone>>
    BY <1>4, PacketEffect
  <2>2. CASE ep.pid = hostPid
    BY <1>4, <2>1, <2>2, FlowPacket DEF FlowInv
  <2>3. CASE ep.pid # hostPid /\ calm
    <3>1. UNCHANGED <<packet, ep, done>> /\ Count' = Count
      BY <1>4, <2>3, PacketEffect, TakenOnce
    <3>2. Inside' = Inside
      BY <2>1 DEF Inside, Waiting
    <3> QED
      BY <2>1, <3>1, <3>2, FlowAlone
  <2> QED
    BY <2>1, <2>2, <2>3 DEF FlowInv
<1>5. ASSUME NEW s \in {"config", "clear", "close"}, HostSetup(s) PROVE FlowInv'
  BY <1>5, FlowAlone DEF HostSetup, loop, history, Inside, Waiting, Count
<1>6. ASSUME NEW n \in 1..MaxPacket, uart0_rx_isr(n) PROVE FlowInv'
  <2>1. calm' = calm
    BY <1>6, Heard
  <2> QED
    BY <1>6, <2>1, FlowHeard DEF FlowInv
<1>7. CASE uart_bridge_task
  <2>1. UNCHANGED <<done, packet, ep, gone, calm, sent, again>>
    BY <1>7 DEF uart_bridge_task, Look, Copy, Advance, Copied, uart_driver_send, uart_driver_recv, ToHost, usb, history
  <2>2. Count' = Count
    BY <2>1 DEF Count
  <2>3. CASE calm
    BY <1>7, <2>1, <2>2, <2>3, FlowCarried, FlowAlone
  <2> QED
    BY <2>1, <2>3 DEF FlowInv
<1>8. CASE UNCHANGED vars
  BY <1>8, FlowAlone DEF vars, loop, usb, history, Inside, Waiting, Count
<1> QED
  BY <1>1, <1>2, <1>3, <1>4, <1>5, <1>6, <1>7, <1>8 DEF Next, Host

----------------------------------------------------------------------------
(* The theorems                                                            *)

\* The strengthened invariant, at the start.
LEMMA BridgeInit == Init => BridgeInv
<1> SUFFICES ASSUME Init PROVE BridgeInv
  OBVIOUS
<1>1. Typed
  BY TypedAtInit
<1>2. OutArmed /\ InStep /\ PacketInv
  BY DEF Init, OutArmed, InStep, PacketInv
<1>3. Taken = << >> /\ Len(Taken) = 0
  <2>1. ~done /\ wire = << >> /\ local = << >> /\ Waiting = << >>
    BY DEF Init, Waiting
  <2>2. << >> \in Seq(Bytes) /\ << >> \o << >> = << >>
    BY EmptySeq, ConcatEmptySeq
  <2> QED
    BY <2>1, <2>2, EmptySeq DEF Taken
<1>4. Count = 0 /\ gone = {}
  BY DEF Init, Count
<1>5. FlowInv
  BY <1>3, <1>4 DEF FlowInv, Flow
<1> QED
  BY <1>1, <1>2, <1>5 DEF BridgeInv, Typed

\* The strengthened invariant holds: types and bounds, the toggles of endpoint and
\* host, the byte being taken at the head of the queue, and, until a request meets
\* a packet or a bus reset strikes between the loads and the store of s_tx_tail, the
\* bytes of a packet under way and the flow of all of them.
THEOREM BridgeInvariant == Spec => []BridgeInv
<1>1. BridgeInv /\ [Next]_vars => BridgeInv'
  <2> SUFFICES ASSUME BridgeInv, [Next]_vars PROVE BridgeInv'
    OBVIOUS
  <2>1. Typed /\ OutArmed /\ InStep /\ PacketInv /\ FlowInv
    BY DEF BridgeInv, Typed
  <2>2. Typed'
    BY <2>1, TypedStep
  <2>3. OutArmed' /\ InStep' /\ PacketInv'
    BY <2>1, InStepStep
  <2>4. FlowInv'
    BY <2>1, FlowStep
  <2> QED
    BY <2>2, <2>3, <2>4 DEF BridgeInv, Typed
<1> QED
  BY BridgeInit, <1>1, PTL DEF Spec

\* OutInv: the types, and an OUT endpoint that neither refuses the host for good nor
\* takes what it sends for a repetition (usb_device.c, uart_data_out_handler).
THEOREM OutInvHolds == Spec => []OutInv
<1>1. BridgeInv => OutInv
  BY DEF BridgeInv, OutInv
<1> QED
  BY <1>1, BridgeInvariant, PTL

\* Accounted: what was acknowledged comes out once and in order, but for what was
\* dropped at a full ring or flushed by a bus reset (uart_bridge.c, uart_driver.c),
\* until a request meets a packet under way or a bus reset strikes between the loads
\* and the store of s_tx_tail (uart_bridge.c:72-74), where it does not hold.
THEOREM AccountedHolds == Spec => []Accounted
<1>1. BridgeInv => Accounted
  <2> SUFFICES ASSUME BridgeInv, calm
               PROVE  /\ \A i, j \in DOMAIN Taken : i < j => Taken[i] < Taken[j]
                      /\ { Taken[i] : i \in DOMAIN Taken } = 1..(sent + again) \ gone
    BY DEF Accounted
  <2>1. Taken \in Seq(Bytes)
    BY TakenParts DEF BridgeInv, Typed
  <2>2. DOMAIN Taken = 1..Len(Taken)
    BY <2>1, LenProperties
  <2>3. Flow(Taken, gone, sent + again)
    BY DEF BridgeInv, FlowInv, Count
  <2> QED
    BY <2>2, <2>3 DEF Flow
<1> QED
  BY <1>1, BridgeInvariant, PTL
=============================================================================
