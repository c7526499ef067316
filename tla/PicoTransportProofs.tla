-------------------------- MODULE PicoTransportProofs --------------------------
(***************************************************************************)
(* For every length of the data, cut of an answer and number of calls and  *)
(* openings: the answers used are used once and in order, a probe opened   *)
(* quiet gives each call its own as long as none has failed, and only a    *)
(* cut-off answer can leave the DLL in the middle of a frame.              *)
(*                                                                         *)
(* The invariant is about all that is under way: the frames toDevice, the  *)
(* one the firmware is busy with, the bytes toHost, the header in hand.    *)
(***************************************************************************)
EXTENDS PicoTransport, SequenceTheorems, TLAPS

\* The place of the last byte, the CRC, of a response of a kind.
End(k) == 4 + PayloadLen(k)

\* One byte comes before another: of an older call, or of the same response.
Before(a, b) == \/ a.call < b.call
                \/ a.call = b.call /\ a.kind = b.kind /\ a.at < b.at

InOrder(bytes) == \A i, j \in 1..Len(bytes) : i < j => Before(bytes[i], bytes[j])
Fit(bytes) == \A i \in 1..Len(bytes) : bytes[i].at <= End(bytes[i].kind)
Ascending(frames) == \A i, j \in 1..Len(frames) : i < j => frames[i].call < frames[j].call

\* What the DLL may yet receive is newer than the last answer used, and in order.
ToHostInv == /\ InOrder(toHost) /\ Fit(toHost)
             /\ \A i \in 1..Len(toHost) : /\ last < toHost[i].call
                                          /\ hdr <= toHost[i].call /\ toHost[i].call <= calls
                                          /\ toHost[i].call = hdr => toHost[i].kind = kind
BusyInv == \A i \in 1..Len(busy) : /\ last < busy[i].call
                                   /\ hdr < busy[i].call /\ busy[i].call <= calls
                                   /\ \A j \in 1..Len(toHost) : toHost[j].call < busy[i].call
ToDeviceInv == /\ Ascending(toDevice)
               /\ \A i \in 1..Len(toDevice) :
                     /\ last < toDevice[i].call
                     /\ hdr < toDevice[i].call /\ toDevice[i].call <= calls
                     /\ \A j \in 1..Len(toHost) : toHost[j].call < toDevice[i].call
                     /\ \A j \in 1..Len(busy) : busy[j].call < toDevice[i].call
HeaderInv == last <= calls /\ (hdr # 0 => last < hdr)

Pipeline == ToHostInv /\ BusyInv /\ ToDeviceInv /\ HeaderInv

\* While clean, all that is under way belongs to the call being made.
OneCall == clean =>
    /\ pc = "idle" => toDevice = <<>> /\ busy = <<>> /\ toHost = <<>>
    /\ hdr # 0 => hdr = calls
    /\ \A i \in 1..Len(toDevice) : toDevice[i].call = calls
    /\ \A i \in 1..Len(busy) : busy[i].call = calls
    /\ \A i \in 1..Len(toHost) : toHost[i].call = calls

\* Every response of which there is a byte goes on to its end, and there the
\* next one begins.
WholeFrames(bytes) ==
    /\ \A i \in 1..Len(bytes) : \A k \in 0..(End(bytes[i].kind) - bytes[i].at) :
          /\ i + k <= Len(bytes)
          /\ bytes[i + k].kind = bytes[i].kind
          /\ bytes[i + k].at = bytes[i].at + k
    /\ \A i \in 1..(Len(bytes) - 1) : bytes[i].at = End(bytes[i].kind) => bytes[i + 1].at = 0

\* The place in its response of the byte that pico_transact waits for.
Due(p, k) == CASE p = "payload" -> 4 [] p = "crc" -> End(k) [] OTHER -> 0

\* Without cut-off answers the bytes at hand are whole responses from that byte on;
\* while the port is closed they are the beginning of one.
FramesInv == /\ ~is_open => pc = "idle"
             /\ ~is_open /\ toHost # <<>> => toHost[1].at = 0
             /\ is_open /\ ~cut =>
                   /\ WholeFrames(toHost)
                   /\ toHost # <<>> => toHost[1].at = Due(pc, kind)
                   /\ pc \in {"payload", "crc"} => toHost # <<>> /\ toHost[1].kind = kind
             /\ pc = "payload" => PayloadLen(kind) > 0

TransportInv == TypeOK /\ Pipeline /\ OneCall /\ FramesInv

----------------------------------------------------------------------------
(* Sequences, frames, bytes                                                *)

\* The constants, in pieces the provers can use.
LEMMA Lengths == /\ MaxCalls \in Nat /\ MaxOpens \in Nat /\ DataLen \in Nat /\ FirstPacket \in Nat
                 /\ FirstPacket >= 5 /\ FirstPacket <= 4 + DataLen
  BY TransportAssumption

\* How long a response is.
LEMMA PayloadLengths == \A k : PayloadLen(k) \in {0, DataLen} /\ PayloadLen(k) \in Nat /\ End(k) \in Nat
                                /\ End(k) >= 4
  BY Lengths DEF PayloadLen, End

\* What a frame and a byte are made of.
LEMMA Fields ==
    /\ \A f \in Frame : f.call \in Calls /\ f.cmd \in Command
    /\ \A b \in Byte : /\ b.call \in Nat /\ b.call >= 1 /\ b.call <= MaxCalls /\ b.at \in Nat
                       /\ b.kind \in {"OK", "DATA", "ERROR"}
    /\ \A f \in Frame : f.call \in Nat /\ f.call >= 1 /\ f.call <= MaxCalls
<1>1. Calls \subseteq Nat
  BY DEF Calls
<1> QED
  BY <1>1 DEF Frame, Byte, Calls

\* t is what is left of s without its first n elements.
Dropped(s, n, t) == /\ Len(t) = Len(s) - n
                    /\ \A i \in 1..Len(t) : t[i] = s[n + i]

\* Reading n bytes.
LEMMA Suffix == ASSUME NEW S, NEW s \in Seq(S), NEW n \in 0..Len(s)
                PROVE  /\ SubSeq(s, n + 1, Len(s)) \in Seq(S)
                       /\ Dropped(s, n, SubSeq(s, n + 1, Len(s)))
<1>1. Len(s) \in Nat /\ n + 1 \in Int
  BY LenProperties
<1>2. \A i \in (n + 1)..Len(s) : s[i] \in S
  BY <1>1, ElementOfSeq
<1> QED
  BY <1>1, <1>2, SubSeqProperties DEF Dropped

\* Reading one.
LEMMA Rest == ASSUME NEW S, NEW s \in Seq(S), s # <<>>
              PROVE  Tail(s) \in Seq(S) /\ Dropped(s, 1, Tail(s)) /\ Len(s) \in Nat \ {0}
<1>1. Len(s) \in Nat \ {0}
  BY EmptySeq
<1> QED
  BY <1>1, HeadTailProperties DEF Dropped

\* A handler's answer.
LEMMA ResponseBytes ==
  ASSUME NEW f \in Frame, NEW k \in Kinds(f.cmd)
  PROVE  LET r == Response(f, k)
         IN  /\ r \in Seq(Byte) /\ Len(r) = End(k) + 1
             /\ \A i \in 1..Len(r) : r[i].call = f.call /\ r[i].kind = k /\ r[i].at = i - 1
<1> DEFINE r == Response(f, k)
           e == 5 + PayloadLen(k)
<1>1. f.call \in Calls /\ k \in {"OK", "DATA", "ERROR"}
  BY Fields DEF Kinds
<1>2. e \in Nat /\ e = End(k) + 1 /\ \A i \in 1..e : i - 1 \in 0..(4 + DataLen)
  BY Lengths DEF End, PayloadLen
<1>3. r = [i \in 1..e |-> [call |-> f.call, kind |-> k, at |-> i - 1]]
  BY DEF Response
<1>4. \A i \in 1..e : [call |-> f.call, kind |-> k, at |-> i - 1] \in Byte
  BY <1>1, <1>2 DEF Byte
<1>5. r \in [1..e -> Byte]
  BY <1>3, <1>4
<1>6. r \in Seq(Byte) /\ Len(r) = e
  <2> HIDE DEF e, r
  <2> QED
    BY <1>2, <1>5, SeqDef
<1> QED
  BY <1>2, <1>3, <1>6

\* The part of it that is sent.
LEMMA SentBytes ==
  ASSUME NEW f \in Frame, NEW k \in Kinds(f.cmd), NEW n \in 0..(End(k) + 1)
  PROVE  LET p == SubSeq(Response(f, k), 1, n)
         IN  /\ p \in Seq(Byte) /\ Len(p) = n
             /\ \A i \in 1..n : p[i].call = f.call /\ p[i].kind = k /\ p[i].at = i - 1
<1> DEFINE r == Response(f, k)
<1>1. /\ r \in Seq(Byte) /\ Len(r) = End(k) + 1
      /\ \A i \in 1..Len(r) : r[i].call = f.call /\ r[i].kind = k /\ r[i].at = i - 1
  BY ResponseBytes
<1> HIDE DEF r
<1>2. \A i \in 1..n : r[i] \in Byte
  BY <1>1, ElementOfSeq
<1>3. n \in Int /\ 1 \in Int /\ n >= 0
  BY PayloadLengths
<1>4. /\ SubSeq(r, 1, n) \in Seq(Byte) /\ Len(SubSeq(r, 1, n)) = n
      /\ \A i \in 1..n : SubSeq(r, 1, n)[i] = r[i]
  BY <1>2, <1>3, SubSeqProperties
<1> QED
  BY <1>1, <1>3, <1>4 DEF r

\* s \o p with p the first n bytes of the answer of kind k to call c.
Answered(s, c, k, n, t) == /\ Len(t) = Len(s) + n
                           /\ \A i \in 1..Len(s) : t[i] = s[i]
                           /\ \A i \in Len(s) + 1..Len(s) + n :
                                 t[i].call = c /\ t[i].kind = k /\ t[i].at = i - Len(s) - 1

\* Every answer adds the beginning of a response of the frame in hand to what
\* there is.
LEMMA AnswerAdds ==
  ASSUME TypeOK, Answer \/ AnswerToNobody
  PROVE  /\ busy \in Seq(Frame) /\ Len(busy) = 1 /\ busy[1] \in Frame /\ busy' = <<>>
         /\ toHost' \in Seq(Byte)
         /\ \E k \in {"OK", "DATA", "ERROR"} : \E n \in 0..(End(k) + 1) :
               /\ Answered(toHost, busy[1].call, k, n, toHost')
               /\ Answer => cut' = (cut \/ n \notin {0, End(k) + 1})
               /\ AnswerToNobody => n = 0 \/ toHost = <<>>
<1>1. /\ busy \in Seq(Frame) /\ Len(busy) \in Nat /\ Len(busy) = 1 /\ busy[1] \in Frame /\ busy' = <<>>
      /\ toHost \in Seq(Byte)
  <2>1. busy \in Seq(Frame) /\ Len(busy) <= 1 /\ busy # <<>> /\ busy' = <<>> /\ toHost \in Seq(Byte)
    BY DEF TypeOK, Answer, AnswerToNobody
  <2>2. Len(busy) \in Nat \ {0}
    BY <2>1, EmptySeq
  <2>3. Len(busy) = 1 /\ 1 \in 1..Len(busy)
    <3> DEFINE n == Len(busy)
    <3>1. n \in Nat \ {0} /\ n <= 1
      BY <2>1, <2>2
    <3> HIDE DEF n
    <3>2. n = 1 /\ 1 \in 1..n
      BY <3>1
    <3> QED
      BY <3>2 DEF n
  <2>4. busy[1] \in Frame
    BY <2>1, <2>3, ElementOfSeq
  <2> QED
    BY <2>1, <2>2, <2>3, <2>4
<1> DEFINE f == busy[1]
<1>2. Kinds(f.cmd) \subseteq {"OK", "DATA", "ERROR"}
  BY DEF Kinds
<1>3. ASSUME NEW k \in Kinds(f.cmd), NEW n \in Sent(Response(f, k))
      PROVE  n \in 0..(End(k) + 1)
  <2>1. Len(Response(f, k)) = End(k) + 1
    BY <1>1, ResponseBytes
  <2> QED
    BY <2>1, Lengths, PayloadLengths DEF Sent
<1>4. ASSUME NEW k \in Kinds(f.cmd), NEW n \in 0..(End(k) + 1)
      PROVE  LET t == toHost \o SubSeq(Response(f, k), 1, n)
             IN  t \in Seq(Byte) /\ Answered(toHost, f.call, k, n, t)
  <2> DEFINE p == SubSeq(Response(f, k), 1, n)
  <2>1. /\ p \in Seq(Byte) /\ Len(p) = n
        /\ \A i \in 1..n : p[i].call = f.call /\ p[i].kind = k /\ p[i].at = i - 1
    BY <1>1, SentBytes
  <2> HIDE DEF p, f
  <2>2. /\ toHost \o p \in Seq(Byte) /\ Len(toHost \o p) = Len(toHost) + n
        /\ \A i \in 1..Len(toHost) + n :
              (toHost \o p)[i] = IF i <= Len(toHost) THEN toHost[i] ELSE p[i - Len(toHost)]
    BY <1>1, <2>1, ConcatProperties
  <2>3. n \in Nat /\ Len(toHost) \in Nat
    BY <1>1, PayloadLengths, LenProperties
  <2>4. Answered(toHost, f.call, k, n, toHost \o p)
    BY <2>1, <2>2, <2>3 DEF Answered
  <2> QED
    BY <2>2, <2>4 DEF p
<1>5. CASE Answer
  <2>1. PICK k \in Kinds(f.cmd) : \E n \in Sent(Response(f, k)) :
              /\ toHost' = toHost \o SubSeq(Response(f, k), 1, n)
              /\ cut' = (cut \/ n \notin {0, Len(Response(f, k))})
    BY <1>5 DEF Answer, dispatch
  <2>2. PICK n \in Sent(Response(f, k)) :
              /\ toHost' = toHost \o SubSeq(Response(f, k), 1, n)
              /\ cut' = (cut \/ n \notin {0, Len(Response(f, k))})
    BY <2>1
  <2>3. n \in 0..(End(k) + 1) /\ Len(Response(f, k)) = End(k) + 1
    BY <1>1, <1>3, ResponseBytes
  <2>4. toHost' \in Seq(Byte) /\ Answered(toHost, f.call, k, n, toHost')
    BY <1>4, <2>2, <2>3
  <2>5. ~AnswerToNobody
    BY <1>5 DEF Answer, AnswerToNobody
  <2> QED
    BY <1>1, <1>2, <2>2, <2>3, <2>4, <2>5
<1>6. CASE AnswerToNobody
  <2>0. ~Answer
    BY <1>6 DEF Answer, AnswerToNobody
  <2>1. CASE toHost' = toHost
    <3>1. 0 \in 0..(End("OK") + 1) /\ Len(toHost) \in Nat
      BY <1>1, PayloadLengths, LenProperties
    <3>2. Answered(toHost, f.call, "OK", 0, toHost')
      BY <2>1, <3>1 DEF Answered
    <3> QED
      BY <1>1, <2>0, <2>1, <3>1, <3>2
  <2>2. CASE toHost = <<>> /\ toHost' # toHost
    <3>1. PICK r \in dispatch(f) :
              toHost' = SubSeq(r, 1, IF Len(r) > FirstPacket THEN FirstPacket ELSE Len(r))
      BY <1>6, <2>2 DEF AnswerToNobody
    <3>2. PICK k \in Kinds(f.cmd) : r = Response(f, k)
      BY <3>1 DEF dispatch
    <3>3. PICK n \in Sent(Response(f, k)) : toHost' = SubSeq(Response(f, k), 1, n)
      BY <3>1, <3>2 DEF Sent
    <3>4. n \in 0..(End(k) + 1)
      BY <1>3
    <3>5. SubSeq(Response(f, k), 1, n) \in Seq(Byte)
      BY <1>1, <3>4, SentBytes
    <3>6. toHost' = toHost \o SubSeq(Response(f, k), 1, n)
      BY <2>2, <3>3, <3>5, ConcatEmptySeq
    <3> QED
      BY <1>1, <1>2, <1>4, <2>0, <2>2, <3>4, <3>6
  <2> QED
    BY <1>6, <2>1, <2>2 DEF AnswerToNobody
<1> QED
  BY <1>5, <1>6

----------------------------------------------------------------------------
(* The types, and what is under way                                        *)

\* What is left keeps the order, the places and the whole responses.
LEMMA DroppedKeeps ==
  ASSUME NEW s \in Seq(Byte), NEW t \in Seq(Byte), NEW n \in 0..Len(s), Dropped(s, n, t)
  PROVE  /\ \A j \in 1..Len(t) : n + j \in 1..Len(s) /\ t[j] = s[n + j]
         /\ InOrder(s) => InOrder(t)
         /\ Fit(s) => Fit(t)
         /\ WholeFrames(s) => WholeFrames(t)
<1>1. Len(s) \in Nat /\ Len(t) \in Nat /\ n \in Nat /\ Len(t) = Len(s) - n
  BY LenProperties DEF Dropped
<1>2. \A j \in 1..Len(t) : n + j \in 1..Len(s) /\ t[j] = s[n + j]
  BY <1>1 DEF Dropped
<1>3. InOrder(s) => InOrder(t)
  BY <1>1, <1>2 DEF InOrder
<1>4. Fit(s) => Fit(t)
  BY <1>2 DEF Fit
<1>5. ASSUME WholeFrames(s) PROVE WholeFrames(t)
  <2>1. ASSUME NEW i \in 1..Len(t), NEW k \in 0..(End(t[i].kind) - t[i].at)
        PROVE  /\ i + k <= Len(t) /\ t[i + k].kind = t[i].kind /\ t[i + k].at = t[i].at + k
    <3>1. n + i \in 1..Len(s) /\ t[i] = s[n + i]
      BY <1>2
    <3>2. /\ (n + i) + k <= Len(s) /\ s[(n + i) + k].kind = s[n + i].kind
          /\ s[(n + i) + k].at = s[n + i].at + k
      BY <1>5, <3>1 DEF WholeFrames
    <3>3. k \in Nat
      BY PayloadLengths, <3>1, ElementOfSeq, Fields
    <3>4. i + k \in 1..Len(t) /\ n + (i + k) = (n + i) + k
      BY <1>1, <3>2, <3>3
    <3>5. t[i + k] = s[n + (i + k)]
      BY <1>2, <3>4
    <3>6. t[i + k] = s[(n + i) + k] /\ i + k <= Len(t)
      BY <1>1, <3>4, <3>5
    <3> QED
      BY <3>1, <3>2, <3>6
  <2>2. ASSUME NEW i \in 1..(Len(t) - 1), t[i].at = End(t[i].kind) PROVE t[i + 1].at = 0
    <3>1. i \in 1..Len(t) /\ i + 1 \in 1..Len(t) /\ n + i \in 1..(Len(s) - 1)
          /\ n + (i + 1) = (n + i) + 1
      BY <1>1
    <3>2. t[i] = s[n + i] /\ t[i + 1] = s[(n + i) + 1]
      BY SMTT(20), <1>2, <3>1
    <3> QED
      BY <1>5, <2>2, <3>1, <3>2 DEF WholeFrames
  <2> QED
    BY <2>1, <2>2 DEF WholeFrames
<1> QED
  BY <1>2, <1>3, <1>4, <1>5

\* What an action of the host does to the receive buffer: n bytes are read.
LEMMA ReadsDrop ==
  ASSUME TypeOK, \/ pico_port_open \/ pico_port_close
                 \/ ReadHeader \/ ReadPayload \/ ReadCrc \/ ReadTimeout
  PROVE  /\ toHost' \in Seq(Byte)
         /\ \E n \in 0..Len(toHost) :
               /\ Dropped(toHost, n, toHost')
               /\ ReadHeader => n = 4
               /\ ReadPayload => n = PayloadLen(kind)
               /\ ReadCrc => n = 1
<1>1. toHost \in Seq(Byte) /\ Len(toHost) \in Nat
  BY LenProperties DEF TypeOK
<1>2. /\ <<>> \in Seq(Byte) /\ Len(<<>>) = 0 /\ 0 \in 0..Len(toHost) /\ Len(toHost) \in 0..Len(toHost)
      /\ Dropped(toHost, 0, toHost) /\ Dropped(toHost, Len(toHost), <<>>)
  BY <1>1, EmptySeq DEF Dropped
<1>3. CASE toHost' = <<>> /\ ~ReadHeader /\ ~ReadPayload /\ ~ReadCrc
  BY <1>2, <1>3
<1>4. CASE toHost' = toHost /\ ~ReadHeader /\ ~ReadPayload /\ ~ReadCrc
  BY <1>1, <1>2, <1>4
<1>5. CASE ReadHeader
  <2>1. toHost' = SubSeq(toHost, 4 + 1, Len(toHost)) /\ 4 \in 0..Len(toHost) /\ pc = "header"
    BY <1>1, <1>5 DEF ReadHeader
  <2>2. ~ReadPayload /\ ~ReadCrc
    BY <2>1 DEF ReadPayload, ReadCrc
  <2> QED
    BY <1>1, <2>1, <2>2, Suffix
<1>6. CASE ReadPayload
  <2>1. /\ toHost' = SubSeq(toHost, PayloadLen(kind) + 1, Len(toHost))
        /\ PayloadLen(kind) \in 0..Len(toHost) /\ pc = "payload"
    BY <1>1, <1>6, PayloadLengths DEF ReadPayload
  <2>2. ~ReadHeader /\ ~ReadCrc
    BY <2>1 DEF ReadHeader, ReadCrc
  <2> QED
    BY <1>1, <2>1, <2>2, Suffix
<1>7. CASE ReadCrc
  <2>1. toHost' = Tail(toHost) /\ toHost # <<>> /\ 1 \in 0..Len(toHost) /\ pc = "crc"
    BY <1>1, <1>2, <1>7 DEF ReadCrc
  <2>2. ~ReadHeader /\ ~ReadPayload
    BY <2>1 DEF ReadHeader, ReadPayload
  <2> QED
    BY <1>1, <2>1, <2>2, Rest
<1>8. pico_port_open \/ pico_port_close \/ ReadTimeout => toHost' = <<>> \/ toHost' = toHost
  BY DEF pico_port_open, pico_port_close, ReadTimeout
<1> QED
  BY <1>3, <1>4, <1>5, <1>6, <1>7, <1>8

\* The first bytes, once enough of them are there.
LEMMA FirstBytes == ASSUME TypeOK, ReadHeader \/ ReadCrc
                    PROVE  1 \in 1..Len(toHost) /\ toHost[1] \in Byte /\ toHost[1].call \in Nat
<1>1. toHost \in Seq(Byte) /\ Len(toHost) \in Nat
  BY LenProperties DEF TypeOK
<1>2. 1 \in 1..Len(toHost)
  BY <1>1 DEF ReadHeader, ReadCrc
<1> QED
  BY <1>1, <1>2, ElementOfSeq, Fields

\* What the DLL's steps do to the frame in hand, to the last answer and to the calls.
LEMMA HostEffect ==
  ASSUME TypeOK, Pipeline, \/ pico_port_open \/ pico_port_close
                           \/ ReadHeader \/ ReadPayload \/ ReadCrc \/ ReadTimeout
  PROVE  /\ UNCHANGED <<toDevice, busy, calls>>
         /\ \/ hdr' = hdr /\ kind' = kind /\ last' = last
            \/ hdr' = 0 /\ last' = last
            \/ hdr' = 0 /\ last' = hdr /\ hdr # 0 /\ ReadCrc /\ Matches(toHost[1])
            \/ /\ ReadHeader /\ last' = last
               /\ hdr' = toHost[1].call /\ kind' = toHost[1].kind
  BY DEF TypeOK, pico_port_open, pico_port_close, ReadHeader, ReadPayload, ReadCrc, ReadTimeout,
         Fails, host, device, history

\* The types.
LEMMA TransportTypeStep == TypeOK /\ ToHostInv /\ [Next]_vars => TypeOK'
<1> SUFFICES ASSUME TypeOK, ToHostInv, [Next]_vars PROVE TypeOK'
  OBVIOUS
<1> USE Lengths DEF host, device, history
<1>0. /\ is_open \in BOOLEAN /\ whole \in BOOLEAN /\ clean \in BOOLEAN /\ cut \in BOOLEAN
      /\ opens \in 0..MaxOpens /\ calls \in 0..MaxCalls
      /\ pc \in {"idle", "header", "payload", "crc"}
      /\ hdr \in 0..calls /\ (hdr # 0 <=> pc \in {"payload", "crc"})
      /\ kind \in {"OK", "DATA", "ERROR"}
      /\ toDevice \in Seq(Frame) /\ busy \in Seq(Frame) /\ Len(busy) <= 1
      /\ toHost \in Seq(Byte)
      /\ ret \in [ok : BOOLEAN, from : 0..MaxCalls]
      /\ last \in 0..MaxCalls
  BY DEF TypeOK
<1>failed. [ok |-> FALSE, from |-> 0] \in [ok : BOOLEAN, from : 0..MaxCalls]
  OBVIOUS
<1>1. CASE pico_port_open
  <2>1. toHost' \in Seq(Byte)
    BY <1>1, ReadsDrop
  <2>2. clean' \in BOOLEAN /\ cut' \in BOOLEAN /\ opens' \in 0..MaxOpens
    BY <1>0, <1>1 DEF pico_port_open
  <2> QED
    BY <1>0, <1>1, <2>1, <2>2 DEF pico_port_open, TypeOK
<1>2. CASE pico_port_close
  <2>1. toHost' \in Seq(Byte)
    BY <1>2, ReadsDrop
  <2> QED
    BY <1>0, <1>2, <2>1 DEF pico_port_close, TypeOK
<1>3. ASSUME NEW cmd \in Command, Transact(cmd) PROVE TypeOK'
  <2>1. calls' = calls + 1 /\ calls' \in 0..MaxCalls /\ calls + 1 \in Calls
    BY <1>0, <1>3 DEF Transact, Calls
  <2>2. [call |-> calls + 1, cmd |-> cmd] \in Frame
    BY <2>1 DEF Frame
  <2>3. toDevice' \in Seq(Frame)
    BY <1>0, <1>3, <2>2, AppendProperties DEF Transact
  <2>4. hdr' \in 0..calls' /\ hdr' = 0 /\ pc' = "header"
    BY <1>0, <1>3, <2>1 DEF Transact
  <2> QED
    BY <1>0, <1>3, <2>1, <2>3, <2>4 DEF Transact, TypeOK
<1>4. CASE SendFails
  <2>1. calls' \in 0..MaxCalls /\ hdr' \in 0..calls' /\ hdr' = hdr /\ pc' = pc
    BY <1>0, <1>4 DEF SendFails
  <2>2. ret' \in [ok : BOOLEAN, from : 0..MaxCalls]
    BY <1>4 DEF SendFails
  <2> QED
    BY <1>0, <1>4, <2>1, <2>2 DEF SendFails, TypeOK
<1>5. CASE ReadHeader
  <2>1. toHost' \in Seq(Byte) /\ toHost[1] \in Byte /\ 1 \in 1..Len(toHost)
    BY <1>5, ReadsDrop, FirstBytes
  <2>2. CASE toHost[1].at # 0
    <3>1. ret' \in [ok : BOOLEAN, from : 0..MaxCalls] /\ hdr' = 0 /\ pc' = "idle"
      BY <1>failed, <1>5, <2>2 DEF ReadHeader, Fails
    <3> QED
      BY <1>0, <1>5, <2>1, <2>2, <3>1 DEF ReadHeader, Fails, TypeOK
  <2>3. CASE toHost[1].at = 0
    <3>1. toHost[1].call <= calls /\ toHost[1].call \in Nat /\ toHost[1].call >= 1
          /\ toHost[1].kind \in {"OK", "DATA", "ERROR"}
      BY <2>1, Fields DEF ToHostInv
    <3>2. hdr' \in 0..calls' /\ hdr' # 0 /\ pc' \in {"payload", "crc"} /\ whole' = TRUE
          /\ kind' \in {"OK", "DATA", "ERROR"}
      BY <1>0, <1>5, <2>3, <3>1 DEF ReadHeader
    <3> QED
      BY <1>0, <1>5, <2>1, <2>3, <3>2 DEF ReadHeader, TypeOK
  <2> QED
    BY <2>2, <2>3
<1>6. CASE ReadPayload
  <2>1. toHost' \in Seq(Byte)
    BY <1>6, ReadsDrop
  <2>2. whole' \in BOOLEAN /\ pc = "payload" /\ pc' = "crc" /\ hdr' = hdr /\ calls' = calls
    BY <1>6 DEF ReadPayload
  <2> QED
    BY <1>0, <1>6, <2>1, <2>2 DEF ReadPayload, TypeOK
<1>7. CASE ReadCrc
  <2>1. toHost' \in Seq(Byte)
    BY <1>7, ReadsDrop
  <2>2. hdr' = 0 /\ pc' = "idle" /\ ret' \in [ok : BOOLEAN, from : 0..MaxCalls]
        /\ last' \in 0..MaxCalls /\ clean' \in BOOLEAN
    <3>1. CASE Matches(toHost[1])
      <4>1. /\ hdr' = 0 /\ pc' = "idle" /\ ret' = [ok |-> kind # "ERROR", from |-> hdr]
            /\ last' = hdr /\ clean' = clean
        BY <1>7, <3>1 DEF ReadCrc
      <4>2. hdr \in 0..MaxCalls
        BY <1>0
      <4> QED
        BY <1>0, <4>1, <4>2
    <3>2. CASE ~Matches(toHost[1])
      BY <1>0, <1>failed, <1>7, <3>2 DEF ReadCrc, Fails
    <3> QED
      BY <3>1, <3>2
  <2>3. UNCHANGED <<is_open, opens, calls, kind, whole, toDevice, busy, cut>>
    BY <1>7 DEF ReadCrc, Fails
  <2> QED
    BY <1>0, <2>1, <2>2, <2>3 DEF TypeOK
<1>8. CASE ReadTimeout
  <2>1. toHost' \in Seq(Byte)
    BY <1>8, ReadsDrop
  <2>2. ret' \in [ok : BOOLEAN, from : 0..MaxCalls] /\ hdr' = 0 /\ pc' = "idle"
    BY <1>failed, <1>8 DEF ReadTimeout, Fails
  <2>3. UNCHANGED <<is_open, opens, calls, kind, whole, toDevice, busy, last, cut>> /\ clean' \in BOOLEAN
    BY <1>8 DEF ReadTimeout, Fails
  <2> QED
    BY <1>0, <2>1, <2>2, <2>3 DEF TypeOK
<1>9. CASE Lose
  <2>1. toDevice' \in Seq(Frame)
    BY <1>0, <1>9, Rest DEF Lose
  <2> QED
    BY <1>0, <1>9, <2>1 DEF Lose, TypeOK
<1>10. CASE Accept
  <2>1. toDevice' \in Seq(Frame) /\ Head(toDevice) \in Frame
    BY <1>0, <1>10, HeadTailProperties DEF Accept
  <2>2. busy' \in Seq(Frame) /\ Len(busy') <= 1
    BY <1>10, <2>1 DEF Accept
  <2> QED
    BY <1>0, <1>10, <2>1, <2>2 DEF Accept, TypeOK
<1>11. CASE Answer
  <2>1. toHost' \in Seq(Byte) /\ busy' = <<>>
    BY <1>11, AnswerAdds
  <2>2. busy' \in Seq(Frame) /\ Len(busy') <= 1 /\ cut' \in BOOLEAN
    BY <1>0, <1>11, <2>1, EmptySeq DEF Answer
  <2> QED
    BY <1>0, <1>11, <2>1, <2>2 DEF Answer, TypeOK
<1>12. CASE AnswerToNobody
  <2>1. toHost' \in Seq(Byte) /\ busy' = <<>>
    BY <1>12, AnswerAdds
  <2>2. busy' \in Seq(Frame) /\ Len(busy') <= 1
    BY <2>1, EmptySeq
  <2> QED
    BY <1>0, <1>12, <2>1, <2>2 DEF AnswerToNobody, TypeOK
<1>13. CASE UNCHANGED vars
  BY <1>0, <1>13 DEF vars, TypeOK
<1> QED
  BY <1>1, <1>2, <1>3, <1>4, <1>5, <1>6, <1>7, <1>8, <1>9, <1>10, <1>11, <1>12, <1>13 DEF Next

\* The frames, as what they are.
LEMMA FramesUnderWay ==
  ASSUME TypeOK
  PROVE  /\ Len(toDevice) \in Nat /\ Len(busy) \in Nat /\ Len(toHost) \in Nat
         /\ \A i \in 1..Len(toDevice) : toDevice[i] \in Frame /\ toDevice[i].call \in Nat
         /\ \A i \in 1..Len(busy) : busy[i] \in Frame /\ busy[i].call \in Nat
         /\ \A i \in 1..Len(toHost) : toHost[i] \in Byte /\ toHost[i].call \in Nat
         /\ hdr \in Nat /\ last \in Nat /\ calls \in Nat
<1>1. toDevice \in Seq(Frame) /\ busy \in Seq(Frame) /\ toHost \in Seq(Byte)
  BY DEF TypeOK
<1>2. Len(toDevice) \in Nat /\ Len(busy) \in Nat /\ Len(toHost) \in Nat
  BY <1>1, LenProperties
<1>3. /\ \A i \in 1..Len(toDevice) : toDevice[i] \in Frame
      /\ \A i \in 1..Len(busy) : busy[i] \in Frame
      /\ \A i \in 1..Len(toHost) : toHost[i] \in Byte
  BY <1>1, ElementOfSeq
<1>4. hdr \in Nat /\ last \in Nat /\ calls \in Nat
  BY Lengths DEF TypeOK
<1> QED
  BY <1>2, <1>3, <1>4, Fields

\* The DLL reads, opens and closes: what remains is newer than what was taken, and an
\* answer that ends at its CRC leaves no byte of its own behind.
LEMMA PipelineRead ==
  TypeOK /\ Pipeline /\ (\/ pico_port_open \/ pico_port_close
                         \/ ReadHeader \/ ReadPayload \/ ReadCrc \/ ReadTimeout)
    => Pipeline'
<1> SUFFICES ASSUME TypeOK, Pipeline, \/ pico_port_open \/ pico_port_close
                                      \/ ReadHeader \/ ReadPayload \/ ReadCrc \/ ReadTimeout
             PROVE  Pipeline'
  OBVIOUS
<1>1. PICK n \in 0..Len(toHost) : /\ Dropped(toHost, n, toHost')
                                  /\ ReadHeader => n = 4
                                  /\ ReadCrc => n = 1
  BY ReadsDrop
<1>2. toHost \in Seq(Byte) /\ toHost' \in Seq(Byte) /\ n \in Nat
  BY ReadsDrop, LenProperties DEF TypeOK
<1>3. /\ \A j \in 1..Len(toHost') : n + j \in 1..Len(toHost) /\ toHost'[j] = toHost[n + j]
      /\ InOrder(toHost') /\ Fit(toHost')
  BY <1>1, <1>2, DroppedKeeps DEF Pipeline, ToHostInv
<1>4. ToHostInv /\ BusyInv /\ ToDeviceInv /\ HeaderInv
  BY DEF Pipeline
<1>5. UNCHANGED <<toDevice, busy, calls>>
  BY HostEffect
<1>6. /\ hdr \in Nat /\ last \in Nat /\ calls \in Nat
      /\ \A i \in 1..Len(toHost) : toHost[i].call \in Nat /\ toHost[i].call >= 1
      /\ \A i \in 1..Len(busy) : busy[i].call \in Nat /\ busy[i].call > 0
      /\ \A i \in 1..Len(toDevice) : toDevice[i].call \in Nat /\ toDevice[i].call > 0
  BY FramesUnderWay, Fields
<1>left. \A j \in 1..Len(toHost') : /\ toHost'[j].call \in Nat /\ toHost'[j].call >= 1
                                    /\ last < toHost'[j].call /\ toHost'[j].call <= calls
  BY <1>3, <1>4, <1>6 DEF ToHostInv
<1>7. CASE hdr' = hdr /\ kind' = kind /\ last' = last
  <2>1. ToHostInv'
    BY <1>3, <1>4, <1>5, <1>7 DEF ToHostInv
  <2>2. BusyInv'
    BY <1>3, <1>4, <1>5, <1>7 DEF BusyInv
  <2>3. ToDeviceInv'
    BY <1>3, <1>4, <1>5, <1>7 DEF ToDeviceInv
  <2>4. HeaderInv'
    BY <1>4, <1>5, <1>7 DEF HeaderInv
  <2> QED
    BY <2>1, <2>2, <2>3, <2>4 DEF Pipeline
<1>8. CASE hdr' = 0 /\ last' = last
  <2>1. ToHostInv'
    BY <1>3, <1>4, <1>5, <1>6, <1>8 DEF ToHostInv
  <2>2. BusyInv' /\ ToDeviceInv' /\ HeaderInv'
    <3>1. BusyInv' /\ HeaderInv'
      BY <1>3, <1>4, <1>5, <1>6, <1>8 DEF BusyInv, HeaderInv
    <3>2. ToDeviceInv'
      BY <1>3, <1>4, <1>5, <1>6, <1>8 DEF ToDeviceInv
    <3> QED
      BY <3>1, <3>2
  <2> QED
    BY <2>1, <2>2 DEF Pipeline
<1>9. CASE hdr' = 0 /\ last' = hdr /\ hdr # 0 /\ ReadCrc /\ Matches(toHost[1])
  <2>1. /\ 1 \in 1..Len(toHost) /\ toHost[1] \in Byte /\ toHost[1].call = hdr
        /\ toHost[1].at = End(kind) /\ toHost[1].kind = kind
    BY <1>4, <1>9, FirstBytes DEF Matches, ToHostInv, End
  <2>2. n = 1
    BY <1>1, <1>9
  <2>3. ASSUME NEW j \in 1..Len(toHost') PROVE toHost'[j].call > hdr
    <3>1. 1 + j \in 1..Len(toHost) /\ toHost'[j] = toHost[1 + j] /\ 1 < 1 + j
      BY <1>3, <2>2
    <3>2. Before(toHost[1], toHost[1 + j])
      BY <1>4, <2>1, <3>1 DEF ToHostInv, InOrder
    <3>3. toHost[1 + j].at <= End(toHost[1 + j].kind) /\ toHost[1 + j] \in Byte
      BY <1>2, <1>4, <3>1, ElementOfSeq DEF ToHostInv, Fit
    <3>4. toHost[1 + j].at \in Nat /\ End(kind) \in Nat
      BY <3>3, Fields, PayloadLengths
    <3> QED
      BY <1>6, <2>1, <3>1, <3>2, <3>3, <3>4 DEF Before
  <2>4. ToHostInv'
    <3>1. ASSUME NEW j \in 1..Len(toHost')
          PROVE  /\ last' < toHost'[j].call
                 /\ hdr' <= toHost'[j].call /\ toHost'[j].call <= calls'
                 /\ toHost'[j].call # hdr'
      BY <1>5, <1>6, <1>left, <1>9, <2>3
    <3> QED
      BY <1>3, <3>1 DEF ToHostInv
  <2>5. BusyInv'
    BY <1>3, <1>4, <1>5, <1>6, <1>9 DEF BusyInv
  <2>6. ToDeviceInv'
    BY <1>3, <1>4, <1>5, <1>6, <1>9 DEF ToDeviceInv
  <2>7. HeaderInv'
    BY <1>5, <1>9 DEF HeaderInv, TypeOK
  <2> QED
    BY <2>4, <2>5, <2>6, <2>7 DEF Pipeline
<1>10. CASE ReadHeader /\ last' = last /\ hdr' = toHost[1].call /\ kind' = toHost[1].kind
  <2>1. 1 \in 1..Len(toHost)
    BY <1>10, FirstBytes
  <2>2. n = 4
    BY <1>1, <1>10
  <2>3. ASSUME NEW j \in 1..Len(toHost')
        PROVE  /\ hdr' <= toHost'[j].call
               /\ toHost'[j].call = hdr' => toHost'[j].kind = kind'
    <3>1. 4 + j \in 1..Len(toHost) /\ toHost'[j] = toHost[4 + j] /\ 1 < 4 + j
      BY <1>3, <2>2
    <3>2. Before(toHost[1], toHost[4 + j])
      BY <1>4, <2>1, <3>1 DEF ToHostInv, InOrder
    <3> QED
      BY <1>6, <1>10, <2>1, <3>1, <3>2 DEF Before
  <2>4. ToHostInv'
    BY <1>3, <1>4, <1>5, <1>10, <2>3 DEF ToHostInv
  <2>5. BusyInv'
    BY <1>3, <1>4, <1>5, <1>10, <2>1 DEF BusyInv
  <2>6. ToDeviceInv'
    BY <1>3, <1>4, <1>5, <1>10, <2>1 DEF ToDeviceInv
  <2>7. HeaderInv'
    BY <1>4, <1>5, <1>10, <2>1 DEF HeaderInv, ToHostInv
  <2> QED
    BY <2>4, <2>5, <2>6, <2>7 DEF Pipeline
<1> QED
  BY <1>7, <1>8, <1>9, <1>10, HostEffect

\* A call is the newest of all.
LEMMA PipelineCall ==
  ASSUME TypeOK, Pipeline, (\E cmd \in Command : Transact(cmd)) \/ SendFails
  PROVE  Pipeline'
<1> USE FramesUnderWay DEF host, device, history
<1>1. ToHostInv /\ BusyInv /\ ToDeviceInv /\ HeaderInv
  BY DEF Pipeline
<1>2. UNCHANGED <<hdr, kind, busy, toHost, last>> /\ calls' = calls + 1
  BY DEF Transact, SendFails
<1>3. ToHostInv' /\ BusyInv' /\ HeaderInv'
  BY SMTT(20), <1>1, <1>2 DEF ToHostInv, BusyInv, HeaderInv
<1>4. CASE toDevice' = toDevice
  BY <1>1, <1>2, <1>3, <1>4 DEF ToDeviceInv, Pipeline
<1>5. ASSUME NEW cmd \in Command, Transact(cmd) PROVE Pipeline'
  <2> DEFINE f == [call |-> calls + 1, cmd |-> cmd]
  <2>1. f \in Frame /\ f.call = calls + 1 /\ toDevice' = Append(toDevice, f) /\ toDevice \in Seq(Frame)
    <3>1. calls + 1 \in Calls
      BY <1>5, Lengths DEF Transact, Calls, TypeOK
    <3> QED
      BY <1>5, <3>1 DEF Transact, Frame, TypeOK
  <2> HIDE DEF f
  <2>2. /\ Len(toDevice') = Len(toDevice) + 1
        /\ \A i \in 1..Len(toDevice) : toDevice'[i] = toDevice[i]
        /\ toDevice'[Len(toDevice) + 1] = f
    BY <2>1, AppendProperties
  <2>3. \A i \in 1..Len(toDevice') :
           toDevice'[i].call = IF i <= Len(toDevice) THEN toDevice[i].call ELSE calls + 1
    BY <2>1, <2>2
  <2>4. Ascending(toDevice')
    BY <1>1, <2>2, <2>3 DEF Ascending, ToDeviceInv
  <2>5. ASSUME NEW i \in 1..Len(toDevice')
        PROVE  /\ last' < toDevice'[i].call
               /\ hdr' < toDevice'[i].call /\ toDevice'[i].call <= calls'
               /\ \A j \in 1..Len(toHost') : toHost'[j].call < toDevice'[i].call
               /\ \A j \in 1..Len(busy') : busy'[j].call < toDevice'[i].call
    <3>1. CASE i <= Len(toDevice)
      <4>1. i \in 1..Len(toDevice) /\ toDevice'[i].call = toDevice[i].call
        BY <2>2, <2>3, <3>1
      <4>2. /\ last < toDevice[i].call
            /\ hdr < toDevice[i].call /\ toDevice[i].call <= calls
            /\ \A j \in 1..Len(toHost) : toHost[j].call < toDevice[i].call
            /\ \A j \in 1..Len(busy) : busy[j].call < toDevice[i].call
        BY <1>1, <4>1 DEF ToDeviceInv
      <4> QED
        BY <1>1, <1>2, <4>1, <4>2
    <3>2. CASE i > Len(toDevice)
      <4>1. toDevice'[i].call = calls + 1
        BY SMTT(20), <2>2, <2>3, <3>2
      <4>2. hdr <= calls /\ last <= calls
        BY <1>1 DEF HeaderInv, TypeOK
      <4> QED
        BY <1>1, <1>2, <4>1, <4>2 DEF ToHostInv, BusyInv
    <3> QED
      BY <2>2, <3>1, <3>2
  <2>6. ToDeviceInv'
    BY <2>4, <2>5 DEF ToDeviceInv
  <2> QED
    BY <1>3, <2>6 DEF Pipeline
<1>6. SendFails => toDevice' = toDevice
  BY DEF SendFails
<1> QED
  BY <1>4, <1>5, <1>6

\* A frame is lost, or taken in hand.
LEMMA PipelineTake == ASSUME TypeOK, Pipeline, Lose \/ Accept PROVE Pipeline'
<1> USE FramesUnderWay DEF host, device, history
<1>1. ToHostInv /\ BusyInv /\ ToDeviceInv /\ HeaderInv
  BY DEF Pipeline
<1>2. UNCHANGED <<hdr, kind, toHost, last, calls>> /\ toDevice' = Tail(toDevice) /\ toDevice # <<>>
      /\ toDevice \in Seq(Frame)
  BY DEF Lose, Accept, TypeOK
<1>3. Dropped(toDevice, 1, toDevice') /\ 1 \in 1..Len(toDevice)
  BY <1>2, Rest
<1>4. Len(toDevice') \in Nat
  BY <1>3 DEF Dropped
<1>5. \A i \in 1..Len(toDevice') : 1 + i \in 1..Len(toDevice) /\ toDevice'[i] = toDevice[1 + i]
  BY <1>3, <1>4 DEF Dropped
<1>6. ToHostInv' /\ HeaderInv'
  BY <1>1, <1>2 DEF ToHostInv, HeaderInv
<1>7. Ascending(toDevice')
  <2> SUFFICES ASSUME NEW i \in 1..Len(toDevice'), NEW j \in 1..Len(toDevice'), i < j
               PROVE  toDevice'[i].call < toDevice'[j].call
    BY DEF Ascending
  <2>1. 1 + i \in 1..Len(toDevice) /\ 1 + j \in 1..Len(toDevice) /\ 1 + i < 1 + j
    BY <1>4, <1>5
  <2> QED
    BY <1>1, <1>5, <2>1 DEF ToDeviceInv, Ascending
<1>8. CASE Lose
  <2>1. busy' = busy
    BY <1>8 DEF Lose
  <2>2. BusyInv' /\ ToDeviceInv'
    BY <1>1, <1>2, <1>5, <1>7, <2>1 DEF BusyInv, ToDeviceInv
  <2> QED
    BY <1>6, <2>2 DEF Pipeline
<1>9. CASE Accept
  <2>1. busy' = <<Head(toDevice)>>
    BY <1>9 DEF Accept
  <2>2. Len(busy') = 1 /\ busy'[1] = toDevice[1]
    BY <1>2, <2>1
  <2>3. \A i \in 1..Len(busy') : busy'[i] = toDevice[1]
    BY <2>2
  <2>4. BusyInv'
    BY <1>1, <1>2, <1>3, <2>3 DEF BusyInv, ToDeviceInv
  <2>5. ASSUME NEW i \in 1..Len(toDevice'), NEW j \in 1..Len(busy')
        PROVE  busy'[j].call < toDevice'[i].call
    <3>1. 1 + i \in 1..Len(toDevice) /\ toDevice'[i] = toDevice[1 + i] /\ 1 < 1 + i
      BY <1>4, <1>5
    <3> QED
      BY <1>1, <1>3, <2>3, <3>1 DEF ToDeviceInv, Ascending
  <2>6. ToDeviceInv'
    BY <1>1, <1>2, <1>5, <1>7, <2>5 DEF ToDeviceInv
  <2> QED
    BY <1>6, <2>4, <2>6 DEF Pipeline
<1> QED
  BY <1>8, <1>9

\* The bytes after an answer: those there were, and the answer's.
LEMMA AnsweredBytes ==
  ASSUME NEW s \in Seq(Byte), NEW t \in Seq(Byte), NEW c \in Nat, NEW k \in {"OK", "DATA", "ERROR"},
         NEW n \in 0..(End(k) + 1), Answered(s, c, k, n, t)
  PROVE  /\ Len(s) \in Nat /\ Len(t) \in Nat /\ n \in Nat /\ Len(t) = Len(s) + n
         /\ \A i \in 1..Len(t) :
               \/ i \in 1..Len(s) /\ t[i] = s[i]
               \/ /\ i > Len(s) /\ t[i].call = c /\ t[i].kind = k
                  /\ t[i].at = i - Len(s) - 1
         /\ \A i \in 1..Len(t) : t[i].call \in Nat /\ t[i].at \in Nat
<1>1. Len(s) \in Nat /\ Len(t) \in Nat /\ n \in Nat /\ Len(t) = Len(s) + n
  BY LenProperties, PayloadLengths DEF Answered
<1>2. \A i \in 1..Len(t) : t[i].call \in Nat /\ t[i].at \in Nat
  BY ElementOfSeq, Fields
<1>3. ASSUME NEW i \in 1..Len(t)
      PROVE  \/ i \in 1..Len(s) /\ t[i] = s[i]
             \/ i > Len(s) /\ t[i].call = c /\ t[i].kind = k /\ t[i].at = i - Len(s) - 1
  <2>1. CASE i <= Len(s)
    <3>1. i \in 1..Len(s)
      BY <1>1, <2>1
    <3> QED
      BY <3>1 DEF Answered
  <2>2. CASE i > Len(s)
    <3>1. i \in Len(s) + 1..Len(s) + n
      BY <1>1, <2>2
    <3> QED
      BY <2>2, <3>1 DEF Answered
  <2> QED
    BY <1>1, <2>1, <2>2
<1> QED
  BY <1>1, <1>2, <1>3

\* What an answer does to the receive buffer, byte by byte.
Grown(c, k, n) ==
    /\ Len(toHost) \in Nat /\ Len(toHost') \in Nat /\ n \in Nat /\ Len(toHost') = Len(toHost) + n
    /\ \A i \in 1..Len(toHost') :
          \/ i \in 1..Len(toHost) /\ toHost'[i] = toHost[i]
          \/ /\ i > Len(toHost) /\ toHost'[i].call = c /\ toHost'[i].kind = k
             /\ toHost'[i].at = i - Len(toHost) - 1
    /\ \A i \in 1..Len(toHost') : toHost'[i].call \in Nat /\ toHost'[i].at \in Nat

\* Either kind of answer makes it grow.
LEMMA AnswerGrows ==
  ASSUME TypeOK, Answer \/ AnswerToNobody
  PROVE  \E k \in {"OK", "DATA", "ERROR"} : \E n \in 0..(End(k) + 1) :
            /\ Grown(busy[1].call, k, n)
            /\ Answer => cut' = (cut \/ n \notin {0, End(k) + 1})
            /\ AnswerToNobody => n = 0 \/ toHost = <<>>
<1> DEFINE c == busy[1].call
           s == toHost
           t == toHost'
<1>1. c \in Nat /\ s \in Seq(Byte) /\ t \in Seq(Byte)
  BY AnswerAdds, Fields DEF TypeOK
<1>2. PICK k \in {"OK", "DATA", "ERROR"} : \E n \in 0..(End(k) + 1) :
         /\ Answered(s, c, k, n, t)
         /\ Answer => cut' = (cut \/ n \notin {0, End(k) + 1})
         /\ AnswerToNobody => n = 0 \/ toHost = <<>>
  BY AnswerAdds
<1>3. PICK n \in 0..(End(k) + 1) :
         /\ Answered(s, c, k, n, t)
         /\ Answer => cut' = (cut \/ n \notin {0, End(k) + 1})
         /\ AnswerToNobody => n = 0 \/ toHost = <<>>
  BY <1>2
<1> HIDE DEF c, s, t
<1>4. /\ Len(s) \in Nat /\ Len(t) \in Nat /\ n \in Nat /\ Len(t) = Len(s) + n
      /\ \A i \in 1..Len(t) :
            \/ i \in 1..Len(s) /\ t[i] = s[i]
            \/ /\ i > Len(s) /\ t[i].call = c /\ t[i].kind = k
               /\ t[i].at = i - Len(s) - 1
      /\ \A i \in 1..Len(t) : t[i].call \in Nat /\ t[i].at \in Nat
  BY SMTT(20), <1>1, <1>3, AnsweredBytes
<1>5. Grown(c, k, n)
  BY <1>4 DEF s, t, Grown
<1> QED
  BY <1>3, <1>5 DEF c

\* An answer is newer than all that was sent before it, and older than all that is
\* still to be taken.
LEMMA PipelineAnswer == ASSUME TypeOK, Pipeline, Answer \/ AnswerToNobody PROVE Pipeline'
<1>1. ToHostInv /\ BusyInv /\ ToDeviceInv /\ HeaderInv
  BY DEF Pipeline
<1>2. UNCHANGED <<hdr, kind, toDevice, last, calls>>
  BY DEF Answer, AnswerToNobody, host, history
<1>3. busy' = <<>> /\ 1 \in 1..Len(busy) /\ Len(busy') = 0 /\ toHost \in Seq(Byte) /\ toHost' \in Seq(Byte)
  BY AnswerAdds, EmptySeq DEF TypeOK
<1> DEFINE c == busy[1].call
<1>4. c \in Nat /\ c > last /\ c > hdr /\ c <= calls /\ \A j \in 1..Len(toHost) : toHost[j].call < c
  BY <1>1, <1>3, FramesUnderWay DEF BusyInv
<1>5. PICK k \in {"OK", "DATA", "ERROR"} : \E n \in 0..(End(k) + 1) : Grown(c, k, n)
  BY AnswerGrows
<1>6. \A i \in 1..Len(toDevice) : c < toDevice[i].call /\ toDevice[i].call \in Nat
  BY <1>1, <1>3, FramesUnderWay DEF ToDeviceInv
<1> HIDE DEF c
<1>7. PICK n \in 0..(End(k) + 1) : Grown(c, k, n)
  BY <1>5
<1>8. InOrder(toHost')
  <2> SUFFICES ASSUME NEW i \in 1..Len(toHost'), NEW j \in 1..Len(toHost'), i < j
               PROVE  Before(toHost'[i], toHost'[j])
    BY DEF InOrder
  <2>1. CASE j <= Len(toHost)
    <3>1. i \in 1..Len(toHost) /\ j \in 1..Len(toHost) /\ toHost'[i] = toHost[i] /\ toHost'[j] = toHost[j]
      BY <1>7, <2>1 DEF Grown
    <3> QED
      BY <1>1, <3>1 DEF ToHostInv, InOrder
  <2>2. CASE i <= Len(toHost) /\ j > Len(toHost)
    <3>1. i \in 1..Len(toHost) /\ toHost'[i] = toHost[i] /\ toHost'[j].call = c
      BY <1>7, <2>2 DEF Grown
    <3> QED
      BY <1>4, <3>1 DEF Before
  <2>3. CASE i > Len(toHost)
    <3>1. /\ toHost'[i].call = c /\ toHost'[i].kind = k /\ toHost'[i].at = i - Len(toHost) - 1
          /\ toHost'[j].call = c /\ toHost'[j].kind = k /\ toHost'[j].at = j - Len(toHost) - 1
      BY <1>7, <2>3 DEF Grown
    <3>2. i - Len(toHost) - 1 < j - Len(toHost) - 1
      BY <1>7 DEF Grown
    <3> QED
      BY <3>1, <3>2 DEF Before
  <2> QED
    BY <1>7, <2>1, <2>2, <2>3 DEF Grown
<1>9. Fit(toHost')
  <2> SUFFICES ASSUME NEW i \in 1..Len(toHost') PROVE toHost'[i].at <= End(toHost'[i].kind)
    BY DEF Fit
  <2>1. CASE i \in 1..Len(toHost) /\ toHost'[i] = toHost[i]
    BY <1>1, <2>1 DEF ToHostInv, Fit
  <2>2. CASE i > Len(toHost) /\ toHost'[i].kind = k /\ toHost'[i].at = i - Len(toHost) - 1
    <3>1. i - Len(toHost) - 1 <= n - 1 /\ n - 1 <= End(k)
      BY <1>7, PayloadLengths DEF Grown
    <3> QED
      BY <1>7, <2>2, <3>1, PayloadLengths DEF Grown
  <2> QED
    BY <1>7, <2>1, <2>2 DEF Grown
<1>10. \A i \in 1..Len(toHost') : /\ last' < toHost'[i].call
                                  /\ hdr' <= toHost'[i].call /\ toHost'[i].call <= calls'
                                  /\ toHost'[i].call = hdr' => toHost'[i].kind = kind'
  <2> SUFFICES ASSUME NEW i \in 1..Len(toHost')
               PROVE  /\ last < toHost'[i].call
                      /\ hdr <= toHost'[i].call /\ toHost'[i].call <= calls
                      /\ toHost'[i].call = hdr => toHost'[i].kind = kind
    BY <1>2
  <2>1. CASE i \in 1..Len(toHost) /\ toHost'[i] = toHost[i]
    BY <1>1, <2>1 DEF ToHostInv
  <2>2. CASE toHost'[i].call = c
    BY <1>4, <2>2, FramesUnderWay
  <2> QED
    BY <1>7, <2>1, <2>2 DEF Grown
<1>11. ToHostInv' /\ BusyInv' /\ HeaderInv'
  BY <1>1, <1>2, <1>3, <1>8, <1>9, <1>10 DEF ToHostInv, BusyInv, HeaderInv
<1>12. \A i \in 1..Len(toDevice) : \A j \in 1..Len(toHost') : toHost'[j].call < toDevice[i].call
  BY <1>1, <1>6, <1>7 DEF ToDeviceInv, Grown
<1>13. ToDeviceInv'
  BY <1>1, <1>2, <1>3, <1>12 DEF ToDeviceInv
<1> QED
  BY <1>11, <1>13 DEF Pipeline

\* Every step.
LEMMA PipelineStep == TypeOK /\ Pipeline /\ [Next]_vars => Pipeline'
<1> SUFFICES ASSUME TypeOK, Pipeline, [Next]_vars PROVE Pipeline'
  OBVIOUS
<1>1. CASE ReadPayload \/ ReadHeader \/ ReadCrc \/ ReadTimeout \/ pico_port_open \/ pico_port_close
  BY <1>1, PipelineRead
<1>2. CASE UNCHANGED vars
  BY <1>2 DEF vars, host, device, history, Pipeline, ToHostInv, BusyInv, ToDeviceInv, HeaderInv
<1> QED
  BY <1>1, <1>2, PipelineCall, PipelineTake, PipelineAnswer DEF Next

----------------------------------------------------------------------------
(* One call at a time                                                      *)

\* A sequence of frames or bytes without an index is empty.
LEMMA NoneLeft == ASSUME NEW S, NEW s \in Seq(S), \A i \in 1..Len(s) : FALSE PROVE s = <<>>
<1>1. Len(s) \in Nat
  BY LenProperties
<1>2. ~(1 \in 1..Len(s))
  OBVIOUS
<1>3. Len(s) = 0
  BY <1>1, <1>2
<1> QED
  BY <1>3, EmptySeq

\* As long as a probe is clean there is nothing under way but what the call in
\* hand has asked for; when it returns, nothing is left.
LEMMA OneCallStep ==
  TypeOK /\ Pipeline /\ OneCall /\ FramesInv /\ [Next]_vars /\ TypeOK' /\ Pipeline' => OneCall'
<1> SUFFICES ASSUME TypeOK, Pipeline, OneCall, FramesInv, [Next]_vars, TypeOK', Pipeline', clean'
             PROVE  OneCall'
  BY DEF OneCall
<1> USE FramesUnderWay, EmptySeq DEF host, device, history
<1>0. pc = "idle" => hdr = 0
  BY DEF TypeOK
<1>1. CASE pico_port_open
  <2>1. toDevice = <<>> /\ busy = <<>> /\ toHost = <<>>
    BY <1>1 DEF pico_port_open
  <2>2. toDevice' = <<>> /\ busy' = <<>> /\ toHost' = <<>> /\ pc = "idle" /\ hdr' = hdr
    BY <1>1, <2>1 DEF pico_port_open, FramesInv
  <2> QED
    BY <1>0, <2>2 DEF OneCall
<1>2. CASE pico_port_close
  <2>1. clean /\ pc = "idle" /\ toDevice' = toDevice /\ busy' = busy /\ toHost' = <<>> /\ hdr' = hdr
    BY <1>2 DEF pico_port_close
  <2>2. toDevice' = <<>> /\ busy' = <<>>
    BY <2>1 DEF OneCall
  <2> QED
    BY <1>0, <2>1, <2>2 DEF OneCall
<1>3. ASSUME NEW cmd \in Command, Transact(cmd) PROVE OneCall'
  <2> DEFINE f == [call |-> calls + 1, cmd |-> cmd]
  <2>1. /\ clean /\ pc = "idle" /\ calls' = calls + 1 /\ toDevice' = Append(toDevice, f)
        /\ busy' = busy /\ toHost' = toHost /\ pc' = "header" /\ hdr' = hdr
    BY <1>3 DEF Transact
  <2>2. toDevice = <<>> /\ busy' = <<>> /\ toHost' = <<>> /\ hdr' = 0
    BY <1>0, <2>1 DEF OneCall
  <2>3. toDevice' = <<f>>
    BY <2>1, <2>2
  <2>4. Len(toDevice') = 1 /\ toDevice'[1] = f /\ f.call = calls'
    <3>1. f.call = calls + 1
      OBVIOUS
    <3> HIDE DEF f
    <3> QED
      BY <2>1, <2>3, <3>1
  <2>5. \A i \in 1..Len(toDevice') : toDevice'[i].call = calls'
    BY <2>4
  <2> QED
    BY <2>1, <2>2, <2>5 DEF OneCall
<1>4. CASE SendFails
  BY <1>4 DEF SendFails
<1>5. CASE ReadHeader \/ ReadPayload
  <2>1. PICK n \in 0..Len(toHost) : Dropped(toHost, n, toHost')
    BY <1>5, ReadsDrop
  <2>2. \A j \in 1..Len(toHost') : n + j \in 1..Len(toHost) /\ toHost'[j] = toHost[n + j]
    <3>1. toHost \in Seq(Byte) /\ toHost' \in Seq(Byte)
      BY <1>5, ReadsDrop DEF TypeOK
    <3> QED
      BY <2>1, <3>1, DroppedKeeps
  <2>3. /\ clean /\ pc' # "idle" /\ UNCHANGED <<toDevice, busy, calls>>
        /\ hdr' = hdr \/ (ReadHeader /\ hdr' = toHost[1].call)
    BY <1>5 DEF ReadHeader, ReadPayload, Fails
  <2>4. hdr' # 0 => hdr' = calls'
    BY <2>3, FirstBytes DEF OneCall
  <2> QED
    BY <2>2, <2>3, <2>4 DEF OneCall
<1>6. CASE ReadCrc
  <2>1. /\ clean /\ pc = "crc" /\ hdr' = 0 /\ last' = hdr /\ UNCHANGED <<toDevice, busy, calls>>
    BY <1>6 DEF ReadCrc, Fails
  <2>2. last' = calls'
    BY <2>1 DEF OneCall, TypeOK
  <2>3. toHost' \in Seq(Byte) /\ busy' \in Seq(Frame) /\ toDevice' \in Seq(Frame)
    BY DEF TypeOK
  <2>4. calls' \in Nat
    BY <2>1
  <2>5. \A i \in 1..Len(toHost') : toHost'[i].call \in Nat
    BY <2>3, ElementOfSeq, Fields
  <2>6. \A i \in 1..Len(toHost') : FALSE
    BY <2>2, <2>4, <2>5 DEF Pipeline, ToHostInv
  <2>7. \A i \in 1..Len(busy') : FALSE
    BY <2>1, <2>2, <2>4 DEF Pipeline, BusyInv
  <2>8. \A i \in 1..Len(toDevice') : FALSE
    BY <2>1, <2>2, <2>4 DEF Pipeline, ToDeviceInv
  <2>9. toHost' = <<>> /\ busy' = <<>> /\ toDevice' = <<>>
    <3>1. toHost' = <<>>
      BY <2>3, <2>6, NoneLeft
    <3>2. busy' = <<>>
      BY <2>3, <2>7, NoneLeft
    <3>3. toDevice' = <<>>
      BY <2>3, <2>8, NoneLeft
    <3> QED
      BY <3>1, <3>2, <3>3
  <2> QED
    BY <2>1, <2>9 DEF OneCall
<1>7. CASE ReadTimeout
  BY <1>7 DEF ReadTimeout, Fails
<1>8. CASE Lose
  <2>1. clean /\ toDevice # <<>> /\ toDevice' = Tail(toDevice) /\ UNCHANGED <<host, busy, toHost>>
    BY <1>8 DEF Lose
  <2>2. pc' # "idle"
    BY <2>1 DEF OneCall
  <2>3. \A i \in 1..Len(toDevice') : toDevice'[i].call = calls
    <3>1. Dropped(toDevice, 1, toDevice') /\ Len(toDevice') \in Nat
      BY <2>1, Rest, LenProperties DEF TypeOK
    <3>2. \A i \in 1..Len(toDevice') : 1 + i \in 1..Len(toDevice) /\ toDevice'[i] = toDevice[1 + i]
      BY <3>1 DEF Dropped
    <3> QED
      BY <2>1, <3>2 DEF OneCall
  <2> QED
    BY <2>1, <2>2, <2>3 DEF OneCall
<1>9. CASE Accept
  <2>1. /\ clean /\ toDevice # <<>> /\ toDevice' = Tail(toDevice) /\ busy' = <<Head(toDevice)>>
        /\ UNCHANGED <<host, toHost>> /\ toDevice \in Seq(Frame)
    BY <1>9 DEF Accept, TypeOK
  <2>2. pc' # "idle"
    BY <2>1 DEF OneCall
  <2>3. Dropped(toDevice, 1, toDevice') /\ Len(toDevice') \in Nat /\ 1 \in 1..Len(toDevice)
    BY <2>1, Rest, LenProperties DEF TypeOK
  <2>4. \A i \in 1..Len(toDevice') : 1 + i \in 1..Len(toDevice) /\ toDevice'[i] = toDevice[1 + i]
    BY <2>3 DEF Dropped
  <2>5. \A i \in 1..Len(busy') : busy'[i] = toDevice[1]
    <3>1. Len(busy') = 1 /\ busy'[1] = toDevice[1]
      BY <2>1
    <3> QED
      BY <3>1
  <2> QED
    BY <2>1, <2>2, <2>3, <2>4, <2>5 DEF OneCall
<1>10. CASE Answer \/ AnswerToNobody
  <2>1. /\ clean /\ busy # <<>> /\ busy' = <<>> /\ UNCHANGED <<host, toDevice>>
    BY <1>10 DEF Answer, AnswerToNobody
  <2>2. pc' # "idle" /\ busy[1].call = calls
    BY <1>10, <2>1, AnswerAdds DEF OneCall
  <2>3. \A i \in 1..Len(toHost') : toHost'[i].call = calls
    <3>1. PICK k \in {"OK", "DATA", "ERROR"} : \E n \in 0..(End(k) + 1) : Grown(busy[1].call, k, n)
      BY <1>10, AnswerGrows
    <3>2. PICK n \in 0..(End(k) + 1) : Grown(busy[1].call, k, n)
      BY <3>1
    <3> QED
      BY <2>1, <2>2, <3>2 DEF Grown, OneCall
  <2> QED
    BY <2>1, <2>2, <2>3 DEF OneCall
<1>11. CASE UNCHANGED vars
  BY <1>11 DEF vars, OneCall
<1> QED
  BY <1>1, <1>2, <1>3, <1>4, <1>5, <1>6, <1>7, <1>8, <1>9, <1>10, <1>11 DEF Next

----------------------------------------------------------------------------
(* Whole frames                                                            *)

\* A whole answer after whole answers.
LEMMA WholeAfterWhole ==
  ASSUME NEW c, NEW k \in {"OK", "DATA", "ERROR"}, Grown(c, k, End(k) + 1), WholeFrames(toHost),
         toHost \in Seq(Byte)
  PROVE  WholeFrames(toHost')
<1> DEFINE n == Len(toHost)
           e == End(k)
<1>1. /\ n \in Nat /\ e \in Nat /\ Len(toHost') = n + e + 1
      /\ \A i \in 1..Len(toHost') :
            \/ i \in 1..n /\ toHost'[i] = toHost[i]
            \/ i > n /\ toHost'[i].kind = k /\ toHost'[i].at = i - n - 1
  BY PayloadLengths DEF Grown
<1>2. \A i \in 1..n : toHost[i].at \in Nat /\ End(toHost[i].kind) \in Nat
  BY ElementOfSeq, Fields, PayloadLengths
<1>3. \A i \in 1..n : toHost'[i] = toHost[i]
  BY <1>1
<1>4. \A i \in n + 1..n + e + 1 : toHost'[i].kind = k /\ toHost'[i].at = i - n - 1
  BY <1>1
<1> HIDE DEF n, e
<1>5. ASSUME NEW i \in 1..Len(toHost'), NEW j \in 0..(End(toHost'[i].kind) - toHost'[i].at)
      PROVE  /\ i + j <= Len(toHost')
             /\ toHost'[i + j].kind = toHost'[i].kind
             /\ toHost'[i + j].at = toHost'[i].at + j
  <2>1. CASE i <= n
    <3>1. i \in 1..n /\ toHost'[i] = toHost[i]
      BY <1>1, <1>3, <2>1
    <3>2. /\ i + j <= n /\ toHost[i + j].kind = toHost[i].kind
          /\ toHost[i + j].at = toHost[i].at + j
      BY <3>1 DEF WholeFrames, n
    <3>3. i + j \in 1..n
      BY <1>1, <1>2, <3>1, <3>2
    <3> QED
      BY <1>1, <1>3, <3>1, <3>2, <3>3
  <2>2. CASE i > n
    <3>1. i \in n + 1..n + e + 1
      BY <1>1, <2>2
    <3>2. toHost'[i].kind = k /\ toHost'[i].at = i - n - 1
      BY <1>4, <3>1
    <3>3. j \in 0..(e - (i - n - 1))
      BY <3>2 DEF e
    <3>4. i + j \in n + 1..n + e + 1 /\ (i + j) - n - 1 = (i - n - 1) + j
      BY <1>1, <3>1, <3>3
    <3>5. toHost'[i + j].kind = k /\ toHost'[i + j].at = (i + j) - n - 1
      BY <1>4, <3>4
    <3> QED
      BY <1>1, <3>2, <3>4, <3>5
  <2> QED
    BY <1>1, <2>1, <2>2
<1>6. ASSUME NEW i \in 1..(Len(toHost') - 1), toHost'[i].at = End(toHost'[i].kind)
      PROVE  toHost'[i + 1].at = 0
  <2>1. CASE i < n
    <3>1. i \in 1..(n - 1) /\ i \in 1..n /\ i + 1 \in 1..n
      BY <1>1, <2>1
    <3> QED
      BY <1>3, <1>6, <3>1 DEF WholeFrames, n
  <2>2. CASE i = n
    <3>1. n + 1 \in n + 1..n + e + 1
      BY <1>1
    <3>2. toHost'[n + 1].at = (n + 1) - n - 1
      BY <1>4, <3>1
    <3> QED
      BY <1>1, <2>2, <3>2
  <2>3. CASE i > n
    <3>1. i \in n + 1..n + e
      BY <1>1, <2>3
    <3>2. i \in n + 1..n + e + 1
      BY <1>1, <3>1
    <3>3. toHost'[i].kind = k /\ toHost'[i].at = i - n - 1
      BY <1>4, <3>2
    <3>4. i - n - 1 = e
      BY <1>6, <3>3 DEF e
    <3> QED
      BY <1>1, <3>1, <3>4
  <2> QED
    BY <1>1, <2>1, <2>2, <2>3
<1> QED
  BY <1>5, <1>6 DEF WholeFrames

\* No bytes are whole frames.
LEMMA NoFrames == WholeFrames(<<>>) /\ Len(<<>>) = 0
  BY EmptySeq DEF WholeFrames

\* Nothing added.
LEMMA NothingAdded ==
  ASSUME NEW c, NEW k, Grown(c, k, 0), toHost \in Seq(Byte), toHost' \in Seq(Byte)
  PROVE  toHost' = toHost
<1>1. Len(toHost') = Len(toHost) /\ Len(toHost) \in Nat
  BY DEF Grown
<1>2. \A i \in 1..Len(toHost) : toHost'[i] = toHost[i]
  BY <1>1 DEF Grown
<1> QED
  BY <1>1, <1>2, SeqEqual

\* Reading takes a frame to the byte that is due next.
LEMMA FramesRead == ASSUME TypeOK, FramesInv, ReadHeader \/ ReadPayload \/ ReadCrc, is_open, ~cut
                    PROVE  /\ WholeFrames(toHost')
                           /\ toHost' # <<>> => toHost'[1].at = Due(pc', kind')
                           /\ pc' \in {"payload", "crc"} => toHost' # <<>> /\ toHost'[1].kind = kind'
                           /\ pc' = "payload" => PayloadLen(kind') > 0
<1>1. PICK n \in 0..Len(toHost) : /\ Dropped(toHost, n, toHost')
                                  /\ ReadHeader => n = 4
                                  /\ ReadPayload => n = PayloadLen(kind)
                                  /\ ReadCrc => n = 1
  BY ReadsDrop
<1>2. /\ toHost \in Seq(Byte) /\ toHost' \in Seq(Byte) /\ Len(toHost) \in Nat /\ Len(toHost') \in Nat
      /\ Len(toHost') = Len(toHost) - n /\ n \in Nat
  BY <1>1, ReadsDrop, LenProperties DEF TypeOK, Dropped
<1>3. /\ \A j \in 1..Len(toHost') : n + j \in 1..Len(toHost) /\ toHost'[j] = toHost[n + j]
      /\ WholeFrames(toHost')
  BY <1>1, <1>2, DroppedKeeps DEF FramesInv
<1>4. toHost' # <<>> <=> Len(toHost') >= 1
  BY <1>2, EmptySeq
<1>5. WholeFrames(toHost)
  BY DEF FramesInv
<1>6. CASE ReadHeader
  <2>1. 1 \in 1..Len(toHost) /\ toHost # <<>> /\ pc = "header" /\ n = 4 /\ toHost[1] \in Byte
    BY <1>1, <1>2, <1>6, FirstBytes, EmptySeq DEF ReadHeader
  <2>2. toHost[1].at = 0
    BY <2>1 DEF FramesInv, Due
  <2>3. kind' = toHost[1].kind /\ pc' = IF PayloadLen(kind') > 0 THEN "payload" ELSE "crc"
    BY <1>6, <2>2 DEF ReadHeader
  <2>4. 4 \in 0..(End(toHost[1].kind) - toHost[1].at)
    BY <2>2, PayloadLengths
  <2>5. 1 + 4 <= Len(toHost) /\ toHost[1 + 4].kind = toHost[1].kind /\ toHost[1 + 4].at = 0 + 4
    BY <1>5, <2>1, <2>2, <2>4 DEF WholeFrames
  <2>6. 1 \in 1..Len(toHost') /\ toHost'[1] = toHost[4 + 1]
    BY <1>2, <1>3, <2>1, <2>5
  <2>7. toHost'[1].kind = kind' /\ toHost'[1].at = 4
    BY <2>3, <2>5, <2>6
  <2>8. Due(pc', kind') = 4
    <3>1. PayloadLen(kind') \in Nat
      BY PayloadLengths
    <3> QED
      BY <2>3, <3>1 DEF Due, End
  <2> QED
    BY <1>3, <1>4, <2>3, <2>6, <2>7, <2>8
<1>7. CASE ReadPayload
  <2>1. pc = "payload" /\ pc' = "crc" /\ kind' = kind /\ n = PayloadLen(kind)
    BY <1>1, <1>7 DEF ReadPayload
  <2>2. toHost # <<>> /\ toHost[1].kind = kind /\ toHost[1].at = 4
    BY <2>1 DEF FramesInv, Due
  <2>3. 1 \in 1..Len(toHost)
    BY <1>2, <2>2, EmptySeq
  <2>4. n \in 0..(End(toHost[1].kind) - toHost[1].at)
    BY <1>2, <2>1, <2>2 DEF End
  <2>5. 1 + n <= Len(toHost) /\ toHost[1 + n].kind = kind /\ toHost[1 + n].at = 4 + n
    BY <1>5, <2>2, <2>3, <2>4 DEF WholeFrames
  <2>6. 1 \in 1..Len(toHost') /\ toHost'[1] = toHost[n + 1] /\ n + 1 = 1 + n
    BY <1>2, <1>3, <2>5
  <2>7. toHost'[1].kind = kind' /\ toHost'[1].at = Due(pc', kind')
    BY <2>1, <2>5, <2>6 DEF Due, End
  <2> QED
    BY <1>3, <1>4, <2>1, <2>6, <2>7
<1>8. CASE ReadCrc
  <2>1. pc = "crc" /\ pc' = "idle" /\ n = 1
    BY <1>1, <1>8 DEF ReadCrc, Fails
  <2>2. toHost # <<>> /\ toHost[1].kind = kind /\ toHost[1].at = End(kind)
    BY <2>1 DEF FramesInv, Due
  <2>3. ASSUME toHost' # <<>> PROVE toHost'[1].at = 0
    <3>1. 1 \in 1..Len(toHost') /\ 1 \in 1..(Len(toHost) - 1) /\ toHost'[1] = toHost[1 + 1]
      BY <1>2, <1>3, <1>4, <2>1, <2>3
    <3> QED
      BY <1>5, <2>2, <3>1 DEF WholeFrames
  <2> QED
    BY <1>3, <2>1, <2>3 DEF Due
<1> QED
  BY <1>6, <1>7, <1>8

\* Every step leaves the bytes at hand a row of whole responses, from the one due on,
\* or has cut one off.
LEMMA FramesStep == TypeOK /\ FramesInv /\ [Next]_vars => FramesInv'
<1> SUFFICES ASSUME TypeOK, FramesInv, [Next]_vars PROVE FramesInv'
  OBVIOUS
<1> USE DEF host, device, history
<1>1. CASE pico_port_open
  <2>1. is_open' /\ pc = "idle" /\ pc' = "idle" /\ cut' = (toHost' # <<>>)
    BY <1>1 DEF pico_port_open, FramesInv
  <2>2. ~cut' => toHost' = <<>>
    BY <2>1
  <2> QED
    BY <2>1, <2>2, NoFrames DEF FramesInv
<1>2. CASE pico_port_close
  <2>1. ~is_open' /\ pc' = "idle" /\ toHost' = <<>>
    BY <1>2 DEF pico_port_close
  <2> QED
    BY <2>1 DEF FramesInv
<1>3. ASSUME NEW cmd \in Command, Transact(cmd) PROVE FramesInv'
  <2>1. is_open' /\ is_open /\ pc = "idle" /\ pc' = "header" /\ UNCHANGED <<toHost, kind, cut>>
    BY <1>3 DEF Transact
  <2> QED
    BY <2>1 DEF FramesInv, Due
<1>4. CASE SendFails
  <2>1. UNCHANGED <<is_open, pc, toHost, kind, cut>>
    BY <1>4 DEF SendFails
  <2> QED
    BY <2>1 DEF FramesInv
<1>5. CASE ReadHeader \/ ReadPayload \/ ReadCrc
  <2>1. is_open /\ is_open' = is_open /\ cut' = cut
    BY <1>5 DEF ReadHeader, ReadPayload, ReadCrc, Fails, FramesInv
  <2>2. pc' = "payload" => PayloadLen(kind') > 0
    BY <1>5 DEF ReadHeader, ReadPayload, ReadCrc, Fails
  <2> QED
    BY <1>5, <2>1, <2>2, FramesRead DEF FramesInv
<1>6. CASE ReadTimeout
  <2>1. is_open /\ is_open' = is_open /\ toHost' = <<>> /\ pc' = "idle"
    BY <1>6 DEF ReadTimeout, Fails, FramesInv
  <2> QED
    BY <2>1, NoFrames DEF FramesInv
<1>7. CASE Lose \/ Accept
  <2>1. UNCHANGED <<is_open, pc, toHost, kind, cut>>
    BY <1>7 DEF Lose, Accept
  <2> QED
    BY <2>1 DEF FramesInv
<1>8. CASE Answer \/ AnswerToNobody
  <2>1. UNCHANGED <<is_open, pc, kind>> /\ toHost \in Seq(Byte) /\ toHost' \in Seq(Byte)
    BY <1>8, AnswerAdds DEF Answer, AnswerToNobody, TypeOK
  <2> DEFINE c == busy[1].call
  <2>2. PICK k \in {"OK", "DATA", "ERROR"} : \E n \in 0..(End(k) + 1) :
              /\ Grown(c, k, n)
              /\ Answer => cut' = (cut \/ n \notin {0, End(k) + 1})
              /\ AnswerToNobody => n = 0 \/ toHost = <<>>
    BY <1>8, AnswerGrows
  <2>3. PICK n \in 0..(End(k) + 1) :
              /\ Grown(c, k, n)
              /\ Answer => cut' = (cut \/ n \notin {0, End(k) + 1})
              /\ AnswerToNobody => n = 0 \/ toHost = <<>>
    BY <2>2
  <2> HIDE DEF c
  <2>4. Len(toHost) \in Nat /\ Len(toHost') \in Nat /\ Len(<<>>) = 0
    BY <2>3, EmptySeq DEF Grown
  <2>5. toHost = <<>> /\ toHost' # <<>> => toHost'[1].at = 0
    <3> SUFFICES ASSUME toHost = <<>>, toHost' # <<>> PROVE toHost'[1].at = 0
      OBVIOUS
    <3>1. 1 \in 1..Len(toHost') /\ Len(toHost) = 0
      BY <2>1, <2>4, EmptySeq
    <3> QED
      BY <2>3, <3>1 DEF Grown
  <2>6. toHost # <<>> /\ toHost' # <<>> => toHost'[1] = toHost[1]
    <3> SUFFICES ASSUME toHost # <<>>, toHost' # <<>> PROVE toHost'[1] = toHost[1]
      OBVIOUS
    <3>1. 1 \in 1..Len(toHost') /\ 1 \in 1..Len(toHost)
      BY <2>1, <2>4, EmptySeq
    <3> QED
      BY <2>3, <3>1 DEF Grown
  <2>7. CASE ~is_open
    BY <2>1, <2>5, <2>6, <2>7 DEF FramesInv
  <2>8. CASE is_open
    <3> SUFFICES ASSUME ~cut'
                 PROVE  /\ WholeFrames(toHost')
                        /\ toHost' # <<>> => toHost'[1].at = Due(pc, kind)
                        /\ pc \in {"payload", "crc"} => toHost' # <<>> /\ toHost'[1].kind = kind
      BY <2>1, <2>8 DEF FramesInv
    <3>1. ~cut /\ (n = 0 \/ n = End(k) + 1)
      BY <1>8, <2>3, <2>8 DEF AnswerToNobody
    <3>2. CASE n = 0
      <4>1. toHost' = toHost
        BY <2>1, <2>3, <3>2, NothingAdded
      <4> QED
        BY <2>8, <3>1, <4>1 DEF FramesInv
    <3>3. CASE n = End(k) + 1
      <4>1. WholeFrames(toHost')
        BY <2>1, <2>3, <2>8, <3>1, <3>3, WholeAfterWhole DEF FramesInv
      <4>2. toHost' # <<>>
        <5>1. Len(toHost') >= 1
          BY <2>3, <2>4, <3>3, PayloadLengths DEF Grown
        <5> QED
          BY <2>4, <5>1
      <4>3. CASE toHost = <<>>
        <5>1. pc \notin {"payload", "crc"}
          BY <2>8, <3>1, <4>3 DEF FramesInv
        <5> QED
          BY <2>5, <4>1, <4>2, <4>3, <5>1 DEF Due
      <4>4. CASE toHost # <<>>
        BY <2>6, <2>8, <3>1, <4>1, <4>2, <4>4 DEF FramesInv
      <4> QED
        BY <4>3, <4>4
    <3> QED
      BY <3>1, <3>2, <3>3
  <2> QED
    BY <2>1, <2>7, <2>8 DEF TypeOK
<1>9. CASE UNCHANGED vars
  BY <1>9 DEF vars, FramesInv
<1> QED
  BY <1>1, <1>2, <1>3, <1>4, <1>5, <1>6, <1>7, <1>8, <1>9 DEF Next

----------------------------------------------------------------------------
(* The theorems                                                            *)

\* Nothing is under way at the start.
LEMMA TransportAtInit == Init => TransportInv
<1> SUFFICES ASSUME Init PROVE TransportInv
  OBVIOUS
<1>1. TypeOK
  <2>1. /\ is_open \in BOOLEAN /\ whole \in BOOLEAN /\ clean \in BOOLEAN /\ cut \in BOOLEAN
        /\ pc = "idle" /\ kind = "OK" /\ opens = 0 /\ calls = 0 /\ hdr = 0 /\ last = 0
        /\ ret = [ok |-> FALSE, from |-> 0]
    BY DEF Init
  <2>2. toDevice \in Seq(Frame) /\ busy \in Seq(Frame) /\ Len(busy) <= 1 /\ toHost \in Seq(Byte)
    BY EmptySeq DEF Init
  <2>3. 0 \in 0..MaxCalls /\ 0 \in 0..MaxOpens /\ 0 \in 0..0
    BY Lengths
  <2>4. ret \in [ok : BOOLEAN, from : 0..MaxCalls]
    BY <2>1, <2>3
  <2> QED
    BY <2>1, <2>2, <2>3, <2>4 DEF TypeOK
<1>2. Pipeline /\ OneCall /\ FramesInv
  BY EmptySeq, NoFrames DEF Init, Pipeline, ToHostInv, BusyInv, ToDeviceInv, HeaderInv, InOrder, Fit,
                            Ascending, OneCall, FramesInv
<1> QED
  BY <1>1, <1>2 DEF TransportInv

\* The inductive invariant, for every value of the constants.
THEOREM TransportInvariant == Spec => []TransportInv
<1>1. TransportInv /\ [Next]_vars => TransportInv'
  <2> SUFFICES ASSUME TransportInv, [Next]_vars PROVE TransportInv'
    OBVIOUS
  <2>1. TypeOK'
    BY TransportTypeStep DEF TransportInv, Pipeline
  <2>2. Pipeline' /\ FramesInv'
    BY PipelineStep, FramesStep DEF TransportInv
  <2> QED
    BY <2>1, <2>2, OneCallStep DEF TransportInv
<1> QED
  BY <1>1, TransportAtInit, PTL DEF Spec

\* The state of both ends and of what is between them is well formed.
THEOREM TransportTypeCorrect == Spec => []TypeOK
  BY TransportInvariant, PTL DEF TransportInv

\* Without cut-off answers every failure leaves the receive buffer at the start of
\* a frame.
THEOREM AlignedHolds == Spec => []AlignedUnlessCut
<1>1. TransportInv => AlignedUnlessCut
  <2> SUFFICES ASSUME TransportInv, ~cut, pc \in {"idle", "header"}, toHost # <<>>
               PROVE  toHost[1].at = 0
    BY DEF AlignedUnlessCut
  <2>1. CASE is_open
    BY <2>1 DEF TransportInv, FramesInv, Due
  <2>2. CASE ~is_open
    BY <2>2 DEF TransportInv, FramesInv
  <2> QED
    BY <2>1, <2>2
<1> QED
  BY <1>1, TransportInvariant, PTL

\* Every answer used is newer than the one used before it, whatever fails.
THEOREM AnswersOnceInOrder == Spec => OnceInOrder
<1>1. TransportInv /\ [Next]_vars => [pc = "crc" /\ pc' = "idle" /\ ret'.from # 0 => ret'.from > last]_vars
  <2> SUFFICES ASSUME TransportInv, [Next]_vars, pc = "crc", pc' = "idle", ret'.from # 0
               PROVE  ret'.from > last
    OBVIOUS
  <2>1. ReadCrc \/ ReadTimeout
    BY DEF Next, pico_port_open, pico_port_close, Transact, SendFails, ReadHeader, ReadPayload,
           Lose, Accept, Answer, AnswerToNobody, vars, host
  <2>2. ret' = [ok |-> FALSE, from |-> 0] \/ ret' = [ok |-> kind # "ERROR", from |-> hdr]
    BY <2>1 DEF ReadCrc, ReadTimeout, Fails
  <2>3. ret'.from = hdr /\ hdr # 0
    BY <2>2
  <2>4. last < hdr
    BY <2>3 DEF TransportInv, Pipeline, HeaderInv
  <2> QED
    BY <2>3, <2>4, FramesUnderWay DEF TransportInv
<1> QED
  BY <1>1, TransportInvariant, PTL DEF Spec, OnceInOrder

\* As long as no call has failed on a probe opened quiet, a call has its own answer.
THEOREM OwnAnswerHolds == Spec => OwnAnswerWhileClean
<1>1. TransportInv /\ [Next]_vars => [last' # last /\ clean' => last' = calls]_vars
  <2> SUFFICES ASSUME TransportInv, [Next]_vars, last' # last, clean'
               PROVE  last' = calls
    OBVIOUS
  <2>1. ReadCrc /\ Matches(toHost[1])
    BY DEF Next, pico_port_open, pico_port_close, Transact, SendFails, ReadHeader, ReadPayload, ReadCrc,
           ReadTimeout, Fails, Lose, Accept, Answer, AnswerToNobody, vars, host, device, history
  <2>2. last' = hdr /\ clean /\ hdr # 0
    BY <2>1 DEF ReadCrc, TransportInv, TypeOK
  <2> QED
    BY <2>2 DEF TransportInv, OneCall
<1> QED
  BY <1>1, TransportInvariant, PTL DEF Spec, OwnAnswerWhileClean
=============================================================================
