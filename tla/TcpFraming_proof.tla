-------------------------- MODULE TcpFraming_proof --------------------------
(***************************************************************************)
(* However long the messages are and however their bytes are cut into      *)
(* reads, each end receives what the other one sent.                       *)
(***************************************************************************)
EXTENDS TcpFraming, SequenceTheorems, TLAPS

(* A run of the bytes of the k-th message.                                    *)
Byte(k, i) == <<k, i>>

Bytes(k, from, n) == [i \in 1 .. n |-> Byte(k, from + i)]

(* What is on its way to an end: nothing, or one message.                     *)
Due(e) ==
    IF Len(received[e]) = Len(sent[e]) THEN 0 ELSE Length(sent[e][Len(sent[e])])

(* The message under way is in part read and in part on the wire, and what the *)
(* end has received is what was sent before.                                  *)
EndInv(e) ==
    /\ Len(received[e]) \in {Len(sent[e]), Len(sent[e]) - 1}
    /\ \A i \in 1 .. Len(received[e]) : received[e][i] = sent[e][i]
    /\ total_bytes_read[e] <= Due(e)
    /\ buffer[e] = Bytes(Len(sent[e]), 0, total_bytes_read[e])
    /\ wire[e] = Bytes(Len(sent[e]), total_bytes_read[e], Due(e) - total_bytes_read[e])
    /\ mode[e] = "wait" =>
          length[e] = (IF total_bytes_read[e] >= HeaderLength THEN Due(e) ELSE HeaderLength)

Lengths == {HeaderLength} \cup {Length(m) : m \in Messages}

FramingTypes ==
    /\ sent \in [Ends -> Seq(Messages)] /\ received \in [Ends -> Seq(Messages)]
    /\ wire \in [Ends -> Seq(Nat \X Nat)] /\ buffer \in [Ends -> Seq(Nat \X Nat)]
    /\ mode \in [Ends -> {"match", "wait", "left", "failed"}]
    /\ total_bytes_read \in [Ends -> Nat]
    /\ length \in [Ends -> Lengths]

(* Questions and answers alternate.                                           *)
Alternate ==
    /\ Len(received["client"]) <= Len(sent["client"])
    /\ Len(sent["client"]) <= Len(received["server"])
    /\ Len(received["server"]) <= Len(sent["server"])
    /\ Len(sent["server"]) <= Len(received["client"]) + 1

FramingInv ==
    /\ FramingTypes
    /\ \A e \in Ends : EndInv(e)
    /\ Alternate

-----------------------------------------------------------------------------

LEMMA LengthType ==
    /\ HeaderLength \in Nat \ {0}
    /\ \A m \in Messages : Length(m) \in Nat /\ Length(m) >= HeaderLength
BY LengthAssumption DEF Length

(* Runs of bytes, cut and put together.                                       *)
LEMMA BytesType ==
    ASSUME NEW k \in Nat, NEW from \in Nat, NEW n \in Nat
    PROVE  /\ Bytes(k, from, n) \in Seq(Nat \X Nat) /\ Len(Bytes(k, from, n)) = n
           /\ DOMAIN Bytes(k, from, n) = 1 .. n
           /\ \A i \in 1 .. n : Bytes(k, from, n)[i] = Byte(k, from + i)
<1>1. Bytes(k, from, n) \in [1 .. n -> Nat \X Nat]
  BY DEF Bytes, Byte
<1> QED
  BY <1>1 DEF Bytes

LEMMA NoBytes ==
    ASSUME NEW k, NEW from
    PROVE  Bytes(k, from, 0) = <<>>
BY DEF Bytes

(* Two sequences of bytes are the same if they agree everywhere.              *)
LEMMA SameBytes ==
    ASSUME NEW a \in Seq(Nat \X Nat), NEW b \in Seq(Nat \X Nat), Len(a) = Len(b),
           \A i \in 1 .. Len(a) : a[i] = b[i]
    PROVE  a = b
BY SeqEqual, Zenon

Joins(a, b, c) == a \o b = c

LEMMA BytesConcat ==
    ASSUME NEW k \in Nat, NEW n \in Nat, NEW m \in Nat, NEW all \in Nat
    PROVE  all = n + m => Joins(Bytes(k, 0, n), Bytes(k, n, m), Bytes(k, 0, all))
<1> DEFINE a == Bytes(k, 0, n)
           b == Bytes(k, n, m)
           c == Bytes(k, 0, all)
<1>0. 0 \in Nat
  OBVIOUS
<1>1. a \in Seq(Nat \X Nat) /\ Len(a) = n /\ \A i \in 1 .. n : a[i] = Byte(k, 0 + i)
  BY <1>0, BytesType, Zenon
<1>2. b \in Seq(Nat \X Nat) /\ Len(b) = m /\ \A i \in 1 .. m : b[i] = Byte(k, n + i)
  BY BytesType, Zenon
<1>3. c \in Seq(Nat \X Nat) /\ Len(c) = all /\ \A i \in 1 .. all : c[i] = Byte(k, 0 + i)
  BY <1>0, BytesType, Zenon
<1> HIDE DEF a, b, c
<1> SUFFICES ASSUME all = n + m PROVE a \o b = c
  BY DEF a, b, c, Joins
<1>4. /\ a \o b \in Seq(Nat \X Nat) /\ Len(a \o b) = all
      /\ \A i \in 1 .. all : (a \o b)[i] = (IF i <= n THEN a[i] ELSE b[i - n])
  BY <1>1, <1>2, ConcatProperties
<1>5. \A i \in 1 .. all : (a \o b)[i] = c[i]
  <2> SUFFICES ASSUME NEW i \in 1 .. all PROVE (a \o b)[i] = c[i]
    OBVIOUS
  <2>1. CASE i <= n
    BY <1>1, <1>3, <1>4, <2>1
  <2>2. CASE ~(i <= n)
    <3>1. i - n \in 1 .. m /\ n + (i - n) = 0 + i
      BY <2>2
    <3>2. b[i - n] = Byte(k, 0 + i)
      BY <1>2, <3>1
    <3>3. (a \o b)[i] = b[i - n]
      BY <1>4, <2>2, Zenon
    <3>4. c[i] = Byte(k, 0 + i)
      BY <1>3, Zenon
    <3> QED
      BY <3>2, <3>3, <3>4, Zenon
  <2> QED
    BY <2>1, <2>2, Zenon
<1>6. a \o b = c
  BY <1>3, <1>4, <1>5, SameBytes
<1> QED
  BY <1>6

LEMMA FirstByte ==
    ASSUME NEW k \in Nat, NEW n \in Nat \ {0}
    PROVE  Len(Bytes(k, 0, n)) = n /\ Bytes(k, 0, n)[1] = Byte(k, 1)
<1>1. 0 \in Nat /\ 1 \in 1 .. n /\ n \in Nat
  OBVIOUS
<1>2. Len(Bytes(k, 0, n)) = n
  BY <1>1, BytesType, Zenon
<1>3. Bytes(k, 0, n)[1] = Byte(k, 0 + 1)
  BY <1>1 DEF Bytes
<1>4. 0 + 1 = 1
  OBVIOUS
<1> QED
  BY <1>2, <1>3, <1>4

LEMMA BytesCut ==
    ASSUME NEW k \in Nat, NEW from \in Nat, NEW n \in Nat, NEW m \in 0 .. n
    PROVE  /\ SubSeq(Bytes(k, from, n), 1, m) = Bytes(k, from, m)
           /\ SubSeq(Bytes(k, from, n), m + 1, n) = Bytes(k, from + m, n - m)
<1> DEFINE a == Bytes(k, from, n)
           b == Bytes(k, from, m)
           c == Bytes(k, from + m, n - m)
<1>0. m \in Nat /\ from + m \in Nat /\ n - m \in Nat
  OBVIOUS
<1>1. a \in Seq(Nat \X Nat) /\ Len(a) = n /\ \A i \in 1 .. n : a[i] = Byte(k, from + i)
  BY BytesType, Zenon
<1>2. b \in Seq(Nat \X Nat) /\ Len(b) = m /\ \A i \in 1 .. m : b[i] = Byte(k, from + i)
  BY <1>0, BytesType, Zenon
<1>3. c \in Seq(Nat \X Nat) /\ Len(c) = n - m /\ \A i \in 1 .. n - m : c[i] = Byte(k, from + m + i)
  BY <1>0, BytesType, Zenon
<1> HIDE DEF a, b, c
<1>4. SubSeq(a, 1, m) = b
  <2>1. /\ SubSeq(a, 1, m) \in Seq(Nat \X Nat) /\ Len(SubSeq(a, 1, m)) = m
        /\ \A i \in 1 .. m : SubSeq(a, 1, m)[i] = a[i]
    BY <1>1, SubSeqProperties
  <2>2. \A i \in 1 .. m : SubSeq(a, 1, m)[i] = b[i]
    BY <1>1, <1>2, <2>1
  <2> QED
    BY <1>2, <2>1, <2>2, SameBytes
<1>5. SubSeq(a, m + 1, n) = c
  <2>1. /\ SubSeq(a, m + 1, n) \in Seq(Nat \X Nat) /\ Len(SubSeq(a, m + 1, n)) = n - m
        /\ \A i \in 1 .. n - m : SubSeq(a, m + 1, n)[i] = a[m + i]
    BY <1>1, SubSeqProperties
  <2>2. \A i \in 1 .. n - m : SubSeq(a, m + 1, n)[i] = c[i]
    BY <1>1, <1>3, <2>1
  <2> QED
    BY <1>3, <2>1, <2>2, SameBytes
<1> QED
  BY <1>4, <1>5 DEF a, b, c

-----------------------------------------------------------------------------

(* What the invariant says of one end.                                        *)
LEMMA EndFacts ==
    ASSUME FramingInv, NEW e \in Ends
    PROVE  /\ sent[e] \in Seq(Messages) /\ received[e] \in Seq(Messages)
           /\ Len(sent[e]) \in Nat /\ Len(received[e]) \in Nat
           /\ total_bytes_read[e] \in Nat /\ Due(e) \in Nat
           /\ Len(buffer[e]) = total_bytes_read[e]
           /\ Len(wire[e]) = Due(e) - total_bytes_read[e]
           /\ Due(e) > 0 <=> Len(received[e]) # Len(sent[e])
           /\ Len(received[e]) # Len(sent[e]) =>
                 /\ Len(sent[e]) = Len(received[e]) + 1
                 /\ sent[e][Len(sent[e])] \in Messages
                 /\ Due(e) = Length(sent[e][Len(sent[e])])
                 /\ Due(e) >= HeaderLength
<1>1. /\ sent[e] \in Seq(Messages) /\ received[e] \in Seq(Messages)
      /\ total_bytes_read[e] \in Nat
  BY DEF FramingInv, FramingTypes
<1>2. Len(sent[e]) \in Nat /\ Len(received[e]) \in Nat
  BY <1>1
<1>3. EndInv(e)
  BY DEF FramingInv
<1>4. Len(received[e]) # Len(sent[e]) =>
         /\ Len(sent[e]) = Len(received[e]) + 1
         /\ sent[e][Len(sent[e])] \in Messages
         /\ Due(e) = Length(sent[e][Len(sent[e])])
  BY <1>1, <1>2, <1>3 DEF EndInv, Due
<1>5. /\ Due(e) \in Nat
      /\ Len(received[e]) # Len(sent[e]) => Due(e) >= HeaderLength
      /\ Due(e) > 0 <=> Len(received[e]) # Len(sent[e])
  BY <1>4, LengthType DEF Due
<1>6. Len(buffer[e]) = total_bytes_read[e]
  <2>1. 0 \in Nat
    OBVIOUS
  <2>2. Len(Bytes(Len(sent[e]), 0, total_bytes_read[e])) = total_bytes_read[e]
    BY <1>1, <1>2, <2>1, BytesType, Zenon
  <2> QED
    BY <1>3, <2>2 DEF EndInv
<1>7. Len(wire[e]) = Due(e) - total_bytes_read[e]
  <2>1. Due(e) - total_bytes_read[e] \in Nat
    BY <1>1, <1>3, <1>5 DEF EndInv
  <2>2. wire[e] = Bytes(Len(sent[e]), total_bytes_read[e], Due(e) - total_bytes_read[e])
    BY <1>3 DEF EndInv
  <2>3. Len(Bytes(Len(sent[e]), total_bytes_read[e], Due(e) - total_bytes_read[e])) =
           Due(e) - total_bytes_read[e]
    <3> DEFINE rest == Due(e) - total_bytes_read[e]
    <3>1. rest \in Nat
      BY <2>1
    <3> HIDE DEF rest
    <3>2. Len(Bytes(Len(sent[e]), total_bytes_read[e], rest)) = rest
      BY <1>1, <1>2, <3>1, BytesType, Zenon
    <3> QED
      BY <3>2 DEF rest
  <2> QED
    BY <2>2, <2>3, Zenon
<1> QED
  BY <1>1, <1>2, <1>4, <1>5, <1>6, <1>7

(* An end at which nothing happens, or that stops waiting.                    *)
SameAt(f) ==
    /\ sent'[f] = sent[f] /\ received'[f] = received[f] /\ wire'[f] = wire[f]
    /\ buffer'[f] = buffer[f] /\ total_bytes_read'[f] = total_bytes_read[f]
    /\ length'[f] = length[f]

LEMMA SameEnd ==
    ASSUME NEW f, EndInv(f), SameAt(f), mode'[f] = mode[f] \/ mode'[f] # "wait"
    PROVE  EndInv(f)'
BY DEF EndInv, SameAt, Due

(* What a read finds: more of the message under way.                          *)
LEMMA WhatIsRead ==
    ASSUME FramingInv, NEW e \in Ends, NEW n, Read(e, n)
    PROVE  /\ n \in Nat \ {0} /\ Len(received[e]) # Len(sent[e])
           /\ total_bytes_read[e] + n <= Due(e)
           /\ Collected(e, n) = Bytes(Len(sent[e]), 0, total_bytes_read[e] + n)
           /\ Len(Collected(e, n)) = total_bytes_read[e] + n
           /\ Header(e, Collected(e, n)) = sent[e][Len(sent[e])]
           /\ wire' \in [Ends -> Seq(Nat \X Nat)]
           /\ wire'[e] = Bytes(Len(sent[e]), total_bytes_read[e] + n,
                               Due(e) - (total_bytes_read[e] + n))
           /\ \A f \in Ends \ {e} : wire'[f] = wire[f]
<1> DEFINE s == Len(sent[e])
           t == total_bytes_read[e]
           d == Due(e)
<1>1. /\ s \in Nat /\ t \in Nat /\ d \in Nat /\ Len(wire[e]) = d - t
      /\ d > 0 <=> Len(received[e]) # s
  BY EndFacts
<1>2. buffer[e] = Bytes(s, 0, t) /\ wire[e] = Bytes(s, t, d - t) /\ t <= d
  BY DEF FramingInv, EndInv
<1>3. wire \in [Ends -> Seq(Nat \X Nat)]
  BY DEF FramingInv, FramingTypes
<1>4. n \in 1 .. (d - t) /\ wire' = [wire EXCEPT ![e] = SubSeq(wire[e], n + 1, d - t)]
  BY <1>1 DEF Read
<1>h. Header(e, Collected(e, n)) = sent[e][Collected(e, n)[1][1]]
  BY DEF Header
<1>c. Collected(e, n) = buffer[e] \o SubSeq(wire[e], 1, n)
  BY DEF Collected
<1>r. d > 0 => Len(received[e]) # Len(sent[e])
  BY <1>1
<1> HIDE DEF s, t, d
<1>5. n \in Nat \ {0} /\ d > 0 /\ t + n <= d /\ d - t \in Nat /\ n \in 0 .. (d - t)
  BY <1>1, <1>2, <1>4
<1>6. /\ SubSeq(wire[e], 1, n) = Bytes(s, t, n)
      /\ SubSeq(wire[e], n + 1, d - t) = Bytes(s, t + n, (d - t) - n)
  <2>1. /\ SubSeq(Bytes(s, t, d - t), 1, n) = Bytes(s, t, n)
        /\ SubSeq(Bytes(s, t, d - t), n + 1, d - t) = Bytes(s, t + n, (d - t) - n)
    <3> DEFINE rest == d - t
    <3>1. rest \in Nat /\ n \in 0 .. rest
      BY <1>5
    <3> HIDE DEF rest
    <3>2. /\ SubSeq(Bytes(s, t, rest), 1, n) = Bytes(s, t, n)
          /\ SubSeq(Bytes(s, t, rest), n + 1, rest) = Bytes(s, t + n, rest - n)
      BY <1>1, <3>1, BytesCut, Zenon
    <3> QED
      BY <3>2 DEF rest
  <2> QED
    BY <1>2, <2>1, Zenon
<1>7. Collected(e, n) = Bytes(s, 0, t + n)
  <2> DEFINE all == t + n
  <2>1. n \in Nat /\ all \in Nat
    BY <1>1, <1>5
  <2>2. all = t + n
    BY <1>1
  <2> HIDE DEF all
  <2>3. all = t + n => Joins(Bytes(s, 0, t), Bytes(s, t, n), Bytes(s, 0, all))
    BY <1>1, <2>1, BytesConcat, Zenon
  <2> QED
    BY <1>2, <1>6, <1>c, <2>2, <2>3 DEF all, Joins
<1>8. Len(Collected(e, n)) = t + n /\ Collected(e, n)[1] = Byte(s, 1)
  <2> DEFINE all == t + n
  <2>1. all \in Nat \ {0}
    BY <1>1, <1>5
  <2> HIDE DEF all
  <2>2. Len(Bytes(s, 0, all)) = all /\ Bytes(s, 0, all)[1] = Byte(s, 1)
    BY <1>1, <2>1, FirstByte, Zenon
  <2> QED
    BY <1>7, <2>2 DEF all
<1>9. Header(e, Collected(e, n)) = sent[e][s]
  BY <1>8, <1>h DEF Byte
<1>10. Bytes(s, t + n, (d - t) - n) \in Seq(Nat \X Nat)
  BY <1>1, <1>5, BytesType
<1>11. (d - t) - n = d - (t + n)
  BY <1>1, <1>5
<1>12. wire'[e] = Bytes(s, t + n, d - (t + n))
  BY <1>3, <1>4, <1>6, <1>11
<1>13. wire' \in [Ends -> Seq(Nat \X Nat)] /\ \A f \in Ends \ {e} : wire'[f] = wire[f]
  BY <1>3, <1>4, <1>6, <1>10
<1> QED
  BY <1>5, <1>7, <1>8, <1>9, <1>12, <1>13, <1>r DEF s, t, d

(* An end that keeps what it has read.                                        *)
LEMMA KeepInv ==
    ASSUME FramingInv, NEW e \in Ends, NEW n, Read(e, n), Keep(e, n),
           UNCHANGED <<sent, mode, received>>, length' \in [Ends -> Lengths],
           \A f \in Ends \ {e} : length'[f] = length[f],
           mode[e] = "wait" =>
              length'[e] = IF total_bytes_read[e] + n >= HeaderLength THEN Due(e) ELSE length[e]
    PROVE  FramingInv'
<1>1. /\ n \in Nat \ {0} /\ total_bytes_read[e] + n <= Due(e)
      /\ Collected(e, n) = Bytes(Len(sent[e]), 0, total_bytes_read[e] + n)
      /\ wire' \in [Ends -> Seq(Nat \X Nat)]
      /\ wire'[e] = Bytes(Len(sent[e]), total_bytes_read[e] + n,
                          Due(e) - (total_bytes_read[e] + n))
      /\ \A f \in Ends \ {e} : wire'[f] = wire[f]
  BY WhatIsRead
<1>2. /\ total_bytes_read \in [Ends -> Nat] /\ buffer \in [Ends -> Seq(Nat \X Nat)]
      /\ total_bytes_read[e] \in Nat /\ Len(sent[e]) \in Nat
  BY EndFacts DEF FramingInv, FramingTypes
<1>3. /\ total_bytes_read' \in [Ends -> Nat]
      /\ total_bytes_read'[e] = total_bytes_read[e] + n
      /\ \A f \in Ends \ {e} : total_bytes_read'[f] = total_bytes_read[f]
  BY <1>1, <1>2 DEF Keep
<1>4. /\ buffer' \in [Ends -> Seq(Nat \X Nat)]
      /\ buffer'[e] = Bytes(Len(sent[e]), 0, total_bytes_read[e] + n)
      /\ \A f \in Ends \ {e} : buffer'[f] = buffer[f]
  <2>1. Bytes(Len(sent[e]), 0, total_bytes_read[e] + n) \in Seq(Nat \X Nat)
    <3>1. 0 \in Nat /\ total_bytes_read[e] + n \in Nat
      BY <1>1, <1>2
    <3> QED
      BY <1>2, <3>1, BytesType, Zenon
  <2>2. buffer' = [buffer EXCEPT ![e] = Bytes(Len(sent[e]), 0, total_bytes_read[e] + n)]
    BY <1>1 DEF Keep
  <2> QED
    BY <1>2, <2>1, <2>2
<1>5. FramingTypes'
  BY <1>1, <1>3, <1>4 DEF FramingInv, FramingTypes
<1>6. Alternate'
  BY DEF FramingInv, Alternate
<1>7. EndInv(e)'
  <2>1. Due(e)' = Due(e)
    BY DEF Due
  <2>2. EndInv(e)
    BY DEF FramingInv
  <2>3. /\ Len(received'[e]) \in {Len(sent'[e]), Len(sent'[e]) - 1}
        /\ \A i \in 1 .. Len(received'[e]) : received'[e][i] = sent'[e][i]
    BY <2>2 DEF EndInv
  <2>4. mode'[e] = "wait" =>
          length'[e] = (IF total_bytes_read'[e] >= HeaderLength THEN Due(e) ELSE HeaderLength)
    <3>1. HeaderLength \in Nat
      BY LengthType
    <3>2. CASE total_bytes_read[e] + n >= HeaderLength
      BY <1>3, <3>2
    <3>3. CASE ~(total_bytes_read[e] + n >= HeaderLength)
      <4>1. ~(total_bytes_read[e] >= HeaderLength)
        BY <1>1, <1>2, <3>1, <3>3
      <4> QED
        BY <1>3, <2>2, <3>3, <4>1 DEF EndInv
    <3> QED
      BY <3>2, <3>3
  <2> QED
    BY <1>1, <1>3, <1>4, <2>1, <2>3, <2>4 DEF EndInv
<1>8. ASSUME NEW f \in Ends \ {e} PROVE EndInv(f)'
  BY <1>1, <1>3, <1>4, SameEnd DEF FramingInv, SameAt
<1> QED
  BY <1>5, <1>6, <1>7, <1>8 DEF FramingInv

(* An end that has its whole message, and starts over.                        *)
Receives(e) ==
    /\ Len(received[e]) # Len(sent[e])
    /\ received' = [received EXCEPT ![e] = Append(@, sent[e][Len(sent[e])])]
    /\ StartOver(e)
    /\ sent' = sent
    /\ wire' \in [Ends -> Seq(Nat \X Nat)] /\ wire'[e] = <<>>
    /\ \A f \in Ends \ {e} : wire'[f] = wire[f]

(* What is received is what was sent next.                                    *)
LEMMA ReceivedNext ==
    ASSUME FramingInv, NEW e \in Ends, Receives(e)
    PROVE  /\ received' \in [Ends -> Seq(Messages)]
           /\ received'[e] = Append(received[e], sent[e][Len(received[e]) + 1])
           /\ Len(received'[e]) = Len(received[e]) + 1 /\ Len(received'[e]) = Len(sent[e])
           /\ \A i \in 1 .. Len(received[e]) : received'[e][i] = received[e][i]
           /\ received'[e][Len(sent[e])] = sent[e][Len(sent[e])]
           /\ \A f \in Ends \ {e} : received'[f] = received[f]
<1>1. /\ Len(sent[e]) = Len(received[e]) + 1 /\ sent[e][Len(sent[e])] \in Messages
      /\ received[e] \in Seq(Messages) /\ Len(received[e]) \in Nat
  BY EndFacts DEF Receives
<1>2. received \in [Ends -> Seq(Messages)]
  BY DEF FramingInv, FramingTypes
<1> DEFINE m == sent[e][Len(sent[e])]
<1>3. received' = [received EXCEPT ![e] = Append(received[e], m)]
  BY DEF Receives
<1> HIDE DEF m
<1>4. /\ Append(received[e], m) \in Seq(Messages)
      /\ Len(Append(received[e], m)) = Len(received[e]) + 1
      /\ \A i \in 1 .. Len(received[e]) : Append(received[e], m)[i] = received[e][i]
      /\ Append(received[e], m)[Len(received[e]) + 1] = m
  BY <1>1, AppendProperties DEF m
<1>5. received'[e] = Append(received[e], m) /\ received' \in [Ends -> Seq(Messages)]
  BY <1>2, <1>3, <1>4
<1>6. \A f \in Ends \ {e} : received'[f] = received[f]
  BY <1>2, <1>3
<1> QED
  BY <1>1, <1>4, <1>5, <1>6 DEF m

LEMMA ReceiveInv ==
    ASSUME FramingInv, NEW e \in Ends, Receives(e)
    PROVE  FramingInv'
<1>1. /\ received' \in [Ends -> Seq(Messages)]
      /\ Len(received'[e]) = Len(received[e]) + 1 /\ Len(received'[e]) = Len(sent[e])
      /\ \A i \in 1 .. Len(received[e]) : received'[e][i] = received[e][i]
      /\ received'[e][Len(sent[e])] = sent[e][Len(sent[e])]
      /\ \A f \in Ends \ {e} : received'[f] = received[f]
  BY ReceivedNext
<1>2. FramingTypes /\ \A f \in Ends : EndInv(f)
  BY DEF FramingInv
<1>3. Len(sent[e]) \in Nat /\ Len(received[e]) \in Nat /\ HeaderLength \in Nat \ {0}
  BY EndFacts, LengthType
<1>4. /\ sent' = sent
      /\ wire' \in [Ends -> Seq(Nat \X Nat)] /\ wire'[e] = <<>>
      /\ \A f \in Ends \ {e} : wire'[f] = wire[f]
  BY DEF Receives
<1>5. /\ mode' \in [Ends -> {"match", "wait", "left", "failed"}]
      /\ buffer' \in [Ends -> Seq(Nat \X Nat)] /\ buffer'[e] = <<>>
      /\ total_bytes_read' \in [Ends -> Nat] /\ total_bytes_read'[e] = 0
      /\ length' \in [Ends -> Lengths] /\ length'[e] = HeaderLength
      /\ \A f \in Ends \ {e} :
            /\ mode'[f] = mode[f] /\ buffer'[f] = buffer[f]
            /\ total_bytes_read'[f] = total_bytes_read[f] /\ length'[f] = length[f]
  BY <1>2, <1>3 DEF Receives, StartOver, FramingTypes, Lengths
<1>6. FramingTypes'
  BY <1>1, <1>2, <1>4, <1>5 DEF FramingTypes
<1>7. Alternate'
  <2>1. \A f \in Ends : Len(sent[f]) \in Nat /\ Len(received[f]) \in Nat
    BY EndFacts
  <2>2. "client" \in Ends /\ "server" \in Ends /\ Ends = {"client", "server"}
    BY DEF Ends
  <2>3. CASE e = "client"
    BY <1>1, <1>4, <2>1, <2>2, <2>3 DEF FramingInv, Alternate
  <2>4. CASE e = "server"
    BY <1>1, <1>4, <2>1, <2>2, <2>4 DEF FramingInv, Alternate
  <2> QED
    BY <2>2, <2>3, <2>4
<1>8. EndInv(e)'
  <2>1. Due(e)' = 0
    BY <1>1, <1>4 DEF Due
  <2>2. \A i \in 1 .. Len(received'[e]) : received'[e][i] = sent'[e][i]
    BY <1>1, <1>2, <1>3, <1>4 DEF EndInv
  <2>3. /\ buffer'[e] = Bytes(Len(sent'[e]), 0, total_bytes_read'[e])
        /\ wire'[e] = Bytes(Len(sent'[e]), total_bytes_read'[e], 0 - total_bytes_read'[e])
    BY <1>4, <1>5, NoBytes
  <2> QED
    BY <1>1, <1>3, <1>4, <1>5, <2>1, <2>2, <2>3 DEF EndInv
<1>9. ASSUME NEW f \in Ends \ {e} PROVE EndInv(f)'
  BY <1>1, <1>2, <1>4, <1>5, SameEnd DEF SameAt
<1> QED
  BY <1>6, <1>7, <1>8, <1>9 DEF FramingInv

-----------------------------------------------------------------------------

(* What the waits come to.                                                    *)
LEMMA WaitReadsInv ==
    ASSUME FramingInv, NEW e \in Ends, WaitReads(e)
    PROVE  FramingInv'
<1>1. PICK n : Read(e, n) /\ Keep(e, n)
  BY DEF WaitReads
<1>2. /\ n \in Nat \ {0} /\ Len(received[e]) # Len(sent[e])
      /\ Collected(e, n) = buffer'[e] /\ Len(buffer'[e]) = total_bytes_read[e] + n
      /\ Header(e, buffer'[e]) = sent[e][Len(sent[e])]
  <2>1. buffer'[e] = Collected(e, n)
    BY <1>1 DEF Keep, FramingInv, FramingTypes
  <2> QED
    BY <1>1, <2>1, WhatIsRead
<1>3. Length(Header(e, buffer'[e])) = Due(e) /\ Due(e) \in Lengths
  BY <1>2, EndFacts DEF Lengths
<1>4. length \in [Ends -> Lengths]
  BY DEF FramingInv, FramingTypes
<1>5. length' = [length EXCEPT ![e] = IF total_bytes_read[e] + n >= HeaderLength
                                      THEN Due(e) ELSE length[e]]
  BY <1>2, <1>3 DEF WaitReads, HeaderIsIn
<1>6. /\ length' \in [Ends -> Lengths]
      /\ length'[e] = (IF total_bytes_read[e] + n >= HeaderLength THEN Due(e) ELSE length[e])
      /\ \A f \in Ends \ {e} : length'[f] = length[f]
  BY <1>3, <1>4, <1>5
<1> QED
  BY <1>1, <1>6, KeepInv DEF WaitReads

LEMMA WaitReturnsReceives ==
    ASSUME FramingInv, NEW e \in Ends, WaitReturns(e)
    PROVE  Receives(e)
<1>1. /\ total_bytes_read[e] \in Nat /\ Due(e) \in Nat /\ HeaderLength \in Nat \ {0}
      /\ Len(received[e]) # Len(sent[e]) <=> Due(e) > 0
      /\ Len(sent[e]) \in Nat
  BY EndFacts, LengthType
<1>2. EndInv(e) /\ mode[e] = "wait" /\ total_bytes_read[e] >= length[e]
  BY DEF FramingInv, WaitReturns
<1>3. total_bytes_read[e] <= Due(e)
  BY <1>2 DEF EndInv
<1>4. total_bytes_read[e] >= HeaderLength /\ total_bytes_read[e] = Due(e)
  <2>1. length[e] = (IF total_bytes_read[e] >= HeaderLength THEN Due(e) ELSE HeaderLength)
    BY <1>2 DEF EndInv
  <2> QED
    BY <1>1, <1>2, <1>3, <2>1
<1>5. Len(received[e]) # Len(sent[e])
  BY <1>1, <1>4
<1>6. wire[e] = <<>>
  <2>1. Due(e) - total_bytes_read[e] = 0
    BY <1>1, <1>4
  <2> QED
    BY <1>2, <2>1, NoBytes DEF EndInv
<1>7. Header(e, buffer[e]) = sent[e][Len(sent[e])]
  <2> DEFINE t == total_bytes_read[e]
  <2>1. t \in Nat \ {0} /\ buffer[e] = Bytes(Len(sent[e]), 0, t)
    BY <1>1, <1>2, <1>4 DEF EndInv
  <2> HIDE DEF t
  <2>2. buffer[e][1] = Byte(Len(sent[e]), 1)
    BY <1>1, <2>1, FirstByte
  <2> QED
    BY <2>2 DEF Header, Byte
<1> QED
  BY <1>5, <1>6, <1>7 DEF WaitReturns, Receives, FramingInv, FramingTypes

LEMMA MatchReadsCases ==
    ASSUME FramingInv, NEW e \in Ends, MatchReads(e)
    PROVE  (FramingInv' /\ UNCHANGED <<sent, mode, received>>) \/ Receives(e)
<1>1. PICK n \in 1 .. Len(wire[e]) :
        /\ Read(e, n)
        /\ \/ Keep(e, n) /\ UNCHANGED <<mode, length, received>>
           \/ /\ Matches(e, Collected(e, n), total_bytes_read[e] + n)
              /\ received' = [received EXCEPT ![e] = Append(@, Header(e, Collected(e, n)))]
              /\ StartOver(e)
  BY DEF MatchReads
<1>2. mode[e] = "match" /\ sent' = sent /\ length \in [Ends -> Lengths]
  BY DEF MatchReads, FramingInv, FramingTypes
<1>3. CASE Keep(e, n) /\ UNCHANGED <<mode, length, received>>
  BY <1>1, <1>2, <1>3, KeepInv
<1>4. CASE /\ Matches(e, Collected(e, n), total_bytes_read[e] + n)
           /\ received' = [received EXCEPT ![e] = Append(@, Header(e, Collected(e, n)))]
           /\ StartOver(e)
  <2>1. /\ n \in Nat /\ Len(received[e]) # Len(sent[e])
        /\ total_bytes_read[e] + n <= Due(e)
        /\ Header(e, Collected(e, n)) = sent[e][Len(sent[e])]
        /\ wire' \in [Ends -> Seq(Nat \X Nat)]
        /\ wire'[e] = Bytes(Len(sent[e]), total_bytes_read[e] + n,
                            Due(e) - (total_bytes_read[e] + n))
        /\ \A f \in Ends \ {e} : wire'[f] = wire[f]
    <3>1. Read(e, n)
      BY <1>1
    <3> QED
      BY <3>1, WhatIsRead
  <2>2. Due(e) = Length(sent[e][Len(sent[e])]) /\ Due(e) \in Nat /\ total_bytes_read[e] \in Nat
    BY <2>1, EndFacts
  <2>3. total_bytes_read[e] + n >= Due(e)
    <3>1. total_bytes_read[e] + n >= Length(Header(e, Collected(e, n)))
      BY <1>4 DEF Matches
    <3> QED
      BY <2>1, <2>2, <3>1
  <2>4. Due(e) - (total_bytes_read[e] + n) = 0
    <3> DEFINE d == Due(e)
               t == total_bytes_read[e]
    <3>1. d \in Nat /\ t \in Nat /\ n \in Nat /\ t + n <= d /\ t + n >= d
      BY <2>1, <2>2, <2>3
    <3> HIDE DEF d, t
    <3>2. d - (t + n) = 0
      BY <3>1
    <3> QED
      BY <3>2 DEF d, t
  <2>5. wire'[e] = <<>>
    BY <2>1, <2>4, NoBytes
  <2> QED
    BY <1>2, <1>4, <2>1, <2>5 DEF Receives
<1> QED
  BY <1>1, <1>2, <1>3, <1>4

(* A message is put on the wire: the end it goes to had read everything.      *)
LEMMA SendInv ==
    ASSUME FramingInv, NEW e \in Ends, SendMsg(e)
    PROVE  FramingInv' /\ \E m \in Messages : sent' = [sent EXCEPT ![Other(e)] = Append(@, m)]
<1> DEFINE to == Other(e)
<1>1. PICK m \in Messages :
        /\ sent' = [sent EXCEPT ![to] = Append(sent[to], m)]
        /\ wire' = [wire EXCEPT ![to] = wire[to] \o Serialize(m, Len(sent[to]) + 1)]
  BY DEF SendMsg
<1>2. FramingTypes /\ Alternate /\ \A f \in Ends : EndInv(f)
  BY DEF FramingInv
<1>3. UNCHANGED <<mode, buffer, total_bytes_read, length, received>> /\ MaySend(e)
  BY DEF SendMsg
<1>4. /\ "client" \in Ends /\ "server" \in Ends /\ to \in Ends /\ to # e
      /\ \A f \in Ends : Len(sent[f]) \in Nat /\ Len(received[f]) \in Nat
  BY EndFacts DEF Ends, Other
<1>5. /\ Len(received[to]) = Len(sent[to])
      /\ e = "client" => Len(sent["server"]) = Len(received["client"])
      /\ e = "server" => Len(received["server"]) = Len(sent["client"]) + 1
  BY <1>2, <1>3, <1>4 DEF Alternate, MaySend, Other, Ends
<1> HIDE DEF to
<1>6. /\ sent' \in [Ends -> Seq(Messages)] /\ Len(sent'[to]) = Len(sent[to]) + 1
      /\ sent'[to][Len(sent[to]) + 1] = m
      /\ \A i \in 1 .. Len(sent[to]) : sent'[to][i] = sent[to][i]
      /\ \A f \in Ends \ {to} : sent'[f] = sent[f]
  <2>1. sent \in [Ends -> Seq(Messages)]
    BY <1>2 DEF FramingTypes
  <2>2. sent[to] \in Seq(Messages)
    BY <1>4, <2>1
  <2>3. /\ Append(sent[to], m) \in Seq(Messages)
        /\ Len(Append(sent[to], m)) = Len(sent[to]) + 1
        /\ \A i \in 1 .. Len(sent[to]) : Append(sent[to], m)[i] = sent[to][i]
        /\ Append(sent[to], m)[Len(sent[to]) + 1] = m
    BY <2>2, AppendProperties
  <2>4. sent'[to] = Append(sent[to], m) /\ sent' \in [Ends -> Seq(Messages)]
    BY <1>1, <1>4, <2>1, <2>3
  <2>5. \A f \in Ends \ {to} : sent'[f] = sent[f]
    BY <1>1, <2>1
  <2> QED
    BY <2>3, <2>4, <2>5
<1>7. Due(to) = 0 /\ total_bytes_read[to] = 0 /\ wire[to] = <<>> /\ buffer[to] = <<>>
  <2>1. Due(to) = 0
    BY <1>5 DEF Due
  <2>2. total_bytes_read[to] = 0
    <3>1. total_bytes_read[to] \in Nat /\ total_bytes_read[to] <= Due(to)
      BY <1>2, <1>4, EndFacts DEF EndInv
    <3> QED
      BY <2>1, <3>1
  <2>3. 0 - 0 = 0
    OBVIOUS
  <2> QED
    BY <1>2, <1>4, <2>1, <2>2, <2>3, NoBytes DEF EndInv
<1>8. Due(to)' = Length(m) /\ Length(m) \in Nat
  BY <1>3, <1>4, <1>5, <1>6, LengthType DEF Due
<1>9. /\ wire' \in [Ends -> Seq(Nat \X Nat)]
      /\ wire'[to] = Bytes(Len(sent'[to]), 0, Length(m))
      /\ \A f \in Ends \ {to} : wire'[f] = wire[f]
  <2> DEFINE k == Len(sent[to]) + 1
             bytes == Bytes(k, 0, Length(m))
  <2>1. k \in Nat /\ 0 \in Nat
    BY <1>4
  <2>2. Serialize(m, k) = bytes
    BY <1>8 DEF Serialize, Bytes, Byte
  <2>3. bytes \in Seq(Nat \X Nat)
    <3> HIDE DEF k
    <3> QED
      BY <1>8, <2>1, BytesType, Zenon
  <2> HIDE DEF bytes
  <2>4. wire[to] \o bytes = bytes
    BY <1>7, <2>3, ConcatEmptySeq
  <2>5. wire' = [wire EXCEPT ![to] = bytes] /\ wire \in [Ends -> Seq(Nat \X Nat)]
    BY <1>1, <1>2, <2>2, <2>4 DEF FramingTypes
  <2>6. wire'[to] = bytes
    BY <1>4, <2>5
  <2>7. Len(sent'[to]) = k
    BY <1>6
  <2>8. bytes = Bytes(k, 0, Length(m))
    BY DEF bytes
  <2> HIDE DEF k
  <2> QED
    BY <1>4, <2>3, <2>5, <2>6, <2>7, <2>8
<1>10. FramingTypes'
  BY <1>2, <1>3, <1>6, <1>9 DEF FramingTypes
<1>11. Alternate'
  <2>1. CASE e = "client"
    BY <1>2, <1>3, <1>4, <1>5, <1>6, <2>1 DEF Alternate, Other, to
  <2>2. CASE e = "server"
    BY <1>2, <1>3, <1>4, <1>5, <1>6, <2>2 DEF Alternate, Other, to
  <2> QED
    BY <2>1, <2>2 DEF Ends
<1>12. EndInv(to)'
  <2>1. /\ Len(received'[to]) \in {Len(sent'[to]), Len(sent'[to]) - 1}
        /\ \A i \in 1 .. Len(received'[to]) : received'[to][i] = sent'[to][i]
    BY <1>2, <1>3, <1>4, <1>5, <1>6 DEF EndInv
  <2>2. buffer'[to] = Bytes(Len(sent'[to]), 0, total_bytes_read'[to])
    BY <1>3, <1>7, NoBytes
  <2>3. wire'[to] = Bytes(Len(sent'[to]), total_bytes_read'[to], Length(m) - total_bytes_read'[to])
    BY <1>3, <1>7, <1>8, <1>9
  <2>4. mode'[to] = "wait" => length'[to] = HeaderLength
    <3>1. mode[to] = "wait" => length[to] =
             (IF total_bytes_read[to] >= HeaderLength THEN Due(to) ELSE HeaderLength)
      BY <1>2, <1>4 DEF EndInv
    <3> QED
      BY <1>3, <1>7, <3>1, LengthType
  <2>5. total_bytes_read'[to] = 0 /\ HeaderLength \in Nat \ {0}
    BY <1>3, <1>7, LengthType
  <2> QED
    BY <1>8, <2>1, <2>2, <2>3, <2>4, <2>5 DEF EndInv
<1>13. ASSUME NEW f \in Ends \ {to} PROVE EndInv(f)'
  BY <1>2, <1>3, <1>6, <1>9, SameEnd DEF SameAt
<1> QED
  BY <1>1, <1>10, <1>11, <1>12, <1>13 DEF FramingInv, to

(* An end that stops: nothing else changes.                                   *)
Stops(e, m) ==
    /\ mode' = [mode EXCEPT ![e] = m]
    /\ UNCHANGED <<sent, wire, buffer, total_bytes_read, length, received>>

LEMMA StopInv ==
    ASSUME FramingInv, NEW e \in Ends, NEW m \in {"left", "failed"}, Stops(e, m)
    PROVE  FramingInv'
<1>1. FramingTypes'
  BY DEF FramingInv, FramingTypes, Stops
<1>2. \A f \in Ends : mode'[f] = mode[f] \/ mode'[f] # "wait"
  BY DEF FramingInv, FramingTypes, Stops
<1>3. \A f \in Ends : EndInv(f)'
  BY <1>2, SameEnd DEF FramingInv, SameAt, Stops
<1>4. Alternate'
  BY DEF FramingInv, Alternate, Stops
<1> QED
  BY <1>1, <1>3, <1>4 DEF FramingInv

-----------------------------------------------------------------------------

LEMMA InitFraming == FramingInit => FramingInv
<1> SUFFICES ASSUME FramingInit PROVE FramingInv
  OBVIOUS
<1>1. HeaderLength \in Nat \ {0}
  BY LengthType
<1>2. FramingTypes
  BY <1>1 DEF FramingInit, FramingTypes, Lengths
<1>3. ASSUME NEW e \in Ends PROVE EndInv(e)
  <2>1. /\ sent[e] = <<>> /\ received[e] = <<>> /\ wire[e] = <<>> /\ buffer[e] = <<>>
        /\ total_bytes_read[e] = 0 /\ length[e] = HeaderLength
    BY DEF FramingInit
  <2>2. Len(sent[e]) = 0 /\ Len(received[e]) = 0 /\ Due(e) = 0 /\ 0 - 0 = 0
    BY <2>1 DEF Due
  <2>3. Bytes(0, 0, 0) = <<>>
    BY NoBytes
  <2> QED
    BY <1>1, <2>1, <2>2, <2>3 DEF EndInv
<1>4. Alternate
  BY DEF FramingInit, Alternate, Ends
<1> QED
  BY <1>2, <1>3, <1>4 DEF FramingInv

LEMMA NextFraming == FramingInv /\ [FramingNext]_framingVars => FramingInv'
<1> SUFFICES ASSUME FramingInv, [FramingNext]_framingVars PROVE FramingInv'
  OBVIOUS
<1>1. ASSUME NEW e \in Ends, SendMsg(e) PROVE FramingInv'
  BY <1>1, SendInv
<1>2. ASSUME NEW e \in Ends, HangUp(e) PROVE FramingInv'
  BY <1>2, StopInv DEF HangUp, Stops
<1>3. ASSUME NEW e \in Ends, WaitReads(e) PROVE FramingInv'
  BY <1>3, WaitReadsInv
<1>4. ASSUME NEW e \in Ends, WaitReturns(e) PROVE FramingInv'
  BY <1>4, WaitReturnsReceives, ReceiveInv
<1>5. ASSUME NEW e \in Ends, MatchReads(e) PROVE FramingInv'
  BY <1>5, MatchReadsCases, ReceiveInv
<1>6. ASSUME NEW e \in Ends, ReadFails(e) PROVE FramingInv'
  BY <1>6, StopInv DEF ReadFails, Stops
<1>7. CASE UNCHANGED framingVars
  BY <1>7 DEF framingVars, FramingInv, FramingTypes, Alternate, EndInv, Due
<1> QED
  BY <1>1, <1>2, <1>3, <1>4, <1>5, <1>6, <1>7 DEF FramingNext, Waits

(* In every reachable state of a connection, include/comms/TcpSession.h and
   src/comms/TcpMsgMatch.cpp, each end has received what was sent to it but for at
   most one message, of which it has read the first bytes. *)
THEOREM FramingInvariance == FramingSpec => []FramingInv
BY InitFraming, NextFraming, PTL DEF FramingSpec

-----------------------------------------------------------------------------

(* The state of both ends is well typed, for any messages.                    *)
THEOREM FramingTypeCorrect == FramingSpec => []FramingTypeOK
<1>1. FramingInv => FramingTypeOK
  <2> SUFFICES ASSUME FramingInv, NEW e \in Ends
               PROVE  /\ sent[e] \in Seq(Messages) /\ received[e] \in Seq(Messages)
                      /\ mode[e] \in {"match", "wait", "left", "failed"}
                      /\ total_bytes_read[e] = Len(buffer[e])
                      /\ length[e] \in {HeaderLength} \cup {Length(m) : m \in Messages}
    BY DEF FramingTypeOK
  <2> QED
    BY EndFacts DEF FramingInv, FramingTypes, Lengths
<1> QED
  BY <1>1, FramingInvariance, PTL

(* Reads of any size leave no bytes of a second message in a buffer, which is emptied *)
(* with the message that is returned.                                         *)
THEOREM NoByteIsLost == FramingSpec => []NothingIsThrownAway
<1>1. FramingInv => NothingIsThrownAway
  <2> SUFFICES ASSUME FramingInv, NEW e \in Ends, buffer[e] # <<>>
               PROVE  buffer[e] = SubSeq(Serialize(Last(sent[e]), Len(sent[e])), 1, Len(buffer[e]))
    BY DEF NothingIsThrownAway
  <2> DEFINE k == Len(sent[e])
             t == total_bytes_read[e]
             d == Due(e)
  <2>1. k \in Nat /\ d \in Nat /\ t \in 0 .. d /\ Len(buffer[e]) = t
    BY EndFacts DEF FramingInv, EndInv
  <2>2. buffer[e] = Bytes(k, 0, t)
    BY DEF FramingInv, EndInv
  <2>3. t # 0
    BY <2>2, NoBytes
  <2>4. Len(received[e]) # Len(sent[e]) /\ d = Length(sent[e][Len(sent[e])])
    BY <2>1, <2>3, EndFacts
  <2>5. Serialize(Last(sent[e]), k) = Bytes(k, 0, d)
    BY <2>4 DEF Serialize, Last, Bytes, Byte
  <2> HIDE DEF k, t, d
  <2>6. 0 \in Nat
    OBVIOUS
  <2>7. SubSeq(Bytes(k, 0, d), 1, t) = Bytes(k, 0, t)
    BY <2>1, <2>6, BytesCut, Zenon
  <2> QED
    BY <2>1, <2>2, <2>5, <2>7 DEF k
<1> QED
  BY <1>1, FramingInvariance, PTL

-----------------------------------------------------------------------------

(* A step, seen at one end of the channel.                                    *)
ChannelStep(e) ==
    \/ /\ \E m \in Messages : sent'[e] = Append(sent[e], m)
       /\ received'[e] = received[e] /\ Open(e)' = Open(e)
    \/ /\ Open(e) /\ Len(received[e]) < Len(sent[e])
       /\ received'[e] = Append(received[e], sent[e][Len(received[e]) + 1])
       /\ sent'[e] = sent[e] /\ Open(e)' = Open(e)
    \/ Open(e)' = FALSE /\ sent'[e] = sent[e] /\ received'[e] = received[e]
    \/ sent'[e] = sent[e] /\ received'[e] = received[e] /\ Open(e)' = Open(e)

LEMMA ReceiveIsAStep ==
    ASSUME FramingInv, NEW e \in Ends, Receives(e), Open(e), NEW f \in Ends
    PROVE  ChannelStep(f)
<1>1. mode \in [Ends -> {"match", "wait", "left", "failed"}] /\ sent' = sent
  BY DEF FramingInv, FramingTypes, Receives
<1>2. mode' = [mode EXCEPT ![e] = "wait"]
  BY DEF Receives, StartOver
<1>3. CASE f = e
  <2>1. Open(e)' /\ Open(e)' = Open(e)
    BY <1>1, <1>2 DEF Open
  <2>2. Len(received[e]) < Len(sent[e])
    BY EndFacts DEF Receives
  <2>3. received'[e] = Append(received[e], sent[e][Len(received[e]) + 1])
    BY ReceivedNext
  <2> QED
    BY <1>1, <1>3, <2>1, <2>2, <2>3 DEF ChannelStep
<1>4. CASE f # e
  <2>1. mode'[f] = mode[f] /\ received'[f] = received[f]
    BY <1>1, <1>2, <1>4, ReceivedNext
  <2> QED
    BY <1>1, <2>1 DEF ChannelStep, Open
<1> QED
  BY <1>3, <1>4

LEMMA SendIsAStep ==
    ASSUME FramingInv, NEW e \in Ends, SendMsg(e), NEW f \in Ends
    PROVE  ChannelStep(f)
<1>1. PICK m \in Messages : sent' = [sent EXCEPT ![Other(e)] = Append(@, m)]
  BY SendInv
<1>2. mode' = mode /\ received' = received /\ sent \in [Ends -> Seq(Messages)]
  BY DEF SendMsg, FramingInv, FramingTypes
<1>3. CASE f = Other(e)
  <2>1. sent'[f] = Append(sent[f], m)
    BY <1>1, <1>2, <1>3
  <2> QED
    BY <1>2, <2>1 DEF ChannelStep, Open
<1>4. CASE f # Other(e)
  <2>1. sent'[f] = sent[f]
    BY <1>1, <1>2, <1>4
  <2> QED
    BY <1>2, <2>1 DEF ChannelStep, Open
<1> QED
  BY <1>3, <1>4

LEMMA StopIsAStep ==
    ASSUME FramingInv, NEW e \in Ends, NEW m \in {"left", "failed"}, Stops(e, m), NEW f \in Ends
    PROVE  ChannelStep(f)
<1>1. mode \in [Ends -> {"match", "wait", "left", "failed"}]
  BY DEF FramingInv, FramingTypes
<1>2. mode'[f] = m \/ mode'[f] = mode[f]
  BY <1>1 DEF Stops
<1> QED
  BY <1>2 DEF ChannelStep, Open, Stops

LEMMA FramingStep ==
    ASSUME FramingInv, [FramingNext]_framingVars, NEW f \in Ends
    PROVE  ChannelStep(f)
<1>1. ASSUME NEW e \in Ends, SendMsg(e) PROVE ChannelStep(f)
  BY <1>1, SendIsAStep
<1>2. ASSUME NEW e \in Ends, HangUp(e) PROVE ChannelStep(f)
  BY <1>2, StopIsAStep DEF HangUp, Stops
<1>3. ASSUME NEW e \in Ends, WaitReads(e) PROVE ChannelStep(f)
  BY <1>3 DEF WaitReads, ChannelStep, Open
<1>4. ASSUME NEW e \in Ends, WaitReturns(e) PROVE ChannelStep(f)
  <2>1. Open(e) /\ Receives(e)
    BY <1>4, WaitReturnsReceives DEF WaitReturns, Open
  <2> QED
    BY <2>1, ReceiveIsAStep
<1>5. ASSUME NEW e \in Ends, MatchReads(e) PROVE ChannelStep(f)
  <2>1. CASE UNCHANGED <<sent, mode, received>>
    BY <2>1 DEF ChannelStep, Open
  <2>2. CASE Receives(e)
    <3>1. Open(e)
      BY <1>5 DEF MatchReads, Open
    <3> QED
      BY <2>2, <3>1, ReceiveIsAStep
  <2> QED
    BY <1>5, <2>1, <2>2, MatchReadsCases
<1>6. ASSUME NEW e \in Ends, ReadFails(e) PROVE ChannelStep(f)
  BY <1>6, StopIsAStep DEF ReadFails, Stops
<1>7. CASE UNCHANGED framingVars
  BY <1>7 DEF framingVars, ChannelStep, Open
<1> QED
  BY <1>1, <1>2, <1>3, <1>4, <1>5, <1>6, <1>7 DEF FramingNext, Waits

(* Over any connection, with messages of any length cut into any reads, the handlers
   of both ends see the reliable channel of MsgChannel. *)
THEOREM ChannelsAreReliable == FramingSpec => ImplementsChannel
<1>1. FramingInit => ToServer!ChannelInit /\ ToClient!ChannelInit
  BY DEF FramingInit, ToServer!ChannelInit, ToClient!ChannelInit, Ends, Open
<1>2. FramingInv /\ [FramingNext]_framingVars =>
        [ToServer!ChannelNext]_(ToServer!channelVars)
  <2> SUFFICES ASSUME FramingInv, [FramingNext]_framingVars
               PROVE  [ToServer!ChannelNext]_(ToServer!channelVars)
    OBVIOUS
  <2>1. ChannelStep("server")
    BY FramingStep DEF Ends
  <2> QED
    BY <2>1 DEF ChannelStep, ToServer!ChannelNext, ToServer!Send, ToServer!Receive,
                ToServer!Close, ToServer!channelVars
<1>3. FramingInv /\ [FramingNext]_framingVars =>
        [ToClient!ChannelNext]_(ToClient!channelVars)
  <2> SUFFICES ASSUME FramingInv, [FramingNext]_framingVars
               PROVE  [ToClient!ChannelNext]_(ToClient!channelVars)
    OBVIOUS
  <2>1. ChannelStep("client")
    BY FramingStep DEF Ends
  <2> QED
    BY <2>1 DEF ChannelStep, ToClient!ChannelNext, ToClient!Send, ToClient!Receive,
                ToClient!Close, ToClient!channelVars
<1> QED
  BY <1>1, <1>2, <1>3, FramingInvariance, PTL
     DEF FramingSpec, ImplementsChannel, ToServer!ChannelSpec, ToClient!ChannelSpec
=============================================================================
