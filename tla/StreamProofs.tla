---------------------------- MODULE StreamProofs ----------------------------
(***************************************************************************)
(* SessionStream implements MessageStream, for every set of messages whose *)
(* length field is right, every size of the socket and of the receive      *)
(* buffer, and whatever pieces the connection delivers them in.            *)
(*                                                                         *)
(* The invariant relates the bytes on their way to the messages sent by    *)
(* position: off[i] is where message i ends in the stream of all the bytes *)
(* ever sent.  What the receiver has and the wire carries (data) begins    *)
(* where the last handled message ends, and what is not yet written (p)    *)
(* begins where data ends.                                                 *)
(***************************************************************************)
EXTENDS SessionStream, SequenceTheorems, TLAPS

\* The stream on its own: a sender that sends messages of a set M.
StreamNext(M) ==
  \/ \E m \in M, kept \in BOOLEAN : send_session_message(m, kept)
  \/ SenderNext
  \/ ReceiverNext

StreamSpec(M) == StreamInit /\ [][StreamNext(M)]_streamVars

\* The length field of m says where m ends.
Framed(m) == Len(m) >= HeaderSize /\ MessageSize(m) = Len(m)

\* off[i] is the position at which message i of s ends.
Offsets(s, off) ==
  /\ off \in [0..Len(s) -> Nat]
  /\ \A i \in 1..Len(s) : off[i] = off[i - 1] + Len(s[i])
  /\ \A i, j \in 0..Len(s) : i <= j => off[i] <= off[j]

\* data is the stream from the end of message h on, as far as it goes.
Carries(s, off, h, data) ==
  \A i \in (h + 1)..Len(s) : \A k \in 1..Len(s[i]) :
    off[i - 1] + k <= off[h] + Len(data) =>
      data[off[i - 1] + k - off[h]] = s[i][k]

\* p is the stream from position t on, message by message.
Continues(s, off, t, p) ==
  LET c == Len(s) - Len(p)
  IN  /\ Len(p) <= Len(s)
      /\ p = <<>> => t = off[Len(s)]
      /\ p # <<>> =>
           /\ Len(p[1]) >= 1 /\ Len(p[1]) <= Len(s[c + 1])
           /\ t = off[c + 1] - Len(p[1])
           /\ \A k \in 1..Len(p[1]) :
                p[1][k] = s[c + 1][Len(s[c + 1]) - Len(p[1]) + k]
      /\ \A j \in 2..Len(p) : p[j] = s[c + j]

Aligned(Byte, s, off, h, data, p) ==
  /\ s \in Seq(Seq(Byte)) /\ data \in Seq(Byte) /\ p \in Seq(Seq(Byte))
  /\ \A i \in 1..Len(s) : Framed(s[i])
  /\ h \in 0..Len(s)
  /\ Offsets(s, off)
  /\ Carries(s, off, h, data)
  /\ Continues(s, off, off[h] + Len(data), p)

-----------------------------------------------------------------------------
(* Where the streams are.                                                  *)

\* Cutting a sequence, and joining two.
LEMMA CutFacts ==
  ASSUME NEW S, NEW w \in Seq(S), NEW a \in 0..Len(w)
  PROVE  /\ SubSeq(w, 1, a) \in Seq(S) /\ Len(SubSeq(w, 1, a)) = a
         /\ \A k \in 1..a : SubSeq(w, 1, a)[k] = w[k]
         /\ Drop1(w, a) \in Seq(S) /\ Len(Drop1(w, a)) = Len(w) - a
         /\ \A k \in 1..(Len(w) - a) : Drop1(w, a)[k] = w[a + k]
  BY DEF Drop1

LEMMA JoinFacts ==
  ASSUME NEW S, NEW u \in Seq(S), NEW v \in Seq(S)
  PROVE  /\ u \o v \in Seq(S) /\ Len(u \o v) = Len(u) + Len(v)
         /\ \A k \in 1..Len(u) : (u \o v)[k] = u[k]
         /\ \A k \in 1..Len(v) : (u \o v)[Len(u) + k] = v[k]
  BY ConcatProperties

\* Adding the first bytes of w to data.
LEMMA PieceFacts ==
  ASSUME NEW S, NEW data \in Seq(S), NEW w \in Seq(S), NEW a \in 0..Len(w)
  PROVE  LET data2 == data \o SubSeq(w, 1, a)
             d == Len(data)
         IN  /\ data2 \in Seq(S) /\ Len(data2) = d + a
             /\ \A k \in 1..d : data2[k] = data[k]
             /\ \A k \in 1..a : data2[d + k] = w[k]
<1> DEFINE f == SubSeq(w, 1, a)
<1>1. f \in Seq(S) /\ Len(f) = a /\ \A k \in 1..a : f[k] = w[k]
  BY CutFacts
<1> HIDE DEF f
<1>2. /\ data \o f \in Seq(S) /\ Len(data \o f) = Len(data) + Len(f)
      /\ \A k \in 1..Len(data) : (data \o f)[k] = data[k]
      /\ \A k \in 1..Len(f) : (data \o f)[Len(data) + k] = f[k]
  <2>1. f \in Seq(S)
    BY <1>1
  <2> QED
    BY <2>1, JoinFacts
<1>3. /\ data \o f \in Seq(S) /\ Len(data \o f) = Len(data) + a
      /\ \A k \in 1..Len(data) : (data \o f)[k] = data[k]
      /\ \A k \in 1..a : (data \o f)[Len(data) + k] = w[k]
  <2> DEFINE g == data \o f
             d == Len(data)
  <2> HIDE DEF g, d
  <2>1. /\ g \in Seq(S) /\ Len(g) = d + Len(f)
        /\ \A k \in 1..d : g[k] = data[k]
        /\ \A k \in 1..Len(f) : g[d + k] = f[k]
    BY <1>2, Zenon DEF g, d
  <2>2. /\ g \in Seq(S) /\ Len(g) = d + a
        /\ \A k \in 1..d : g[k] = data[k]
        /\ \A k \in 1..a : g[d + k] = w[k]
    BY <1>1, <2>1, Zenon
  <2> QED
    BY <2>2, Zenon DEF g, d
<1> QED
  BY <1>3, Zenon DEF f

\* What Aligned says, in the lengths of its sequences.
LEMMA AlignedFacts ==
  ASSUME NEW Byte, NEW s, NEW off, NEW h, NEW data, NEW p,
         Aligned(Byte, s, off, h, data, p)
  PROVE  LET n == Len(s)
             r == Len(p)
             c == n - r
             t == off[h] + Len(data)
         IN  /\ s \in Seq(Seq(Byte)) /\ data \in Seq(Byte) /\ p \in Seq(Seq(Byte))
             /\ n \in Nat /\ r \in Nat /\ c \in Nat /\ t \in Nat
             /\ Len(data) \in Nat
             /\ \A i \in 1..n : s[i] \in Seq(Byte) /\ Len(s[i]) \in Nat /\ Framed(s[i])
             /\ h \in 0..n /\ off \in [0..n -> Nat]
             /\ \A i \in 0..n : off[i] \in Nat
             /\ \A i \in 1..n : off[i] = off[i - 1] + Len(s[i])
             /\ \A i, j \in 0..n : i <= j => off[i] <= off[j]
             /\ \A i \in (h + 1)..n : \A k \in 1..Len(s[i]) :
                  off[i - 1] + k <= t => data[off[i - 1] + k - off[h]] = s[i][k]
             /\ Continues(s, off, t, p)
             /\ p # <<>> => /\ r >= 1 /\ p[1] \in Seq(Byte) /\ Len(p[1]) \in Nat
                            /\ c + 1 \in 1..n
             /\ t <= off[n]
<1> DEFINE n == Len(s)
           r == Len(p)
           c == n - r
           t == off[h] + Len(data)
<1>1. s \in Seq(Seq(Byte)) /\ data \in Seq(Byte) /\ p \in Seq(Seq(Byte))
  BY DEF Aligned
<1>2. n \in Nat /\ r \in Nat /\ Len(data) \in Nat
  BY <1>1
<1>3. /\ h \in 0..n /\ off \in [0..n -> Nat]
      /\ \A i \in 1..n : Framed(s[i])
      /\ \A i \in 1..n : off[i] = off[i - 1] + Len(s[i])
      /\ \A i, j \in 0..n : i <= j => off[i] <= off[j]
  BY DEF Aligned, Offsets
<1>4. /\ \A i \in (h + 1)..n : \A k \in 1..Len(s[i]) :
           off[i - 1] + k <= t => data[off[i - 1] + k - off[h]] = s[i][k]
      /\ Continues(s, off, t, p)
  BY DEF Aligned, Carries
<1>5. \A i \in 1..n : s[i] \in Seq(Byte) /\ Len(s[i]) \in Nat
  BY <1>1
<1>6. r <= n
  BY <1>4 DEF Continues
<1>7. p # <<>> => r >= 1 /\ p[1] \in Seq(Byte) /\ Len(p[1]) \in Nat
  BY <1>1
<1> HIDE DEF n, r
<1>8. \A i \in 0..n : off[i] \in Nat
  BY <1>3
<1>9. c \in Nat /\ n \in 0..n /\ t \in Nat
  BY <1>2, <1>3, <1>6, <1>8
<1>10. p # <<>> => c + 1 \in 1..n
  BY <1>2, <1>6, <1>7
<1> HIDE DEF t
<1>11. t <= off[n]
  <2>1. CASE p = <<>>
    BY <1>4, <1>8, <1>9, <2>1 DEF Continues, n
  <2>2. CASE p # <<>>
    <3>1. /\ t = off[c + 1] - Len(p[1]) /\ Len(p[1]) >= 1
      BY <1>4, <2>2 DEF Continues, n, r
    <3>2. c + 1 \in 0..n /\ c + 1 <= n
      BY <1>2, <1>10, <2>2
    <3> HIDE DEF c
    <3>3. off[c + 1] <= off[n] /\ off[c + 1] \in Nat
      BY <1>3, <1>8, <1>9, <3>2
    <3>4. Len(p[1]) \in Nat /\ t \in Nat /\ off[n] \in Nat
      BY <1>7, <1>8, <1>9, <2>2
    <3> QED
      BY <3>1, <3>3, <3>4
  <2> QED
    BY <2>1, <2>2
<1> QED
  BY <1>1, <1>2, <1>3, <1>4, <1>5, <1>7, <1>8, <1>9, <1>10, <1>11 DEF n, r, t

-----------------------------------------------------------------------------
(* Sending.                                                                *)

\* A message that is sent is first a write of which nothing is accepted.
LEMMA Enqueue ==
  ASSUME NEW Byte, NEW s, NEW off, NEW h, NEW data, NEW p,
         Aligned(Byte, s, off, h, data, p), NEW m \in Seq(Byte), Framed(m)
  PROVE  \E off2 : Aligned(Byte, Append(s, m), off2, h, data, Append(p, m))
<1> DEFINE n == Len(s)
           l == Len(m)
           r == Len(p)
           s2 == Append(s, m)
           p2 == Append(p, m)
           off2 == [i \in 0..(n + 1) |-> IF i <= n THEN off[i] ELSE off[n] + l]
           t == off[h] + Len(data)
<1>1. s \in Seq(Seq(Byte)) /\ data \in Seq(Byte) /\ p \in Seq(Seq(Byte))
  BY DEF Aligned
<1>2. n \in Nat /\ l \in Nat /\ r \in Nat /\ Len(data) \in Nat
  BY <1>1
<1>3. l >= 1
  BY <1>2, StreamAssumption DEF Framed
<1>4. /\ h \in 0..n /\ off \in [0..n -> Nat]
      /\ \A i \in 1..n : Framed(s[i])
      /\ \A i \in 1..n : off[i] = off[i - 1] + Len(s[i])
      /\ \A i, j \in 0..n : i <= j => off[i] <= off[j]
  BY DEF Aligned, Offsets
<1>5. /\ s2 \in Seq(Seq(Byte)) /\ Len(s2) = n + 1 /\ s2[n + 1] = m
      /\ \A i \in 1..n : s2[i] = s[i]
  BY <1>1
<1>6. /\ p2 \in Seq(Seq(Byte)) /\ Len(p2) = r + 1 /\ p2[r + 1] = m
      /\ \A i \in 1..r : p2[i] = p[i]
  BY <1>1
<1>7. /\ \A i \in (h + 1)..n : \A k \in 1..Len(s[i]) :
           off[i - 1] + k <= t => data[off[i - 1] + k - off[h]] = s[i][k]
      /\ Continues(s, off, t, p)
  BY DEF Aligned, Carries
<1> HIDE DEF n, l, r
<1>8. \A i \in 0..n : off[i] \in Nat
  BY <1>4
<1>9. n \in 0..n
  BY <1>2
<1>10. /\ off2 \in [0..(n + 1) -> Nat] /\ off2[n + 1] = off[n] + l
       /\ \A i \in 0..n : off2[i] = off[i]
  <2>1. \A i \in 0..n : i \in 0..(n + 1) /\ i <= n
    BY <1>2
  <2>2. n + 1 \in 0..(n + 1) /\ ~(n + 1 <= n)
    BY <1>2
  <2>3. \A i \in 0..(n + 1) : i <= n => i \in 0..n
    BY <1>2
  <2>4. off[n] + l \in Nat
    BY <1>2, <1>8, <1>9
  <2>5. \A i \in 0..(n + 1) : (IF i <= n THEN off[i] ELSE off[n] + l) \in Nat
    BY <1>8, <2>3, <2>4, Zenon
  <2> QED
    BY <2>1, <2>2, <2>5, Zenon
<1>11. t \in Nat /\ off[h] \in Nat /\ off[n] \in Nat /\ off2[h] = off[h] /\ t = off2[h] + Len(data)
  BY <1>2, <1>4, <1>8, <1>9, <1>10
<1> HIDE DEF s2, p2, off2, t
<1>12. Offsets(s2, off2)
  <2>1. ASSUME NEW i \in 1..(n + 1)
        PROVE  off2[i] = off2[i - 1] + Len(s2[i])
    <3>1. CASE i = n + 1
      <4>1. i - 1 = n
        BY <1>2, <3>1
      <4> QED
        BY <1>5, <1>9, <1>10, <3>1, <4>1 DEF l
    <3>2. CASE i # n + 1
      <4>1. i \in 1..n /\ i \in 0..n /\ i - 1 \in 0..n
        BY <1>2, <3>2
      <4> QED
        BY <1>4, <1>5, <1>10, <4>1
    <3> QED
      BY <3>1, <3>2
  <2>2. ASSUME NEW i \in 0..(n + 1), NEW j \in 0..(n + 1), i <= j
        PROVE  off2[i] <= off2[j]
    <3>1. CASE j = n + 1 /\ i # n + 1
      <4>1. i \in 0..n /\ i <= n
        BY <1>2, <3>1
      <4>2. off[i] <= off[n] /\ off[i] \in Nat /\ off2[i] = off[i]
        BY <1>4, <1>8, <1>9, <1>10, <4>1
      <4> QED
        BY <1>2, <1>10, <1>11, <3>1, <4>2
    <3>2. CASE j = n + 1 /\ i = n + 1
      BY <1>2, <1>10, <1>11, <3>2
    <3>3. CASE j # n + 1
      <4>1. i \in 0..n /\ j \in 0..n
        BY <1>2, <2>2, <3>3
      <4> QED
        BY <1>4, <1>10, <2>2, <4>1
    <3> QED
      BY <3>1, <3>2, <3>3
  <2> QED
    BY <1>5, <1>10, <2>1, <2>2 DEF Offsets
<1>13. t <= off[n]
  BY AlignedFacts DEF t, n
<1>14. Carries(s2, off2, h, data)
  <2>1. ASSUME NEW i \in (h + 1)..(n + 1), NEW k \in 1..Len(s2[i]),
               off2[i - 1] + k <= off2[h] + Len(data)
        PROVE  data[off2[i - 1] + k - off2[h]] = s2[i][k]
    <3>1. CASE i = n + 1
      <4>1. i - 1 = n /\ s2[i] = m
        BY <1>2, <1>5, <3>1
      <4>2. off2[i - 1] = off[n] /\ k \in 1..l
        BY <1>9, <1>10, <4>1, <2>1 DEF l
      <4>3. off[n] + k <= t
        BY <1>11, <2>1, <4>2
      <4> QED
        BY <1>2, <1>11, <1>13, <4>2, <4>3
    <3>2. CASE i # n + 1
      <4>1. i \in (h + 1)..n /\ i \in 1..n /\ i - 1 \in 0..n
        BY <1>2, <1>4, <3>2
      <4>2. s2[i] = s[i] /\ off2[i - 1] = off[i - 1]
        BY <1>5, <1>10, <4>1
      <4>3. k \in 1..Len(s[i]) /\ off[i - 1] + k <= t
        BY <1>11, <2>1, <4>2
      <4>4. data[off[i - 1] + k - off[h]] = s[i][k]
        BY <1>7, <4>1, <4>3
      <4> QED
        BY <1>11, <4>2, <4>4
    <3> QED
      BY <3>1, <3>2
  <2> QED
    BY <1>5, <2>1 DEF Carries
<1>15. Continues(s2, off2, t, p2)
  <2> DEFINE c == n - r
  <2>1. /\ r <= n
        /\ p = <<>> => t = off[n]
        /\ p # <<>> =>
             /\ Len(p[1]) >= 1 /\ Len(p[1]) <= Len(s[c + 1])
             /\ t = off[c + 1] - Len(p[1])
             /\ \A k \in 1..Len(p[1]) :
                  p[1][k] = s[c + 1][Len(s[c + 1]) - Len(p[1]) + k]
        /\ \A j \in 2..r : p[j] = s[c + j]
    BY <1>7 DEF Continues, n, r
  <2>2. c \in Nat /\ c = Len(s2) - Len(p2) /\ Len(p2) <= Len(s2) /\ c + r = n
    BY <1>2, <1>5, <1>6, <2>1
  <2>3. p2 # <<>>
    BY <1>2, <1>6
  <2> HIDE DEF c
  <2>4. CASE p = <<>>
    <3>1. r = 0 /\ c = n /\ t = off[n]
      BY <2>1, <2>2, <2>4, <1>2 DEF r
    <3>2. p2[1] = m /\ s2[c + 1] = m /\ off2[c + 1] = off[n] + l
      BY <1>5, <1>6, <1>10, <3>1
    <3>3. \A k \in 1..l : m[k] = m[l - l + k]
      BY <1>2
    <3>4. \A j \in 2..Len(p2) : p2[j] = s2[c + j]
      BY <1>6, <3>1
    <3>5. t = off2[c + 1] - l
      BY <1>2, <1>11, <3>1, <3>2
    <3> QED
      BY <1>2, <1>3, <2>2, <2>3, <3>2, <3>3, <3>4, <3>5 DEF Continues, l
  <2>5. CASE p # <<>>
    <3>1. r # 0
      BY <1>1, <2>5 DEF r
    <3>2. c + 1 \in 1..n /\ c + 1 \in 0..n /\ 1 \in 1..r
      BY <1>2, <2>1, <2>2, <3>1
    <3>3. p2[1] = p[1] /\ s2[c + 1] = s[c + 1] /\ off2[c + 1] = off[c + 1]
      BY <1>5, <1>6, <1>10, <3>2
    <3>4. ASSUME NEW j \in 2..Len(p2) PROVE p2[j] = s2[c + j]
      <4>1. CASE j = r + 1
        <5>1. c + j = n + 1
          BY <1>2, <2>2, <4>1
        <5> QED
          BY <1>5, <1>6, <4>1, <5>1
      <4>2. CASE j # r + 1
        <5>1. j \in 2..r /\ j \in 1..r /\ c + j \in 1..n
          BY <1>2, <1>6, <2>2, <4>2
        <5> QED
          BY <1>5, <1>6, <2>1, <5>1
      <4> QED
        BY <4>1, <4>2
    <3> QED
      BY <2>1, <2>2, <2>3, <2>5, <3>3, <3>4 DEF Continues
  <2> QED
    BY <2>4, <2>5
<1>16. \A i \in 1..(n + 1) : Framed(s2[i])
  <2> TAKE i \in 1..(n + 1)
  <2>1. i = n + 1 \/ i \in 1..n
    BY <1>2
  <2> QED
    BY <1>4, <1>5, <2>1
<1>17. h \in 0..(n + 1)
  BY <1>2, <1>4
<1>18. Aligned(Byte, s2, off2, h, data, p2)
  BY <1>1, <1>5, <1>6, <1>11, <1>12, <1>14, <1>15, <1>16, <1>17 DEF Aligned
<1> QED
  BY <1>18 DEF s2, p2

\* The socket accepts the first a bytes of the write at the head.
LEMMA Transfer ==
  ASSUME NEW Byte, NEW s, NEW off, NEW h, NEW data, NEW p,
         Aligned(Byte, s, off, h, data, p), p # <<>>, NEW a \in 0..Len(p[1]),
         NEW p2 \in Seq(Seq(Byte)),
         \/ a = Len(p[1]) /\ p2 = Tail(p)
         \/ a < Len(p[1]) /\ p2 = <<Drop1(p[1], a)>> \o Tail(p)
  PROVE  Aligned(Byte, s, off, h, data \o SubSeq(p[1], 1, a), p2)
<1> DEFINE n == Len(s)
           r == Len(p)
           c == n - r
           e == c + 1
           d == Len(data)
           w == p[1]
           lw == Len(w)
           x == s[e]
           lx == Len(x)
           oh == off[h]
           oc == off[c]
           oe == off[e]
           t == oh + d
           data2 == data \o SubSeq(w, 1, a)
<1>1. /\ s \in Seq(Seq(Byte)) /\ data \in Seq(Byte) /\ p \in Seq(Seq(Byte))
      /\ w \in Seq(Byte)
  BY AlignedFacts
<1>2. /\ n \in Nat /\ r \in Nat /\ c \in Nat /\ t \in Nat /\ d \in Nat
      /\ lw \in Nat /\ r >= 1 /\ e \in 1..n
  BY AlignedFacts
<1>3. /\ \A i \in 1..n : s[i] \in Seq(Byte) /\ Len(s[i]) \in Nat /\ Framed(s[i])
      /\ h \in 0..n
      /\ \A i \in 0..n : off[i] \in Nat
      /\ \A i \in 1..n : off[i] = off[i - 1] + Len(s[i])
      /\ \A i, j \in 0..n : i <= j => off[i] <= off[j]
  BY AlignedFacts
<1>4. \A i \in (h + 1)..n : \A k \in 1..Len(s[i]) :
        off[i - 1] + k <= t => data[off[i - 1] + k - oh] = s[i][k]
  BY DEF Aligned, Carries
<1>5. /\ lw >= 1 /\ lw <= lx /\ t = oe - lw
      /\ \A k \in 1..lw : w[k] = x[lx - lw + k]
      /\ \A j \in 2..r : p[j] = s[c + j]
  <2>1. Continues(s, off, t, p)
    BY AlignedFacts
  <2> QED
    BY <2>1 DEF Continues
<1>6. /\ data2 \in Seq(Byte) /\ Len(data2) = d + a
      /\ \A k \in 1..d : data2[k] = data[k]
      /\ \A k \in 1..a : data2[d + k] = w[k]
  <2>1. w \in Seq(Byte) /\ data \in Seq(Byte) /\ a \in 0..Len(w)
    BY <1>1
  <2> HIDE DEF w
  <2> QED
    BY <2>1, PieceFacts
<1>7. \/ a = lw /\ Len(p2) = r - 1 /\ \A j \in 1..(r - 1) : p2[j] = p[j + 1]
      \/ /\ a < lw /\ Len(p2) = r /\ \A j \in 2..r : p2[j] = p[j]
         /\ Len(p2[1]) = lw - a /\ \A k \in 1..(lw - a) : p2[1][k] = w[a + k]
  <2> DEFINE q == Tail(p)
             g == Drop1(w, a)
  <2>1. /\ q \in Seq(Seq(Byte)) /\ Len(q) = r - 1
        /\ \A j \in 1..(r - 1) : q[j] = p[j + 1]
    BY <1>1
  <2>2. CASE a = lw /\ p2 = q
    BY <2>1, <2>2
  <2>3. CASE a < lw /\ p2 = <<g>> \o q
    <3>1. g \in Seq(Byte) /\ Len(g) = lw - a /\ \A k \in 1..(lw - a) : g[k] = w[a + k]
      BY <1>1, CutFacts
    <3> HIDE DEF g, q, r
    <3>2. /\ <<g>> \in Seq(Seq(Byte)) /\ Len(<<g>>) = 1 /\ <<g>>[1] = g
      BY <3>1
    <3>3. /\ Len(<<g>> \o q) = 1 + Len(q)
          /\ \A k \in 1..1 : (<<g>> \o q)[k] = <<g>>[k]
          /\ \A k \in 1..Len(q) : (<<g>> \o q)[1 + k] = q[k]
      BY <2>1, <3>2, JoinFacts
    <3>4. Len(p2) = r /\ p2[1] = g
      BY <1>2, <2>1, <2>3, <3>2, <3>3
    <3>5. \A j \in 2..r : p2[j] = p[j]
      <4> TAKE j \in 2..r
      <4>1. j - 1 \in 1..(r - 1) /\ (j - 1) + 1 = j /\ 1 + (j - 1) = j
        BY <1>2
      <4> QED
        BY <2>1, <2>3, <3>3, <4>1
    <3> QED
      BY <2>3, <3>1, <3>4, <3>5
  <2> QED
    BY <2>2, <2>3
<1>8. c \in 0..n /\ e \in 0..n /\ e - 1 = c /\ e = c + 1 /\ n = c + r
  BY <1>2
<1>9. a \in Nat /\ a <= lw
  BY <1>2
<1> HIDE DEF n, r, c, e, d, lw, x, w, data2
<1>10. oh \in Nat /\ oc \in Nat /\ oe \in Nat /\ lx \in Nat /\ oe = oc + lx
  BY <1>2, <1>3, <1>8 DEF x
<1>11. t = oh + d /\ t = oe - lw /\ lw <= lx /\ lw >= 1
  BY <1>5
<1> HIDE DEF oh, oc, oe, t, lx
<1>12. ASSUME NEW i \in (h + 1)..n, NEW k \in 1..Len(s[i]),
              off[i - 1] + k <= oh + (d + a)
       PROVE  data2[off[i - 1] + k - oh] = s[i][k]
  <2> DEFINE o == off[i - 1]
             li == Len(s[i])
  <2>1. i \in 1..n /\ i - 1 \in 0..n /\ i \in 0..n /\ h <= i - 1
    BY <1>2, <1>3
  <2>2. o \in Nat /\ li \in Nat /\ off[i] = o + li /\ oh <= o
    BY <1>3, <2>1 DEF oh
  <2>3. k \in 1..li /\ o + k <= oh + (d + a)
    BY <1>12
  <2>4. CASE o + k <= t
    <3>1. data[o + k - oh] = s[i][k]
      BY <1>4, <2>4
    <3> HIDE DEF o, li
    <3>2. o + k - oh \in 1..d
      BY <1>2, <1>10, <1>11, <2>2, <2>3, <2>4
    <3> QED
      BY <1>6, <3>1, <3>2 DEF o
  <2>5. CASE ~(o + k <= t)
    <3>1. ~(i <= c)
      <4> SUFFICES ASSUME i <= c PROVE FALSE
        OBVIOUS
      <4>1. off[i] <= oc
        BY <1>3, <1>8, <2>1 DEF oc
      <4> HIDE DEF o, li
      <4> QED
        BY <1>2, <1>9, <1>10, <1>11, <2>2, <2>3, <2>5, <4>1
    <3>2. ~(e <= i - 1)
      <4> SUFFICES ASSUME e <= i - 1 PROVE FALSE
        OBVIOUS
      <4>1. oe <= o
        BY <1>3, <1>8, <2>1 DEF oe
      <4> HIDE DEF o, li
      <4> QED
        BY <1>2, <1>9, <1>10, <1>11, <2>2, <2>3, <2>5, <4>1
    <3>3. i = e /\ i - 1 = c
      BY <1>2, <1>8, <3>1, <3>2
    <3>4. o = oc
      BY <3>3 DEF oc
    <3> HIDE DEF o, li
    <3> DEFINE q == o + k - t
    <3>5. /\ q \in 1..a /\ q \in 1..lw /\ lx - lw + q = k
          /\ o + k - oh = d + q
      BY <1>2, <1>9, <1>10, <1>11, <2>2, <2>3, <2>5, <3>4
    <3> HIDE DEF q
    <3>6. data2[d + q] = w[q] /\ w[q] = x[lx - lw + q]
      BY <1>5, <1>6, <3>5
    <3> QED
      BY <3>3, <3>5, <3>6 DEF x, o
  <2> QED
    BY <2>4, <2>5
<1>13. Carries(s, off, h, data2)
  BY <1>6, <1>12 DEF Carries, n, oh
<1>14. off[h] + Len(data2) = t + a
  BY <1>2, <1>6, <1>9, <1>10, <1>11 DEF oh
<1>15. Continues(s, off, t + a, p2)
  <2>1. CASE a < lw /\ Len(p2) = r
    <3>1. /\ \A j \in 2..r : p2[j] = p[j]
          /\ Len(p2[1]) = lw - a /\ \A k \in 1..(lw - a) : p2[1][k] = w[a + k]
      BY <1>2, <1>7, <2>1
    <3>2. n - Len(p2) = c /\ Len(p2) <= n /\ p2 # <<>>
      BY <1>2, <1>8, <2>1
    <3>3. \A k \in 1..(lw - a) : p2[1][k] = x[lx - (lw - a) + k]
      <4> TAKE k \in 1..(lw - a)
      <4>1. a + k \in 1..lw /\ lx - lw + (a + k) = lx - (lw - a) + k
        BY <1>2, <1>9, <1>10
      <4> QED
        BY <1>5, <3>1, <4>1
    <3>4. lw - a >= 1 /\ lw - a <= lx /\ t + a = oe - (lw - a)
      BY <1>2, <1>9, <1>10, <1>11, <2>1
    <3>5. \A j \in 2..r : p2[j] = s[c + j]
      BY <1>5, <3>1
    <3>6. t + a = off[c + 1] - (lw - a) /\ x = s[c + 1]
      BY <1>8, <3>4 DEF oe, x
    <3> QED
      BY <2>1, <3>1, <3>2, <3>3, <3>4, <3>5, <3>6 DEF Continues, n, lx
  <2>2. CASE a = lw /\ Len(p2) = r - 1 /\ \A j \in 1..(r - 1) : p2[j] = p[j + 1]
    <3>1. n - Len(p2) = e /\ Len(p2) <= n
      BY <1>2, <1>8, <2>2
    <3>2. t + a = oe
      BY <1>2, <1>9, <1>10, <1>11, <2>2
    <3>3. \A j \in 1..(r - 1) : p2[j] = s[e + j]
      <4> TAKE j \in 1..(r - 1)
      <4>1. j + 1 \in 2..r /\ c + (j + 1) = e + j
        BY <1>2, <1>8
      <4> QED
        BY <1>5, <2>2, <4>1
    <3>4. \A j \in 2..Len(p2) : p2[j] = s[e + j]
      BY <1>2, <2>2, <3>3
    <3>5. CASE p2 = <<>>
      <4>1. Len(p2) = 0 /\ e = n
        BY <1>2, <3>1, <3>5
      <4> QED
        BY <3>1, <3>2, <3>4, <3>5, <4>1 DEF Continues, n, oe
    <3>6. CASE p2 # <<>>
      <4>1. Len(p2) >= 1
        BY <3>6
      <4>2. 1 \in 1..(r - 1) /\ e + 1 \in 1..n /\ (e + 1) - 1 = e
        BY <1>2, <1>8, <2>2, <3>1, <4>1
      <4> DEFINE y == s[e + 1]
      <4>3. p2[1] = y /\ Len(y) \in Nat /\ off[e + 1] = oe + Len(y) /\ Framed(y)
        BY <1>3, <3>3, <4>2 DEF oe
      <4> HIDE DEF y
      <4>4. Len(y) >= 1 /\ oe = off[e + 1] - Len(y)
        BY <1>10, <4>3, StreamAssumption DEF Framed
      <4>5. \A k \in 1..Len(y) : y[k] = y[Len(y) - Len(y) + k]
        BY <4>3
      <4>6. Len(y) <= Len(y)
        BY <4>3
      <4> QED
        BY <3>1, <3>2, <3>4, <3>6, <4>3, <4>4, <4>5, <4>6 DEF Continues, n, y
    <3> QED
      BY <3>5, <3>6
  <2> QED
    BY <1>7, <2>1, <2>2
<1>16. Aligned(Byte, s, off, h, data2, p2)
  BY <1>6, <1>13, <1>14, <1>15 DEF Aligned
<1> QED
  BY <1>16 DEF data2, w

-----------------------------------------------------------------------------
(* Receiving.                                                              *)

\* Two sequences that begin alike have the same header.
LEMMA SameStart ==
  ASSUME NEW S, NEW b \in Seq(S), NEW m \in Seq(S), NEW a \in Nat,
         a <= Len(b), a <= Len(m), \A k \in 1..a : b[k] = m[k]
  PROVE  SubSeq(b, 1, a) = SubSeq(m, 1, a)
<1>1. a \in 0..Len(b) /\ a \in 0..Len(m)
  OBVIOUS
<1>2. /\ SubSeq(b, 1, a) \in Seq(S) /\ Len(SubSeq(b, 1, a)) = a
      /\ \A k \in 1..a : SubSeq(b, 1, a)[k] = b[k]
  BY <1>1, CutFacts
<1>3. /\ SubSeq(m, 1, a) \in Seq(S) /\ Len(SubSeq(m, 1, a)) = a
      /\ \A k \in 1..a : SubSeq(m, 1, a)[k] = m[k]
  BY <1>1, CutFacts
<1> DEFINE u == SubSeq(b, 1, a)
           v == SubSeq(m, 1, a)
<1> HIDE DEF u, v
<1>4. u \in Seq(S) /\ v \in Seq(S) /\ Len(u) = a /\ Len(v) = a
  BY <1>2, <1>3, Zenon DEF u, v
<1>5. \A k \in 1..a : u[k] = v[k]
  BY <1>2, <1>3, Zenon DEF u, v
<1>6. u = v
  BY <1>4, <1>5, SeqEqual
<1> QED
  BY <1>6 DEF u, v

\* All of a sequence.
LEMMA WholeSequence ==
  ASSUME NEW S, NEW m \in Seq(S)
  PROVE  SubSeq(m, 1, Len(m)) = m
  BY SubSeqFull

\* Dropping the first a elements of b from b \o v.
LEMMA RestFacts ==
  ASSUME NEW S, NEW b \in Seq(S), NEW v \in Seq(S), NEW a \in 0..Len(b)
  PROVE  LET data2 == Drop1(b, a) \o v
             l == Len(b) + Len(v) - a
         IN  /\ data2 \in Seq(S) /\ Len(data2) = l /\ l \in Nat
             /\ \A k \in 1..l : data2[k] = (b \o v)[a + k]
<1> DEFINE g == Drop1(b, a)
           lb == Len(b)
           lv == Len(v)
           u == g \o v
           z == b \o v
<1>1. lb \in Nat /\ lv \in Nat /\ a \in Nat /\ a <= lb
  OBVIOUS
<1>2. g \in Seq(S) /\ Len(g) = lb - a /\ \A k \in 1..(lb - a) : g[k] = b[a + k]
  BY CutFacts
<1> HIDE DEF g
<1>3. g \in Seq(S)
  BY <1>2
<1>4. /\ u \in Seq(S) /\ Len(u) = Len(g) + lv
      /\ \A k \in 1..Len(g) : u[k] = g[k]
      /\ \A k \in 1..lv : u[Len(g) + k] = v[k]
  BY <1>3, JoinFacts
<1>5. /\ \A k \in 1..lb : z[k] = b[k]
      /\ \A k \in 1..lv : z[lb + k] = v[k]
  BY JoinFacts
<1> HIDE DEF u, z, lb, lv
<1>6. Len(u) = lb + lv - a /\ lb + lv - a \in Nat
  BY <1>1, <1>2, <1>4
<1>7. ASSUME NEW k \in 1..(lb + lv - a) PROVE u[k] = z[a + k]
  <2>1. CASE k <= lb - a
    <3>1. k \in 1..(lb - a) /\ a + k \in 1..lb
      BY <1>1, <2>1
    <3> QED
      BY <1>2, <1>4, <1>5, <3>1
  <2>2. CASE ~(k <= lb - a)
    <3> DEFINE q == k - (lb - a)
    <3>1. q \in 1..lv /\ k = (lb - a) + q /\ a + k = lb + q
      BY <1>1, <2>2
    <3> HIDE DEF q
    <3> QED
      BY <1>2, <1>4, <1>5, <3>1
  <2> QED
    BY <2>1, <2>2
<1> QED
  BY <1>4, <1>6, <1>7 DEF g, u, z, lb, lv

\* The first complete message in the buffer is the next message sent.
LEMMA Handling ==
  ASSUME NEW Byte, NEW s, NEW off, NEW h, NEW b \in Seq(Byte), NEW v \in Seq(Byte),
         NEW p, Aligned(Byte, s, off, h, b \o v, p), is_complete_message(b)
  PROVE  /\ h < Len(s) /\ MessageSize(b) \in 0..Len(b)
         /\ SubSeq(b, 1, MessageSize(b)) = s[h + 1]
         /\ Aligned(Byte, s, off, h + 1, Drop1(b, MessageSize(b)) \o v, p)
<1> DEFINE n == Len(s)
           z == b \o v
           d == Len(z)
           lb == Len(b)
           lv == Len(v)
           e == h + 1
           m == s[e]
           l == Len(m)
           oh == off[h]
           oe == off[e]
           t == oh + d
<1>0. Aligned(Byte, s, off, h, z, p)
  OBVIOUS
<1>4. d = lb + lv /\ \A k \in 1..lb : z[k] = b[k]
  BY JoinFacts
<1> HIDE DEF z
<1>1. /\ n \in Nat /\ d \in Nat /\ t \in Nat /\ h \in 0..n
      /\ \A i \in 1..n : s[i] \in Seq(Byte) /\ Len(s[i]) \in Nat /\ Framed(s[i])
      /\ \A i \in 0..n : off[i] \in Nat
      /\ \A i \in 1..n : off[i] = off[i - 1] + Len(s[i])
      /\ \A i, j \in 0..n : i <= j => off[i] <= off[j]
      /\ t <= off[n]
  <2>1. n \in Nat /\ d \in Nat /\ t \in Nat /\ h \in 0..n /\ t <= off[n]
    BY <1>0, AlignedFacts
  <2>2. \A i \in 1..n : s[i] \in Seq(Byte) /\ Len(s[i]) \in Nat /\ Framed(s[i])
    BY <1>0, AlignedFacts
  <2>3. /\ \A i \in 0..n : off[i] \in Nat
        /\ \A i \in 1..n : off[i] = off[i - 1] + Len(s[i])
        /\ \A i, j \in 0..n : i <= j => off[i] <= off[j]
    BY <1>0, AlignedFacts
  <2> QED
    BY <2>1, <2>2, <2>3
<1>2. \A i \in e..n : \A k \in 1..Len(s[i]) :
        off[i - 1] + k <= t => z[off[i - 1] + k - oh] = s[i][k]
  BY <1>0 DEF Aligned, Carries
<1>3. Continues(s, off, t, p)
  BY <1>0 DEF Aligned
<1>5. lb \in Nat /\ lv \in Nat /\ lb >= HeaderSize /\ lb >= MessageSize(b)
  BY DEF is_complete_message
<1>6. HeaderSize \in Nat /\ HeaderSize >= 1
  BY StreamAssumption
<1> HIDE DEF n, d, lb, lv, oe, m, l
<1>7. h < n
  <2> SUFFICES ASSUME h = n PROVE FALSE
    BY <1>1
  <2>1. oh \in Nat /\ oh + d <= oh
    BY <1>1
  <2> HIDE DEF oh
  <2> QED
    BY <1>1, <1>4, <1>5, <1>6, <2>1
<1>8. e \in 1..n /\ e \in 0..n /\ e - 1 = h
  BY <1>1, <1>7
<1>9. /\ m \in Seq(Byte) /\ l \in Nat /\ Framed(m)
      /\ oh \in Nat /\ oe \in Nat /\ oe = oh + l
  BY <1>1, <1>8 DEF m, l, oe
<1>10. l >= HeaderSize /\ MessageSize(m) = l
  BY <1>9 DEF Framed, l
<1>11. ASSUME NEW k \in 1..lb, k <= l PROVE b[k] = m[k]
  <2>1. e \in e..n /\ k \in 1..l
    BY <1>1, <1>5, <1>7, <1>9, <1>11
  <2>2. oh + k <= t /\ oh + k - oh = k
    <3> HIDE DEF oh
    <3> QED
      BY <1>4, <1>5, <1>9, <1>1
  <2>3. k \in 1..Len(s[e]) /\ off[e - 1] + k <= t
    BY <1>8, <2>1, <2>2 DEF l, m
  <2>4. z[off[e - 1] + k - oh] = s[e][k]
    BY <1>2, <2>1, <2>3
  <2>5. z[k] = s[e][k]
    BY <1>8, <2>2, <2>4
  <2> QED
    BY <1>4, <2>5 DEF m
<1>12. MessageSize(b) = l
  <2>1. SubSeq(b, 1, HeaderSize) = SubSeq(m, 1, HeaderSize)
    <3>1. \A k \in 1..HeaderSize : b[k] = m[k]
      BY <1>5, <1>6, <1>9, <1>10, <1>11
    <3> QED
      BY <1>5, <1>6, <1>9, <1>10, <3>1, SameStart DEF lb, l
  <2> QED
    BY <1>10, <2>1 DEF MessageSize
<1>13. l <= lb /\ l \in 0..Len(b)
  BY <1>5, <1>9, <1>12 DEF lb
<1>14. SubSeq(b, 1, l) = m
  <2>1. \A k \in 1..l : b[k] = m[k]
    BY <1>5, <1>9, <1>11, <1>13
  <2>2. SubSeq(b, 1, l) = SubSeq(m, 1, l)
    BY <1>9, <1>13, <2>1, SameStart DEF lb, l
  <2> QED
    BY <1>9, <2>2, WholeSequence DEF l
<1> DEFINE data2 == Drop1(b, l) \o v
           d2 == Len(data2)
<1>15. /\ data2 \in Seq(Byte) /\ d2 = d - l /\ d2 \in Nat
       /\ \A k \in 1..d2 : data2[k] = z[l + k]
  <2>1. /\ data2 \in Seq(Byte) /\ d2 = lb + lv - l /\ d2 \in Nat
        /\ \A k \in 1..(lb + lv - l) : data2[k] = z[l + k]
    BY <1>13, RestFacts DEF lb, lv, z
  <2> HIDE DEF data2, d2
  <2>2. d2 = d - l
    <3>1. d = lb + lv /\ d2 = lb + lv - l
      BY <1>4, <2>1, Zenon
    <3> QED
      BY <3>1, <1>5, <1>9
  <2>3. \A k \in 1..d2 : data2[k] = z[l + k]
    BY <2>1, Zenon
  <2> QED
    BY <2>1, <2>2, <2>3
<1> HIDE DEF data2, d2
<1>16. oe + d2 = t
  <2> HIDE DEF oh
  <2> QED
    BY <1>1, <1>9, <1>15
<1> HIDE DEF t, oh
<1>17. Carries(s, off, e, data2)
  <2>1. ASSUME NEW i \in (e + 1)..n, NEW k \in 1..Len(s[i]),
               off[i - 1] + k <= oe + d2
        PROVE  data2[off[i - 1] + k - oe] = s[i][k]
    <3> DEFINE o == off[i - 1]
    <3>1. i \in e..n /\ i - 1 \in 0..n /\ e <= i - 1
      BY <1>1, <1>8
    <3>2. o \in Nat /\ oe <= o
      BY <1>1, <1>8, <3>1 DEF oe
    <3>3. z[o + k - oh] = s[i][k]
      BY <1>2, <1>16, <2>1, <3>1
    <3>4. k \in Nat /\ k >= 1 /\ o + k <= oe + d2
      <4>1. i \in 1..n
        BY <1>1, <3>1
      <4>2. Len(s[i]) \in Nat
        BY <1>1, <4>1
      <4> QED
        BY <2>1, <4>2
    <3> HIDE DEF o
    <3>5. o + k - oe \in 1..d2 /\ l + (o + k - oe) = o + k - oh
      BY <1>9, <1>15, <3>2, <3>4
    <3>6. data2[o + k - oe] = z[o + k - oh]
      BY <1>15, <3>5
    <3> QED
      BY <3>3, <3>6 DEF o
  <2> QED
    BY <2>1 DEF Carries, n, oe, d2
<1>18. Aligned(Byte, s, off, e, data2, p)
  <2>1. Continues(s, off, off[e] + Len(data2), p)
    BY <1>3, <1>16 DEF oe, d2
  <2>2. e \in 0..Len(s)
    BY <1>8 DEF n
  <2> HIDE DEF e
  <2> QED
    BY <1>0, <1>15, <1>17, <2>1, <2>2 DEF Aligned
<1> QED
  BY <1>7, <1>12, <1>13, <1>14, <1>18 DEF n, m, data2

-----------------------------------------------------------------------------
(* The invariant.                                                          *)

Write(Byte) == [bytes : Seq(Byte), kept : BOOLEAN]

\* p are the bytes of the writes not finished: the one whose handler is to
\* run, then those that wait for room.
Unwritten(po, wa, p) ==
  /\ Len(p) = Len(po) + Len(wa)
  /\ \A i \in 1..Len(po) : p[i] = po[i].bytes
  /\ \A i \in 1..Len(wa) : p[Len(po) + i] = wa[i].bytes

\* The receiver and the sender of a stream that is not spoiled.
Whole(Byte) ==
  /\ handled \in Seq(Seq(Byte)) /\ buffer \in Seq(Byte)
  /\ wire \in Seq(Byte) /\ Len(wire) <= SocketSize
  /\ posted \in Seq(Write(Byte)) /\ Len(posted) <= 1
  /\ waiting \in Seq(Write(Byte))
  /\ \E off, p : /\ Unwritten(posted, waiting, p)
                 /\ Aligned(Byte, sent, off, Len(handled), buffer \o wire, p)

StreamInv(Byte) ==
  /\ spoiled \in BOOLEAN
  /\ sent \in Seq(Seq(Byte))
  /\ ~spoiled => Whole(Byte)

\* The first element of a sequence put aside, and one put in front.
LEMMA TailFacts ==
  ASSUME NEW S, NEW q \in Seq(S), q # <<>>
  PROVE  /\ Tail(q) \in Seq(S) /\ Len(q) \in Nat /\ Len(q) >= 1
         /\ Len(Tail(q)) = Len(q) - 1 /\ Head(q) = q[1] /\ q[1] \in S
         /\ \A i \in 1..(Len(q) - 1) : Tail(q)[i] = q[i + 1]
  BY HeadTailProperties

LEMMA ConsFacts ==
  ASSUME NEW S, NEW q \in Seq(S), NEW x \in S
  PROVE  /\ <<x>> \o q \in Seq(S) /\ Len(<<x>> \o q) = Len(q) + 1
         /\ (<<x>> \o q)[1] = x
         /\ \A i \in 1..Len(q) : (<<x>> \o q)[i + 1] = q[i]
<1> DEFINE u == <<x>>
<1>1. u \in Seq(S) /\ Len(u) = 1 /\ u[1] = x
  OBVIOUS
<1> HIDE DEF u
<1>2. /\ u \o q \in Seq(S) /\ Len(u \o q) = Len(u) + Len(q)
      /\ \A k \in 1..Len(u) : (u \o q)[k] = u[k]
      /\ \A k \in 1..Len(q) : (u \o q)[Len(u) + k] = q[k]
  <2>1. u \in Seq(S)
    BY <1>1
  <2> QED
    BY <2>1, JoinFacts
<1> DEFINE g == u \o q
           l == Len(q)
<1>3. l \in Nat
  OBVIOUS
<1> HIDE DEF g, l
<1>4. /\ g \in Seq(S) /\ Len(g) = 1 + l
      /\ \A k \in 1..1 : g[k] = u[k]
      /\ \A k \in 1..l : g[1 + k] = q[k]
  BY <1>1, <1>2, Zenon DEF g, l
<1>5. g[1] = x /\ Len(g) = l + 1 /\ \A i \in 1..l : g[i + 1] = q[i]
  BY <1>1, <1>3, <1>4
<1> QED
  BY <1>4, <1>5 DEF g, l, u

LEMMA AppendFacts ==
  ASSUME NEW S, NEW q \in Seq(S), NEW x \in S
  PROVE  /\ Append(q, x) \in Seq(S) /\ Len(Append(q, x)) = Len(q) + 1
         /\ \A i \in 1..Len(q) : Append(q, x)[i] = q[i]
         /\ Append(q, x)[Len(q) + 1] = x
  BY AppendProperties

LEMMA OneFacts ==
  ASSUME NEW S, NEW x \in S
  PROVE  /\ <<>> \in Seq(S) /\ Len(<<>>) = 0
         /\ Append(<<>>, x) \in Seq(S) /\ Len(Append(<<>>, x)) = 1
         /\ Append(<<>>, x)[1] = x
  OBVIOUS

-----------------------------------------------------------------------------
(* The steps of the sender.                                                *)

\* The first byte not yet written is a byte of the first write.
LEMMA FirstWrite ==
  ASSUME NEW Byte, NEW s, NEW off, NEW h, NEW data, NEW p,
         Aligned(Byte, s, off, h, data, p), p # <<>>
  PROVE  /\ p \in Seq(Seq(Byte)) /\ p[1] \in Seq(Byte)
         /\ Len(p[1]) \in Nat /\ Len(p[1]) >= 1
<1>1. p \in Seq(Seq(Byte)) /\ Continues(s, off, off[h] + Len(data), p)
  BY DEF Aligned
<1>2. Len(p[1]) >= 1
  BY <1>1 DEF Continues
<1>3. p[1] \in Seq(Byte)
  <2>1. p \in Seq(Seq(Byte))
    BY <1>1
  <2> QED
    BY <2>1, TailFacts
<1> QED
  BY <1>1, <1>2, <1>3

\* The socket takes what it has room for of w, the first of the writes.
LEMMA WriteStep ==
  ASSUME NEW Byte, NEW s, NEW off, NEW h, NEW p,
         NEW w \in Write(Byte), NEW others \in Seq(Write(Byte)),
         buffer \in Seq(Byte), wire \in Seq(Byte), Len(wire) <= SocketSize,
         Aligned(Byte, s, off, h, buffer \o wire, p),
         Len(p) = Len(others) + 1, p[1] = w.bytes,
         \A i \in 1..Len(others) : p[i + 1] = others[i].bytes,
         others = <<>> \/ SocketRoom > 0,
         WriteSome(w, others, <<>>)
  PROVE  /\ wire' \in Seq(Byte) /\ Len(wire') <= SocketSize
         /\ posted' \in Seq(Write(Byte)) /\ Len(posted') <= 1
         /\ waiting' \in Seq(Write(Byte))
         /\ \E p2 : /\ Unwritten(posted', waiting', p2)
                    /\ Aligned(Byte, s, off, h, buffer \o wire', p2)
<1> DEFINE b == w.bytes
           l == Len(b)
           r == SocketRoom
           a == Accepted(b)
           lw == Len(wire)
           left == [bytes |-> Drop1(b, a), kept |-> w.kept]
           data == buffer \o wire
           lo == Len(others)
<1>1. b \in Seq(Byte) /\ w.kept \in BOOLEAN
  BY DEF Write
<1>2. l \in Nat /\ lw \in Nat /\ lo \in Nat /\ lw <= SocketSize
  BY <1>1
<1>3. p # <<>> /\ p \in Seq(Seq(Byte))
  <2>1. p \in Seq(Seq(Byte))
    BY DEF Aligned
  <2>2. Len(p) # 0
    BY <1>2
  <2> QED
    BY <2>1, <2>2
<1>4. l >= 1
  BY <1>3, FirstWrite
<1>5. /\ wire' = wire \o SubSeq(b, 1, a)
      /\ a = 0 => waiting' = Append(others, w) /\ posted' = <<>>
      /\ a # 0 => /\ waiting' = others
                  /\ posted' = IF Drop1(b, a) = <<>> THEN <<>> ELSE Append(<<>>, left)
  BY DEF WriteSome
<1>6. r = SocketSize - lw /\ r \in Nat
  BY <1>2, StreamAssumption DEF SocketRoom
<1>7. a = IF l <= r THEN l ELSE r
  BY DEF Accepted
<1> HIDE DEF b, l, r, a, lw, left, data, lo
<1>8. a \in 0..l /\ a <= r /\ (a = 0 => r = 0)
  BY <1>2, <1>4, <1>6, <1>7
<1>9. /\ SubSeq(b, 1, a) \in Seq(Byte) /\ Len(SubSeq(b, 1, a)) = a
      /\ Drop1(b, a) \in Seq(Byte) /\ Len(Drop1(b, a)) = l - a
  <2>1. a \in 0..Len(b)
    BY <1>8 DEF l
  <2> QED
    BY <1>1, <2>1, CutFacts DEF l
<1>10. wire' \in Seq(Byte) /\ Len(wire') = lw + a
  <2> DEFINE f == SubSeq(b, 1, a)
  <2>1. f \in Seq(Byte) /\ Len(f) = a
    BY <1>9
  <2> HIDE DEF f
  <2>2. wire \o f \in Seq(Byte) /\ Len(wire \o f) = Len(wire) + Len(f)
    BY <2>1, JoinFacts
  <2> QED
    BY <1>5, <2>1, <2>2, Zenon DEF f, lw
<1>11. Len(wire') <= SocketSize
  BY <1>2, <1>6, <1>8, <1>10, StreamAssumption
<1>12. buffer \o wire' = data \o SubSeq(b, 1, a)
  <2> DEFINE f == SubSeq(b, 1, a)
  <2>1. f \in Seq(Byte)
    BY <1>9
  <2>2. wire' = wire \o f
    BY <1>5
  <2> HIDE DEF f
  <2>3. (buffer \o wire) \o f = buffer \o (wire \o f)
    BY <2>1, ConcatAssociative
  <2> QED
    BY <2>2, <2>3, Zenon DEF data, f
<1>13. left \in Write(Byte) /\ left.bytes = Drop1(b, a)
  BY <1>1, <1>9 DEF left, Write
<1>14. Aligned(Byte, s, off, h, data, p)
  BY DEF data
<1>15. p[1] = b /\ Len(p) = lo + 1 /\ \A i \in 1..lo : p[i + 1] = others[i].bytes
  BY DEF b, lo
<1>16. /\ Tail(p) \in Seq(Seq(Byte)) /\ Len(Tail(p)) = lo
       /\ \A i \in 1..lo : Tail(p)[i] = others[i].bytes
  <2>1. /\ Tail(p) \in Seq(Seq(Byte)) /\ Len(Tail(p)) = Len(p) - 1
        /\ \A i \in 1..(Len(p) - 1) : Tail(p)[i] = p[i + 1]
    BY <1>3, TailFacts
  <2> DEFINE q == Tail(p)
             lp == Len(p)
  <2> HIDE DEF q, lp
  <2>2. q \in Seq(Seq(Byte)) /\ Len(q) = lp - 1 /\ lp = lo + 1
    BY <1>15, <2>1 DEF q, lp
  <2>3. \A i \in 1..(lp - 1) : q[i] = p[i + 1]
    BY <2>1 DEF q, lp
  <2>4. lp - 1 = lo
    BY <1>2, <2>2
  <2> QED
    BY <1>15, <2>2, <2>3, <2>4 DEF q
<1>17. CASE a = 0
  <2>1. SubSeq(b, 1, a) = <<>>
    BY <1>9, <1>17
  <2>2. wire' = wire
    <3>1. wire \o <<>> = wire
      BY ConcatEmptySeq
    <3> QED
      BY <1>5, <2>1, <3>1, Zenon
  <2>3. others = <<>> /\ waiting' = Append(<<>>, w) /\ posted' = <<>>
    BY <1>5, <1>8, <1>17 DEF r
  <2>4. /\ posted' \in Seq(Write(Byte)) /\ Len(posted') = 0
        /\ waiting' \in Seq(Write(Byte)) /\ Len(waiting') = 1 /\ waiting'[1] = w
    BY <2>3, OneFacts
  <2>5. Len(p) = 1
    BY <1>15, <2>3 DEF lo
  <2>6. Unwritten(posted', waiting', p)
    BY <1>15, <2>4, <2>5 DEF Unwritten, b
  <2> QED
    BY <1>10, <1>11, <1>14, <2>2, <2>4, <2>6 DEF data
<1>18. CASE a # 0 /\ a = l
  <2>1. Drop1(b, a) = <<>>
    BY <1>2, <1>9, <1>18
  <2>2. posted' = <<>> /\ waiting' = others
    BY <1>5, <1>18, <2>1
  <2>3. /\ posted' \in Seq(Write(Byte)) /\ Len(posted') = 0
        /\ waiting' \in Seq(Write(Byte)) /\ Len(waiting') = lo
    BY <2>2 DEF lo
  <2> DEFINE q == Tail(p)
  <2>4. Aligned(Byte, s, off, h, data \o SubSeq(p[1], 1, a), q)
    <3>1. a \in 0..Len(p[1]) /\ a = Len(p[1])
      BY <1>8, <1>15, <1>18 DEF l
    <3> QED
      BY <1>3, <1>14, <1>16, <3>1, Transfer
  <2>5. q \in Seq(Seq(Byte)) /\ Len(q) = lo /\ \A i \in 1..lo : q[i] = others[i].bytes
    BY <1>16
  <2> HIDE DEF q
  <2>6. Unwritten(posted', waiting', q)
    <3>1. Len(q) = Len(posted') + Len(waiting')
      BY <1>2, <2>3, <2>5
    <3>2. \A i \in 1..Len(posted') : q[i] = posted'[i].bytes
      BY <2>3
    <3>3. \A i \in 1..Len(waiting') : q[Len(posted') + i] = waiting'[i].bytes
      <4> SUFFICES ASSUME NEW i \in 1..lo PROVE q[0 + i] = others[i].bytes
        BY <2>2, <2>3
      <4>1. 0 + i = i
        BY <1>2
      <4> QED
        BY <2>5, <4>1
    <3> QED
      BY <3>1, <3>2, <3>3 DEF Unwritten
  <2>7. Aligned(Byte, s, off, h, buffer \o wire', q)
    BY <1>12, <1>15, <2>4
  <2> QED
    BY <1>10, <1>11, <2>3, <2>6, <2>7
<1>19. CASE a # 0 /\ a # l
  <2>1. Drop1(b, a) # <<>>
    <3>1. Len(Drop1(b, a)) # 0
      BY <1>2, <1>8, <1>9, <1>19
    <3> QED
      BY <3>1
  <2>2. posted' = Append(<<>>, left) /\ waiting' = others
    BY <1>5, <1>19, <2>1
  <2>3. /\ posted' \in Seq(Write(Byte)) /\ Len(posted') = 1 /\ posted'[1] = left
        /\ waiting' \in Seq(Write(Byte)) /\ Len(waiting') = lo
    <3>1. /\ Append(<<>>, left) \in Seq(Write(Byte))
          /\ Len(Append(<<>>, left)) = 1 /\ Append(<<>>, left)[1] = left
      BY <1>13, OneFacts
    <3> QED
      BY <2>2, <3>1 DEF lo
  <2> DEFINE x == Drop1(b, a)
             q == <<x>> \o Tail(p)
  <2>4. /\ q \in Seq(Seq(Byte)) /\ Len(q) = lo + 1 /\ q[1] = x
        /\ \A i \in 1..lo : q[i + 1] = others[i].bytes
    <3> DEFINE u == Tail(p)
    <3>1. x \in Seq(Byte) /\ u \in Seq(Seq(Byte)) /\ Len(u) = lo
      BY <1>9, <1>16
    <3>2. \A i \in 1..lo : u[i] = others[i].bytes
      BY <1>16
    <3> HIDE DEF x, u
    <3>3. /\ <<x>> \o u \in Seq(Seq(Byte)) /\ Len(<<x>> \o u) = Len(u) + 1
          /\ (<<x>> \o u)[1] = x
          /\ \A i \in 1..Len(u) : (<<x>> \o u)[i + 1] = u[i]
      BY <3>1, ConsFacts
    <3>4. q = <<x>> \o u
      BY DEF u
    <3> HIDE DEF q
    <3> QED
      BY <3>1, <3>2, <3>3, <3>4, Zenon
  <2>5. Aligned(Byte, s, off, h, data \o SubSeq(p[1], 1, a), q)
    <3>1. a \in 0..Len(p[1]) /\ a < Len(p[1])
      BY <1>2, <1>8, <1>15, <1>19 DEF l
    <3>2. q = <<Drop1(p[1], a)>> \o Tail(p)
      BY <1>15
    <3>3. q \in Seq(Seq(Byte))
      BY <2>4
    <3> HIDE DEF q
    <3> QED
      BY <1>3, <1>14, <3>1, <3>2, <3>3, Transfer
  <2>6. posted'[1].bytes = x
    BY <1>13, <2>3
  <2> HIDE DEF q, x
  <2>7. Unwritten(posted', waiting', q)
    <3>1. Len(q) = Len(posted') + Len(waiting')
      BY <1>2, <2>3, <2>4
    <3>2. \A i \in 1..Len(posted') : q[i] = posted'[i].bytes
      BY <2>3, <2>4, <2>6
    <3>3. \A i \in 1..Len(waiting') : q[Len(posted') + i] = waiting'[i].bytes
      <4> SUFFICES ASSUME NEW i \in 1..lo PROVE q[1 + i] = others[i].bytes
        BY <2>2, <2>3
      <4>1. 1 + i = i + 1
        BY <1>2
      <4> QED
        BY <2>4, <4>1
    <3> QED
      BY <3>1, <3>2, <3>3 DEF Unwritten
  <2>8. Aligned(Byte, s, off, h, buffer \o wire', q)
    BY <1>12, <1>15, <2>5
  <2> QED
    BY <1>10, <1>11, <2>3, <2>7, <2>8
<1> QED
  BY <1>17, <1>18, <1>19

\* What was sent before is where it was.
LEMMA AppendPrefix ==
  ASSUME NEW S, NEW q \in Seq(S), NEW x \in S
  PROVE  SubSeq(Append(q, x), 1, Len(q)) = q
<1> DEFINE g == Append(q, x)
           l == Len(q)
<1>1. g \in Seq(S) /\ Len(g) = l + 1 /\ \A i \in 1..l : g[i] = q[i]
  BY AppendFacts
<1>2. l \in Nat
  OBVIOUS
<1> HIDE DEF g
<1>3. l <= Len(g) /\ l <= Len(q)
  BY <1>1, <1>2
<1>4. g \in Seq(S) /\ \A i \in 1..l : g[i] = q[i]
  BY <1>1
<1>5. SubSeq(g, 1, l) = SubSeq(q, 1, l)
  BY <1>2, <1>3, <1>4, SameStart
<1> QED
  BY <1>5, WholeSequence DEF g

LEMMA SendStep ==
  ASSUME NEW Byte, NEW m \in Seq(Byte), Framed(m), NEW kept \in BOOLEAN,
         StreamInv(Byte), send_session_message(m, kept)
  PROVE  StreamInv(Byte)' /\ Stream!Send
<1> DEFINE w == [bytes |-> m, kept |-> kept]
<1>1. /\ sent' = Append(sent, m) /\ async_write(w, posted)
      /\ spoiled' = (spoiled \/ posted # <<>>)
      /\ buffer' = buffer /\ receiving' = receiving /\ handled' = handled
  BY DEF send_session_message, receiveVars
<1>2. sent \in Seq(Seq(Byte)) /\ spoiled \in BOOLEAN
  BY DEF StreamInv
<1>3. sent' \in Seq(Seq(Byte)) /\ Len(sent') = Len(sent) + 1
  BY <1>1, <1>2, AppendFacts
<1>4. SubSeq(sent', 1, Len(sent)) = sent
  BY <1>1, <1>2, AppendPrefix
<1>5. spoiled' \in BOOLEAN /\ spoiled' \in {spoiled, TRUE}
  BY <1>1, <1>2
<1>6. ASSUME ~spoiled' PROVE Whole(Byte)'
  <2>1. ~spoiled /\ posted = <<>>
    BY <1>1, <1>6
  <2>2. Whole(Byte)
    BY <2>1 DEF StreamInv
  <2>3. /\ handled \in Seq(Seq(Byte)) /\ buffer \in Seq(Byte)
        /\ wire \in Seq(Byte) /\ Len(wire) <= SocketSize
        /\ waiting \in Seq(Write(Byte))
    BY <2>2 DEF Whole
  <2>4. PICK off, p : /\ Unwritten(posted, waiting, p)
                      /\ Aligned(Byte, sent, off, Len(handled), buffer \o wire, p)
    BY <2>2 DEF Whole
  <2>5. PICK off2 : Aligned(Byte, Append(sent, m), off2, Len(handled),
                            buffer \o wire, Append(p, m))
    BY <2>4, Enqueue
  <2> DEFINE q == Append(p, m)
             lp == Len(p)
  <2>6. p \in Seq(Seq(Byte))
    BY <2>4 DEF Aligned
  <2>7. /\ q \in Seq(Seq(Byte)) /\ Len(q) = lp + 1 /\ lp \in Nat
        /\ \A i \in 1..lp : q[i] = p[i]
        /\ q[lp + 1] = m
    BY <2>6, AppendFacts
  <2>8. lp = Len(waiting) /\ \A i \in 1..lp : p[i] = waiting[i].bytes
    <3>1. /\ lp = 0 + Len(waiting)
          /\ \A i \in 1..Len(waiting) : p[0 + i] = waiting[i].bytes
      BY <2>1, <2>4 DEF Unwritten
    <3>2. Len(waiting) \in Nat
      BY <2>3
    <3> QED
      BY <3>1, <3>2
  <2>9. Aligned(Byte, sent', off2, Len(handled), buffer \o wire, q)
    BY <1>1, <2>5
  <2> HIDE DEF q, lp
  <2>10. w \in Write(Byte) /\ w.bytes = m
    BY DEF Write
  <2>11. CASE waiting = <<>>
    <3>1. WriteSome(w, <<>>, <<>>)
      BY <1>1, <2>1, <2>11 DEF async_write
    <3>2. lp = 0
      BY <2>8, <2>11
    <3>3. /\ Len(q) = Len(<<>>) + 1 /\ q[1] = w.bytes
          /\ \A i \in 1..Len(<<>>) : q[i + 1] = <<>>[i].bytes
      BY <2>7, <2>10, <3>2
    <3>4. <<>> \in Seq(Write(Byte))
      OBVIOUS
    <3>5. /\ wire' \in Seq(Byte) /\ Len(wire') <= SocketSize
          /\ posted' \in Seq(Write(Byte)) /\ Len(posted') <= 1
          /\ waiting' \in Seq(Write(Byte))
          /\ \E p2 : /\ Unwritten(posted', waiting', p2)
                     /\ Aligned(Byte, sent', off2, Len(handled), buffer \o wire', p2)
      <4> HIDE DEF w
      <4> QED
        BY <2>3, <2>9, <2>10, <3>1, <3>3, <3>4, WriteStep
    <3> QED
      BY <1>1, <2>3, <3>5 DEF Whole
  <2>12. CASE waiting # <<>>
    <3>1. waiting' = Append(waiting, w) /\ posted' = posted /\ wire' = wire
      BY <1>1, <2>12 DEF async_write
    <3>2. /\ waiting' \in Seq(Write(Byte)) /\ Len(waiting') = lp + 1
          /\ \A i \in 1..lp : waiting'[i] = waiting[i]
          /\ waiting'[lp + 1] = w
      <4> HIDE DEF w
      <4>1. /\ Append(waiting, w) \in Seq(Write(Byte))
            /\ Len(Append(waiting, w)) = Len(waiting) + 1
            /\ \A i \in 1..Len(waiting) : Append(waiting, w)[i] = waiting[i]
            /\ Append(waiting, w)[Len(waiting) + 1] = w
        BY <2>3, <2>10, AppendFacts
      <4> QED
        BY <2>8, <3>1, <4>1, Zenon
    <3>3. posted' = <<>> /\ posted' \in Seq(Write(Byte)) /\ Len(posted') = 0
      BY <2>1, <3>1
    <3>4. \A i \in 1..(lp + 1) : q[i] = waiting'[i].bytes
      <4> SUFFICES ASSUME NEW i \in 1..(lp + 1) PROVE q[i] = waiting'[i].bytes
        OBVIOUS
      <4>1. CASE i = lp + 1
        BY <2>7, <2>10, <3>2, <4>1, Zenon
      <4>2. CASE i # lp + 1
        <5>1. i \in 1..lp
          BY <2>7, <4>2
        <5> QED
          BY <2>7, <2>8, <3>2, <5>1, Zenon
      <4> QED
        BY <4>1, <4>2
    <3>5. Unwritten(posted', waiting', q)
      <4>1. Len(q) = Len(posted') + Len(waiting')
        BY <2>7, <3>2, <3>3
      <4>2. \A i \in 1..Len(posted') : q[i] = posted'[i].bytes
        BY <3>3
      <4>3. \A i \in 1..Len(waiting') : q[Len(posted') + i] = waiting'[i].bytes
        <5> SUFFICES ASSUME NEW i \in 1..(lp + 1) PROVE q[0 + i] = waiting'[i].bytes
          BY <3>2, <3>3
        <5>1. 0 + i = i
          BY <2>7
        <5> QED
          BY <3>4, <5>1
      <4> QED
        BY <4>1, <4>2, <4>3 DEF Unwritten
    <3> QED
      BY <1>1, <2>3, <2>9, <3>1, <3>2, <3>3, <3>5 DEF Whole
  <2> QED
    BY <2>11, <2>12
<1>7. StreamInv(Byte)'
  BY <1>3, <1>5, <1>6 DEF StreamInv
<1>8. Stream!Send
  BY <1>1, <1>3, <1>4, <1>5 DEF Stream!Send
<1> QED
  BY <1>7, <1>8

\* A step that spoils the stream, or finds it spoiled, and sends nothing.
LEMMA SpoiledStep ==
  ASSUME NEW Byte, StreamInv(Byte), spoiled', spoiled' \in BOOLEAN, sent' = sent,
         spoiled \/ handled' = handled
  PROVE  StreamInv(Byte)' /\ Stream!Spoiled
  BY DEF StreamInv, Stream!Spoiled

LEMMA ContinueStep ==
  ASSUME NEW Byte, StreamInv(Byte), ContinueWrite
  PROVE  StreamInv(Byte)' /\ (Stream!Spoiled \/ UNCHANGED <<sent, handled, spoiled>>)
<1>1. PICK b \in MemoryOf(Head(posted)) :
        async_write([bytes |-> b, kept |-> Head(posted).kept], Tail(posted))
  BY DEF ContinueWrite
<1>2. /\ posted # <<>>
      /\ spoiled' = (spoiled \/ ~Head(posted).kept \/ waiting # <<>>)
      /\ sent' = sent /\ buffer' = buffer /\ handled' = handled
  BY DEF ContinueWrite, receiveVars
<1>3. spoiled \in BOOLEAN /\ spoiled' \in BOOLEAN /\ sent \in Seq(Seq(Byte))
  BY <1>2 DEF StreamInv
<1>4. CASE spoiled'
  BY <1>2, <1>3, <1>4, SpoiledStep
<1>5. CASE ~spoiled'
  <2>1. ~spoiled /\ Head(posted).kept /\ waiting = <<>>
    BY <1>2, <1>5
  <2>2. Whole(Byte)
    BY <2>1 DEF StreamInv
  <2>3. /\ handled \in Seq(Seq(Byte)) /\ buffer \in Seq(Byte)
        /\ wire \in Seq(Byte) /\ Len(wire) <= SocketSize
        /\ posted \in Seq(Write(Byte)) /\ Len(posted) <= 1
    BY <2>2 DEF Whole
  <2>4. PICK off, p : /\ Unwritten(posted, waiting, p)
                      /\ Aligned(Byte, sent, off, Len(handled), buffer \o wire, p)
    BY <2>2 DEF Whole
  <2>5. /\ Tail(posted) \in Seq(Write(Byte)) /\ Len(posted) \in Nat
        /\ Len(posted) >= 1 /\ Len(Tail(posted)) = Len(posted) - 1
        /\ Head(posted) = posted[1] /\ posted[1] \in Write(Byte)
    BY <1>2, <2>3, TailFacts
  <2>6. Len(posted) = 1 /\ Len(Tail(posted)) = 0
    BY <2>3, <2>5
  <2>7. Tail(posted) = <<>>
    BY <2>5, <2>6, EmptySeq
  <2> DEFINE x == posted[1]
             w == [bytes |-> b, kept |-> x.kept]
  <2>8. x \in Write(Byte) /\ x.bytes \in Seq(Byte) /\ x.kept \in BOOLEAN /\ x.kept
    BY <2>1, <2>5 DEF Write
  <2>9. b = x.bytes
    BY <2>5, <2>8 DEF MemoryOf
  <2>10. w \in Write(Byte) /\ w.bytes = x.bytes
    BY <2>8, <2>9 DEF Write
  <2>11. WriteSome(w, <<>>, <<>>)
    BY <1>1, <2>1, <2>5, <2>7 DEF async_write
  <2>12. Len(p) = Len(<<>>) + 1 /\ p[1] = w.bytes
    <3>1. Len(waiting) = 0 /\ Len(<<>>) = 0
      BY <2>1
    <3>2. Len(p) = 1
      BY <2>4, <2>6, <3>1 DEF Unwritten
    <3>3. p[1] = posted[1].bytes
      BY <2>4, <2>6 DEF Unwritten
    <3> QED
      BY <2>10, <3>1, <3>2, <3>3
  <2>13. <<>> \in Seq(Write(Byte)) /\ \A i \in 1..Len(<<>>) : p[i + 1] = <<>>[i].bytes
    OBVIOUS
  <2> HIDE DEF w, x
  <2>14. /\ wire' \in Seq(Byte) /\ Len(wire') <= SocketSize
         /\ posted' \in Seq(Write(Byte)) /\ Len(posted') <= 1
         /\ waiting' \in Seq(Write(Byte))
         /\ \E p2 : /\ Unwritten(posted', waiting', p2)
                    /\ Aligned(Byte, sent, off, Len(handled), buffer \o wire', p2)
    BY <2>3, <2>4, <2>10, <2>11, <2>12, <2>13, WriteStep
  <2>15. Whole(Byte)'
    BY <1>2, <2>3, <2>14 DEF Whole
  <2>16. spoiled' = spoiled
    BY <1>3, <1>5, <2>1
  <2> QED
    BY <1>2, <1>3, <2>15, <2>16 DEF StreamInv
<1> QED
  BY <1>4, <1>5

LEMMA ReadyStep ==
  ASSUME NEW Byte, StreamInv(Byte), SocketReady
  PROVE  StreamInv(Byte)' /\ (Stream!Spoiled \/ UNCHANGED <<sent, handled, spoiled>>)
<1>1. PICK b \in MemoryOf(Head(waiting)) :
        WriteSome([bytes |-> b, kept |-> Head(waiting).kept], Tail(waiting), posted)
  BY DEF SocketReady
<1>2. /\ waiting # <<>> /\ SocketRoom > 0
      /\ spoiled' = (spoiled \/ ~Head(waiting).kept \/ posted # <<>>)
      /\ sent' = sent /\ buffer' = buffer /\ handled' = handled
  BY DEF SocketReady, receiveVars
<1>3. spoiled \in BOOLEAN /\ spoiled' \in BOOLEAN /\ sent \in Seq(Seq(Byte))
  BY <1>2 DEF StreamInv
<1>4. CASE spoiled'
  BY <1>2, <1>3, <1>4, SpoiledStep
<1>5. CASE ~spoiled'
  <2>1. ~spoiled /\ Head(waiting).kept /\ posted = <<>>
    BY <1>2, <1>5
  <2>2. Whole(Byte)
    BY <2>1 DEF StreamInv
  <2>3. /\ handled \in Seq(Seq(Byte)) /\ buffer \in Seq(Byte)
        /\ wire \in Seq(Byte) /\ Len(wire) <= SocketSize
        /\ waiting \in Seq(Write(Byte))
    BY <2>2 DEF Whole
  <2>4. PICK off, p : /\ Unwritten(posted, waiting, p)
                      /\ Aligned(Byte, sent, off, Len(handled), buffer \o wire, p)
    BY <2>2 DEF Whole
  <2> DEFINE others == Tail(waiting)
             lo == Len(others)
             lw == Len(waiting)
             x == waiting[1]
             w == [bytes |-> b, kept |-> x.kept]
  <2>5. /\ others \in Seq(Write(Byte)) /\ lw \in Nat /\ lw >= 1 /\ lo = lw - 1
        /\ Head(waiting) = x /\ x \in Write(Byte)
        /\ \A i \in 1..(lw - 1) : others[i] = waiting[i + 1]
    BY <1>2, <2>3, TailFacts
  <2>6. x.bytes \in Seq(Byte) /\ x.kept \in BOOLEAN /\ x.kept
    BY <2>1, <2>5 DEF Write
  <2>7. b = x.bytes
    BY <2>5, <2>6 DEF MemoryOf
  <2>8. w \in Write(Byte) /\ w.bytes = x.bytes
    BY <2>6, <2>7 DEF Write
  <2>9. WriteSome(w, others, <<>>)
    BY <1>1, <2>1, <2>5
  <2>10. Len(p) = lw /\ \A i \in 1..lw : p[i] = waiting[i].bytes
    <3>1. Len(p) = 0 + lw /\ \A i \in 1..lw : p[0 + i] = waiting[i].bytes
      BY <2>1, <2>4 DEF Unwritten
    <3>2. lw \in Nat
      BY <2>5
    <3> HIDE DEF lw
    <3> QED
      BY <3>1, <3>2
  <2> HIDE DEF lo, lw, others
  <2>11. lo + 1 = lw /\ lo = lw - 1 /\ lo \in Nat
    BY <2>5
  <2>12. Len(p) = lo + 1 /\ p[1] = w.bytes
    <3>1. 1 \in 1..lw
      BY <2>5
    <3>2. p[1] = waiting[1].bytes
      BY <2>10, <3>1
    <3> QED
      BY <2>8, <2>10, <2>11, <3>2
  <2>13. \A i \in 1..lo : p[i + 1] = others[i].bytes
    <3> SUFFICES ASSUME NEW i \in 1..lo PROVE p[i + 1] = others[i].bytes
      OBVIOUS
    <3>1. i \in 1..(lw - 1) /\ i + 1 \in 1..lw
      BY <2>11
    <3> QED
      BY <2>5, <2>10, <3>1
  <2> HIDE DEF w, x
  <2>14. /\ wire' \in Seq(Byte) /\ Len(wire') <= SocketSize
         /\ posted' \in Seq(Write(Byte)) /\ Len(posted') <= 1
         /\ waiting' \in Seq(Write(Byte))
         /\ \E p2 : /\ Unwritten(posted', waiting', p2)
                    /\ Aligned(Byte, sent, off, Len(handled), buffer \o wire', p2)
    <3>1. others \in Seq(Write(Byte))
      BY <2>5
    <3>2. Len(p) = Len(others) + 1 /\ \A i \in 1..Len(others) : p[i + 1] = others[i].bytes
      BY <2>12, <2>13 DEF lo
    <3>3. p[1] = w.bytes
      BY <2>12
    <3> QED
      BY <1>2, <2>3, <2>4, <2>8, <2>9, <3>1, <3>2, <3>3, WriteStep
  <2>15. Whole(Byte)'
    BY <1>2, <2>3, <2>14 DEF Whole
  <2>16. spoiled' = spoiled
    BY <1>3, <1>5, <2>1
  <2> QED
    BY <1>2, <1>3, <2>15, <2>16 DEF StreamInv
<1> QED
  BY <1>4, <1>5

-----------------------------------------------------------------------------
(* The steps of the receiver.                                              *)

\* What is read is what the wire carries next.
LEMMA ReceiveStep ==
  ASSUME NEW Byte, StreamInv(Byte), NEW n \in 1..Len(wire), Receive(n)
  PROVE  StreamInv(Byte)' /\ UNCHANGED <<sent, handled, spoiled>>
<1> DEFINE f == SubSeq(wire, 1, n)
           g == Drop1(wire, n)
<1>1. /\ buffer' = buffer \o f /\ wire' = g
      /\ sent' = sent /\ posted' = posted /\ waiting' = waiting
      /\ spoiled' = spoiled /\ handled' = handled
  BY DEF Receive, sendVars
<1>2. ASSUME ~spoiled PROVE Whole(Byte)'
  <2>1. Whole(Byte)
    BY <1>2 DEF StreamInv
  <2>2. buffer \in Seq(Byte) /\ wire \in Seq(Byte) /\ Len(wire) <= SocketSize
    BY <2>1 DEF Whole
  <2>3. n \in 0..Len(wire) /\ n \in Nat /\ Len(wire) \in Nat
    BY <2>2
  <2>4. /\ f \in Seq(Byte) /\ Len(f) = n /\ \A k \in 1..n : f[k] = wire[k]
        /\ g \in Seq(Byte) /\ Len(g) = Len(wire) - n
        /\ \A k \in 1..(Len(wire) - n) : g[k] = wire[n + k]
    BY <2>2, <2>3, CutFacts
  <2> DEFINE l == Len(wire)
             u == f \o g
  <2> HIDE DEF f, g, l
  <2>5. f \in Seq(Byte) /\ g \in Seq(Byte) /\ Len(f) = n /\ Len(g) = l - n
    BY <2>4 DEF l
  <2>6. /\ u \in Seq(Byte) /\ Len(u) = Len(f) + Len(g)
        /\ \A k \in 1..Len(f) : u[k] = f[k]
        /\ \A k \in 1..Len(g) : u[Len(f) + k] = g[k]
    <3>1. f \in Seq(Byte) /\ g \in Seq(Byte)
      BY <2>5
    <3> QED
      BY <3>1, JoinFacts
  <2> HIDE DEF u
  <2>7. l \in Nat /\ n \in 0..l
    BY <2>3 DEF l
  <2>8. Len(u) = l
    BY <2>5, <2>6, <2>7
  <2>9. ASSUME NEW k \in 1..l PROVE u[k] = wire[k]
    <3>1. CASE k <= n
      <4>1. k \in 1..n
        BY <2>7, <3>1
      <4> QED
        BY <2>4, <2>5, <2>6, <4>1, Zenon
    <3>2. CASE ~(k <= n)
      <4> DEFINE j == k - n
      <4>1. j \in 1..(l - n) /\ n + j = k
        BY <2>7, <3>2
      <4> HIDE DEF j
      <4>2. u[n + j] = g[j]
        BY <2>5, <2>6, <4>1, Zenon
      <4>3. g[j] = wire[n + j]
        BY <2>4, <4>1, Zenon DEF l
      <4> QED
        BY <4>1, <4>2, <4>3, Zenon
    <3> QED
      BY <3>1, <3>2
  <2>10. u = wire
    <3>1. u \in Seq(Byte) /\ Len(u) = Len(wire)
      BY <2>6, <2>8 DEF l
    <3>2. \A k \in 1..Len(u) : u[k] = wire[k]
      BY <2>8, <2>9
    <3> QED
      BY <2>2, <3>1, <3>2, SeqEqual
  <2>11. (buffer \o f) \o g = buffer \o (f \o g)
    <3>1. buffer \in Seq(Byte) /\ f \in Seq(Byte) /\ g \in Seq(Byte)
      BY <2>2, <2>5
    <3> QED
      BY <3>1, ConcatAssociative
  <2>12. buffer' \o wire' = buffer \o wire
    BY <1>1, <2>10, <2>11, Zenon DEF u
  <2>13. buffer' \in Seq(Byte)
    <3>1. buffer \o f \in Seq(Byte)
      BY <2>2, <2>5, JoinFacts
    <3> QED
      BY <1>1, <3>1
  <2>14. wire' \in Seq(Byte) /\ Len(wire') <= SocketSize
    <3>1. l <= SocketSize
      BY <2>2 DEF l
    <3>2. l - n <= SocketSize
      BY <2>7, <3>1, StreamAssumption
    <3> QED
      BY <1>1, <2>5, <3>2
  <2> QED
    BY <1>1, <2>1, <2>12, <2>13, <2>14 DEF Whole
<1> QED
  BY <1>1, <1>2 DEF StreamInv

\* Starting to read, and reading nothing.
LEMMA IdleStep ==
  ASSUME NEW Byte, StreamInv(Byte), ReceiveNothing \/ ReceiveMore
  PROVE  StreamInv(Byte)' /\ UNCHANGED <<sent, handled, spoiled>>
<1>1. UNCHANGED <<sent, posted, waiting, spoiled, wire, buffer, handled>>
  BY DEF ReceiveNothing, ReceiveMore, sendVars
<1>2. Whole(Byte) => Whole(Byte)'
  BY <1>1 DEF Whole
<1> QED
  BY <1>1, <1>2 DEF StreamInv

\* The message handed on is the next message sent.
LEMMA HandleStep ==
  ASSUME NEW Byte, StreamInv(Byte), HandleMessage
  PROVE  StreamInv(Byte)' /\ (Stream!Handle \/ Stream!Spoiled)
<1>1. /\ is_complete_message(buffer)
      /\ handled' = Append(handled, SubSeq(buffer, 1, MessageSize(buffer)))
      /\ buffer' = Drop1(buffer, MessageSize(buffer))
      /\ sent' = sent /\ posted' = posted /\ waiting' = waiting
      /\ spoiled' = spoiled /\ wire' = wire
  BY DEF HandleMessage, sendVars
<1>2. spoiled \in BOOLEAN /\ sent \in Seq(Seq(Byte))
  BY DEF StreamInv
<1>3. CASE spoiled
  BY <1>1, <1>2, <1>3, SpoiledStep
<1>4. CASE ~spoiled
  <2>1. Whole(Byte)
    BY <1>4 DEF StreamInv
  <2>2. /\ handled \in Seq(Seq(Byte)) /\ buffer \in Seq(Byte) /\ wire \in Seq(Byte)
    BY <2>1 DEF Whole
  <2>3. PICK off, p : /\ Unwritten(posted, waiting, p)
                      /\ Aligned(Byte, sent, off, Len(handled), buffer \o wire, p)
    BY <2>1 DEF Whole
  <2> DEFINE h == Len(handled)
             m == sent[h + 1]
             z == MessageSize(buffer)
  <2>4. /\ h < Len(sent) /\ z \in 0..Len(buffer) /\ SubSeq(buffer, 1, z) = m
        /\ Aligned(Byte, sent, off, h + 1, Drop1(buffer, z) \o wire, p)
    BY <1>1, <2>2, <2>3, Handling
  <2>5. handled' = Append(handled, m)
    BY <1>1, <2>4
  <2>6. m \in Seq(Byte)
    <3>1. h \in Nat /\ Len(sent) \in Nat
      BY <1>2, <2>2
    <3>2. h + 1 \in 1..Len(sent)
      BY <2>4, <3>1
    <3> QED
      BY <1>2, <3>2, ElementOfSeq
  <2>7. handled' \in Seq(Seq(Byte)) /\ Len(handled') = h + 1
    <3> HIDE DEF m
    <3>1. /\ Append(handled, m) \in Seq(Seq(Byte))
          /\ Len(Append(handled, m)) = Len(handled) + 1
      BY <2>2, <2>6, AppendFacts
    <3> QED
      BY <2>5, <3>1
  <2>8. buffer' \in Seq(Byte)
    <3>1. Drop1(buffer, z) \in Seq(Byte)
      <4> HIDE DEF z
      <4> QED
        BY <2>2, <2>4, CutFacts
    <3> QED
      BY <1>1, <3>1
  <2>9. Aligned(Byte, sent', off, Len(handled'), buffer' \o wire', p)
    BY <1>1, <2>4, <2>7
  <2>10. Unwritten(posted', waiting', p)
    BY <1>1, <2>3
  <2>11. Whole(Byte)'
    BY <1>1, <2>1, <2>7, <2>8, <2>9, <2>10 DEF Whole
  <2>12. StreamInv(Byte)'
    BY <1>1, <1>2, <2>11 DEF StreamInv
  <2>13. Stream!Handle
    BY <1>1, <1>4, <2>4, <2>5 DEF Stream!Handle
  <2> QED
    BY <2>12, <2>13
<1> QED
  BY <1>2, <1>3, <1>4

-----------------------------------------------------------------------------
(* The refinement.                                                         *)

LEMMA StreamInvInit ==
  ASSUME NEW Byte, StreamInit
  PROVE  StreamInv(Byte)
<1> USE DEF StreamInit
<1> DEFINE off == [i \in 0..0 |-> 0]
           e == <<>>
<1>1. /\ e \in Seq(Seq(Byte)) /\ e \in Seq(Byte) /\ e \in Seq(Write(Byte))
      /\ Len(e) = 0 /\ e \o e = e
  <2>1. e \in Seq(Byte) /\ e \in Seq(Seq(Byte)) /\ e \in Seq(Write(Byte)) /\ Len(e) = 0
    OBVIOUS
  <2>2. e \o e = e
    BY <2>1, ConcatEmptySeq
  <2> QED
    BY <2>1, <2>2
<1>2. off \in [0..0 -> Nat] /\ off[0] = 0
  OBVIOUS
<1>3. sent = e /\ posted = e /\ waiting = e /\ wire = e /\ buffer = e /\ handled = e
      /\ spoiled = FALSE
  OBVIOUS
<1> HIDE DEF e, off, StreamInit
<1>4. Unwritten(e, e, e)
  BY <1>1 DEF Unwritten
<1>5. Offsets(e, off)
  BY <1>1, <1>2 DEF Offsets
<1>6. Carries(e, off, 0, e)
  BY <1>1 DEF Carries
<1>7. Continues(e, off, off[0] + Len(e), e)
  <2>1. off[0] + Len(e) = off[Len(e)] /\ Len(e) <= Len(e)
    BY <1>1, <1>2
  <2>2. e = <<>>
    BY DEF e
  <2> QED
    BY <1>1, <2>1, <2>2 DEF Continues
<1>8. Aligned(Byte, e, off, 0, e, e)
  BY <1>1, <1>5, <1>6, <1>7 DEF Aligned
<1>9. Aligned(Byte, e, off, Len(e), e \o e, e)
  BY <1>1, <1>8
<1>10. Len(e) <= SocketSize /\ Len(e) <= 1
  BY <1>1, StreamAssumption
<1>11. Whole(Byte)
  BY <1>1, <1>3, <1>4, <1>9, <1>10 DEF Whole
<1> QED
  BY <1>1, <1>3, <1>11 DEF StreamInv

\* For every set M of messages whose length field is right, every size of the
\* socket and of the receive buffer, and whatever pieces the connection takes
\* and delivers: as long as writes do not overlap and no freed memory is
\* written, handle_session_receive hands on the messages given to
\* send_session_message, whole, once each and in order.
THEOREM DeliversInOrder ==
  ASSUME NEW Byte, NEW M \in SUBSET Seq(Byte), \A m \in M : Framed(m)
  PROVE  StreamSpec(M) => DeliversMessages
<1>1. StreamInit => StreamInv(Byte) /\ Stream!Init
  <2>1. StreamInit => StreamInv(Byte)
    BY StreamInvInit
  <2>2. StreamInit => Stream!Init
    BY DEF StreamInit, Stream!Init
  <2> QED
    BY <2>1, <2>2
<1>2. StreamInv(Byte) /\ [StreamNext(M)]_streamVars
      => StreamInv(Byte)' /\ [Stream!Next]_<<sent, handled, spoiled>>
  <2> SUFFICES ASSUME StreamInv(Byte), [StreamNext(M)]_streamVars
               PROVE  StreamInv(Byte)' /\ [Stream!Next]_<<sent, handled, spoiled>>
    OBVIOUS
  <2>1. ASSUME NEW m \in M, NEW kept \in BOOLEAN, send_session_message(m, kept)
        PROVE  StreamInv(Byte)' /\ Stream!Send
    <3>1. m \in Seq(Byte) /\ Framed(m)
      OBVIOUS
    <3> QED
      BY <2>1, <3>1, SendStep
  <2>2. CASE ContinueWrite
    BY <2>2, ContinueStep DEF Stream!Next
  <2>3. CASE SocketReady
    BY <2>3, ReadyStep DEF Stream!Next
  <2>4. ASSUME NEW n \in 1..Len(wire), Receive(n)
        PROVE  StreamInv(Byte)' /\ UNCHANGED <<sent, handled, spoiled>>
    BY <2>4, ReceiveStep
  <2>5. CASE ReceiveNothing \/ ReceiveMore
    BY <2>5, IdleStep
  <2>6. CASE HandleMessage
    BY <2>6, HandleStep DEF Stream!Next
  <2>7. CASE UNCHANGED streamVars
    <3>1. Whole(Byte) => Whole(Byte)'
      BY <2>7 DEF Whole, streamVars
    <3> QED
      BY <2>7, <3>1 DEF StreamInv, streamVars
  <2> QED
    BY <2>1, <2>2, <2>3, <2>4, <2>5, <2>6, <2>7
       DEF StreamNext, SenderNext, ReceiverNext, Stream!Next
<1> QED
  BY <1>1, <1>2, PTL DEF StreamSpec, DeliversMessages, Stream!Spec

=============================================================================
