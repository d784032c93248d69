---------------------------- MODULE ChainFacts ------------------------------
(***************************************************************************)
(* The inductive invariant of module Chain, and what follows from it about *)
(* segments, files and the step of a handler that returns; before it, what *)
(* the calls of module Storage do to the contents of segment files.        *)
(***************************************************************************)
EXTENDS Chain, TLAPS

\* A leaf with no prover named may take each prover this long (in seconds).
USE ZenonT(20), SMTT(40)

\* The frames of a file follow one another behind the header.
Ordered(frames) ==
  /\ \A k \in 1..Len(frames) : frames[k].end >= HeaderSize
  /\ \A j, k \in 1..Len(frames) : j < k => frames[j].end <= frames[k].end

\* The first n frames, as far as the file has them, end at off at the latest.
EndsBy(frames, n, off) ==
  \A k \in 1..Len(frames) : k <= n => frames[k].end <= off

\* A batch has a frame, and its running totals grow.
LEMMA BatchTotals ==
  ASSUME NEW b, IsBatch(b)
  PROVE  /\ b \in Seq(Nat)
         /\ Len(b) \in Nat /\ Len(b) > 0
         /\ AppendSize(b) \in Nat
         /\ \A i \in 1..Len(b) : b[i] \in Nat /\ b[i] <= AppendSize(b)
         /\ \A i, j \in 1..Len(b) : i < j => b[i] <= b[j]
<1>1. b \in Seq(Nat) /\ Len(b) \in Nat /\ Len(b) > 0 /\ Len(b) \in 1..Len(b)
  BY DEF IsBatch
<1>2. \A i \in 1..Len(b) : b[i] \in Nat
  BY <1>1
<1>3. \A i, j \in 1..Len(b) : i < j => b[i] <= b[j]
  BY <1>2 DEF IsBatch, FrameHeaderSize
<1>4. \A i \in 1..Len(b) : b[i] <= b[Len(b)]
  BY <1>1, <1>2, <1>3
<1> QED BY <1>1, <1>2, <1>3, <1>4 DEF AppendSize

\* A part of a sequence.
LEMMA SubSeqFacts ==
  ASSUME NEW S, NEW s \in Seq(S), NEW m \in Nat \ {0}, NEW n \in 0..Len(s)
  PROVE  /\ SubSeq(s, m, n) \in Seq(S)
         /\ m <= n + 1 => Len(SubSeq(s, m, n)) = n - m + 1
         /\ \A i \in 1..(n - m + 1) : SubSeq(s, m, n)[i] = s[m + i - 1]
OBVIOUS

\* Two sequences put together.
LEMMA ConcatFacts ==
  ASSUME NEW S, NEW s \in Seq(S), NEW t \in Seq(S)
  PROVE  /\ s \o t \in Seq(S) /\ Len(s \o t) = Len(s) + Len(t)
         /\ \A i \in 1..(Len(s) + Len(t)) :
              (s \o t)[i] = IF i <= Len(s) THEN s[i] ELSE t[i - Len(s)]
OBVIOUS

\* A function on 1..n is a sequence.
LEMMA FunctionIsSeq ==
  ASSUME NEW n \in Nat, NEW S, NEW f \in [1..n -> S]
  PROVE  f \in Seq(S) /\ Len(f) = n
OBVIOUS

\* A sequence without its first element.
LEMMA TailFacts ==
  ASSUME NEW S, NEW s \in Seq(S), Len(s) > 1
  PROVE  /\ Tail(s) \in Seq(S) /\ Len(Tail(s)) = Len(s) - 1 /\ Tail(s) # <<>>
         /\ \A i \in 1..(Len(s) - 1) : Tail(s)[i] = s[1 + i]
<1>1. /\ Tail(s) \in Seq(S) /\ Len(Tail(s)) = Len(s) - 1
      /\ \A i \in 1..(Len(s) - 1) : Tail(s)[i] = s[1 + i]
  OBVIOUS
<1>2. Tail(s) # <<>>
  <2>1. Len(s) \in Nat
    OBVIOUS
  <2>2. Len(Tail(s)) # 0
    BY ONLY <1>1, <2>1, Len(s) > 1
  <2>3. Len(<<>>) = 0
    OBVIOUS
  <2> QED BY <2>2, <2>3, Zenon
<1> QED BY <1>1, <1>2, Zenon

\* New frames behind the first n of F, and then with what F has behind those.
Overlaid(F, n, new) == SubSeq(F, 1, n) \o new

Spliced(F, n, new) == Overlaid(F, n, new) \o SubSeq(F, n + Len(new) + 1, Len(F))

\* Where the frames of both come from.
IsSplice(F, n, new, G, H) ==
  /\ G \in Seq(Frame) /\ Len(G) = n + Len(new)
  /\ \A q \in 1..Len(G) : G[q] = IF q <= n THEN F[q] ELSE new[q - n]
  /\ H \in Seq(Frame)
  /\ n + Len(new) <= Len(F) =>
       /\ Len(H) = Len(F)
       /\ \A q \in 1..Len(F) :
            H[q] = IF q > n /\ q <= n + Len(new) THEN new[q - n] ELSE F[q]

\* Overlaid and Spliced are what their names say.
LEMMA Splice ==
  ASSUME NEW F \in Seq(Frame), NEW n \in 0..Len(F), NEW new \in Seq(Frame)
  PROVE  IsSplice(F, n, new, Overlaid(F, n, new), Spliced(F, n, new))
<1> DEFINE A == SubSeq(F, 1, n)
           m == n + Len(new)
           B == SubSeq(F, m + 1, Len(F))
           G == Overlaid(F, n, new)
           H == Spliced(F, n, new)
<1>0. Len(F) \in Nat /\ Len(new) \in Nat /\ n \in Nat /\ m \in Nat
  OBVIOUS
<1>1. /\ A \in Seq(Frame) /\ Len(A) = n
      /\ \A q \in 1..n : A[q] = F[q]
  BY <1>0, SubSeqFacts, SMTT(20)
<1>2. /\ B \in Seq(Frame)
      /\ m <= Len(F) => Len(B) = Len(F) - m /\ \A q \in 1..(Len(F) - m) : B[q] = F[m + q]
  <2>1. m + 1 \in Nat \ {0} /\ Len(F) \in 0..Len(F)
    BY <1>0
  <2> HIDE DEF m
  <2> QED BY <1>0, <2>1, SubSeqFacts, SMTT(20)
<1>3. /\ G \in Seq(Frame) /\ Len(G) = m
      /\ \A q \in 1..m : G[q] = IF q <= n THEN A[q] ELSE new[q - n]
  <2>1. /\ A \o new \in Seq(Frame)
        /\ Len(A \o new) = Len(A) + Len(new)
        /\ \A i \in 1..(Len(A) + Len(new)) :
             (A \o new)[i] = IF i <= Len(A) THEN A[i] ELSE new[i - Len(A)]
    BY <1>1, ConcatFacts, Zenon
  <2> QED BY <1>0, <1>1, <2>1 DEF Overlaid
<1>4. /\ H \in Seq(Frame) /\ Len(H) = m + Len(B)
      /\ \A q \in 1..(m + Len(B)) : H[q] = IF q <= m THEN G[q] ELSE B[q - m]
  <2>0. H = G \o B
    BY DEF Spliced
  <2> HIDE DEF B, G, H
  <2>1. /\ G \o B \in Seq(Frame)
        /\ Len(G \o B) = Len(G) + Len(B)
        /\ \A i \in 1..(Len(G) + Len(B)) :
             (G \o B)[i] = IF i <= Len(G) THEN G[i] ELSE B[i - Len(G)]
    BY <1>2, <1>3, ConcatFacts, Zenon
  <2> QED BY <1>3, <2>0, <2>1
<1>5. \A q \in 1..m : G[q] = IF q <= n THEN F[q] ELSE new[q - n]
  BY <1>0, <1>1, <1>3, SMTT(20)
<1>6. ASSUME m <= Len(F)
      PROVE  /\ Len(H) = Len(F)
             /\ \A q \in 1..Len(F) : H[q] = IF q > n /\ q <= m THEN new[q - n] ELSE F[q]
  <2> HIDE DEF A, B, G, H, m
  <2>1. Len(B) = Len(F) - m /\ Len(H) = Len(F)
    BY <1>0, <1>2, <1>4, <1>6
  <2>2. ASSUME NEW q \in 1..Len(F), q <= m
        PROVE  H[q] = IF q > n /\ q <= m THEN new[q - n] ELSE F[q]
    BY <2>1, <2>2, <1>0, <1>1, <1>3, <1>4, SMTT(20)
  <2>3. ASSUME NEW q \in 1..Len(F), q > m
        PROVE  H[q] = F[q]
    <3>1. q - m \in 1..(Len(F) - m)
      BY <2>3, <1>0
    <3>2. H[q] = B[q - m]
      BY <2>1, <2>3, <1>0, <1>4
    <3>3. B[q - m] = F[m + (q - m)]
      BY <3>1, <1>2, <1>6
    <3> QED BY <3>2, <3>3, <1>0, <2>3
  <2> QED BY <2>1, <2>2, <2>3, <1>0
<1> HIDE DEF G, H
<1>7. /\ G \in Seq(Frame) /\ Len(G) = n + Len(new)
      /\ H \in Seq(Frame)
  BY <1>3, <1>4
<1> QED BY <1>5, <1>6, <1>7 DEF G, H, IsSplice

\* The frames of a file have an end.
LEMMA FileFacts ==
  ASSUME NEW f \in File
  PROVE  /\ f.frames \in Seq(Frame) /\ Len(f.frames) \in Nat /\ f.size \in Nat
         /\ \A k \in 1..Len(f.frames) : f.frames[k] \in Frame /\ f.frames[k].end \in Nat
<1>1. f.frames \in Seq(Frame) /\ f.size \in Nat
  BY DEF File
<1>2. \A k \in 1..Len(f.frames) : f.frames[k] \in Frame
  BY <1>1
<1>3. \A x \in Frame : x.end \in Nat
  BY DEF Frame
<1> QED BY <1>1, <1>2, <1>3

\* offsetForIndex gives an offset behind the header and behind the frames
\* before the one asked for.
LEMMA OffsetFacts ==
  ASSUME NEW f \in File, Ordered(f.frames), NEW n \in 0..Len(f.frames)
  PROVE  /\ OffsetForIndex(f, n) \in Nat
         /\ OffsetForIndex(f, n) >= HeaderSize
         /\ EndsBy(f.frames, n, OffsetForIndex(f, n))
<1>1. f.frames \in Seq(Frame) /\ \A k \in 1..Len(f.frames) : f.frames[k].end \in Nat
  BY FileFacts
<1>2. CASE n = 0
  BY <1>1, <1>2 DEF OffsetForIndex, EndsBy, HeaderSize
<1>3. CASE n # 0
  <2>1. n \in 1..Len(f.frames)
    BY <1>1, <1>3
  <2>2. \A k \in 1..Len(f.frames) : k <= n => f.frames[k].end <= f.frames[n].end
    BY <1>1, <2>1 DEF Ordered
  <2> QED BY <1>1, <1>3, <2>1, <2>2 DEF OffsetForIndex, EndsBy, Ordered
<1> QED BY <1>2, <1>3

\* File.Truncate leaves a prefix of the frames.
LEMMA TruncatedFile ==
  ASSUME NEW f \in File, Ordered(f.frames), NEW n \in Nat, NEW off \in Nat
  PROVE  /\ Truncated(f, n, off) \in File
         /\ Ordered(Truncated(f, n, off).frames)
         /\ \A m, e \in Nat : EndsBy(f.frames, m, e) => EndsBy(Truncated(f, n, off).frames, m, e)
         /\ n <= Len(f.frames) => Len(Truncated(f, n, off).frames) = n
<1> DEFINE g == Truncated(f, n, off)
<1>1. f.frames \in Seq(Frame) /\ Len(f.frames) \in Nat
  BY DEF File
<1>2. CASE n <= Len(f.frames)
  <2>1. /\ SubSeq(f.frames, 1, n) \in Seq(Frame)
        /\ Len(SubSeq(f.frames, 1, n)) = n
        /\ \A k \in 1..n : SubSeq(f.frames, 1, n)[k] = f.frames[k]
    <3>1. n \in 0..Len(f.frames) /\ 1 \in Nat \ {0} /\ n - 1 + 1 = n
      BY <1>1, <1>2
    <3> QED BY <1>1, <3>1, SubSeqFacts, SMTT(20)
  <2>2. g \in File /\ g.frames = SubSeq(f.frames, 1, n)
    BY <1>2, <2>1, Zenon DEF Truncated, File, TailStates
  <2> HIDE DEF g
  <2>3. \A k \in 1..Len(g.frames) : k \in 1..Len(f.frames) /\ g.frames[k] = f.frames[k]
    BY <1>1, <1>2, <2>1, <2>2
  <2>4. Ordered(g.frames)
    BY <2>3, Zenon DEF Ordered
  <2>5. \A m, e \in Nat : EndsBy(f.frames, m, e) => EndsBy(g.frames, m, e)
    BY <2>3 DEF EndsBy
  <2> QED BY <2>1, <2>2, <2>4, <2>5 DEF g
<1>3. CASE ~(n <= Len(f.frames))
  <2>1. g \in File /\ g.frames = f.frames
    BY <1>3, Zenon DEF Truncated, File, TailStates
  <2> QED BY <1>3, <2>1
<1> QED BY <1>2, <1>3

\* A write of the first j frames of a batch behind the first n of a file leaves
\* those alone, and its own end where the batch says.
LEMMA WrittenFile ==
  ASSUME NEW f \in File, Ordered(f.frames), NEW n \in Nat, NEW off \in Nat, off >= HeaderSize,
         EndsBy(f.frames, n, off),
         NEW b, IsBatch(b), NEW id \in Nat, NEW j \in 0..Len(b), NEW k \in Nat
  PROVE  LET g == Written(f, n, off, b, id, j, k)
         IN /\ g \in File
            /\ Ordered(g.frames)
            /\ EndsBy(g.frames, n, off)
            /\ EndsBy(g.frames, n + j, off + SizeOfFirst(b, j))
<1> DEFINE F == f.frames
           new == [i \in 1..j |-> [id |-> id + i, end |-> off + b[i]]]
           end == off + SizeOfFirst(b, j)
           size == IF f.size > end + k THEN f.size ELSE end + k
           G == SubSeq(F, 1, n) \o new
           H == G \o SubSeq(F, n + j + 1, Len(F))
           aligned == n + j <= Len(F) /\ OffsetForIndex(f, n + j) = end
           g == Written(f, n, off, b, id, j, k)
<1>1. /\ F \in Seq(Frame) /\ Len(F) \in Nat
      /\ \A q \in 1..Len(F) : F[q].end \in Nat
      /\ f.size \in Nat
  BY FileFacts
<1>2. SizeOfFirst(b, j) \in Nat /\ end \in Nat /\ off <= end /\ size \in Nat
  <2>1. SizeOfFirst(b, j) \in Nat
    BY BatchTotals DEF SizeOfFirst
  <2> QED BY <1>1, <2>1
<1>3. /\ new \in Seq(Frame) /\ Len(new) = j
      /\ \A i \in 1..j : new[i].end = off + b[i] /\ new[i].end \in Nat /\ new[i].end <= end
      /\ \A i, q \in 1..j : i < q => new[i].end <= new[q].end
  <2>1. \A i \in 1..j : i \in 1..Len(b) /\ b[i] \in Nat /\ b[i] <= SizeOfFirst(b, j)
    BY BatchTotals DEF SizeOfFirst
  <2>2. \A i \in 1..j : [id |-> id + i, end |-> off + b[i]] \in Frame
    BY <2>1 DEF Frame
  <2>3. new \in Seq(Frame) /\ Len(new) = j
    BY <2>2, FunctionIsSeq, SMTT(20)
  <2>4. \A i, q \in 1..j : i < q => b[i] <= b[q]
    BY <2>1, BatchTotals
  <2>5. \A i \in 1..j : new[i].end = off + b[i]
    OBVIOUS
  <2> HIDE DEF new
  <2>6. \A i \in 1..j : new[i].end \in Nat /\ new[i].end <= end
    <3> SUFFICES ASSUME NEW i \in 1..j
                 PROVE  new[i].end \in Nat /\ new[i].end <= end
      OBVIOUS
    <3>1. b[i] \in Nat /\ b[i] <= SizeOfFirst(b, j) /\ new[i].end = off + b[i]
      BY <2>1, <2>5, Zenon
    <3> QED BY ONLY <3>1, <1>2, off \in Nat, SMTT(30)
  <2>7. \A i, q \in 1..j : i < q => new[i].end <= new[q].end
    <3> SUFFICES ASSUME NEW i \in 1..j, NEW q \in 1..j, i < q
                 PROVE  new[i].end <= new[q].end
      OBVIOUS
    <3>1. b[i] \in Nat /\ b[q] \in Nat /\ b[i] <= b[q]
      BY <2>1, <2>4, Zenon
    <3>2. new[i].end = off + b[i] /\ new[q].end = off + b[q]
      BY <2>5, Zenon
    <3> QED BY ONLY <3>1, <3>2, off \in Nat
  <2> QED BY <2>3, <2>5, <2>6, <2>7
<1>4. CASE n > Len(F)
  <2>1. g \in File /\ g.frames = F
    BY <1>1, <1>2, <1>4, Zenon DEF Written, File, TailStates
  <2>2. EndsBy(F, n + j, off + SizeOfFirst(b, j))
    BY <1>1, <1>2, <1>4, SMTT(40) DEF EndsBy
  <2> QED BY <2>1, <2>2
<1>5. ASSUME n <= Len(F)
      PROVE  /\ G \in Seq(Frame) /\ H \in Seq(Frame)
             /\ Ordered(G) /\ EndsBy(G, n, off) /\ EndsBy(G, n + j, end)
             /\ n + j <= Len(F) /\ OffsetForIndex(f, n + j) = end =>
                  Ordered(H) /\ EndsBy(H, n, off) /\ EndsBy(H, n + j, end)
  <2>1. /\ G \in Seq(Frame) /\ Len(G) = n + j
        /\ \A q \in 1..Len(G) : G[q] = IF q <= n THEN F[q] ELSE new[q - n]
        /\ H \in Seq(Frame)
        /\ n + j <= Len(F) =>
             /\ Len(H) = Len(F)
             /\ \A q \in 1..Len(F) : H[q] = IF q > n /\ q <= n + j THEN new[q - n] ELSE F[q]
    <3>1. n \in 0..Len(F)
      BY <1>1, <1>5
    <3> HIDE DEF F, new
    <3>2. F \in Seq(Frame) /\ new \in Seq(Frame) /\ Len(new) = j
      BY <1>1, <1>3
    <3>3. G = Overlaid(F, n, new) /\ H = Spliced(F, n, new)
      BY <3>2 DEF Overlaid, Spliced
    <3> HIDE DEF G, H
    <3>4. IsSplice(F, n, new, G, H)
      BY <3>1, <3>2, <3>3, Splice
    <3> QED BY <3>2, <3>4, Zenon DEF IsSplice
  <2> HIDE DEF F, new, end, G, H
  <2>2. \A q \in 1..Len(F) : /\ q <= n => F[q].end <= off
                             /\ F[q].end >= HeaderSize
    BY DEF EndsBy, Ordered, F
  <2>3. \A p, q \in 1..Len(F) : p < q => F[p].end <= F[q].end
    BY DEF Ordered, F
  <2>4. \A q \in 1..Len(G) : /\ q <= n => q \in 1..Len(F) /\ G[q] = F[q]
                             /\ q > n => q - n \in 1..j /\ G[q] = new[q - n]
    BY <2>1, <1>1, <1>5
  <2>5. \A i \in 1..j : new[i].end >= off
    <3> SUFFICES ASSUME NEW i \in 1..j
                 PROVE  new[i].end >= off
      OBVIOUS
    <3>1. i \in 1..Len(b) /\ new[i].end = off + b[i]
      BY <1>3
    <3>2. b[i] \in Nat
      BY <3>1, BatchTotals
    <3> QED BY ONLY <3>1, <3>2, off \in Nat
  <2>6. Ordered(G) /\ EndsBy(G, n, off) /\ EndsBy(G, n + j, end)
    <3>1. \A q \in 1..Len(G) : G[q].end \in Nat /\ G[q].end >= HeaderSize /\ G[q].end <= end
      <4> SUFFICES ASSUME NEW q \in 1..Len(G)
                   PROVE  G[q].end \in Nat /\ G[q].end >= HeaderSize /\ G[q].end <= end
        OBVIOUS
      <4>1. CASE q <= n
        BY <4>1, <2>2, <2>4, <1>1, <1>2, SMTT(30) DEF HeaderSize
      <4>2. CASE q > n
        BY <4>2, <2>4, <2>5, <1>2, <1>3, SMTT(20) DEF HeaderSize
      <4> QED BY <4>1, <4>2, <2>1
    <3>2. \A p, q \in 1..Len(G) : p < q => G[p].end <= G[q].end
      <4> SUFFICES ASSUME NEW p \in 1..Len(G), NEW q \in 1..Len(G), p < q
                   PROVE  G[p].end <= G[q].end
        OBVIOUS
      <4>1. CASE q <= n
        <5>1. p <= n
          BY <4>1, <1>1, <2>1
        <5>2. /\ p \in 1..Len(F) /\ q \in 1..Len(F)
              /\ G[p] = F[p] /\ G[q] = F[q]
          BY <4>1, <5>1, <2>4
        <5> QED BY <2>3, <5>2
      <4>2. CASE p <= n /\ q > n
        <5>1. G[p].end \in Nat /\ G[p].end <= off
          BY <4>2, <2>2, <2>4, <1>1
        <5>2. G[q].end \in Nat /\ G[q].end >= off
          BY <4>2, <2>4, <2>5, <1>3
        <5> QED BY <5>1, <5>2
      <4>3. CASE p > n
        <5>1. p - n \in 1..j /\ q - n \in 1..j /\ G[p] = new[p - n] /\ G[q] = new[q - n]
          BY <4>3, <2>4, <2>1, SMTT(20)
        <5>2. p - n < q - n
          BY <4>3, <2>1
        <5> QED BY <5>1, <5>2, <1>3, Zenon
      <4> QED BY <4>1, <4>2, <4>3, <2>1, SMTT(20)
    <3> QED BY <3>1, <3>2, <2>2, <2>4 DEF Ordered, EndsBy
  <2>7. ASSUME n + j <= Len(F), OffsetForIndex(f, n + j) = end
        PROVE  Ordered(H) /\ EndsBy(H, n, off) /\ EndsBy(H, n + j, end)
    <3>0. /\ Len(H) = Len(F)
          /\ \A q \in 1..Len(F) : \/ q > n /\ q <= n + j /\ q - n \in 1..j /\ H[q] = new[q - n]
                                  \/ (q <= n \/ q > n + j) /\ H[q] = F[q]
      BY <2>1, <2>7, <1>1, SMTT(20)
    <3>1. \A q \in 1..Len(F) : q > n + j => F[q].end >= end
      <4>1. CASE n + j = 0
        BY <4>1, <2>2, <2>7 DEF OffsetForIndex
      <4>2. CASE n + j # 0
        BY <4>2, <2>3, <2>7, <1>1 DEF OffsetForIndex, F
      <4> QED BY <4>1, <4>2
    <3>2. \A q \in 1..Len(F) :
            /\ H[q].end \in Nat /\ H[q].end >= HeaderSize
            /\ q <= n => H[q].end <= off
            /\ q > n /\ q <= n + j => H[q].end >= off
            /\ q <= n + j => H[q].end <= end
            /\ q > n + j => H[q].end >= end
      <4> SUFFICES ASSUME NEW q \in 1..Len(F)
                   PROVE  /\ H[q].end \in Nat /\ H[q].end >= HeaderSize
                          /\ q <= n => H[q].end <= off
                          /\ q > n /\ q <= n + j => H[q].end >= off
                          /\ q <= n + j => H[q].end <= end
                          /\ q > n + j => H[q].end >= end
        OBVIOUS
      <4>1. CASE q > n /\ q <= n + j
        BY <4>1, <3>0, <2>5, <1>3, SMTT(20) DEF HeaderSize
      <4>2. CASE ~(q > n /\ q <= n + j)
        BY <4>2, <3>0, <3>1, <2>2, <1>1, <1>2 DEF HeaderSize
      <4> QED BY <4>1, <4>2
    <3>3. \A p, q \in 1..Len(F) : p < q => H[p].end <= H[q].end
      <4> SUFFICES ASSUME NEW p \in 1..Len(F), NEW q \in 1..Len(F), p < q
                   PROVE  H[p].end <= H[q].end
        OBVIOUS
      <4>1. CASE q <= n \/ p > n + j
        <5>1. H[p] = F[p] /\ H[q] = F[q]
          BY <4>1, <3>0, <1>1, SMTT(40)
        <5> QED BY <2>3, <5>1
      <4>2. CASE p > n /\ q <= n + j
        <5>1. p - n \in 1..j /\ q - n \in 1..j /\ H[p] = new[p - n] /\ H[q] = new[q - n]
          BY <4>2, <3>0, <1>1
        <5>2. p - n < q - n
          BY <1>1
        <5> QED BY <5>1, <5>2, <1>3, Zenon
      <4>3. CASE p <= n /\ q > n /\ q <= n + j
        BY <4>3, <3>2
      <4>4. CASE p <= n + j /\ q > n + j
        <5>1. /\ H[p].end \in Nat /\ H[p].end <= end
              /\ H[q].end \in Nat /\ H[q].end >= end
          BY <4>4, <3>2
        <5> QED BY ONLY <5>1, <1>2, SMTT(30)
      <4> QED BY <4>1, <4>2, <4>3, <4>4, <1>1
    <3> QED BY <3>0, <3>2, <3>3 DEF Ordered, EndsBy
  <2> QED BY <2>1, <2>6, <2>7
<1>6. CASE n <= Len(F)
  <2>1. g \in File /\ (g.frames = G \/ (aligned /\ g.frames = H))
    <3>1. G \in Seq(Frame) /\ H \in Seq(Frame)
      BY <1>5, <1>6
    <3>2. CASE k = 0 /\ aligned
      <4>1. g = [f EXCEPT !.frames = H]
        BY <3>2, <1>6 DEF Written
      <4> HIDE DEF g, G, H, aligned
      <4> QED BY <4>1, <3>1, <3>2, Zenon DEF File
    <3>3. CASE ~(k = 0 /\ aligned)
      <4> DEFINE whole == IF k > 0 THEN FrameSize(b, j + 1) ELSE FrameHeaderSize
                 tail == IF size - end >= whole THEN "bad" ELSE CutTail(size - end)
      <4>1. g = [f EXCEPT !.frames = G, !.tail = tail, !.size = size]
        BY <3>3, <1>6 DEF Written
      <4>2. tail \in TailStates
        BY DEF TailStates, CutTail
      <4> HIDE DEF g, G, H, tail, size
      <4> QED BY <4>1, <4>2, <3>1, <1>2, Zenon DEF File
    <3> QED BY <3>2, <3>3, Zenon
  <2> HIDE DEF g, G, H, F, end
  <2>2. Ordered(g.frames) /\ EndsBy(g.frames, n, off) /\ EndsBy(g.frames, n + j, end)
    BY <2>1, <1>5, <1>6
  <2> QED BY <2>1, <2>2 DEF g, end
<1> QED BY <1>4, <1>6, <1>1

-----------------------------------------------------------------------------
(***************************************************************************)
(* What the storage calls, and a return, do to the invariant.              *)
(***************************************************************************)
StorageTypes ==
  /\ files \in Seq(File) /\ stable \in Seq(File) /\ Len(stable) = Len(files)
  /\ dir \subseteq 1..Len(files) /\ stableDir \subseteq 1..Len(files)

\* A write replaces one file.
LEMMA FsWriteFacts ==
  ASSUME StorageTypes, NEW n \in 1..Len(files), NEW f \in File, FsWrite(n, f)
  PROVE  /\ StorageTypes' /\ Len(files') = Len(files)
         /\ \A m \in 1..Len(files) : files'[m] = IF m = n THEN f ELSE files[m]
<1>1. /\ files' \in Seq(File) /\ Len(files') = Len(files)
      /\ \A m \in 1..Len(files) : files'[m] = IF m = n THEN f ELSE files[m]
  BY DEF StorageTypes, FsWrite
<1> QED BY <1>1 DEF StorageTypes, FsWrite

\* A created file has no frames.
LEMMA EmptyFileFacts ==
  ASSUME NEW b \in Nat
  PROVE  EmptyFile(b) \in File /\ EmptyFile(b).frames = <<>>
<1>1. <<>> \in Seq(Frame)
  OBVIOUS
<1> QED BY <1>1 DEF EmptyFile, File, HdrStates, TailStates

\* A header leaves the frames alone.
LEMMA HeaderFacts ==
  ASSUME NEW f \in File, NEW h \in HdrStates, NEW size \in Nat
  PROVE  /\ [f EXCEPT !.hdr = h, !.size = size] \in File
         /\ [f EXCEPT !.hdr = h, !.size = size].frames = f.frames
BY Zenon DEF File

\* Create adds a file behind the others.
LEMMA FsCreateFacts ==
  ASSUME StorageTypes, NEW b \in Nat, FsCreate(b)
  PROVE  /\ StorageTypes' /\ Len(files') = Len(files) + 1
         /\ \A m \in 1..Len(files) : files'[m] = files[m]
         /\ files'[Len(files) + 1] = EmptyFile(b)
<1>1. EmptyFile(b) \in File
  BY EmptyFileFacts
<1>2. /\ files' \in Seq(File) /\ Len(files') = Len(files) + 1
      /\ \A m \in 1..Len(files) : files'[m] = files[m]
      /\ files'[Len(files) + 1] = EmptyFile(b)
  BY <1>1 DEF StorageTypes, FsCreate
<1>3. stable' \in Seq(File) /\ Len(stable') = Len(stable) + 1
  BY <1>1 DEF StorageTypes, FsCreate
<1>4. Len(files) \in Nat
  BY DEF StorageTypes
<1>5. dir' \subseteq 1..(Len(files) + 1) /\ stableDir' \subseteq 1..(Len(files) + 1)
  <2>1. \A n \in 1..Len(files) : n \in 1..(Len(files) + 1)
    BY <1>4
  <2>2. Len(files) + 1 \in 1..(Len(files) + 1)
    BY <1>4
  <2>3. dir' = dir \cup {Len(files) + 1} /\ stableDir' = stableDir
    BY DEF FsCreate
  <2>4. dir \subseteq 1..Len(files) /\ stableDir \subseteq 1..Len(files)
    BY DEF StorageTypes
  <2> QED BY <2>1, <2>2, <2>3, <2>4, Zenon
<1> QED BY <1>2, <1>3, <1>5 DEF StorageTypes

-----------------------------------------------------------------------------
(***************************************************************************)
(* The inductive invariant.                                                *)
(***************************************************************************)
\* Every segment has a file of its own and counts at least its header.
SegmentFiles ==
  /\ \A i \in 1..Len(segs) : segs[i].ino \in 1..Len(files) /\ segs[i].writeOffset >= HeaderSize
  /\ \A i, j \in 1..Len(segs) : i < j => segs[i].ino < segs[j].ino

\* A segment's size covers its frames: TruncateAfter never counts a segment
\* bigger than it was.
Covered ==
  /\ \A n \in 1..Len(files) : Ordered(files[n].frames)
  /\ \A i \in 1..Len(segs) :
       EndsBy(files[segs[i].ino].frames, segs[i].writeIndex, segs[i].writeOffset)

\* The segment holds seq.
Holds(s, seq) == StartSequence(s) <= seq /\ seq < NextSequence(s)

Fits(bytes) == MaxDiskSize > 0 => diskSize + bytes <= MaxDiskSize

AppendSteps == {"admit", "reap", "write", "writing", "syncAppend", "trim", "trimSync"}

CreateSteps == {"create", "writeHeader", "syncHeader", "syncDir"}

\* What the handler has established by the time it is at pc.
AppendControl ==
  /\ pc \in AppendSteps => op.kind = "append" /\ op.batch \in Batches /\ segs # <<>>
  /\ pc = "reap" => Len(segs) > 1
  /\ pc \in {"write", "writing", "syncAppend"} => Fits(AppendSize(op.batch))
  /\ pc = "syncAppend" =>
       EndsBy(files[lastSegment.ino].frames, lastSegment.writeIndex + Len(op.batch),
              lastSegment.writeOffset + AppendSize(op.batch))

CreateControl ==
  /\ pc \in CreateSteps =>
       \/ /\ op.kind = "append" /\ op.batch \in Batches /\ segs # <<>>
          /\ op.base = NextSequence(lastSegment)
          /\ MaxSegments > 0 => Len(segs) < MaxSegments
          /\ Fits(HeaderSize + AppendSize(op.batch))
       \/ op.kind = "afterAll" /\ segs = <<>> /\ Fits(HeaderSize)
  /\ pc \in CreateSteps \ {"create"} =>
       /\ Len(files) > 0
       /\ \A i \in 1..Len(segs) : segs[i].ino < Len(files)

DropControl ==
  pc = "drop" =>
    /\ segs # <<>> /\ op.i \in 1..(op.n + 1)
    /\ \/ op.kind = "beforeAll" /\ op.n = Len(segs) - 1
       \/ op.kind = "beforeKeep" /\ op.n < Len(segs) /\ Holds(segs[op.n + 1], op.seq)
       \/ op.kind = "afterAll" /\ op.n = Len(segs) /\ (op.i > 1 => Fits(HeaderSize))
       \/ /\ op.kind = "afterKeep" /\ op.n = Len(segs)
          /\ op.keep \in 1..Len(segs) /\ Holds(segs[op.keep], op.seq)

CutControl ==
  /\ pc \in {"setRead", "setReadSync"} =>
       /\ op.i \in 1..Len(segs) /\ op.n <= segs[op.i].writeIndex
       /\ \/ op.kind = "beforeAll" /\ op.i = Len(segs)
          \/ op.kind = "beforeKeep" /\ op.i = 1
  /\ pc \in {"truncate", "truncateSync"} => segs # <<>> /\ Holds(lastSegment, op.seq)
  /\ pc = "truncateSync" =>
       /\ HeaderSize <= op.n /\ op.n <= lastSegment.writeOffset
       /\ EndsBy(files[lastSegment.ino].frames, keepIdx, op.n)

Control == AppendControl /\ CreateControl /\ DropControl /\ CutControl

IInv ==
  TypeOK /\ SegmentFiles /\ Contiguous /\ Covered /\ RetentionBounds /\ Control

-----------------------------------------------------------------------------
(***************************************************************************)
(* Lemmas about batches, files and segment lists.                          *)
(***************************************************************************)
\* A batch has a frame, and its running totals grow.
LEMMA BatchFacts ==
  ASSUME NEW b \in Batches
  PROVE  /\ b \in Seq(Nat)
         /\ Len(b) \in Nat /\ Len(b) > 0
         /\ AppendSize(b) \in Nat
         /\ \A i \in 1..Len(b) : b[i] \in Nat /\ b[i] <= AppendSize(b)
         /\ \A i, j \in 1..Len(b) : i < j => b[i] <= b[j]
<1>1. IsBatch(b)
  BY InputAssumption
<1> QED BY <1>1, BatchTotals

\* The byte at which the write of a frame of a batch stops.
LEMMA CutsFacts ==
  ASSUME NEW b \in Batches, NEW j \in 0..(Len(b) - 1), NEW k \in {0} \cup Cuts(FrameSize(b, j + 1))
  PROVE  j \in 0..Len(b) /\ j < Len(b) /\ k \in Nat
<1>1. Len(b) \in Nat /\ \A i \in 1..Len(b) : b[i] \in Nat
  BY BatchFacts
<1>2. IsBatch(b) /\ j + 1 \in 1..Len(b)
  BY <1>1, InputAssumption
<1>3. FrameSize(b, j + 1) \in Nat /\ FrameSize(b, j + 1) >= FrameHeaderSize
  <2>1. CASE j = 0
    BY <2>1, <1>1, <1>2 DEF FrameSize, SizeOfFirst, IsBatch, FrameHeaderSize
  <2>2. CASE j # 0
    <3>1. j \in 1..Len(b) /\ j < j + 1 /\ (j + 1) - 1 = j
      BY <2>2, <1>1
    <3>2. b[j + 1] >= b[j] + FrameHeaderSize
      BY <1>2, <3>1 DEF IsBatch
    <3> QED BY <2>2, <3>1, <3>2, <1>1, <1>2 DEF FrameSize, SizeOfFirst, FrameHeaderSize
  <2> QED BY <2>1, <2>2
<1> QED BY <1>1, <1>3 DEF Cuts, FrameHeaderSize

\* The segment sort.Search finds holds seq.
LEMMA KeepIndexFacts ==
  ASSUME NEW seq \in Nat
  PROVE  \/ KeepIndex(seq) = 0
         \/ KeepIndex(seq) \in 1..Len(segs) /\ Holds(segs[KeepIndex(seq)], seq)
<1> DEFINE found == {i \in 1..Len(segs) : /\ NextSequence(segs[i]) > seq
                                          /\ \A j \in 1..(i - 1) : NextSequence(segs[j]) <= seq
                                          /\ StartSequence(segs[i]) <= seq}
<1>1. KeepIndex(seq) = IF found = {} THEN 0 ELSE CHOOSE i \in found : TRUE
  BY DEF KeepIndex
<1>2. \A i \in found : i \in 1..Len(segs) /\ NextSequence(segs[i]) > seq /\ StartSequence(segs[i]) <= seq
  OBVIOUS
<1> HIDE DEF found
<1>3. found # {} => (CHOOSE i \in found : TRUE) \in found
  OBVIOUS
<1>4. KeepIndex(seq) = 0 \/ KeepIndex(seq) \in found
  BY <1>1, <1>3
<1> QED BY <1>2, <1>4 DEF Holds

-----------------------------------------------------------------------------
ChainTypes == segs \in Seq(Segment) /\ diskSize \in Int

HandlerTypes == pc \in Labels /\ op \in Op /\ ret \in Results

HistoryTypes ==
  /\ syncer \in [on : BOOLEAN, todo : Seq(Nat), upto : SUBSET (Nat \X Nat)]
  /\ acked \in SUBSET (Nat \X Nat) /\ durable \in SUBSET (Nat \X Nat)
  /\ nextId \in Nat /\ faults \in Nat

\* The parts of the type invariant.
LEMMA TypeParts ==
  /\ TypeOK <=> StorageTypes /\ ChainTypes /\ HandlerTypes /\ HistoryTypes
  /\ TypeOK' <=> StorageTypes' /\ ChainTypes' /\ HandlerTypes' /\ HistoryTypes'
BY DEF TypeOK, StorageTypes, ChainTypes, HandlerTypes, HistoryTypes

\* The segments, their fields and their files.
LEMMA SegmentFacts ==
  ASSUME IInv, NEW i \in 1..Len(segs)
  PROVE  /\ segs[i] \in Segment
         /\ segs[i].ino \in 1..Len(files) /\ segs[i].base \in Nat /\ segs[i].startIndex \in Nat
         /\ segs[i].writeIndex \in Nat /\ segs[i].writeOffset \in Nat /\ segs[i].open \in BOOLEAN
         /\ segs[i].writeOffset >= HeaderSize
         /\ files[segs[i].ino] \in File /\ Ordered(files[segs[i].ino].frames)
         /\ EndsBy(files[segs[i].ino].frames, segs[i].writeIndex, segs[i].writeOffset)
         /\ NextSequence(segs[i]) \in Nat /\ StartSequence(segs[i]) \in Nat
         /\ segs[i].startIndex <= segs[i].writeIndex
<1>1. segs[i] \in Segment
  BY SMTT(20) DEF IInv, TypeOK
<1>2. /\ segs[i].base \in Nat /\ segs[i].startIndex \in Nat /\ segs[i].writeIndex \in Nat
      /\ segs[i].writeOffset \in Nat /\ segs[i].open \in BOOLEAN
  BY <1>1 DEF Segment
<1>3. segs[i].ino \in 1..Len(files) /\ segs[i].writeOffset >= HeaderSize
  BY DEF IInv, SegmentFiles
<1>4. files[segs[i].ino] \in File
  BY <1>3, SMTT(20) DEF IInv, TypeOK
<1>5. /\ Ordered(files[segs[i].ino].frames)
      /\ EndsBy(files[segs[i].ino].frames, segs[i].writeIndex, segs[i].writeOffset)
  BY <1>3 DEF IInv, Covered
<1>6. segs[i].startIndex <= segs[i].writeIndex
  BY DEF IInv, Contiguous
<1>7. NextSequence(segs[i]) \in Nat /\ StartSequence(segs[i]) \in Nat
  BY <1>2 DEF NextSequence, StartSequence
<1> QED BY <1>1, <1>2, <1>3, <1>4, <1>5, <1>6, <1>7

\* The last segment is one of them.
LEMMA LastFacts ==
  ASSUME IInv, segs # <<>>
  PROVE  Len(segs) \in Nat /\ Len(segs) \in 1..Len(segs) /\ lastSegment = segs[Len(segs)]
BY SMTT(20) DEF IInv, TypeOK, lastSegment

\* Two segments have different files.
LEMMA OwnFiles ==
  ASSUME IInv, NEW i \in 1..Len(segs), NEW j \in 1..Len(segs), i # j
  PROVE  segs[i].ino # segs[j].ino
<1>1. segs[i].ino \in Nat /\ segs[j].ino \in Nat
  BY SegmentFacts, SMTT(20)
<1>2. i < j \/ j < i
  OBVIOUS
<1>3. segs[i].ino < segs[j].ino \/ segs[j].ino < segs[i].ino
  BY <1>2 DEF IInv, SegmentFiles
<1> QED BY <1>1, <1>3

\* The segment's file still has its name.
Live(i) == segs[i].ino \in dir

\* No handle is open on a file that has been removed.
OpenIsLive == \A i \in 1..Len(segs) : segs[i].open => Live(i)

SamePlace(s, t) ==
  /\ s.ino = t.ino /\ s.base = t.base
  /\ s.writeIndex = t.writeIndex /\ s.writeOffset = t.writeOffset

SameButOpen(s, t) == SamePlace(s, t) /\ s.startIndex = t.startIndex

\* Taking segments off either end, closing some and moving the read start of
\* the first keeps what the invariant says about segments.
LEMMA Stretch ==
  ASSUME IInv, NEW a \in Nat, segs' \in Seq(Segment), Len(segs') + a <= Len(segs),
         \A i \in 1..Len(segs') : SamePlace(segs'[i], segs[a + i]),
         \A i \in 1..Len(segs') : segs'[i].startIndex <= segs'[i].writeIndex,
         \A i \in 2..Len(segs') : segs'[i].startIndex = 0,
         Len(files') = Len(files),
         \A n \in 1..Len(files) : files'[n].frames = files[n].frames
  PROVE  SegmentFiles' /\ Contiguous' /\ Covered'
<1>0. Len(segs) \in Nat /\ Len(segs') \in Nat
  BY SMTT(20) DEF IInv, TypeOK
<1>1. \A i \in 1..Len(segs') : a + i \in 1..Len(segs)
  BY <1>0
<1>2. SegmentFiles'
  <2>1. \A i \in 1..Len(segs') : segs'[i].ino = segs[a + i].ino /\ segs'[i].ino \in 1..Len(files)
                                  /\ segs'[i].writeOffset >= HeaderSize
    BY <1>1, SegmentFacts, Zenon DEF SamePlace
  <2>2. ASSUME NEW i \in 1..Len(segs'), NEW j \in 1..Len(segs'), i < j
        PROVE  segs'[i].ino < segs'[j].ino
    <3>1. a + i \in 1..Len(segs) /\ a + j \in 1..Len(segs) /\ a + i < a + j
      BY <1>0, <1>1, <2>2
    <3>2. segs[a + i].ino < segs[a + j].ino
      BY <3>1 DEF IInv, SegmentFiles
    <3> QED BY <2>1, <3>2, Zenon
  <2> QED BY <2>1, <2>2 DEF SegmentFiles
<1>3. Contiguous'
  <2>1. ASSUME NEW i \in 2..Len(segs')
        PROVE  segs'[i].base = NextSequence(segs'[i - 1])
    <3>1. a + i \in 2..Len(segs) /\ i \in 1..Len(segs') /\ i - 1 \in 1..Len(segs')
      BY <1>0, <1>1
    <3>2. segs[a + i].base = NextSequence(segs[(a + i) - 1])
      BY <3>1 DEF IInv, Contiguous
    <3>3. SamePlace(segs'[i], segs[a + i]) /\ SamePlace(segs'[i - 1], segs[a + (i - 1)])
      BY <3>1, Zenon
    <3>4. (a + i) - 1 = a + (i - 1)
      BY <1>0
    <3> QED BY <3>2, <3>3, <3>4 DEF NextSequence, SamePlace
  <2> QED BY <2>1 DEF Contiguous, NextSequence
<1>4. Covered'
  <2>1. \A n \in 1..Len(files') : Ordered(files'[n].frames)
    BY DEF IInv, Covered
  <2>2. ASSUME NEW i \in 1..Len(segs')
        PROVE  EndsBy(files'[segs'[i].ino].frames, segs'[i].writeIndex, segs'[i].writeOffset)
    <3>1. segs[a + i].ino \in 1..Len(files)
      BY <1>1, SegmentFacts
    <3>2. EndsBy(files[segs[a + i].ino].frames, segs[a + i].writeIndex, segs[a + i].writeOffset)
      BY <1>1 DEF IInv, Covered
    <3> QED BY <3>1, <3>2 DEF SamePlace
  <2> QED BY <2>1, <2>2, Zenon DEF Covered, EndsBy, Ordered
<1> QED BY <1>2, <1>3, <1>4

\* The same when no read start moves.
LEMMA Sublist ==
  ASSUME IInv, NEW a \in Nat, segs' \in Seq(Segment), Len(segs') + a <= Len(segs),
         \A i \in 1..Len(segs') : SameButOpen(segs'[i], segs[a + i]),
         Len(files') = Len(files),
         \A n \in 1..Len(files) : files'[n].frames = files[n].frames
  PROVE  SegmentFiles' /\ Contiguous' /\ Covered'
<1>0. Len(segs) \in Nat /\ Len(segs') \in Nat
  BY SMTT(20) DEF IInv, TypeOK
<1>1. \A i \in 1..Len(segs') : a + i \in 1..Len(segs)
  BY <1>0
<1>2. \A i \in 1..Len(segs') : SamePlace(segs'[i], segs[a + i])
  BY DEF SameButOpen, SamePlace
<1>3. \A i \in 1..Len(segs') : segs'[i].startIndex <= segs'[i].writeIndex
  BY <1>1, SegmentFacts, Zenon DEF SameButOpen, SamePlace
<1>4. \A i \in 2..Len(segs') : segs'[i].startIndex = 0
  <2> SUFFICES ASSUME NEW i \in 2..Len(segs')
               PROVE  segs'[i].startIndex = 0
    OBVIOUS
  <2>1. a + i \in 2..Len(segs) /\ i \in 1..Len(segs')
    BY <1>0
  <2> QED BY <2>1, Zenon DEF IInv, Contiguous, SameButOpen
<1> QED BY <1>2, <1>3, <1>4, Stretch

\* A segment whose write position has changed.
LEMMA MovedFacts ==
  ASSUME NEW s \in Segment, NEW n \in Nat, NEW off \in Nat
  PROVE  [s EXCEPT !.writeIndex = n, !.writeOffset = off] \in Segment
BY ZenonT(30) DEF Segment

MovesLast(n, off) ==
  segs' = [segs EXCEPT ![Len(segs)].writeIndex = n, ![Len(segs)].writeOffset = off]

Closes(k) == segs' = [segs EXCEPT ![k].open = FALSE]

\* A segment closed by a truncation loop.
LEMMA ClosedFacts ==
  ASSUME IInv, NEW k \in 1..Len(segs), Closes(k), UNCHANGED files
  PROVE  /\ segs' \in Seq(Segment) /\ Len(segs') = Len(segs)
         /\ \A i \in 1..Len(segs) : SameButOpen(segs'[i], segs[i])
         /\ \A i \in 1..Len(segs) : i # k => segs'[i] = segs[i]
         /\ ~segs'[k].open
         /\ SegmentFiles' /\ Contiguous' /\ Covered'
<1> DEFINE t == [segs[k] EXCEPT !.open = FALSE]
<1>1. t \in Segment /\ SameButOpen(t, segs[k]) /\ ~t.open
  BY SegmentFacts, Zenon DEF Segment, SameButOpen, SamePlace
<1>2. segs \in Seq(Segment) /\ Len(segs) \in Nat
  BY SMTT(20) DEF IInv, TypeOK
<1>3. segs' = [segs EXCEPT ![k] = t]
  BY <1>2 DEF Closes
<1> HIDE DEF t
<1>4. /\ segs' \in Seq(Segment) /\ Len(segs') = Len(segs)
      /\ \A i \in 1..Len(segs) : i # k => segs'[i] = segs[i]
      /\ segs'[k] = t
  BY <1>1, <1>2, <1>3
<1>5. ASSUME NEW i \in 1..Len(segs)
      PROVE  SameButOpen(segs'[i], segs[i])
  <2>1. CASE i = k
    BY <1>1, <1>4, <2>1
  <2>2. CASE i # k
    BY <1>4, <2>2 DEF SameButOpen, SamePlace
  <2> QED BY <2>1, <2>2
<1>6. \A i \in 1..Len(segs') : SameButOpen(segs'[i], segs[0 + i])
  BY <1>4, <1>5
<1>7. 0 \in Nat /\ Len(segs') + 0 <= Len(segs)
  BY <1>2, <1>4
<1>8. SegmentFiles' /\ Contiguous' /\ Covered'
  BY <1>4, <1>6, <1>7, Sublist
<1> QED BY <1>1, <1>4, <1>5, <1>8, Zenon

\* A part of the chain between two of its segments.
LEMMA SegmentsBetween ==
  ASSUME IInv, NEW a \in 1..Len(segs), NEW b \in a..Len(segs)
  PROVE  /\ SubSeq(segs, a, b) \in Seq(Segment) /\ Len(SubSeq(segs, a, b)) = b - a + 1
         /\ \A i \in 1..(b - a + 1) : SubSeq(segs, a, b)[i] = segs[(a - 1) + i]
<1>1. segs \in Seq(Segment) /\ Len(segs) \in Nat
  BY SMTT(20) DEF IInv, TypeOK
<1>2. \A i \in a..b : segs[i] \in Segment
  BY <1>1
<1>3. a \in Int /\ b \in Int /\ a <= b + 1
  BY <1>1
<1>4. /\ SubSeq(segs, a, b) \in Seq(Segment) /\ Len(SubSeq(segs, a, b)) = b - a + 1
      /\ \A i \in 1..(b - a + 1) : SubSeq(segs, a, b)[i] = segs[a + i - 1]
  BY <1>1, <1>3, SubSeqFacts, SMTT(20)
<1>5. \A i \in 1..(b - a + 1) : a + i - 1 = (a - 1) + i
  BY <1>1
<1> QED BY <1>4, <1>5

CutTo(a, b) == segs' = SubSeq(segs, a, b)

\* And what the invariant says about segments holds of it.
LEMMA CutFacts ==
  ASSUME IInv, NEW a \in 1..Len(segs), NEW b \in a..Len(segs), CutTo(a, b), UNCHANGED files
  PROVE  /\ segs' \in Seq(Segment) /\ Len(segs') = b - a + 1 /\ Len(segs') <= Len(segs)
         /\ \A i \in 1..Len(segs') : segs'[i] = segs[(a - 1) + i]
         /\ SegmentFiles' /\ Contiguous' /\ Covered'
<1>1. /\ segs' \in Seq(Segment) /\ Len(segs') = b - a + 1
      /\ \A i \in 1..Len(segs') : segs'[i] = segs[(a - 1) + i]
  BY SegmentsBetween DEF CutTo
<1>2. a - 1 \in Nat /\ Len(segs') + (a - 1) <= Len(segs) /\ Len(segs') <= Len(segs)
  <2>1. Len(segs) \in Nat
    BY SMTT(20) DEF IInv, TypeOK
  <2> QED BY <1>1, <2>1
<1>3. \A i \in 1..Len(segs') : SameButOpen(segs'[i], segs[(a - 1) + i])
  BY <1>1 DEF SameButOpen, SamePlace
<1>4. SegmentFiles' /\ Contiguous' /\ Covered'
  BY <1>1, <1>2, <1>3, Sublist, Zenon
<1> QED BY <1>1, <1>2, <1>4

\* What the loop of a truncation knows.
LEMMA DropFacts ==
  ASSUME IInv, pc = "drop"
  PROVE  /\ segs # <<>> /\ op \in Op /\ Len(segs) \in Nat /\ op.i \in Nat /\ op.n \in Nat /\ op.seq \in Nat
         /\ op.i \in 1..(op.n + 1) /\ op.n <= Len(segs)
         /\ op.kind \in {"beforeAll", "beforeKeep", "afterAll", "afterKeep"}
         /\ op.kind = "beforeKeep" => op.n + 1 \in 1..Len(segs) /\ Holds(segs[op.n + 1], op.seq)
         /\ op.kind = "afterKeep" => op.keep \in 1..Len(segs) /\ Holds(segs[op.keep], op.seq)
<1>1. op \in Op /\ Len(segs) \in Nat /\ op.i \in Nat /\ op.n \in Nat /\ op.seq \in Nat
  BY SMTT(20) DEF IInv, TypeOK, Op
<1>2. /\ segs # <<>> /\ op.i \in 1..(op.n + 1)
      /\ \/ op.kind = "beforeAll" /\ op.n = Len(segs) - 1
         \/ op.kind = "beforeKeep" /\ op.n < Len(segs) /\ Holds(segs[op.n + 1], op.seq)
         \/ op.kind = "afterAll" /\ op.n = Len(segs)
         \/ /\ op.kind = "afterKeep" /\ op.n = Len(segs)
            /\ op.keep \in 1..Len(segs) /\ Holds(segs[op.keep], op.seq)
  BY DEF IInv, Control, DropControl
<1> QED BY <1>1, <1>2

\* Where SetReadOffset has run, the segments are those from the one it was
\* given on, and that one has a new read start.
LEMMA ReadMoved ==
  ASSUME IInv, SetReadSync
  PROVE  /\ segs' \in Seq(Segment) /\ Len(segs') = Len(segs) - op.i + 1
         /\ segs'[1] = [segs[op.i] EXCEPT !.startIndex = op.n]
         /\ \A i \in 2..Len(segs') : segs'[i] = segs[(op.i - 1) + i]
<1> DEFINE l == Len(segs)
           k == op.i
           t == [segs[k] EXCEPT !.startIndex = op.n]
           read == [segs EXCEPT ![k] = t]
<1>1. /\ k \in 1..l
      /\ \/ op.kind = "beforeAll" /\ k = l
         \/ op.kind = "beforeKeep" /\ k = 1
  BY Zenon DEF SetReadSync, IInv, Control, CutControl
<1>2. segs \in Seq(Segment) /\ l \in Nat /\ op.n \in Nat
  BY SMTT(20) DEF IInv, TypeOK, Op
<1>3. segs' = IF op.kind = "beforeAll" THEN SubSeq(read, k, k) ELSE read
  <2>1. [segs EXCEPT ![k].startIndex = op.n] = read
    BY <1>1, <1>2
  <2> QED BY <2>1 DEF SetReadSync
<1>4. t \in Segment
  BY <1>1, <1>2, SegmentFacts, ZenonT(40) DEF Segment
<1> HIDE DEF t
<1>5. /\ read \in Seq(Segment) /\ Len(read) = l
      /\ \A i \in 1..l : i # k => read[i] = segs[i]
      /\ read[k] = t
  BY <1>1, <1>2, <1>4
<1> HIDE DEF read
<1>6. CASE op.kind = "beforeAll"
  <2>1. segs' \in Seq(Segment) /\ Len(segs') = 1 /\ segs'[1] = t
    <3>1. segs' = SubSeq(read, k, k)
      BY <1>3, <1>6, ZenonT(30)
    <3>2. /\ SubSeq(read, k, k) \in Seq(Segment) /\ Len(SubSeq(read, k, k)) = 1
          /\ SubSeq(read, k, k)[1] = read[k]
      BY <1>1, <1>2, <1>5, SMTT(30)
    <3> QED BY <1>5, <3>1, <3>2, ZenonT(30)
  <2>2. Len(segs') = l - k + 1 /\ \A i \in 2..Len(segs') : segs'[i] = segs[(k - 1) + i]
    BY <1>1, <1>2, <1>6, <2>1
  <2> QED BY <2>1, <2>2 DEF t
<1>7. CASE op.kind # "beforeAll"
  <2>1. segs' = read /\ k = 1
    BY <1>1, <1>3, <1>7
  <2>2. segs' \in Seq(Segment) /\ Len(segs') = l - k + 1 /\ segs'[1] = t
    BY <1>2, <1>5, <2>1
  <2>3. \A i \in 2..Len(segs') : segs'[i] = segs[(k - 1) + i]
    BY <1>2, <1>5, <2>1
  <2> QED BY <2>2, <2>3 DEF t
<1> QED BY <1>6, <1>7

\* The frame index at which the last segment is cut lies between its read
\* start and its end.
LEMMA KeepIdxFacts ==
  ASSUME IInv, segs # <<>>, Holds(lastSegment, op.seq)
  PROVE  /\ keepIdx \in Nat /\ lastSegment.startIndex <= keepIdx
         /\ keepIdx <= lastSegment.writeIndex
<1>1. Len(segs) \in 1..Len(segs) /\ lastSegment = segs[Len(segs)]
  BY LastFacts
<1>2. /\ lastSegment.base \in Nat /\ lastSegment.startIndex \in Nat
      /\ lastSegment.writeIndex \in Nat
  BY <1>1, SegmentFacts
<1>3. op.seq \in Nat
  BY DEF IInv, TypeOK, Op
<1> QED BY <1>2, <1>3 DEF Holds, StartSequence, NextSequence, keepIdx

\* Wherever segment.Find finds that frame, it is behind the header and the
\* frames that stay, and no further than the end of the segment.
LEMMA KeepOffsetFacts ==
  ASSUME IInv, segs # <<>>, Holds(lastSegment, op.seq), NEW off \in keepOffsets
  PROVE  /\ off \in Nat /\ HeaderSize <= off /\ off <= lastSegment.writeOffset
         /\ EndsBy(files[lastSegment.ino].frames, keepIdx, off)
<1> DEFINE s == lastSegment
           f == files[s.ino]
           k == Len(f.frames)
<1>1. Len(segs) \in 1..Len(segs) /\ s = segs[Len(segs)]
  BY LastFacts
<1>2. /\ f \in File /\ Ordered(f.frames) /\ EndsBy(f.frames, s.writeIndex, s.writeOffset)
      /\ s.writeOffset \in Nat /\ s.writeOffset >= HeaderSize /\ s.writeIndex \in Nat
  BY <1>1, SegmentFacts, ZenonT(30)
<1>3. keepIdx \in Nat /\ keepIdx <= s.writeIndex
  BY KeepIdxFacts
<1>4. \/ keepIdx <= k /\ off = OffsetForIndex(f, keepIdx)
      \/ keepIdx = s.writeIndex /\ off = s.writeOffset
      \/ /\ keepIdx > k
         /\ off \in (OffsetForIndex(f, k) + FrameHeaderSize * (keepIdx - k))..
                    (s.writeOffset - FrameHeaderSize * (s.writeIndex - keepIdx))
  <2>1. k \in Nat
    BY <1>2, FileFacts
  <2> QED BY <1>3, <2>1 DEF keepOffsets
<1> HIDE DEF f, s
<1>5. k \in Nat /\ \A i \in 1..k : f.frames[i].end \in Nat
  BY <1>2, FileFacts
<1>6. CASE keepIdx <= k /\ off = OffsetForIndex(f, keepIdx)
  <2>1. keepIdx \in 0..k
    BY <1>3, <1>5, <1>6
  <2>2. off \in Nat /\ HeaderSize <= off /\ EndsBy(f.frames, keepIdx, off)
    BY <1>2, <1>6, <2>1, OffsetFacts
  <2>3. off <= s.writeOffset
    BY <1>2, <1>3, <1>5, <1>6, <2>1 DEF OffsetForIndex, EndsBy
  <2> QED BY <2>2, <2>3 DEF f, s
<1>7. CASE keepIdx = s.writeIndex /\ off = s.writeOffset
  BY <1>2, <1>7 DEF f, s
<1>8. CASE /\ keepIdx > k
           /\ off \in (OffsetForIndex(f, k) + FrameHeaderSize * (keepIdx - k))..
                      (s.writeOffset - FrameHeaderSize * (s.writeIndex - keepIdx))
  <2>1. k \in 0..k
    BY <1>5
  <2>2. /\ OffsetForIndex(f, k) \in Nat /\ OffsetForIndex(f, k) >= HeaderSize
        /\ EndsBy(f.frames, k, OffsetForIndex(f, k))
    BY <1>2, <2>1, OffsetFacts
  <2>3. off \in Int /\ OffsetForIndex(f, k) <= off /\ off <= s.writeOffset
    BY <1>2, <1>3, <1>5, <1>8, <2>2 DEF FrameHeaderSize
  <2>4. off \in Nat /\ HeaderSize <= off
    BY <2>2, <2>3 DEF HeaderSize
  <2>5. EndsBy(f.frames, keepIdx, off)
    BY <1>5, <2>2, <2>3 DEF EndsBy
  <2> QED BY <2>3, <2>4, <2>5 DEF f, s
<1> QED BY <1>4, <1>6, <1>7, <1>8
-----------------------------------------------------------------------------
(***************************************************************************)
(* The invariant behind AckedReadable, on top of the inductive invariant:  *)
(* the files hold the records the segments count, and every acknowledged   *)
(* record.                                                                 *)
(***************************************************************************)
Frames(i) == files[segs[i].ino].frames

\* The index, in its segment's file, of the frame that carries record r.
Index(r, i) == r[1] - segs[i].base + 1

\* Segment i has record r where a scan finds it.
At(r, i) ==
  /\ Live(i)
  /\ StartSequence(segs[i]) <= r[1] /\ r[1] < NextSequence(segs[i])
  /\ Index(r, i) <= Len(Frames(i))
  /\ Frames(i)[Index(r, i)].id = r[2]

Kept == \A r \in acked : \E i \in 1..Len(segs) : At(r, i)

\* The frames segment i promises: between File.Truncate and its fsync the file
\* has been cut and the segment has not.
Promised(i) == IF pc = "truncateSync" /\ i = Len(segs) THEN keepIdx ELSE segs[i].writeIndex

Complete == \A i \in 1..Len(segs) : Live(i) => Promised(i) <= Len(Frames(i))

Sorted == \A i, j \in 1..Len(segs) : i < j => NextSequence(segs[i]) <= segs[j].base

\* The truncation under way takes sequence number q away.
Cut(q) ==
  \/ op.kind \in {"beforeAll", "afterAll"}
  \/ op.kind = "beforeKeep" /\ q < op.seq
  \/ op.kind = "afterKeep" /\ q > op.seq

\* The batch that syncAppend forces out is behind the last segment's end.
BatchWritten ==
  \A i \in 1..Len(op.batch) :
    /\ lastSegment.writeIndex + i <= Len(files[lastSegment.ino].frames)
    /\ files[lastSegment.ino].frames[lastSegment.writeIndex + i].id = op.id + i

\* What the handler has established by the time it is at pc.
ReadControl ==
  /\ \A r \in acked : ~Cut(r[1])
  /\ pc \in CreateSteps \ {"create"} => Len(files) \in dir
  /\ pc \in {"writing", "syncAppend", "truncateSync"} => lastSegment.open
  /\ pc = "syncAppend" => BatchWritten
  /\ pc = "drop" /\ op.kind = "afterKeep" => op.i > op.keep
  /\ pc \in {"setRead", "setReadSync"} /\ op.kind = "beforeKeep" => segs[1].base + op.n <= op.seq
  /\ pc \in {"truncate", "truncateSync"} => op.kind = "afterKeep"

RInv == Kept /\ OpenIsLive /\ Complete /\ Sorted /\ ReadControl

\* The frames G are the first n of F, then j with the ids behind id, and then
\* nothing that F did not have there.
HasBatch(G, F, n, id, j) ==
  /\ Len(G) \in Nat /\ n + j <= Len(G)
  /\ \A q \in 1..n : G[q] = F[q]
  /\ \A i \in 1..j : G[n + i].id = id + i
  /\ Len(F) <= n + j => Len(G) = n + j

\* A write behind the first n frames of a file leaves those frames, then the
\* ones of the batch it got to.
LEMMA WrittenFrames ==
  ASSUME NEW f \in File, NEW n \in Nat, n <= Len(f.frames), NEW off \in Nat,
         NEW b, IsBatch(b), NEW id \in Nat, NEW j \in 0..Len(b), NEW k \in Nat
  PROVE  HasBatch(Written(f, n, off, b, id, j, k).frames, f.frames, n, id, j)
<1> DEFINE F == f.frames
           new == [i \in 1..j |-> [id |-> id + i, end |-> off + b[i]]]
           end == off + SizeOfFirst(b, j)
           G == SubSeq(F, 1, n) \o new
           H == G \o SubSeq(F, n + j + 1, Len(F))
           aligned == n + j <= Len(F) /\ OffsetForIndex(f, n + j) = end
           g == Written(f, n, off, b, id, j, k)
<1>1. F \in Seq(Frame) /\ Len(F) \in Nat /\ n \in 0..Len(F) /\ j \in Nat
  BY FileFacts, BatchTotals
<1>2. new \in Seq(Frame) /\ Len(new) = j /\ \A i \in 1..j : new[i].id = id + i
  <2>1. \A i \in 1..j : i \in 1..Len(b) /\ b[i] \in Nat
    BY BatchTotals
  <2>2. \A i \in 1..j : [id |-> id + i, end |-> off + b[i]] \in Frame
    BY <2>1 DEF Frame
  <2>3. new \in Seq(Frame) /\ Len(new) = j
    BY <1>1, <2>2, FunctionIsSeq
  <2> QED BY <2>3
<1>3. g.frames = G \/ (aligned /\ g.frames = H)
  <2>1. CASE k = 0 /\ aligned
    <3>1. g = [f EXCEPT !.frames = H]
      BY <2>1, <1>1 DEF Written
    <3> HIDE DEF g, G, H, aligned
    <3> QED BY <2>1, <3>1, Zenon DEF File
  <2>2. CASE ~(k = 0 /\ aligned)
    <3> DEFINE size == IF f.size > end + k THEN f.size ELSE end + k
               whole == IF k > 0 THEN FrameSize(b, j + 1) ELSE FrameHeaderSize
               tail == IF size - end >= whole THEN "bad" ELSE CutTail(size - end)
    <3>1. g = [f EXCEPT !.frames = G, !.tail = tail, !.size = size]
      BY <2>2, <1>1 DEF Written
    <3> HIDE DEF g, G, H, tail, size
    <3> QED BY <3>1, Zenon DEF File
  <2> QED BY <2>1, <2>2
<1>4. /\ Len(G) = n + j
      /\ \A q \in 1..Len(G) : G[q] = IF q <= n THEN F[q] ELSE new[q - n]
      /\ n + j <= Len(F) =>
           /\ Len(H) = Len(F)
           /\ \A q \in 1..Len(F) : H[q] = IF q > n /\ q <= n + j THEN new[q - n] ELSE F[q]
  <2> HIDE DEF F, new
  <2>1. G = Overlaid(F, n, new) /\ H = Spliced(F, n, new)
    BY <1>2 DEF Overlaid, Spliced
  <2> HIDE DEF G, H
  <2>2. IsSplice(F, n, new, G, H)
    BY <1>1, <1>2, <2>1, Splice
  <2> QED BY <1>2, <2>2, Zenon DEF IsSplice
<1> HIDE DEF F, new, G, H, g
<1>5. ASSUME NEW Z, \/ Z = G
                    \/ n + j <= Len(F) /\ Z = H
      PROVE  /\ Len(Z) \in Nat /\ n + j <= Len(Z)
             /\ \A q \in 1..n : Z[q] = F[q]
             /\ \A i \in 1..j : Z[n + i] = new[i]
             /\ Len(F) <= n + j => Len(Z) = n + j
  <2>1. \A i \in 1..j : n + i \in 1..(n + j) /\ ~(n + i <= n) /\ n + i > n /\ n + i <= n + j
                        /\ (n + i) - n = i
    BY <1>1
  <2>2. \A q \in 1..n : q \in 1..(n + j) /\ q \in 1..Len(F) /\ q <= n /\ ~(q > n)
    BY <1>1
  <2>3. CASE Z = G
    BY <1>1, <1>4, <2>1, <2>2, <2>3, SMTT(20)
  <2>4. CASE n + j <= Len(F) /\ Z = H
    <3>1. \A i \in 1..(n + j) : i \in 1..Len(F)
      BY <1>1, <2>4
    <3> QED BY <1>1, <1>4, <2>1, <2>2, <2>4, <3>1, SMTT(20)
  <2> QED BY <1>5, <2>3, <2>4
<1>6. /\ Len(g.frames) \in Nat /\ n + j <= Len(g.frames)
      /\ \A q \in 1..n : g.frames[q] = F[q]
      /\ \A i \in 1..j : g.frames[n + i] = new[i]
      /\ Len(F) <= n + j => Len(g.frames) = n + j
  BY <1>3, <1>5, Zenon
<1> QED BY <1>2, <1>6, Zenon DEF g, F, HasBatch

\* What File.Truncate leaves of a file that has the frames.
LEMMA TruncatedFrames ==
  ASSUME NEW f \in File, NEW n \in Nat, n <= Len(f.frames), NEW off \in Nat
  PROVE  /\ Len(Truncated(f, n, off).frames) = n
         /\ \A q \in 1..n : Truncated(f, n, off).frames[q] = f.frames[q]
<1>1. f.frames \in Seq(Frame) /\ n \in 0..Len(f.frames)
  BY FileFacts
<1>2. /\ Len(SubSeq(f.frames, 1, n)) = n
      /\ \A q \in 1..n : SubSeq(f.frames, 1, n)[q] = f.frames[q]
  BY <1>1
<1>3. Truncated(f, n, off).frames = SubSeq(f.frames, 1, n)
  BY Zenon DEF Truncated, File
<1> QED BY <1>2, <1>3, Zenon

\* A write to the last segment's file, seen from the segments.
LEMMA LastFile ==
  ASSUME IInv, segs # <<>>, NEW f \in File, FsWrite(lastSegment.ino, f)
  PROVE  /\ dir' = dir /\ files'[segs[Len(segs)].ino] = f
         /\ \A i \in 1..Len(segs) : i # Len(segs) => files'[segs[i].ino] = files[segs[i].ino]
<1>1. Len(segs) \in 1..Len(segs) /\ lastSegment = segs[Len(segs)]
  BY LastFacts
<1>2. \A i \in 1..Len(segs) : segs[i].ino \in 1..Len(files)
  BY SegmentFacts
<1>3. \A i \in 1..Len(segs) : i # Len(segs) => segs[i].ino # segs[Len(segs)].ino
  BY <1>1, OwnFiles
<1>4. \A m \in 1..Len(files) : files'[m] = IF m = lastSegment.ino THEN f ELSE files[m]
  BY <1>1, <1>2, TypeParts, FsWriteFacts DEF IInv
<1> QED BY <1>1, <1>2, <1>3, <1>4, SMTT(20) DEF FsWrite

\* A write of a batch, or of a part of it, at the end of the last segment.
LEMMA BatchOver ==
  ASSUME IInv, RInv, pc \in {"write", "writing"}, lastSegment.open,
         NEW j \in 0..Len(op.batch), NEW k \in Nat
  PROVE  /\ WithBatch(j, k) \in File
         /\ HasBatch(WithBatch(j, k).frames, files[lastSegment.ino].frames,
                     lastSegment.writeIndex, op.id, j)
<1> DEFINE s == lastSegment
           f == files[lastSegment.ino]
<1>1. segs # <<>> /\ op.batch \in Batches /\ pc # "truncateSync"
  BY DEF IInv, Control, AppendControl, AppendSteps
<1>2. Len(segs) \in 1..Len(segs) /\ s = segs[Len(segs)]
  BY <1>1, LastFacts
<1>3. /\ f \in File /\ Ordered(f.frames) /\ s.writeIndex \in Nat /\ s.writeOffset \in Nat
      /\ s.writeOffset >= HeaderSize /\ EndsBy(f.frames, s.writeIndex, s.writeOffset)
  BY <1>2, SegmentFacts
<1>4. s.writeIndex <= Len(f.frames)
  BY <1>1, <1>2 DEF RInv, OpenIsLive, Complete, Promised, Live, Frames
<1>5. IsBatch(op.batch) /\ op.id \in Nat
  BY <1>1, InputAssumption DEF IInv, TypeOK, Op
<1> HIDE DEF s, f
<1>6. WithBatch(j, k) = Written(f, s.writeIndex, s.writeOffset, op.batch, op.id, j, k)
  BY DEF WithBatch, s, f
<1>7. WithBatch(j, k) \in File
  <2>1. Written(f, s.writeIndex, s.writeOffset, op.batch, op.id, j, k) \in File
    BY <1>3, <1>5, WrittenFile
  <2> QED BY <1>6, <2>1, Zenon
<1>8. HasBatch(Written(f, s.writeIndex, s.writeOffset, op.batch, op.id, j, k).frames, f.frames,
               s.writeIndex, op.id, j)
  BY <1>3, <1>4, <1>5, WrittenFrames, Zenon
<1> QED BY <1>6, <1>7, <1>8, Zenon DEF s, f

\* The ends of the chain bound those of its segments.
LEMMA ChainEnds ==
  ASSUME IInv, Sorted, NEW i \in 1..Len(segs)
  PROVE  /\ NextSequence(segs[i]) <= NextSequence(lastSegment)
         /\ StartSequence(segs[1]) <= StartSequence(segs[i])
<1> DEFINE l == Len(segs)
<1>0. l \in Nat /\ l \in 1..l /\ 1 \in 1..l /\ i \in 1..l /\ lastSegment = segs[l]
  BY SMTT(20) DEF IInv, TypeOK, lastSegment
<1>1. \A j \in 1..l : /\ segs[j].base \in Nat /\ segs[j].writeIndex \in Nat
                      /\ segs[j].startIndex \in Nat /\ segs[j].startIndex <= segs[j].writeIndex
  BY SegmentFacts
<1>2. i # l => segs[i].base + segs[i].writeIndex <= segs[l].base
  BY <1>0 DEF Sorted, NextSequence
<1>3. i # 1 => segs[1].base + segs[1].writeIndex <= segs[i].base
  BY <1>0 DEF Sorted, NextSequence
<1> HIDE DEF l
<1>4. segs[i].base + segs[i].writeIndex <= segs[l].base + segs[l].writeIndex
  <2>0. /\ segs[i].base \in Nat /\ segs[i].writeIndex \in Nat
        /\ segs[l].base \in Nat /\ segs[l].writeIndex \in Nat
    BY <1>0, <1>1, Zenon
  <2>1. PICK a \in Nat, b \in Nat : a = segs[i].base + segs[i].writeIndex /\ b = segs[l].base
    BY <2>0, SMTT(20)
  <2>2. PICK c \in Nat : c = segs[l].writeIndex
    BY <1>0, <1>1
  <2>3. CASE i = l
    BY <2>1, <2>2, <2>3
  <2>4. CASE i # l
    <3>1. a <= b
      BY <1>2, <2>1, <2>4
    <3>2. a <= b + c
      BY ONLY <3>1, a \in Nat, b \in Nat, c \in Nat
    <3> QED BY <2>1, <2>2, <3>2
  <2> QED BY <2>3, <2>4
<1>5. segs[1].base + segs[1].startIndex <= segs[i].base + segs[i].startIndex
  <2>0. /\ segs[1].base \in Nat /\ segs[1].startIndex \in Nat /\ segs[1].writeIndex \in Nat
        /\ segs[1].startIndex <= segs[1].writeIndex
    BY <1>0, <1>1, Zenon
  <2>1. PICK a \in Nat, b \in Nat, c \in Nat :
             a = segs[1].base /\ b = segs[1].startIndex /\ c = segs[1].writeIndex /\ b <= c
    BY <2>0, Zenon
  <2>2. PICK d \in Nat, e \in Nat : d = segs[i].base /\ e = segs[i].startIndex
    BY <1>0, <1>1
  <2>3. CASE i = 1
    BY <2>1, <2>2, <2>3
  <2>4. CASE i # 1
    <3>1. a + c <= d /\ b <= c
      BY <1>3, <2>1, <2>2, <2>4
    <3>2. a + b <= d + e
      BY ONLY <3>1, a \in Nat, b \in Nat, c \in Nat, d \in Nat, e \in Nat
    <3> QED BY <2>1, <2>2, <3>2
  <2> QED BY <2>3, <2>4
<1> QED BY <1>0, <1>4, <1>5 DEF NextSequence, StartSequence

=============================================================================
