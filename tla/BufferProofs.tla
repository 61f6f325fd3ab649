----------------------------- MODULE BufferProofs -----------------------------
(***************************************************************************)
(* Proofs about Buffer, for every set of limits and keys and every bound.   *)
(*                                                                         *)
(* The inductive invariant is Represents: at any time the head holds the    *)
(* first lines of the log, the tail the last ones, and elided the number of *)
(* lines in neither.  Entries then is the digest of the log, and each step  *)
(* of Buffer is a step of LogDigest or changes nothing it can see.          *)
(***************************************************************************)
EXTENDS Buffer, SequenceTheorems, TLAPS

(* How a buffer b stands for the lines l logged into it.  The bounds of    *)
(* head and tail make the three phases: while the head is not full the     *)
(* tail is empty, and only a full tail drops lines.                        *)
Unlimited(b, l) == b.limit = 0 => b.entries = l /\ b.elided = 0

(* ... with limit n, len lines, h of them in the head, t in the tail and k  *)
(* in neither.                                                             *)
Sizes(n, len, h, t, k) ==
  /\ len <= HeadSize(n) => h = len /\ t = 0 /\ k = 0
  /\ len > HeadSize(n) /\ len <= n => h = HeadSize(n) /\ t = len - HeadSize(n) /\ k = 0
  /\ len > n => h = HeadSize(n) /\ t = TailSize(n) /\ k = len - n

Lengths(b, l) ==
  b.limit > 0 => Sizes(b.limit, Len(l), Len(b.head), Len(b.tail), b.elided)

Begins(s, l) == Len(s) <= Len(l) /\ \A i \in 1..Len(s) : s[i] = l[i]
Ends(s, l)   == Len(s) <= Len(l) /\ \A i \in 1..Len(s) : s[i] = l[(Len(l) - Len(s)) + i]

Halved(b, l) == b.limit > 0 => Begins(b.head, l) /\ Ends(b.tail, l)

Represents(b, l) == Unlimited(b, l) /\ Lengths(b, l) /\ Halved(b, l)

-----------------------------------------------------------------------------
(* A line at the end of a log leaves its beginnings alone and extends its  *)
(* ends; an end stays one without its first line.                          *)
LEMMA BeginsAppend ==
  ASSUME NEW S, NEW l \in Seq(S), NEW s \in Seq(S), NEW e \in S, Begins(s, l)
  PROVE  Begins(s, Append(l, e))
  BY DEF Begins

LEMMA BeginsBoth ==
  ASSUME NEW S, NEW l \in Seq(S), NEW s \in Seq(S), NEW e \in S, Begins(s, l), Len(s) = Len(l)
  PROVE  Begins(Append(s, e), Append(l, e))
  BY DEF Begins

LEMMA EndsAppend ==
  ASSUME NEW S, NEW l \in Seq(S), NEW s \in Seq(S), NEW e \in S, Ends(s, l)
  PROVE  Ends(Append(s, e), Append(l, e))
  <1> DEFINE t == Append(s, e)
             m == Append(l, e)
  <1>1. /\ Len(t) = Len(s) + 1 /\ Len(m) = Len(l) + 1 /\ Len(s) \in Nat /\ Len(l) \in Nat
        /\ t[Len(s) + 1] = e /\ m[Len(l) + 1] = e
        /\ \A i \in 1..Len(s) : t[i] = s[i]
        /\ \A i \in 1..Len(l) : m[i] = l[i]
    OBVIOUS
  <1> HIDE DEF t, m
  <1>2. ASSUME NEW i \in 1..Len(t) PROVE t[i] = m[(Len(m) - Len(t)) + i]
    <2>1. CASE i = Len(s) + 1
      <3>1. (Len(m) - Len(t)) + i = Len(l) + 1
        BY <1>1, <2>1
      <3> QED BY <1>1, <2>1, <3>1
    <2>2. CASE i \in 1..Len(s)
      <3>1. s[i] = l[(Len(l) - Len(s)) + i]
        BY <2>2 DEF Ends
      <3>2. (Len(m) - Len(t)) + i = (Len(l) - Len(s)) + i
        BY <1>1
      <3>3. (Len(l) - Len(s)) + i \in 1..Len(l)
        BY <1>1, <2>2 DEF Ends
      <3> QED BY <1>1, <2>2, <3>1, <3>2, <3>3
    <2> QED BY <1>1, <2>1, <2>2
  <1>3. Len(t) <= Len(m)
    BY <1>1 DEF Ends
  <1> QED BY <1>2, <1>3 DEF Ends, t, m

LEMMA EndsTail ==
  ASSUME NEW S, NEW l \in Seq(S), NEW s \in Seq(S), s /= <<>>, Ends(s, l)
  PROVE  Ends(Tail(s), l)
  <1>1. /\ Len(Tail(s)) = Len(s) - 1 /\ Len(s) \in Nat /\ Len(l) \in Nat
        /\ \A i \in 1..(Len(s) - 1) : Tail(s)[i] = s[i + 1]
    BY HeadTailProperties
  <1>2. ASSUME NEW i \in 1..(Len(s) - 1) PROVE Tail(s)[i] = l[(Len(l) - (Len(s) - 1)) + i]
    <2>1. s[i + 1] = l[(Len(l) - Len(s)) + (i + 1)]
      BY <1>1 DEF Ends
    <2>2. (Len(l) - Len(s)) + (i + 1) = (Len(l) - (Len(s) - 1)) + i
      BY <1>1
    <2> QED BY <1>1, <2>1, <2>2
  <1> QED BY <1>1, <1>2 DEF Ends

(* The two halves of a limit (Buffer.Append's headSize and tailSize).      *)
LEMMA Halves ==
  ASSUME NEW n \in Nat
  PROVE  /\ HeadSize(n) \in Nat /\ TailSize(n) \in Nat
         /\ HeadSize(n) + TailSize(n) = n
         /\ n > 0 => TailSize(n) > 0
  BY DEF HeadSize, TailSize

(* How the sizes move when the head grows, the tail grows, or the ring     *)
(* turns.                                                                  *)
LEMMA SizesMove ==
  ASSUME NEW n \in Nat, n > 0, NEW len \in Nat, NEW h \in Nat, NEW t \in Nat, NEW k \in Nat,
         Sizes(n, len, h, t, k)
  PROVE  /\ h < HeadSize(n) => Sizes(n, len + 1, h + 1, t, k)
         /\ h >= HeadSize(n) /\ t < TailSize(n) => Sizes(n, len + 1, h, t + 1, k)
         /\ h >= HeadSize(n) /\ t >= TailSize(n) => Sizes(n, len + 1, h, t, k + 1)
  <1>1. /\ HeadSize(n) \in Nat /\ TailSize(n) \in Nat
        /\ HeadSize(n) + TailSize(n) = n /\ TailSize(n) > 0
    BY Halves
  <1> QED BY <1>1 DEF Sizes

LEMMA SizesSay ==
  ASSUME NEW n \in Nat, n > 0, NEW len \in Nat, NEW h \in Nat, NEW t \in Nat, NEW k \in Nat,
         Sizes(n, len, h, t, k)
  PROVE  /\ len <= n => k = 0 /\ h + t = len
         /\ len > n => h = HeadSize(n) /\ t = TailSize(n) /\ k = len - n
  <1>1. /\ HeadSize(n) \in Nat /\ TailSize(n) \in Nat
        /\ HeadSize(n) + TailSize(n) = n /\ TailSize(n) > 0
    BY Halves
  <1> QED BY <1>1 DEF Sizes

(* Append, case by case: what becomes of the parts that hold the log.      *)
LEMMA AppendCases ==
  ASSUME NEW b \in Buffers, NEW e \in Entry, NEW r, r = AppendEntry(b, e)
  PROVE  /\ r \in Buffers /\ r.limit = b.limit
         /\ r.tags = b.tags /\ r.responseBody = b.responseBody
         /\ b.limit = 0 => r.entries = Append(b.entries, e) /\ r.elided = b.elided
         /\ b.limit > 0 /\ Len(b.head) < HeadSize(b.limit) =>
              r.head = Append(b.head, e) /\ r.tail = b.tail /\ r.elided = b.elided
         /\ b.limit > 0 /\ Len(b.head) >= HeadSize(b.limit)
                        /\ Len(b.tail) < TailSize(b.limit) =>
              r.head = b.head /\ r.tail = Append(b.tail, e) /\ r.elided = b.elided
         /\ b.limit > 0 /\ Len(b.head) >= HeadSize(b.limit)
                        /\ Len(b.tail) >= TailSize(b.limit) =>
              /\ r.head = b.head /\ r.tail = Append(Tail(b.tail), e)
              /\ r.elided = b.elided + 1
  <1>0. /\ b.limit \in Nat /\ b.total + 1 \in Nat /\ b.elided + 1 \in Nat
        /\ b.entries \in Seq(Entry) /\ b.head \in Seq(Entry) /\ b.tail \in Seq(Entry)
        /\ Len(b.head) \in Nat /\ Len(b.tail) \in Nat
    BY DEF Buffers
  <1>1. HeadSize(b.limit) \in Nat /\ TailSize(b.limit) \in Nat
        /\ (b.limit > 0 => TailSize(b.limit) > 0)
    BY <1>0, Halves
  <1> DEFINE n == b.total + 1
  <1>2. CASE b.limit = 0
    <2> DEFINE s == Append(b.entries, e)
    <2>1. r = [b EXCEPT !.entries = s]
      BY <1>2 DEF AppendEntry
    <2>2. s \in Seq(Entry)
      BY <1>0
    <2> HIDE DEF s
    <2>3. /\ r \in Buffers /\ r.limit = b.limit
          /\ r.tags = b.tags /\ r.responseBody = b.responseBody
          /\ r.entries = s /\ r.elided = b.elided
      BY <2>1, <2>2 DEF Buffers
    <2> QED BY <1>2, <2>3 DEF s
  <1>3. CASE b.limit > 0 /\ Len(b.head) < HeadSize(b.limit)
    <2> DEFINE s == Append(b.head, e)
    <2>1. r = [b EXCEPT !.total = n, !.head = s]
      BY <1>0, <1>3 DEF AppendEntry
    <2>2. s \in Seq(Entry) /\ n \in Nat
      BY <1>0
    <2> HIDE DEF s, n
    <2>3. /\ r \in Buffers /\ r.limit = b.limit
          /\ r.tags = b.tags /\ r.responseBody = b.responseBody
          /\ r.head = s /\ r.tail = b.tail /\ r.elided = b.elided
      BY <2>1, <2>2 DEF Buffers
    <2> QED BY <1>0, <1>1, <1>3, <2>3 DEF s
  <1>4. CASE b.limit > 0 /\ Len(b.head) >= HeadSize(b.limit) /\ Len(b.tail) < TailSize(b.limit)
    <2> DEFINE s == Append(b.tail, e)
    <2>1. r = [b EXCEPT !.total = n, !.tail = s]
      BY <1>0, <1>1, <1>4 DEF AppendEntry
    <2>2. s \in Seq(Entry) /\ n \in Nat
      BY <1>0
    <2> HIDE DEF s, n
    <2>3. /\ r \in Buffers /\ r.limit = b.limit
          /\ r.tags = b.tags /\ r.responseBody = b.responseBody
          /\ r.head = b.head /\ r.tail = s /\ r.elided = b.elided
      BY <2>1, <2>2 DEF Buffers
    <2> QED BY <1>0, <1>1, <1>4, <2>3 DEF s
  <1>5. CASE b.limit > 0 /\ Len(b.head) >= HeadSize(b.limit) /\ Len(b.tail) >= TailSize(b.limit)
    <2> DEFINE s == Append(Tail(b.tail), e)
               k == b.elided + 1
    <2>1. r = [b EXCEPT !.total = n, !.elided = k, !.tail = s]
      BY <1>0, <1>1, <1>5 DEF AppendEntry
    <2>2. s \in Seq(Entry) /\ n \in Nat /\ k \in Nat
      BY <1>0, <1>1, <1>5, HeadTailProperties
    <2> HIDE DEF s, n, k
    <2>3. /\ r \in Buffers /\ r.limit = b.limit
          /\ r.tags = b.tags /\ r.responseBody = b.responseBody
          /\ r.head = b.head /\ r.tail = s /\ r.elided = k
      BY <2>1, <2>2 DEF Buffers
    <2> QED BY <1>0, <1>1, <1>5, <2>3 DEF s, k
  <1> QED BY <1>0, <1>1, <1>2, <1>3, <1>4, <1>5

(* Logging one more line into a buffer that stands for l gives one that    *)
(* stands for l with the line at its end: the induction step of Append.    *)
LEMMA AppendRepresents ==
  ASSUME NEW b \in Buffers, NEW l \in Seq(Entry), NEW e \in Entry, Represents(b, l),
         NEW r, r = AppendEntry(b, e), NEW m, m = Append(l, e)
  PROVE  Represents(r, m)
  <1>0. /\ b.limit \in Nat /\ b.elided \in Nat
        /\ b.entries \in Seq(Entry) /\ b.head \in Seq(Entry) /\ b.tail \in Seq(Entry)
        /\ Len(b.head) \in Nat /\ Len(b.tail) \in Nat /\ Len(l) \in Nat
    BY DEF Buffers
  <1>1. /\ HeadSize(b.limit) \in Nat /\ TailSize(b.limit) \in Nat
        /\ HeadSize(b.limit) + TailSize(b.limit) = b.limit
        /\ (b.limit > 0 => TailSize(b.limit) > 0)
    BY <1>0, Halves
  <1>2. /\ m \in Seq(Entry) /\ Len(m) = Len(l) + 1 /\ m[Len(l) + 1] = e
        /\ \A i \in 1..Len(l) : m[i] = l[i]
    BY <1>0
  <1>3. r.limit = b.limit
    BY AppendCases
  <1>pre. ASSUME b.limit > 0
        PROVE  Sizes(b.limit, Len(l), Len(b.head), Len(b.tail), b.elided)
    BY <1>pre DEF Represents, Lengths
  <1>post. ASSUME b.limit > 0, Sizes(b.limit, Len(l) + 1, Len(r.head), Len(r.tail), r.elided)
        PROVE  Lengths(r, m) /\ Unlimited(r, m)
    BY <1>0, <1>2, <1>3, <1>post DEF Lengths, Unlimited
  <1>4. CASE b.limit = 0
    <2>1. r.entries = Append(b.entries, e) /\ r.elided = b.elided
      BY <1>4, AppendCases
    <2> QED BY <1>0, <1>3, <1>4, <2>1
            DEF Represents, Unlimited, Lengths, Halved
  <1>5. CASE b.limit > 0 /\ Len(b.head) < HeadSize(b.limit)
    <2>1. r.head = Append(b.head, e) /\ r.tail = b.tail /\ r.elided = b.elided
      BY <1>5, AppendCases
    <2>2. /\ Len(l) < HeadSize(b.limit)
          /\ Len(b.head) = Len(l) /\ Len(b.tail) = 0 /\ b.elided = 0
      BY <1>0, <1>1, <1>pre, <1>5 DEF Sizes
    <2>a. Len(r.head) = Len(b.head) + 1
      BY <1>0, <2>1
    <2>b. Sizes(b.limit, Len(l) + 1, Len(b.head) + 1, Len(b.tail), b.elided)
      BY <1>0, <1>pre, <1>5, SizesMove
    <2>3. Lengths(r, m) /\ Unlimited(r, m)
      BY <1>post, <1>5, <2>1, <2>a, <2>b
    <2>4. Begins(r.head, m)
      BY <1>0, <1>5, <2>1, <2>2, BeginsBoth DEF Represents, Halved
    <2>5. Ends(r.tail, m)
      BY <1>0, <1>2, <2>1, <2>2 DEF Ends
    <2> QED BY <2>3, <2>4, <2>5 DEF Represents, Halved
  <1>6. CASE b.limit > 0 /\ Len(b.head) >= HeadSize(b.limit) /\ Len(b.tail) < TailSize(b.limit)
    <2>1. r.head = b.head /\ r.tail = Append(b.tail, e) /\ r.elided = b.elided
      BY <1>6, AppendCases
    <2>2. /\ HeadSize(b.limit) <= Len(l) /\ Len(l) < b.limit
          /\ Len(b.head) = HeadSize(b.limit) /\ Len(b.tail) = Len(l) - HeadSize(b.limit)
          /\ b.elided = 0
      BY <1>0, <1>1, <1>pre, <1>6 DEF Sizes
    <2>3. Len(r.tail) = Len(b.tail) + 1
      BY <1>0, <2>1
    <2>b. Sizes(b.limit, Len(l) + 1, Len(b.head), Len(b.tail) + 1, b.elided)
      BY <1>0, <1>pre, <1>6, SizesMove
    <2>4. Lengths(r, m) /\ Unlimited(r, m)
      BY <1>post, <1>6, <2>1, <2>3, <2>b
    <2>5. Begins(r.head, m)
      BY <1>0, <1>6, <2>1, BeginsAppend DEF Represents, Halved
    <2>6. Ends(r.tail, m)
      BY <1>0, <1>6, <2>1, EndsAppend DEF Represents, Halved
    <2> QED BY <2>4, <2>5, <2>6 DEF Represents, Halved
  <1>7. CASE b.limit > 0 /\ Len(b.head) >= HeadSize(b.limit) /\ Len(b.tail) >= TailSize(b.limit)
    <2>1. r.head = b.head /\ r.tail = Append(Tail(b.tail), e) /\ r.elided = b.elided + 1
      BY <1>7, AppendCases
    <2>2. /\ b.limit <= Len(l)
          /\ Len(b.head) = HeadSize(b.limit) /\ Len(b.tail) = TailSize(b.limit)
          /\ b.elided = Len(l) - b.limit
      BY <1>0, <1>1, <1>pre, <1>7 DEF Sizes
    <2>3. /\ b.tail /= <<>> /\ Tail(b.tail) \in Seq(Entry)
          /\ Len(Tail(b.tail)) = Len(b.tail) - 1
      BY <1>0, <1>1, <1>7, <2>2, HeadTailProperties
    <2>4. Len(r.tail) = Len(b.tail)
      BY <1>0, <2>1, <2>3
    <2>b. Sizes(b.limit, Len(l) + 1, Len(b.head), Len(b.tail), b.elided + 1)
      BY <1>0, <1>pre, <1>7, SizesMove
    <2>5. Lengths(r, m) /\ Unlimited(r, m)
      BY <1>post, <1>7, <2>1, <2>4, <2>b
    <2>6. Begins(r.head, m)
      BY <1>0, <1>7, <2>1, BeginsAppend DEF Represents, Halved
    <2>7. Ends(Tail(b.tail), l)
      BY <1>0, <1>7, <2>3, EndsTail DEF Represents, Halved
    <2>8. Ends(r.tail, m)
      BY <1>0, <2>1, <2>3, <2>7, EndsAppend
    <2> QED BY <2>5, <2>6, <2>8 DEF Represents, Halved
  <1> QED BY <1>0, <1>1, <1>4, <1>5, <1>6, <1>7

(* A beginning and an end as subsequences, and put together.               *)
LEMMA BeginsIsSubSeq ==
  ASSUME NEW S, NEW l \in Seq(S), NEW s \in Seq(S), Begins(s, l)
  PROVE  s = SubSeq(l, 1, Len(s))
  <1>1. /\ Len(s) \in Nat /\ Len(l) \in Nat /\ Len(s) <= Len(l)
        /\ \A i \in 1..Len(s) : s[i] = l[i]
    BY DEF Begins
  <1>2. /\ SubSeq(l, 1, Len(s)) \in Seq(S)
        /\ Len(SubSeq(l, 1, Len(s))) = Len(s)
        /\ \A i \in 1..Len(s) : SubSeq(l, 1, Len(s))[i] = l[i]
    BY <1>1, SubSeqProperties
  <1> QED BY <1>1, <1>2, SeqEqual

LEMMA EndsIsSubSeq ==
  ASSUME NEW S, NEW l \in Seq(S), NEW s \in Seq(S), Ends(s, l)
  PROVE  s = SubSeq(l, Len(l) - Len(s) + 1, Len(l))
  <1> DEFINE from == Len(l) - Len(s) + 1
  <1>0. Len(s) \in Nat /\ Len(l) \in Nat
    OBVIOUS
  <1> HIDE DEF from
  <1>1. /\ Len(s) <= Len(l)
        /\ \A i \in 1..Len(s) : s[i] = l[(Len(l) - Len(s)) + i]
    BY DEF Ends
  <1>2. /\ from \in 1..(Len(l) + 1) /\ Len(l) - from + 1 = Len(s)
        /\ \A i \in 1..Len(s) : from + i - 1 = (Len(l) - Len(s)) + i
    BY <1>0, <1>1 DEF from
  <1>3. /\ SubSeq(l, from, Len(l)) \in Seq(S)
        /\ Len(SubSeq(l, from, Len(l))) = Len(s)
        /\ \A i \in 1..Len(s) : SubSeq(l, from, Len(l))[i] = l[from + i - 1]
    BY <1>0, <1>1, <1>2, SubSeqProperties
  <1> DEFINE q == SubSeq(l, from, Len(l))
  <1>4. q \in Seq(S) /\ Len(s) = Len(q)
    BY <1>3
  <1>5. ASSUME NEW i \in 1..Len(s) PROVE s[i] = q[i]
    BY <1>1, <1>2, <1>3
  <1> HIDE DEF q
  <1>6. s = q
    BY <1>4, <1>5, SeqEqual
  <1> QED BY <1>6 DEF from, q

LEMMA BeginAndEnd ==
  ASSUME NEW S, NEW l \in Seq(S), NEW s \in Seq(S), NEW t \in Seq(S),
         Begins(s, l), Ends(t, l), Len(s) + Len(t) = Len(l)
  PROVE  s \o t = l
  <1>0. Len(s) \in Nat /\ Len(t) \in Nat /\ Len(l) \in Nat
    OBVIOUS
  <1>1. /\ s \o t \in Seq(S) /\ Len(s \o t) = Len(l)
        /\ Len(s) \in Nat /\ Len(t) \in Nat /\ Len(l) \in Nat
        /\ \A i \in 1..Len(s) : (s \o t)[i] = s[i]
        /\ \A i \in (Len(s) + 1)..Len(l) : (s \o t)[i] = t[i - Len(s)]
    BY ConcatProperties
  <1>2. ASSUME NEW i \in 1..Len(l) PROVE (s \o t)[i] = l[i]
    <2>1. CASE i \in 1..Len(s)
      BY <1>1, <2>1 DEF Begins
    <2>2. CASE i \in (Len(s) + 1)..Len(l)
      <3> DEFINE a == Len(s)  b == Len(t)  c == Len(l)
      <3>0. a \in Nat /\ b \in Nat /\ c \in Nat /\ a + b = c /\ i \in (a + 1)..c
        BY <1>0, <2>2
      <3> HIDE DEF a, b, c
      <3>a. i - a \in 1..b /\ (c - b) + (i - a) = i
        BY <3>0
      <3>1. i - Len(s) \in 1..Len(t) /\ (Len(l) - Len(t)) + (i - Len(s)) = i
        BY <3>a DEF a, b, c
      <3>2. t[i - Len(s)] = l[(Len(l) - Len(t)) + (i - Len(s))]
        BY <3>1 DEF Ends
      <3> QED BY <1>1, <2>2, <3>1, <3>2
    <2> QED BY <1>1, <2>1, <2>2
  <1> QED BY <1>1, <1>2, SeqEqual

(* What a buffer that stands for the lines l hands to a reader is their    *)
(* digest.                                                                 *)
LEMMA EntriesOfRepresented ==
  ASSUME NEW b \in Buffers, NEW l \in Seq(Entry), Represents(b, l)
  PROVE  Entries(b) = LD!Digest(l, b.limit)
  <1>0. /\ b.limit \in Nat /\ b.elided \in Nat
        /\ b.head \in Seq(Entry) /\ b.tail \in Seq(Entry)
        /\ Len(b.head) \in Nat /\ Len(b.tail) \in Nat /\ Len(l) \in Nat
    BY DEF Buffers
  <1>1. b.limit > 0 => Sizes(b.limit, Len(l), Len(b.head), Len(b.tail), b.elided)
    BY DEF Represents, Lengths
  <1>2. CASE b.limit = 0
    BY <1>2 DEF Represents, Unlimited, Entries, LD!Digest
  <1>3. CASE b.limit > 0 /\ Len(l) <= b.limit
    <2>1. b.elided = 0 /\ Len(b.head) + Len(b.tail) = Len(l)
      BY <1>0, <1>1, <1>3, SizesSay
    <2>2. Entries(b) = b.head \o b.tail
      <3>1. Entries(b) = b.head \o <<>> \o b.tail
        <4>1. ~(b.limit <= 0) /\ ~(b.elided > 0)
          BY <1>0, <1>3, <2>1
        <4> QED BY <4>1, Zenon DEF Entries
      <3>2. b.head \o <<>> = b.head
        BY <1>0, ConcatEmptySeq
      <3> QED BY <3>1, <3>2
    <2>3. b.head \o b.tail = l
      BY <1>0, <1>3, <2>1, BeginAndEnd DEF Represents, Halved
    <2> QED BY <1>3, <2>2, <2>3 DEF LD!Digest
  <1>4. CASE b.limit > 0 /\ Len(l) > b.limit
    <2>1. /\ Len(b.head) = HeadSize(b.limit) /\ Len(b.tail) = TailSize(b.limit)
          /\ b.elided = Len(l) - b.limit
      BY <1>0, <1>1, <1>4, SizesSay
    <2>2. Entries(b) = b.head \o <<Mark(Len(l) - b.limit)>> \o b.tail
      <3>1. ~(b.limit <= 0) /\ b.elided > 0
        BY <1>0, <1>4, <2>1
      <3> QED BY <2>1, <3>1, Zenon DEF Entries
    <2>3. b.head = SubSeq(l, 1, HeadSize(b.limit))
      BY <1>0, <1>4, <2>1, BeginsIsSubSeq DEF Represents, Halved
    <2>4. b.tail = SubSeq(l, Len(l) - TailSize(b.limit) + 1, Len(l))
      BY <1>0, <1>4, <2>1, EndsIsSubSeq DEF Represents, Halved
    <2>5. LD!Digest(l, b.limit)
            = SubSeq(l, 1, HeadSize(b.limit)) \o <<Mark(Len(l) - b.limit)>>
                \o SubSeq(l, Len(l) - TailSize(b.limit) + 1, Len(l))
      <3>1. ~(b.limit = 0 \/ Len(l) <= b.limit)
        BY <1>0, <1>4
      <3>2. LD!HeadSize(b.limit) = HeadSize(b.limit) /\ LD!TailSize(b.limit) = TailSize(b.limit)
        BY DEF LD!HeadSize, LD!TailSize, HeadSize, TailSize
      <3>3. LD!Mark(Len(l) - b.limit) = Mark(Len(l) - b.limit)
        BY DEF LD!Mark, Mark
      <3> QED BY <3>1, <3>2, <3>3, Zenon DEF LD!Digest
    <2> QED BY <2>2, <2>3, <2>4, <2>5
  <1> QED BY <1>0, <1>2, <1>3, <1>4

-----------------------------------------------------------------------------
(* The inductive invariant of Buffer: the types, and that the buffer stands *)
(* for the log.                                                            *)
IInv == TypeOK /\ Represents(buf, log)

(* The calls other than Append leave the parts that hold the log alone.    *)
SameLines(b, r) ==
  /\ r.limit = b.limit /\ r.entries = b.entries /\ r.head = b.head
  /\ r.tail = b.tail /\ r.elided = b.elided

LEMMA SameRepresents ==
  ASSUME NEW b, NEW r, NEW l, Represents(b, l), SameLines(b, r)
  PROVE  Represents(r, l)
  BY DEF Represents, Unlimited, Lengths, Halved, SameLines

LEMMA TagTyped ==
  ASSUME NEW b \in Buffers, NEW k \in Keys, NEW v \in 0..MaxLog, NEW r, r = Tag(b, k, v)
  PROVE  /\ r \in Buffers /\ SameLines(b, r) /\ r.responseBody = b.responseBody
         /\ DOMAIN r.tags = DOMAIN b.tags \cup {k} /\ r.tags[k] = v
         /\ \A j \in DOMAIN b.tags \ {k} : r.tags[j] = b.tags[j]
  <1> DEFINE t == [j \in DOMAIN b.tags \cup {k} |-> IF j = k THEN v ELSE b.tags[j]]
  <1>1. r = [b EXCEPT !.tags = t]
    BY DEF Tag, Buffers
  <1>2. PICK D \in SUBSET Keys : b.tags \in [D -> 0..MaxLog]
    BY DEF Buffers, TagMaps
  <1>3. /\ DOMAIN b.tags = D
        /\ \A j \in D : b.tags[j] \in 0..MaxLog
    BY <1>2
  <1>4. t \in [D \cup {k} -> 0..MaxLog]
    BY <1>3
  <1>5. D \cup {k} \in SUBSET Keys
    OBVIOUS
  <1>6. t \in TagMaps
    BY <1>4, <1>5, Zenon DEF TagMaps
  <1>7. /\ DOMAIN t = DOMAIN b.tags \cup {k} /\ t[k] = v
        /\ \A j \in DOMAIN b.tags \ {k} : t[j] = b.tags[j]
    OBVIOUS
  <1> HIDE DEF t
  <1>8. r.tags = t /\ SameLines(b, r) /\ r.responseBody = b.responseBody
    BY <1>1 DEF Buffers, SameLines
  <1>9. r \in Buffers
    BY <1>1, <1>6 DEF Buffers
  <1> QED BY <1>7, <1>8, <1>9

LEMMA BodyTyped ==
  ASSUME NEW b \in Buffers, NEW v \in Nat
  PROVE  /\ SetRequestBody(b, v) \in Buffers /\ SameLines(b, SetRequestBody(b, v))
         /\ SetRequestBody(b, v).tags = b.tags
         /\ SetRequestBody(b, v).responseBody = b.responseBody
         /\ SetResponseBody(b, v) \in Buffers /\ SameLines(b, SetResponseBody(b, v))
         /\ SetResponseBody(b, v).tags = b.tags
         /\ SetResponseBody(b, v).responseBody = v
  BY DEF SetRequestBody, SetResponseBody, SameLines, Buffers

LEMMA EntriesTyped ==
  ASSUME NEW b \in Buffers
  PROVE  Entries(b) \in Seq(Entry)
  <1>1. /\ b.limit \in Nat /\ b.elided \in Nat /\ b.entries \in Seq(Entry)
        /\ b.head \in Seq(Entry) /\ b.tail \in Seq(Entry)
    BY DEF Buffers
  <1>2. Mark(b.elided) \in Entry
    BY <1>1 DEF Mark, Entry
  <1> DEFINE mid == IF b.elided > 0 THEN <<Mark(b.elided)>> ELSE <<>>
  <1>3. mid \in Seq(Entry)
    BY <1>2
  <1> HIDE DEF mid
  <1>4. b.head \o mid \in Seq(Entry)
    BY <1>1, <1>3, ConcatProperties
  <1>5. b.head \o mid \o b.tail \in Seq(Entry)
    BY <1>1, <1>4, ConcatProperties
  <1>6. CASE b.limit <= 0
    BY <1>1, <1>6 DEF Entries
  <1>7. CASE ~(b.limit <= 0)
    BY <1>5, <1>7, Zenon DEF Entries, mid
  <1> QED BY <1>6, <1>7

LEMMA NewBufferTyped ==
  ASSUME NEW n \in Int
  PROVE  NewBuffer(n) \in Buffers /\ Represents(NewBuffer(n), <<>>)
  <1> DEFINE b == NewBuffer(n)
             k == IF n < 0 THEN 0 ELSE n
  <1>1. k \in Nat
    OBVIOUS
  <1>2. <<>> \in [{} -> 0..MaxLog] /\ {} \in SUBSET Keys
    OBVIOUS
  <1>3. <<>> \in TagMaps
    BY <1>2, Zenon DEF TagMaps
  <1>4. b = [limit |-> k, entries |-> <<>>, head |-> <<>>, tail |-> <<>>, total |-> 0,
             elided |-> 0, tags |-> <<>>, requestBody |-> 0, responseBody |-> 0]
    BY DEF NewBuffer
  <1> HIDE DEF b, k
  <1>5. b \in Buffers
    BY <1>1, <1>3, <1>4 DEF Buffers
  <1>6. /\ b.limit \in Nat /\ b.entries = <<>> /\ b.head = <<>> /\ b.tail = <<>>
        /\ b.elided = 0
    BY <1>1, <1>4
  <1>7. HeadSize(b.limit) \in Nat
    BY <1>6, Halves
  <1>8. Sizes(b.limit, 0, 0, 0, 0)
    BY <1>6, <1>7 DEF Sizes
  <1>9. Represents(b, <<>>)
    <2>1. Len(<<>>) = 0
      OBVIOUS
    <2>2. Lengths(b, <<>>)
      BY <1>6, <1>8, <2>1 DEF Lengths
    <2>3. Unlimited(b, <<>>)
      BY <1>6 DEF Unlimited
    <2>4. Halved(b, <<>>)
      BY <1>6, <2>1 DEF Halved, Begins, Ends
    <2> QED BY <2>2, <2>3, <2>4 DEF Represents
  <1> QED BY <1>5, <1>9 DEF b

LEMMA InitIInv == Init => IInv
  <1> SUFFICES ASSUME Init PROVE IInv
    OBVIOUS
  <1>1. PICK n \in Limits : buf = NewBuffer(n)
    BY DEF Init
  <1>2. n \in Int
    BY LimitsAssumption
  <1>3. buf \in Buffers /\ Represents(buf, <<>>)
    BY <1>1, <1>2, NewBufferTyped
  <1>4. log = <<>> /\ stage = "tags"
        /\ trace = [tags |-> <<>>, entries |-> <<>>, requestBody |-> 0, responseBody |-> 0]
    BY DEF Init
  <1>5. <<>> \in [{} -> 0..MaxLog] /\ {} \in SUBSET Keys
    OBVIOUS
  <1>6. <<>> \in TagMaps
    BY <1>5, Zenon DEF TagMaps
  <1>7. trace \in Traces
    BY <1>4, <1>6 DEF Traces
  <1> QED BY <1>3, <1>4, <1>7, BoundsAssumption DEF IInv, TypeOK, Stages

(* Every line of the log is a step of AppendEntry on a buffer that stands  *)
(* for the lines before it.                                                *)
LEMMA LogStep ==
  ASSUME IInv, Log
  PROVE  /\ IInv' /\ buf'.limit = buf.limit /\ buf'.tags = buf.tags
         /\ buf'.responseBody = buf.responseBody
         /\ log' = Append(log, [n |-> Len(log) + 1, body |-> buf.responseBody, elided |-> 0])
         /\ Len(log') = Len(log) + 1
  <1> DEFINE e == [n |-> Len(log) + 1, body |-> buf.responseBody, elided |-> 0]
  <1>1. buf \in Buffers /\ log \in Seq(Entry) /\ Len(log) \in Nat /\ Len(log) < MaxLog
    BY DEF IInv, TypeOK, Log
  <1>2. e \in Entry
    BY <1>1 DEF Entry, Buffers
  <1>3. buf' = AppendEntry(buf, e) /\ log' = Append(log, e)
        /\ UNCHANGED <<stage, trace>>
    BY DEF Log
  <1>e. e = [n |-> Len(log) + 1, body |-> buf.responseBody, elided |-> 0]
    OBVIOUS
  <1> HIDE DEF e
  <1>4. /\ buf' \in Buffers /\ buf'.limit = buf.limit /\ buf'.tags = buf.tags
        /\ buf'.responseBody = buf.responseBody
    BY <1>1, <1>2, <1>3, AppendCases
  <1>5. Represents(buf', log')
    BY <1>1, <1>2, <1>3, AppendRepresents DEF IInv
  <1>6. log' \in Seq(Entry) /\ Len(log') = Len(log) + 1 /\ Len(log') <= MaxLog
    BY <1>1, <1>2, <1>3, BoundsAssumption
  <1>7. IInv'
    BY <1>3, <1>4, <1>5, <1>6 DEF IInv, TypeOK
  <1> QED BY <1>3, <1>4, <1>6, <1>7 DEF e

(* The other writers leave the log alone, and the buffer still stands for  *)
(* it.                                                                     *)
LEMMA WriterStep ==
  ASSUME IInv, SetTag \/ StoreRequestBody \/ StoreResponseBody
  PROVE  IInv' /\ buf'.limit = buf.limit
  <1>1. /\ buf \in Buffers /\ Len(log) \in 0..MaxLog
        /\ buf.requestBody + 1 \in Nat /\ buf.responseBody + 1 \in Nat
    BY BoundsAssumption DEF IInv, TypeOK, Buffers
  <1>2. buf' \in Buffers /\ SameLines(buf, buf') /\ UNCHANGED <<log, stage, trace>>
    <2>1. CASE SetTag
      BY <1>1, <2>1, TagTyped DEF SetTag
    <2>2. CASE StoreRequestBody
      BY <1>1, <2>2, BodyTyped DEF StoreRequestBody
    <2>3. CASE StoreResponseBody
      BY <1>1, <2>3, BodyTyped DEF StoreResponseBody
    <2> QED BY <2>1, <2>2, <2>3
  <1>3. Represents(buf', log')
    <2>1. Represents(buf', log)
      BY <1>2, SameRepresents DEF IInv
    <2> QED BY <1>2, <2>1
  <1> QED BY <1>2, <1>3 DEF IInv, TypeOK, SameLines

(* The promoter changes its trace and its stage only.                      *)
LEMMA PromoterStep ==
  ASSUME IInv, ReadTags \/ ReadEntries \/ ReadRequestBody \/ ReadResponseBody \/ Promote
  PROVE  IInv' /\ UNCHANGED <<buf, log>>
  <1>1. /\ Tags(buf) \in TagMaps /\ Entries(buf) \in Seq(Entry)
        /\ RequestBody(buf) \in Nat /\ ResponseBody(buf) \in Nat
    BY EntriesTyped DEF IInv, TypeOK, Buffers, Tags, RequestBody, ResponseBody
  <1>2. trace \in Traces /\ UNCHANGED <<buf, log>> /\ stage' \in Stages
    BY DEF IInv, TypeOK, Stages, ReadTags, ReadEntries, ReadRequestBody, ReadResponseBody, Promote
  <1>3. trace' \in Traces
    BY <1>1, <1>2 DEF Traces, ReadTags, ReadEntries, ReadRequestBody, ReadResponseBody, Promote
  <1> QED BY <1>2, <1>3 DEF IInv, TypeOK

LEMMA NextIInv == IInv /\ [Next]_vars => IInv'
  <1> SUFFICES ASSUME IInv, [Next]_vars PROVE IInv'
    OBVIOUS
  <1>1. CASE Log
    BY <1>1, LogStep
  <1>2. CASE SetTag \/ StoreRequestBody \/ StoreResponseBody
    BY <1>2, WriterStep
  <1>3. CASE ReadTags \/ ReadEntries \/ ReadRequestBody \/ ReadResponseBody \/ Promote
    BY <1>3, PromoterStep
  <1>4. CASE UNCHANGED vars
    BY <1>4 DEF IInv, TypeOK, vars
  <1> QED BY <1>1, <1>2, <1>3, <1>4 DEF Next

LEMMA InductiveInvariant == Spec => []IInv
  BY InitIInv, NextIInv, PTL DEF Spec

(* The buffer, the log and the trace keep their shapes, for every set of   *)
(* limits and keys and every bound.                                        *)
THEOREM TypeCorrect == Spec => []TypeOK
  <1>1. IInv => TypeOK
    BY DEF IInv
  <1> QED BY <1>1, InductiveInvariant, PTL

(* At any time Buffer.Entries would return the digest of everything        *)
(* Buffer.Append was ever given, whatever the limit and the number of      *)
(* lines.                                                                  *)
THEOREM DigestCorrect == Spec => []EntriesAreDigest
  <1>1. IInv => EntriesAreDigest
    BY EntriesOfRepresented DEF IInv, TypeOK, EntriesAreDigest
  <1> QED BY <1>1, InductiveInvariant, PTL

(* The buffer implements the abstract log: every step of Buffer logs one   *)
(* line, hands out the digest, or changes nothing LogDigest can see.       *)
THEOREM Refinement == Spec => ImplementsLogDigest
  <1>1. Init => LD!Init
    <2> SUFFICES ASSUME Init PROVE LD!Init
      OBVIOUS
    <2>1. buf.limit \in Nat
      BY InitIInv DEF IInv, TypeOK, Buffers
    <2> QED BY <2>1 DEF Init, LD!Init
  <1>2. IInv /\ [Next]_vars => [LD!Next]_LD!vars
    <2> SUFFICES ASSUME IInv, [Next]_vars PROVE [LD!Next]_LD!vars
      OBVIOUS
    <2>1. CASE Log
      <3>1. /\ Len(log') = Len(log) + 1 /\ buf'.limit = buf.limit
            /\ log' = Append(log, [n |-> Len(log) + 1, body |-> buf.responseBody, elided |-> 0])
        BY <2>1, LogStep
      <3>2. SubSeq(log', 1, Len(log)) = log
        <4>1. log \in Seq(Entry)
          BY DEF IInv, TypeOK
        <4>2. [n |-> Len(log) + 1, body |-> buf.responseBody, elided |-> 0] \in Entry
          BY <4>1 DEF IInv, TypeOK, Buffers, Entry
        <4>3. Begins(log, log') /\ log' \in Seq(Entry)
          BY <3>1, <4>1, <4>2 DEF Begins
        <4> QED BY <4>1, <4>3, BeginsIsSubSeq
      <3>3. trace' = trace
        BY <2>1 DEF Log
      <3> QED BY <3>1, <3>2, <3>3 DEF LD!Next, LD!Log
    <2>2. CASE SetTag \/ StoreRequestBody \/ StoreResponseBody
      BY <2>2, WriterStep DEF SetTag, StoreRequestBody, StoreResponseBody, LD!vars
    <2>3. CASE ReadEntries
      <3>1. Entries(buf) = LD!Digest(log, buf.limit)
        BY EntriesOfRepresented DEF IInv, TypeOK
      <3>2. trace'.entries = Entries(buf) /\ UNCHANGED <<buf, log>>
        BY <2>3 DEF IInv, TypeOK, Traces, ReadEntries
      <3> QED BY <3>1, <3>2 DEF LD!Next, LD!Take
    <2>4. CASE ReadTags \/ ReadRequestBody \/ ReadResponseBody \/ Promote
      <3>1. trace'.entries = trace.entries /\ UNCHANGED <<buf, log>>
        BY <2>4 DEF IInv, TypeOK, Traces, ReadTags, ReadRequestBody, ReadResponseBody, Promote
      <3> QED BY <3>1 DEF LD!vars
    <2>5. CASE UNCHANGED vars
      BY <2>5 DEF vars, LD!vars
    <2> QED BY <2>1, <2>2, <2>3, <2>4, <2>5 DEF Next
  <1> QED BY <1>1, <1>2, InductiveInvariant, PTL DEF Spec, LD!Spec, ImplementsLogDigest

-----------------------------------------------------------------------------
(* The order within a snapshot.  x is one of the lines of l.              *)
LineOf(x, l) == \E j \in 1..Len(l) : x = l[j]

(* The digest of a log that is past its limit: one mark, and otherwise     *)
(* lines of the log.                                                       *)
LEMMA DigestShape ==
  ASSUME NEW l \in Seq(Entry), NEW n \in Nat, n > 0, Len(l) > n, NEW s, s = LD!Digest(l, n)
  PROVE  /\ s \in Seq(Entry) /\ Len(s) = n + 1
         /\ s[HeadSize(n) + 1] = Mark(Len(l) - n)
         /\ \A i \in 1..(n + 1) : i /= HeadSize(n) + 1 => LineOf(s[i], l)
  <1> DEFINE a == HeadSize(n)
             z == TailSize(n)
             from == Len(l) - z + 1
             f == SubSeq(l, 1, a)
             m == <<Mark(Len(l) - n)>>
             t == SubSeq(l, from, Len(l))
  <1>1. /\ a \in Nat /\ z \in Nat /\ a + z = n /\ Len(l) \in Nat
    BY Halves
  <1>2. s = f \o m \o t
    <2>1. ~(n = 0 \/ Len(l) <= n)
      BY <1>1
    <2>2. LD!HeadSize(n) = a /\ LD!TailSize(n) = z
      BY DEF LD!HeadSize, LD!TailSize, HeadSize, TailSize
    <2>3. LD!Mark(Len(l) - n) = Mark(Len(l) - n)
      BY DEF LD!Mark, Mark
    <2> QED BY <2>1, <2>2, <2>3, Zenon DEF LD!Digest
  <1> HIDE DEF a, z, from
  <1>3. /\ from \in 1..(Len(l) + 1) /\ Len(l) - from + 1 = z
    BY <1>1 DEF from
  <1>4. /\ f \in Seq(Entry) /\ Len(f) = a
        /\ \A i \in 1..a : f[i] = l[i]
    BY <1>1, SubSeqProperties
  <1>5. /\ t \in Seq(Entry) /\ Len(t) = z
        /\ \A i \in 1..z : t[i] = l[from + i - 1]
    BY <1>1, <1>3, SubSeqProperties
  <1>6. /\ m \in Seq(Entry) /\ Len(m) = 1 /\ m[1] = Mark(Len(l) - n)
    <2>1. Len(l) - n \in Nat
      BY <1>1
    <2>2. Mark(Len(l) - n) \in Entry
      BY <2>1 DEF Mark, Entry
    <2> QED BY <2>2
  <1> HIDE DEF f, m, t
  <1>7. /\ f \o m \in Seq(Entry) /\ Len(f \o m) = a + 1
        /\ \A i \in 1..a : (f \o m)[i] = f[i]
        /\ (f \o m)[a + 1] = m[1]
    <2>1. /\ f \o m \in Seq(Entry) /\ Len(f \o m) = Len(f) + Len(m)
          /\ \A i \in 1..(Len(f) + Len(m)) :
               (f \o m)[i] = IF i <= Len(f) THEN f[i] ELSE m[i - Len(f)]
      BY <1>4, <1>6, ConcatProperties
    <2> QED BY <1>1, <1>4, <1>6, <2>1
  <1>8. /\ s \in Seq(Entry) /\ Len(s) = a + 1 + z
        /\ \A i \in 1..(a + 1) : s[i] = (f \o m)[i]
        /\ \A i \in (a + 2)..(a + 1 + z) : s[i] = t[i - (a + 1)]
    <2> DEFINE g == f \o m
    <2>1. g \in Seq(Entry) /\ Len(g) = a + 1 /\ s = g \o t
      BY <1>2, <1>7
    <2>2. \A i \in 1..(a + 1) : g[i] = (f \o m)[i]
      OBVIOUS
    <2> HIDE DEF g
    <2>3. /\ g \o t \in Seq(Entry) /\ Len(g \o t) = Len(g) + Len(t)
          /\ \A i \in 1..(Len(g) + Len(t)) :
               (g \o t)[i] = IF i <= Len(g) THEN g[i] ELSE t[i - Len(g)]
      BY <1>5, <2>1, ConcatProperties
    <2>4. Len(s) = a + 1 + z
      BY <1>1, <1>5, <2>1, <2>3
    <2>5. ASSUME NEW i \in 1..(a + 1) PROVE s[i] = (f \o m)[i]
      <3>1. i \in 1..(Len(g) + Len(t)) /\ i <= Len(g)
        BY <1>1, <1>5, <2>1
      <3>2. (g \o t)[i] = g[i]
        BY <2>3, <3>1
      <3> QED BY <2>1, <2>2, <3>2, Zenon
    <2>6. ASSUME NEW i \in (a + 2)..(a + 1 + z) PROVE s[i] = t[i - (a + 1)]
      BY <1>1, <1>5, <2>1, <2>3
    <2> QED BY <2>1, <2>3, <2>4, <2>5, <2>6
  <1>9. s[a + 1] = Mark(Len(l) - n)
    BY <1>1, <1>6, <1>7, <1>8
  <1>10. ASSUME NEW i \in 1..(n + 1), i /= a + 1
         PROVE  LineOf(s[i], l)
    <2>1. CASE i <= a
      <3>1. s[i] = l[i]
        BY <1>1, <1>4, <1>7, <1>8, <2>1
      <3>2. i \in 1..Len(l)
        BY <1>1, <2>1
      <3> QED BY <3>1, <3>2 DEF LineOf
    <2>2. CASE i > a + 1
      <3>1. i - (a + 1) \in 1..z /\ i \in (a + 2)..(a + 1 + z)
        BY <1>1, <2>2
      <3>2. s[i] = l[from + (i - (a + 1)) - 1]
        BY <1>5, <1>8, <3>1
      <3>3. from + (i - (a + 1)) - 1 \in 1..Len(l)
        BY <1>1, <1>3, <3>1
      <3> QED BY <3>2, <3>3 DEF LineOf
    <2> QED BY <1>1, <1>10, <2>1, <2>2
  <1>11. s \in Seq(Entry) /\ Len(s) = n + 1
    BY <1>1, <1>8
  <1> QED BY <1>9, <1>10, <1>11 DEF a

(* The entries a reader gets account for every line of the log, and carry  *)
(* no body that the log does not carry.                                    *)
LEMMA EntriesRecordAll ==
  ASSUME NEW b \in Buffers, NEW l \in Seq(Entry), Represents(b, l), NEW v \in Nat,
         \A i \in 1..Len(l) : l[i].elided = 0 /\ l[i].body <= v,
         NEW s, s = Entries(b)
  PROVE  /\ Recorded(s) = Len(l)
         /\ \A i \in DOMAIN s : s[i].body <= v
  <1> DEFINE n == b.limit
             marks == {i \in DOMAIN s : s[i].elided > 0}
  <1>1. n \in Nat /\ Len(l) \in Nat /\ s = LD!Digest(l, n)
    BY EntriesOfRepresented DEF Buffers
  <1> HIDE DEF n
  <1>2. Recorded(s) = IF marks = {} THEN Len(s)
                      ELSE Len(s) - 1 + s[CHOOSE i \in marks : TRUE].elided
    BY DEF Recorded
  <1>3. CASE n = 0 \/ Len(l) <= n
    <2>1. s = l
      BY <1>1, <1>3, Zenon DEF LD!Digest
    <2>2. DOMAIN s = 1..Len(l)
      BY <2>1
    <2>3. marks = {}
      BY <2>1, <2>2
    <2> QED BY <1>2, <2>1, <2>2, <2>3
  <1>4. CASE ~(n = 0 \/ Len(l) <= n)
    <2> DEFINE p == HeadSize(n) + 1
               k == Len(l) - n
    <2>1. /\ s \in Seq(Entry) /\ Len(s) = n + 1 /\ s[p] = Mark(k)
          /\ \A i \in 1..(n + 1) : i /= p => LineOf(s[i], l)
      <3>1. n > 0 /\ Len(l) > n
        BY <1>1, <1>4
      <3> HIDE DEF marks, p, k
      <3>2. /\ s \in Seq(Entry) /\ Len(s) = n + 1
            /\ s[HeadSize(n) + 1] = Mark(Len(l) - n)
            /\ \A i \in 1..(n + 1) : i /= HeadSize(n) + 1 => LineOf(s[i], l)
        BY <1>1, <3>1, DigestShape
      <3> QED BY <3>2 DEF p, k
    <2>2. p \in 1..(n + 1) /\ k \in Nat /\ k > 0
      <3>1. HeadSize(n) \in Nat /\ TailSize(n) \in Nat /\ HeadSize(n) + TailSize(n) = n
        BY <1>1, Halves
      <3> QED BY <1>1, <1>4, <3>1
    <2> HIDE DEF p, k
    <2>3. s[p].elided = k /\ s[p].body = 0
      BY <2>1 DEF Mark
    <2>4. DOMAIN s = 1..(n + 1)
      BY <2>1
    <2>5. ASSUME NEW i \in DOMAIN s, i /= p
          PROVE  s[i].elided = 0 /\ s[i].body <= v
      BY <2>1, <2>4, <2>5 DEF LineOf
    <2>6. marks = {p}
      BY <2>2, <2>3, <2>4, <2>5
    <2>7. (CHOOSE i \in marks : TRUE) = p
      BY <2>6
    <2> HIDE DEF marks
    <2>8. Recorded(s) = Len(s) - 1 + k
      BY <1>2, <2>3, <2>6, <2>7
    <2>9. Recorded(s) = Len(l)
      BY <1>1, <2>1, <2>8 DEF k
    <2> QED BY <2>3, <2>5, <2>9
  <1> QED BY <1>3, <1>4

-----------------------------------------------------------------------------
(* What the writers and the promoter keep, beyond IInv: tags count lines   *)
(* already logged, lines carry bodies already stored, and the trace holds  *)
(* what its later reads will only add to.                                  *)
Written ==
  /\ \A k \in DOMAIN buf.tags : buf.tags[k] <= Len(log)
  /\ \A i \in 1..Len(log) : log[i].elided = 0 /\ log[i].body <= buf.responseBody

TagsRead ==
  stage = "entries" => \A k \in DOMAIN trace.tags : trace.tags[k] <= Len(log)

EntriesRead ==
  stage \in {"requestBody", "responseBody", "promote"} =>
    \A k \in DOMAIN trace.tags : trace.tags[k] <= Recorded(trace.entries)

BodiesRead ==
  /\ stage \in {"requestBody", "responseBody"} =>
       \A i \in DOMAIN trace.entries : trace.entries[i].body <= buf.responseBody
  /\ stage = "promote" =>
       \A i \in DOMAIN trace.entries : trace.entries[i].body <= trace.responseBody

SInv == IInv /\ Written /\ TagsRead /\ EntriesRead /\ BodiesRead

LEMMA InitSInv == Init => SInv
  <1> SUFFICES ASSUME Init PROVE SInv
    OBVIOUS
  <1>1. IInv
    BY InitIInv
  <1>2. log = <<>> /\ stage = "tags"
    BY DEF Init
  <1>3. buf.tags = <<>>
    BY DEF Init, NewBuffer
  <1>4. DOMAIN buf.tags = {} /\ Len(log) = 0
    BY <1>2, <1>3
  <1> QED BY <1>1, <1>2, <1>4 DEF SInv, Written, TagsRead, EntriesRead, BodiesRead

LEMMA TagsAreNumbers ==
  ASSUME IInv
  PROVE  /\ \A k \in DOMAIN buf.tags : buf.tags[k] \in Nat
         /\ \A k \in DOMAIN trace.tags : trace.tags[k] \in Nat
         /\ buf.responseBody \in Nat /\ Len(log) \in Nat /\ log \in Seq(Entry)
         /\ \A i \in 1..Len(log) : log[i].body \in Nat
         /\ trace.entries \in Seq(Entry)
         /\ \A i \in DOMAIN trace.entries : trace.entries[i].body \in Nat
  <1>1. PICK D \in SUBSET Keys : buf.tags \in [D -> 0..MaxLog]
    BY DEF IInv, TypeOK, Buffers, TagMaps
  <1>2. PICK E \in SUBSET Keys : trace.tags \in [E -> 0..MaxLog]
    BY DEF IInv, TypeOK, Traces, TagMaps
  <1>3. /\ buf.responseBody \in Nat /\ log \in Seq(Entry) /\ trace.entries \in Seq(Entry)
    BY DEF IInv, TypeOK, Buffers, Traces
  <1>4. \A i \in DOMAIN trace.entries : trace.entries[i] \in Entry
    BY <1>3
  <1>5. \A i \in 1..Len(log) : log[i] \in Entry
    BY <1>3
  <1> QED BY <1>1, <1>2, <1>3, <1>4, <1>5 DEF Entry

LEMMA NextSInv == SInv /\ [Next]_vars => SInv'
  <1> SUFFICES ASSUME SInv, [Next]_vars PROVE SInv'
    OBVIOUS
  <1>0. IInv /\ IInv'
    BY NextIInv DEF SInv
  <1>n. /\ \A k \in DOMAIN buf.tags : buf.tags[k] \in Nat
        /\ \A k \in DOMAIN trace.tags : trace.tags[k] \in Nat
        /\ buf.responseBody \in Nat /\ Len(log) \in Nat /\ log \in Seq(Entry)
        /\ \A i \in 1..Len(log) : log[i].body \in Nat
        /\ trace.entries \in Seq(Entry)
        /\ \A i \in DOMAIN trace.entries : trace.entries[i].body \in Nat
    BY <1>0, TagsAreNumbers
  <1>1. CASE Log
    <2>1. /\ buf'.tags = buf.tags /\ buf'.responseBody = buf.responseBody
          /\ log' = Append(log, [n |-> Len(log) + 1, body |-> buf.responseBody, elided |-> 0])
          /\ Len(log') = Len(log) + 1
      BY <1>0, <1>1, LogStep
    <2>2. UNCHANGED <<stage, trace>>
      BY <1>1 DEF Log
    <2> DEFINE e == [n |-> Len(log) + 1, body |-> buf.responseBody, elided |-> 0]
    <2>3. e.body = buf.responseBody /\ e.elided = 0
      OBVIOUS
    <2>4. log' = Append(log, e)
      BY <2>1
    <2> HIDE DEF e
    <2>5. /\ \A i \in 1..Len(log) : log'[i] = log[i]
          /\ log'[Len(log) + 1] = e
      BY <1>n, <2>4
    <2>6. Written'
      <3>1. \A k \in DOMAIN buf'.tags : buf'.tags[k] <= Len(log')
        BY <1>n, <2>1 DEF SInv, Written
      <3>2. ASSUME NEW i \in 1..Len(log')
            PROVE  log'[i].elided = 0 /\ log'[i].body <= buf'.responseBody
        <4>1. CASE i \in 1..Len(log)
          BY <2>1, <2>5, <4>1 DEF SInv, Written
        <4>2. CASE i = Len(log) + 1
          BY <1>n, <2>1, <2>3, <2>5, <4>2
        <4> QED BY <1>n, <2>1, <4>1, <4>2
      <3> QED BY <3>1, <3>2 DEF Written
    <2>7. TagsRead'
      BY <1>n, <2>1, <2>2 DEF SInv, TagsRead
    <2> QED BY <1>0, <2>1, <2>2, <2>6, <2>7 DEF SInv, EntriesRead, BodiesRead
  <1>2. CASE SetTag
    <2>1. PICK k \in Keys : buf' = Tag(buf, k, Len(log))
      BY <1>2 DEF SetTag
    <2>2. buf \in Buffers /\ Len(log) \in 0..MaxLog
      BY <1>0, <1>n DEF IInv, TypeOK
    <2>3. /\ buf'.responseBody = buf.responseBody
          /\ DOMAIN buf'.tags = DOMAIN buf.tags \cup {k} /\ buf'.tags[k] = Len(log)
          /\ \A j \in DOMAIN buf.tags \ {k} : buf'.tags[j] = buf.tags[j]
      BY <2>1, <2>2, TagTyped
    <2>4. UNCHANGED <<log, stage, trace>>
      BY <1>2 DEF SetTag
    <2>5. Written'
      <3>1. ASSUME NEW j \in DOMAIN buf'.tags PROVE buf'.tags[j] <= Len(log)
        BY <1>n, <2>3 DEF SInv, Written
      <3> QED BY <2>3, <2>4, <3>1 DEF SInv, Written
    <2> QED BY <1>0, <2>3, <2>4, <2>5 DEF SInv, TagsRead, EntriesRead, BodiesRead
  <1>3. CASE StoreRequestBody
    <2>1. buf'.tags = buf.tags /\ buf'.responseBody = buf.responseBody
          /\ UNCHANGED <<log, stage, trace>>
      BY <1>0, <1>3 DEF IInv, TypeOK, Buffers, StoreRequestBody, SetRequestBody
    <2> QED BY <1>0, <2>1 DEF SInv, Written, TagsRead, EntriesRead, BodiesRead
  <1>4. CASE StoreResponseBody
    <2>1. buf'.tags = buf.tags /\ buf'.responseBody = buf.responseBody + 1
          /\ UNCHANGED <<log, stage, trace>>
      BY <1>0, <1>4 DEF IInv, TypeOK, Buffers, StoreResponseBody, SetResponseBody
    <2>2. Written'
      BY <1>n, <2>1 DEF SInv, Written
    <2>3. BodiesRead'
      BY <1>n, <2>1 DEF SInv, BodiesRead
    <2> QED BY <1>0, <2>1, <2>2, <2>3 DEF SInv, TagsRead, EntriesRead
  <1>5. CASE ReadTags
    <2>1. trace'.tags = buf.tags /\ stage' = "entries" /\ UNCHANGED <<buf, log>>
      BY <1>0, <1>5 DEF IInv, TypeOK, Traces, ReadTags, Tags
    <2> QED BY <1>0, <2>1 DEF SInv, Written, TagsRead, EntriesRead, BodiesRead
  <1>6. CASE ReadEntries
    <2>1. /\ stage = "entries" /\ stage' = "requestBody" /\ UNCHANGED <<buf, log>>
          /\ trace'.tags = trace.tags /\ trace'.entries = Entries(buf)
      BY <1>0, <1>6 DEF IInv, TypeOK, Traces, ReadEntries
    <2>2. /\ Recorded(Entries(buf)) = Len(log)
          /\ \A i \in DOMAIN Entries(buf) : Entries(buf)[i].body <= buf.responseBody
      BY <1>0, <1>n, EntriesRecordAll DEF SInv, Written, IInv, TypeOK
    <2>3. EntriesRead'
      BY <2>1, <2>2 DEF SInv, TagsRead, EntriesRead
    <2>4. BodiesRead'
      BY <2>1, <2>2 DEF BodiesRead
    <2> QED BY <1>0, <2>1, <2>3, <2>4 DEF SInv, Written, TagsRead
  <1>7. CASE ReadRequestBody
    <2>1. /\ stage = "requestBody" /\ stage' = "responseBody" /\ UNCHANGED <<buf, log>>
          /\ trace'.tags = trace.tags /\ trace'.entries = trace.entries
      BY <1>0, <1>7 DEF IInv, TypeOK, Traces, ReadRequestBody
    <2> QED BY <1>0, <2>1 DEF SInv, Written, TagsRead, EntriesRead, BodiesRead
  <1>8. CASE ReadResponseBody
    <2>1. /\ stage = "responseBody" /\ stage' = "promote" /\ UNCHANGED <<buf, log>>
          /\ trace'.tags = trace.tags /\ trace'.entries = trace.entries
          /\ trace'.responseBody = buf.responseBody
      BY <1>0, <1>8 DEF IInv, TypeOK, Traces, ReadResponseBody, ResponseBody
    <2> QED BY <1>0, <2>1 DEF SInv, Written, TagsRead, EntriesRead, BodiesRead
  <1>9. CASE Promote
    <2>1. stage' = "tags" /\ UNCHANGED <<buf, log, trace>>
      BY <1>9 DEF Promote
    <2> QED BY <1>0, <2>1 DEF SInv, Written, TagsRead, EntriesRead, BodiesRead
  <1>10. CASE UNCHANGED vars
    BY <1>0, <1>10 DEF vars, SInv, Written, TagsRead, EntriesRead, BodiesRead
  <1> QED BY <1>1, <1>2, <1>3, <1>4, <1>5, <1>6, <1>7, <1>8, <1>9, <1>10 DEF Next

(* A promoted trace accounts for every line logged before a tag it shows   *)
(* was set, and shows the response body, or a later one, that was stored   *)
(* before any line it shows: the order of the four reads is enough,        *)
(* whatever is written between them and however the buffer drops lines.    *)
THEOREM SnapshotCorrect == Spec => []SnapshotInOrder
  <1>1. SInv => SnapshotInOrder
    BY DEF SInv, EntriesRead, BodiesRead, SnapshotInOrder
  <1> QED BY <1>1, InitSInv, NextSInv, PTL DEF Spec
==============================================================================
