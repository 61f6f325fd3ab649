---------------------------- MODULE RequestProofs ----------------------------
(***************************************************************************)
(* Proofs about Request, for every limit, threshold, set of status codes    *)
(* and bodies of any length: types, the status the policies are shown, and  *)
(* both captured bodies.                                                    *)
(***************************************************************************)
EXTENDS Request, SequenceTheorems, TLAPS

(* The helpers on sequences.                                               *)
LEMMA MinOfTwo ==
  ASSUME NEW a \in Nat, NEW b \in Nat
  PROVE  Min({a, b}) = IF a <= b THEN a ELSE b
  <1>1. \E x \in {a, b} : \A y \in {a, b} : x <= y
    OBVIOUS
  <1>2. \A x \in {a, b} : (\A y \in {a, b} : x <= y) => x = IF a <= b THEN a ELSE b
    OBVIOUS
  <1> QED BY <1>1, <1>2 DEF Min

LEMMA PrefixIs ==
  ASSUME NEW S, NEW s \in Seq(S), NEW n \in Nat
  PROVE  /\ Prefix(s, n) \in Seq(S)
         /\ Len(Prefix(s, n)) = IF n <= Len(s) THEN n ELSE Len(s)
         /\ \A i \in 1..Len(Prefix(s, n)) : Prefix(s, n)[i] = s[i]
  <1>1. PICK m : m = Min({n, Len(s)})
    OBVIOUS
  <1>2. m = (IF n <= Len(s) THEN n ELSE Len(s)) /\ m \in Nat /\ m <= Len(s)
    BY <1>1, MinOfTwo
  <1>3. Prefix(s, n) = SubSeq(s, 1, m)
    BY <1>1 DEF Prefix
  <1>4. /\ SubSeq(s, 1, m) \in Seq(S) /\ Len(SubSeq(s, 1, m)) = m
        /\ \A i \in 1..m : SubSeq(s, 1, m)[i] = s[i]
    BY <1>2
  <1> QED BY <1>2, <1>3, <1>4

LEMMA RestIs ==
  ASSUME NEW S, NEW s \in Seq(S), NEW n \in Nat
  PROVE  /\ Rest(s, n) \in Seq(S)
         /\ Len(Rest(s, n)) = IF n <= Len(s) THEN Len(s) - n ELSE 0
         /\ \A i \in 1..Len(Rest(s, n)) : Rest(s, n)[i] = s[i + n]
  <1>1. PICK m : m = Min({n, Len(s)})
    OBVIOUS
  <1>2. m = (IF n <= Len(s) THEN n ELSE Len(s)) /\ m \in Nat /\ m <= Len(s)
    BY <1>1, MinOfTwo
  <1>3. Rest(s, n) = SubSeq(s, m + 1, Len(s))
    BY <1>1 DEF Rest
  <1>4. /\ SubSeq(s, m + 1, Len(s)) \in Seq(S) /\ Len(SubSeq(s, m + 1, Len(s))) = Len(s) - m
        /\ \A i \in 1..(Len(s) - m) : SubSeq(s, m + 1, Len(s))[i] = s[(m + 1) + i - 1]
    <2>1. m + 1 \in Int /\ Len(s) \in Int /\ \A i \in (m + 1)..Len(s) : s[i] \in S
      BY <1>2
    <2>2. Len(s) - (m + 1) + 1 = Len(s) - m /\ (~(m + 1 <= Len(s)) => Len(s) - m = 0)
      BY <1>2
    <2> QED BY <2>1, <2>2, SubSeqProperties
  <1>5. Len(Rest(s, n)) = IF n <= Len(s) THEN Len(s) - n ELSE 0
    <2>1. Len(Rest(s, n)) = Len(s) - m /\ Len(s) \in Nat
      BY <1>3, <1>4
    <2>2. CASE n <= Len(s)
      BY <1>2, <2>1, <2>2
    <2>3. CASE ~(n <= Len(s))
      BY <1>2, <2>1, <2>3
    <2> QED BY <2>2, <2>3
  <1>6. ASSUME NEW i \in 1..Len(Rest(s, n)) PROVE Rest(s, n)[i] = s[i + n]
    <2>1. n <= Len(s) /\ m = n /\ i \in 1..(Len(s) - m) /\ (m + 1) + i - 1 = i + n
      BY <1>2, <1>5, <1>6
    <2> QED BY <2>1, <1>3, <1>4
  <1> QED BY <1>3, <1>4, <1>5, <1>6

LEMMA SplitInTwo ==
  ASSUME NEW S, NEW s \in Seq(S), NEW n \in Nat
  PROVE  Prefix(s, n) \o Rest(s, n) = s
  <1> DEFINE p == Prefix(s, n)
             r == Rest(s, n)
  <1>1. /\ p \in Seq(S) /\ Len(p) = (IF n <= Len(s) THEN n ELSE Len(s))
        /\ \A i \in 1..Len(p) : p[i] = s[i]
    BY PrefixIs
  <1>2. /\ r \in Seq(S) /\ Len(r) = (IF n <= Len(s) THEN Len(s) - n ELSE 0)
        /\ \A i \in 1..Len(r) : r[i] = s[i + n]
    BY RestIs
  <1> HIDE DEF p, r
  <1>3. /\ p \o r \in Seq(S) /\ Len(p \o r) = Len(p) + Len(r)
        /\ \A i \in 1..(Len(p) + Len(r)) :
             (p \o r)[i] = IF i <= Len(p) THEN p[i] ELSE r[i - Len(p)]
    BY <1>1, <1>2, ConcatProperties
  <1>4. Len(p) + Len(r) = Len(s) /\ Len(p) \in Nat
    BY <1>1, <1>2
  <1>5. \A i \in 1..Len(s) : (p \o r)[i] = s[i]
    <2> SUFFICES ASSUME NEW i \in 1..Len(s) PROVE (p \o r)[i] = s[i]
      OBVIOUS
    <2>1. CASE i <= Len(p)
      BY <2>1, <1>1, <1>3, <1>4
    <2>2. CASE i > Len(p)
      <3>1. Len(p) = n /\ i - n \in 1..Len(r) /\ (i - n) + n = i /\ ~(i <= Len(p))
        BY <2>2, <1>1, <1>2
      <3>2. (p \o r)[i] = r[i - n]
        BY <3>1, <1>3, <1>4
      <3> QED BY <3>1, <3>2, <1>2
    <2> QED BY <2>1, <2>2, <1>4
  <1> QED BY <1>3, <1>4, <1>5, SeqEqual DEF p, r

(* Capturing chunk by chunk is capturing the beginning of the whole.       *)
LEMMA PrefixGrows ==
  ASSUME NEW s \in Seq(Int), NEW c \in Seq(Int), NEW m \in Nat
  PROVE  /\ m - Len(Prefix(s, m)) \in Nat
         /\ Prefix(s, m) \o Prefix(c, m - Len(Prefix(s, m))) = Prefix(s \o c, m)
  <1>1. PICK k : k = m - Len(Prefix(s, m))
    OBVIOUS
  <1> DEFINE p == Prefix(s, m)
             q == Prefix(c, k)
             w == Prefix(s \o c, m)
  <1>2. /\ p \in Seq(Int) /\ Len(p) = (IF m <= Len(s) THEN m ELSE Len(s))
        /\ \A i \in 1..Len(p) : p[i] = s[i]
    BY PrefixIs
  <1>3. k \in Nat /\ k = m - Len(p)
    BY <1>1, <1>2
  <1>4. /\ q \in Seq(Int) /\ Len(q) = (IF k <= Len(c) THEN k ELSE Len(c))
        /\ \A i \in 1..Len(q) : q[i] = c[i]
    BY <1>3, PrefixIs
  <1>5. s \o c \in Seq(Int) /\ Len(s \o c) = Len(s) + Len(c)
    OBVIOUS
  <1>6. /\ w \in Seq(Int) /\ Len(w) = (IF m <= Len(s) + Len(c) THEN m ELSE Len(s) + Len(c))
        /\ \A i \in 1..Len(w) : w[i] = (s \o c)[i]
    BY <1>5, PrefixIs
  <1> HIDE DEF p, q, w
  <1>7. /\ p \o q \in Seq(Int) /\ Len(p \o q) = Len(p) + Len(q)
        /\ \A i \in 1..(Len(p) + Len(q)) :
             (p \o q)[i] = IF i <= Len(p) THEN p[i] ELSE q[i - Len(p)]
    <2>1. p \in Seq(Int) /\ q \in Seq(Int)
      BY <1>2, <1>4
    <2> QED BY <2>1, ConcatProperties
  <1>8. /\ Len(p) + Len(q) = Len(w) /\ Len(p) \in Nat /\ Len(w) \in Nat
        /\ Len(s) \in Nat /\ Len(c) \in Nat /\ Len(w) <= Len(s) + Len(c)
    <2>1. Len(s) \in Nat /\ Len(c) \in Nat /\ Len(p) \in Nat /\ Len(w) \in Nat
      BY <1>2, <1>6
    <2>2. CASE m <= Len(s)
      <3>1. Len(p) = m /\ k = 0
        BY <2>1, <2>2, <1>2, <1>3
      <3>2. k <= Len(c) /\ m <= Len(s) + Len(c)
        BY <2>1, <2>2, <3>1
      <3>3. Len(q) = 0 /\ Len(w) = m
        BY <3>1, <3>2, <1>4, <1>6
      <3> QED BY <2>1, <3>1, <3>2, <3>3
    <2>3. CASE ~(m <= Len(s))
      <3>1. Len(p) = Len(s) /\ k = m - Len(s)
        BY <2>1, <2>3, <1>2, <1>3
      <3>2. CASE k <= Len(c)
        <4>1. Len(q) = k /\ m <= Len(s) + Len(c)
          BY <2>1, <3>1, <3>2, <1>4
        <4>2. Len(w) = m
          BY <4>1, <1>6
        <4> QED BY <2>1, <3>1, <4>1, <4>2
      <3>3. CASE ~(k <= Len(c))
        <4>1. Len(q) = Len(c) /\ ~(m <= Len(s) + Len(c))
          BY <2>1, <3>1, <3>3, <1>3, <1>4
        <4>2. Len(w) = Len(s) + Len(c)
          BY <4>1, <1>6
        <4> QED BY <2>1, <3>1, <4>1, <4>2
      <3> QED BY <3>2, <3>3
    <2> QED BY <2>2, <2>3
  <1>10. \A i \in 1..(Len(s) + Len(c)) :
             (s \o c)[i] = IF i <= Len(s) THEN s[i] ELSE c[i - Len(s)]
    BY ConcatProperties
  <1>11. \A i \in 1..Len(w) : (p \o q)[i] = w[i]
    <2> SUFFICES ASSUME NEW i \in 1..Len(w) PROVE (p \o q)[i] = (s \o c)[i]
      BY <1>6
    <2>0. i \in 1..(Len(s) + Len(c)) /\ i \in 1..(Len(p) + Len(q))
      BY <1>8
    <2>1. CASE i <= Len(p)
      <3>1. i \in 1..Len(p) /\ i <= Len(s)
        BY <2>1, <1>2, <1>8
      <3> QED BY <2>0, <2>1, <3>1, <1>2, <1>7, <1>10
    <2>2. CASE i > Len(p)
      <3>0. Len(p) = Len(s)
        <4>1. CASE m <= Len(s)
          <5>1. Len(p) = m /\ k = 0
            BY <4>1, <1>2, <1>3
          <5>2. Len(w) = m
            BY <4>1, <1>6, <1>8
          <5> QED BY <2>2, <5>1, <5>2
        <4>2. CASE ~(m <= Len(s))
          BY <4>2, <1>2
        <4> QED BY <4>1, <4>2
      <3>1. ~(i <= Len(p)) /\ Len(p) = Len(s) /\ i - Len(s) \in 1..Len(q)
        BY <3>0, <2>0, <2>2, <1>8
      <3>2. (p \o q)[i] = q[i - Len(s)] /\ (s \o c)[i] = c[i - Len(s)]
        BY <2>0, <3>1, <1>7, <1>10
      <3> QED BY <3>1, <3>2, <1>4
    <2> QED BY <2>1, <2>2, <1>8
  <1>9. p \o q = w
    BY <1>6, <1>7, <1>8, <1>11, SeqEqual
  <1> QED BY <1>1, <1>3, <1>9 DEF p, q, w

LEMMA MaskedIs ==
  ASSUME NEW s \in Seq(Int)
  PROVE  Masked(s) \in Seq(Int) /\ Len(Masked(s)) = Len(s) /\ \A i \in 1..Len(s) : Masked(s)[i] = -s[i]
  BY DEF Masked

-----------------------------------------------------------------------------
TInv == TypeOK /\ buf \in [requestBody : Body, responseBody : Body]

(* What the middleware recorded against what net/http sent: nothing was    *)
(* written to either, or a Flush sent 200 unseen, or both have the first   *)
(* final code, or the first code was informational.                        *)
StatusInv ==
  /\ ~rw.written => rw.statusCode = 200 /\ (wire = 0 \/ (wire = 200 /\ setup.flusher))
  /\ rw.written /\ rw.statusCode \notin InfoCodes =>
       wire = rw.statusCode \/ (wire = 200 /\ setup.flusher)

PromotedInv ==
  stage = "done" =>
    promoted = rw.statusCode \/ (promoted = 0 /\ ~(StatusPolicy(rw.statusCode) /\ setup.correlated))

BodyInv ==
  Capturing => /\ capBuf = Prefix(written, MaxBodySize)
               /\ \/ buf.responseBody = Redact(capBuf)
                  \/ written = <<>> /\ buf.responseBody = <<>>

RInv == TInv /\ StatusInv /\ PromotedInv /\ BodyInv /\ HandlerReadsSentBody

LEMMA RedactTyped ==
  ASSUME NEW s \in Body
  PROVE  Redact(s) \in Body
  <1>1. Masked(s) \in Seq(Int)
    BY MaskedIs DEF Body
  <1>2. Append(Masked(s), Appended) \in Seq(Int)
    BY <1>1 DEF Appended
  <1> QED BY <1>1, <1>2 DEF Redact, Body

LEMMA InitRInv == Init => RInv
  <1> SUFFICES ASSUME Init PROVE RInv
    OBVIOUS
  <1>1. sent \in Body
    BY DEF Init, Bytes, Body
  <1>2. /\ setup \in [correlated : BOOLEAN, capture : BOOLEAN, flusher : BOOLEAN,
                      redactor : Redactors, breaks : Nat]
    BY RequestAssumption DEF Init
  <1>3. /\ stage = "arrived" /\ given = <<>> /\ capBuf = <<>> /\ written = <<>>
        /\ rw = [statusCode |-> 200, written |-> FALSE] /\ wire = 0 /\ promoted = 0
        /\ buf = [requestBody |-> <<>>, responseBody |-> <<>>]
    BY DEF Init
  <1>4. <<>> \in Body
    BY DEF Body
  <1>5. TInv
    BY <1>1, <1>2, <1>3, <1>4, RequestAssumption DEF TInv, TypeOK
  <1>6. BodyInv
    <2>0. <<>> \in Seq(Int) /\ Len(<<>>) = 0
      OBVIOUS
    <2>1. PICK e : e = <<>> /\ e \in Seq(Int) /\ Len(e) = 0
      BY <2>0
    <2>2. MaxBodySize \in Nat /\ ~(Len(e) < 0)
      BY <2>1, RequestAssumption
    <2>3. Prefix(e, MaxBodySize) \in Seq(Int)
      BY <2>1, <2>2, PrefixIs
    <2>4. Len(Prefix(e, MaxBodySize)) = IF MaxBodySize <= Len(e) THEN MaxBodySize ELSE Len(e)
      BY <2>1, <2>2, PrefixIs
    <2>5. Len(Prefix(e, MaxBodySize)) = 0
      BY <2>1, <2>2, <2>4
    <2>6. Prefix(e, MaxBodySize) = <<>>
      BY <2>3, <2>5
    <2> QED BY <2>1, <2>6, <1>3 DEF BodyInv
  <1> QED BY <1>3, <1>5, <1>6 DEF RInv, StatusInv, PromotedInv, HandlerReadsSentBody

-----------------------------------------------------------------------------
(* The request body on its way in.                                         *)
LEMMA PassThroughKeeps ==
  ASSUME RInv, PassThrough
  PROVE  RInv'
  <1>1. Readable \in Body
    BY PrefixIs DEF Readable, RInv, TInv, TypeOK, Body
  <1>2. Readable' = Readable /\ Capturing' = Capturing
    BY DEF Readable, Capturing, PassThrough
  <1>3. TInv'
    BY <1>1 DEF PassThrough, RInv, TInv, TypeOK
  <1>4. BodyInv' /\ StatusInv' /\ PromotedInv'
    BY <1>2 DEF PassThrough, RInv, BodyInv, StatusInv, PromotedInv, Redact
  <1>5. HandlerReadsSentBody'
    BY <1>2 DEF PassThrough, HandlerReadsSentBody
  <1> QED BY <1>3, <1>4, <1>5 DEF RInv

(* What a redactor of kind k may make of byte i of the body.               *)
KeepsByte(i, k, x, y) ==
  \/ x = y
  \/ k \in {"inPlace", "appending"} /\ i <= MaxBodySize /\ x = -y
  \/ k = "appending" /\ i = MaxBodySize + 1 /\ x = Appended

LEMMA OverwrittenIs ==
  ASSUME NEW b \in Seq(Int), MaxBodySize \in Nat, Len(b) <= MaxBodySize + 1
  PROVE  /\ Overwritten(b) \in Seq(Int) /\ Len(Overwritten(b)) = Len(b)
         /\ \A i \in 1..Len(b) : KeepsByte(i, setup.redactor, Overwritten(b)[i], b[i])
  <1>1. DOMAIN b = 1..Len(b) /\ Len(b) \in Nat
    OBVIOUS
  <1>2. ASSUME NEW i \in 1..Len(b)
        PROVE  Overwritten(b)[i] \in Int /\ KeepsByte(i, setup.redactor, Overwritten(b)[i], b[i])
    <2>1. b[i] \in Int /\ i \in Nat
      BY <1>1
    <2>2. CASE i <= MaxBodySize /\ setup.redactor \in {"inPlace", "appending"}
      <3>1. Overwritten(b)[i] = -b[i]
        BY <1>1, <2>2 DEF Overwritten
      <3> QED BY <2>1, <2>2, <3>1 DEF KeepsByte
    <2>3. CASE i > MaxBodySize /\ setup.redactor = "appending"
      <3>1. Overwritten(b)[i] = Appended
        BY <1>1, <2>1, <2>3 DEF Overwritten
      <3>2. i = MaxBodySize + 1
        BY <1>1, <2>1, <2>3
      <3> QED BY <2>3, <3>1, <3>2 DEF KeepsByte, Appended
    <2>4. CASE ~(i <= MaxBodySize /\ setup.redactor \in {"inPlace", "appending"})
               /\ ~(i > MaxBodySize /\ setup.redactor = "appending")
      <3>1. Overwritten(b)[i] = b[i]
        BY <1>1, <2>4 DEF Overwritten
      <3> QED BY <2>1, <3>1 DEF KeepsByte
    <2> QED BY <2>2, <2>3, <2>4
  <1>3. Overwritten(b) = [i \in 1..Len(b) |-> Overwritten(b)[i]]
    BY <1>1 DEF Overwritten
  <1>4. PICK o : o = Overwritten(b)
    OBVIOUS
  <1>5. o = [i \in 1..Len(b) |-> o[i]] /\ \A i \in 1..Len(b) : o[i] \in Int
    BY <1>2, <1>3, <1>4
  <1>6. o \in Seq(Int) /\ Len(o) = Len(b)
    BY <1>1, <1>5
  <1> QED BY <1>2, <1>4, <1>6

(* What the handler reads when the body is captured, overwritten or not.   *)
KeepsBytes(s, k, g) ==
  /\ g \in Body /\ Len(g) = Len(s)
  /\ \A i \in 1..Len(s) : KeepsByte(i, k, g[i], s[i])

LEMMA Rewrapped ==
  ASSUME NEW s \in Body, NEW m \in Nat, NEW b, b = Prefix(s, m + 1), NEW k,
         NEW r \in Seq(Int), Len(r) = Len(b), \A i \in 1..Len(b) : KeepsByte(i, k, r[i], b[i]),
         NEW g, g = r \o Rest(s, m + 1)
  PROVE  KeepsBytes(s, k, g)
  <1>0. s \in Seq(Int) /\ m + 1 \in Nat
    BY DEF Body
  <1>1. /\ b \in Seq(Int) /\ \A i \in 1..Len(b) : b[i] = s[i]
        /\ Len(b) = IF m + 1 <= Len(s) THEN m + 1 ELSE Len(s)
    BY <1>0, PrefixIs
  <1>2. PICK t : t = Rest(s, m + 1)
    OBVIOUS
  <1>3. t \in Seq(Int) /\ b \o t = s
    BY <1>0, <1>2, RestIs, SplitInTwo
  <1>4. /\ Len(b) + Len(t) = Len(s) /\ Len(b) \in Nat /\ Len(t) \in Nat
        /\ \A i \in 1..(Len(b) + Len(t)) : s[i] = IF i <= Len(b) THEN b[i] ELSE t[i - Len(b)]
    <2>1. b \in Seq(Int) /\ t \in Seq(Int)
      BY <1>1, <1>3
    <2>2. /\ Len(b \o t) = Len(b) + Len(t)
          /\ \A i \in 1..(Len(b) + Len(t)) :
               (b \o t)[i] = IF i <= Len(b) THEN b[i] ELSE t[i - Len(b)]
      BY <2>1, ConcatProperties
    <2> QED BY <2>1, <2>2, <1>3
  <1>5. /\ g \in Seq(Int) /\ Len(g) = Len(r) + Len(t)
        /\ \A i \in 1..(Len(r) + Len(t)) : g[i] = IF i <= Len(r) THEN r[i] ELSE t[i - Len(r)]
    <2>1. r \in Seq(Int) /\ t \in Seq(Int)
      BY <1>3
    <2>2. /\ r \o t \in Seq(Int) /\ Len(r \o t) = Len(r) + Len(t)
          /\ \A i \in 1..(Len(r) + Len(t)) :
               (r \o t)[i] = IF i <= Len(r) THEN r[i] ELSE t[i - Len(r)]
      BY <2>1, ConcatProperties
    <2> QED BY <2>2, <1>2
  <1>6. ASSUME NEW i \in 1..Len(s) PROVE KeepsByte(i, k, g[i], s[i])
    <2>1. CASE i <= Len(b)
      <3>1. i \in 1..Len(b) /\ g[i] = r[i] /\ s[i] = b[i]
        BY <2>1, <1>4, <1>5
      <3> QED BY <3>1
    <2>2. CASE ~(i <= Len(b))
      <3>1. g[i] = s[i]
        BY <2>2, <1>4, <1>5
      <3> QED BY <3>1 DEF KeepsByte
    <2> QED BY <2>1, <2>2
  <1> QED BY <1>4, <1>5, <1>6 DEF KeepsBytes, Body

LEMMA CaptureRequestKeeps ==
  ASSUME RInv, CaptureRequest
  PROVE  RInv'
  <1> DEFINE body     == Prefix(Readable, MaxBodySize + 1)
             failed   == setup.breaks <= MaxBodySize /\ setup.breaks < Len(sent)
             captured == Prefix(body, MaxBodySize)
             read     == IF failed THEN body ELSE Overwritten(body)
  <1>1. /\ given' = read \o Rest(Readable, MaxBodySize + 1)
        /\ buf' = IF failed \/ body = <<>> THEN buf
                  ELSE [buf EXCEPT !.requestBody = Redact(captured)]
        /\ stage' = "handling" /\ Capturing
        /\ UNCHANGED <<sent, setup, rw, capBuf, wire, written, promoted>>
    BY DEF CaptureRequest
  <1>2. /\ MaxBodySize \in Nat /\ sent \in Body /\ setup.breaks \in Nat
        /\ buf \in [requestBody : Body, responseBody : Body]
    BY RequestAssumption DEF RInv, TInv, TypeOK
  <1>3. Readable \in Body /\ Readable' = Readable /\ Capturing' = Capturing
    BY <1>1, <1>2, PrefixIs DEF Readable, Capturing, Body
  <1>4. /\ body \in Seq(Int) /\ Len(body) <= MaxBodySize + 1
        /\ Redact(captured) \in Body
    <2>1. /\ body \in Seq(Int) /\ Len(Readable) \in Nat /\ MaxBodySize + 1 \in Nat
          /\ Len(body) = IF MaxBodySize + 1 <= Len(Readable) THEN MaxBodySize + 1 ELSE Len(Readable)
      <3>1. PICK s, n : s = Readable /\ n = MaxBodySize + 1
        OBVIOUS
      <3>2. s \in Seq(Int) /\ n \in Nat /\ Len(s) \in Nat
        BY <1>2, <1>3, <3>1 DEF Body
      <3>3. Prefix(s, n) \in Seq(Int) /\ Len(Prefix(s, n)) = IF n <= Len(s) THEN n ELSE Len(s)
        BY <3>2, PrefixIs
      <3> QED BY <3>1, <3>2, <3>3
    <2>2. captured \in Body
      BY <1>2, <2>1, PrefixIs DEF Body
    <2> HIDE DEF captured, body
    <2> QED BY <2>1, <2>2, RedactTyped
  <1>5. body = Prefix(Readable, MaxBodySize + 1)
    OBVIOUS
  <1> HIDE DEF body, captured
  <1>6. /\ read \in Seq(Int) /\ Len(read) = Len(body)
        /\ \A i \in 1..Len(body) : KeepsByte(i, setup.redactor, read[i], body[i])
    <2>1. CASE failed
      BY <1>4, <2>1 DEF KeepsByte
    <2>2. CASE ~failed
      BY <1>2, <1>4, <2>2, OverwrittenIs
    <2> QED BY <2>1, <2>2
  <1> HIDE DEF failed, read
  <1>a. buf' \in [requestBody : Body, responseBody : Body] /\ buf'.responseBody = buf.responseBody
    BY <1>1, <1>2, <1>4
  <1>7. KeepsBytes(Readable, setup.redactor, given')
    <2>1. PICK s, b, r, g, k : /\ s = Readable /\ b = body /\ r = read /\ g = given'
                               /\ k = setup.redactor
      OBVIOUS
    <2>2. s \in Body /\ MaxBodySize \in Nat /\ b = Prefix(s, MaxBodySize + 1)
      BY <1>2, <1>3, <1>5, <2>1
    <2>3. /\ r \in Seq(Int) /\ Len(r) = Len(b)
          /\ \A i \in 1..Len(b) : KeepsByte(i, k, r[i], b[i])
      BY <1>6, <2>1
    <2>4. g = r \o Rest(s, MaxBodySize + 1)
      BY <1>1, <2>1
    <2>5. KeepsBytes(s, k, g)
      BY <2>2, <2>3, <2>4, Rewrapped
    <2> QED BY <2>1, <2>5
  <1>8. TInv'
    BY <1>1, <1>a, <1>7 DEF RInv, TInv, TypeOK, KeepsBytes
  <1>9. BodyInv' /\ StatusInv' /\ PromotedInv'
    BY <1>1, <1>3, <1>a DEF RInv, BodyInv, StatusInv, PromotedInv, Redact
  <1>10. HandlerReadsSentBody'
    <2>1. DOMAIN given' = 1..Len(Readable) /\ Len(given') = Len(Readable)
      BY <1>7 DEF KeepsBytes, Body
    <2>2. ASSUME NEW i \in 1..Len(Readable)
          PROVE  \/ given'[i] = Readable[i]
                 \/ /\ Capturing /\ setup.redactor \in {"inPlace", "appending"}
                    /\ i <= MaxBodySize /\ given'[i] = -Readable[i]
                 \/ /\ Capturing /\ setup.redactor = "appending"
                    /\ i = MaxBodySize + 1 /\ given'[i] = Appended
      BY <1>1, <1>7 DEF KeepsBytes, KeepsByte
    <2> QED BY <1>1, <1>3, <2>1, <2>2 DEF HandlerReadsSentBody
  <1> QED BY <1>8, <1>9, <1>10 DEF RInv

-----------------------------------------------------------------------------
(* The handler's calls.                                                    *)
LEMMA WriteHeaderKeeps ==
  ASSUME RInv, NEW code \in FinalCodes \cup InfoCodes, WriteHeader(code)
  PROVE  RInv'
  <1>1. /\ stage = "handling" /\ UNCHANGED <<stage, sent, setup, given, capBuf, buf, written, promoted>>
        /\ rw' = IF rw.written THEN rw ELSE [statusCode |-> code, written |-> TRUE]
        /\ wire' = IF wire = 0 /\ code \notin InfoCodes THEN code ELSE wire
    BY DEF WriteHeader, Commit
  <1>2. rw \in [statusCode : FinalCodes \cup InfoCodes, written : BOOLEAN] /\ wire \in FinalCodes \cup {0}
    BY DEF RInv, TInv, TypeOK
  <1>3. TInv'
    BY <1>1, <1>2 DEF RInv, TInv, TypeOK
  <1>4. Readable' = Readable /\ Capturing' = Capturing
    BY <1>1 DEF Readable, Capturing
  <1>5. StatusInv'
    <2>1. CASE rw.written
      BY <2>1, <1>1, <1>2, RequestAssumption DEF RInv, StatusInv
    <2>2. CASE ~rw.written
      BY <2>2, <1>1, <1>2, RequestAssumption DEF RInv, StatusInv
    <2> QED BY <2>1, <2>2
  <1>6. BodyInv' /\ PromotedInv' /\ HandlerReadsSentBody'
    BY <1>1, <1>4 DEF RInv, BodyInv, PromotedInv, HandlerReadsSentBody, Redact
  <1> QED BY <1>3, <1>5, <1>6 DEF RInv

LEMMA WriteKeeps ==
  ASSUME RInv, NEW n \in 0..MaxWritten, Write(n)
  PROVE  RInv'
  <1>1. PICK chunk : chunk = [i \in 1..n |-> Len(written) + i]
    OBVIOUS
  <1>2. /\ stage = "handling" /\ UNCHANGED <<stage, sent, setup, given, promoted>>
        /\ written' = written \o chunk
        /\ capBuf' = IF Capturing /\ Len(capBuf) < MaxBodySize THEN Captured(chunk) ELSE capBuf
        /\ buf' = IF Capturing /\ Len(capBuf) < MaxBodySize
                  THEN [buf EXCEPT !.responseBody = Redact(capBuf')] ELSE buf
        /\ rw' = IF rw.written THEN rw ELSE [statusCode |-> 200, written |-> TRUE]
        /\ wire' = IF wire = 0 /\ 200 \notin InfoCodes THEN 200 ELSE wire
    BY <1>1 DEF Write, Commit
  <1>3. /\ rw \in [statusCode : FinalCodes \cup InfoCodes, written : BOOLEAN]
        /\ wire \in FinalCodes \cup {0}
        /\ written \in Seq(Int) /\ capBuf \in Seq(Int) /\ Len(capBuf) <= MaxBodySize
        /\ buf \in [requestBody : Body, responseBody : Body]
    BY DEF RInv, TInv, TypeOK, Body
  <1>4. MaxBodySize \in Nat /\ MaxWritten \in Nat /\ 200 \in FinalCodes /\ 200 \notin InfoCodes
    BY RequestAssumption
  <1>5. Readable' = Readable /\ Capturing' = Capturing
    BY <1>2 DEF Readable, Capturing
  <1>6. StatusInv'
    <2>1. CASE rw.written
      BY <2>1, <1>2, <1>3, <1>4, RequestAssumption DEF RInv, StatusInv
    <2>2. CASE ~rw.written
      BY <2>2, <1>2, <1>3, <1>4, RequestAssumption DEF RInv, StatusInv
    <2> QED BY <2>1, <2>2
  <1>7. chunk \in Seq(Int) /\ written' \in Seq(Int)
    <2>1. n \in Nat /\ Len(written) \in Nat
      BY <1>3, <1>4
    <2>2. chunk \in Seq(Int)
      BY <1>1, <2>1
    <2> QED BY <2>2, <1>2, <1>3
  <1>10. /\ BodyInv' /\ capBuf' \in Body /\ Len(capBuf') <= MaxBodySize
         /\ buf' \in [requestBody : Body, responseBody : Body]
    <2>1. CASE Capturing
      <3>1. PICK k : k = MaxBodySize - Len(capBuf)
        OBVIOUS
      <3>2. /\ capBuf = Prefix(written, MaxBodySize)
            /\ Len(capBuf) = MaxBodySize => buf.responseBody = Redact(capBuf)
        <4>1. /\ capBuf = Prefix(written, MaxBodySize)
              /\ buf.responseBody = Redact(capBuf) \/ written = <<>>
          BY <2>1 DEF RInv, BodyInv
        <4>2. Len(capBuf) = MaxBodySize => written /= <<>>
          <5>1. Len(capBuf) = IF MaxBodySize <= Len(written) THEN MaxBodySize ELSE Len(written)
            BY <4>1, <1>3, <1>4, PrefixIs
          <5>2. Len(written) = 0 <=> written = <<>>
            BY <1>3
          <5> QED BY <5>1, <5>2, <1>4, RequestAssumption
        <4> QED BY <4>1, <4>2
      <3>3. k \in Nat /\ capBuf \o Prefix(chunk, k) = Prefix(written \o chunk, MaxBodySize)
        <4>1. written \in Seq(Int) /\ chunk \in Seq(Int) /\ MaxBodySize \in Nat
          BY <1>3, <1>4, <1>7
        <4>2. /\ MaxBodySize - Len(Prefix(written, MaxBodySize)) \in Nat
              /\ Prefix(written, MaxBodySize) \o Prefix(chunk, MaxBodySize - Len(Prefix(written, MaxBodySize)))
                   = Prefix(written \o chunk, MaxBodySize)
          <5>1. written \in Seq(Int)
          BY <4>1
        <5>2. chunk \in Seq(Int)
          BY <4>1
        <5>3. MaxBodySize \in Nat
          BY <4>1
        <5> QED BY <5>1, <5>2, <5>3, PrefixGrows
        <4> QED BY <3>1, <3>2, <4>2
      <3>4. capBuf' = Prefix(written', MaxBodySize) /\ buf'.responseBody = Redact(capBuf')
        <4>1. CASE Len(capBuf) < MaxBodySize
          BY <4>1, <1>2, <1>3, <2>1, <3>1, <3>3 DEF Captured
        <4>2. CASE ~(Len(capBuf) < MaxBodySize)
          <5>1. k = 0 /\ capBuf' = capBuf /\ buf' = buf
            BY <4>2, <1>2, <1>3, <1>4, <2>1, <3>1
          <5>2. PICK q : q = Prefix(chunk, k)
            OBVIOUS
          <5>3. q \in Seq(Int) /\ Len(q) = IF k <= Len(chunk) THEN k ELSE Len(chunk)
            BY <5>2, <3>3, <1>7, PrefixIs
          <5>4. Len(chunk) \in Nat
            BY <1>7
          <5>5. Len(q) = 0
            BY <5>1, <5>3, <5>4
          <5>6. capBuf \o q = capBuf
            <6>1. q = <<>>
              BY <5>3, <5>5
            <6> QED BY <6>1, <1>3
          <5>7. Len(capBuf) = MaxBodySize
            BY <4>2, <1>3, <1>4
          <5>8. buf'.responseBody = Redact(capBuf)
            BY <5>1, <5>7, <3>2
          <5>9. capBuf' = Prefix(written', MaxBodySize)
            BY <5>1, <5>2, <5>6, <1>2, <3>3
          <5> QED BY <5>1, <5>8, <5>9 DEF Redact
        <4> QED BY <4>1, <4>2
      <3>5. BodyInv'
        BY <1>2, <3>4 DEF BodyInv, Redact
      <3>6. capBuf' \in Body /\ Len(capBuf') <= MaxBodySize
        <4>1. PICK w : w = Prefix(written', MaxBodySize)
          OBVIOUS
        <4>2. w \in Seq(Int) /\ Len(w) = IF MaxBodySize <= Len(written') THEN MaxBodySize ELSE Len(written')
          BY <1>4, <1>7, <4>1, PrefixIs
        <4>3. Len(written') \in Nat
          BY <1>7
        <4> QED BY <3>4, <4>1, <4>2, <4>3, <1>4 DEF Body
      <3>7. buf' \in [requestBody : Body, responseBody : Body]
        <4>1. Redact(capBuf') \in Body
          BY <3>6, RedactTyped
        <4> QED BY <4>1, <1>2, <1>3
      <3> QED BY <3>5, <3>6, <3>7
    <2>2. CASE ~Capturing
      <3>1. capBuf' = capBuf /\ buf' = buf
        BY <1>2, <2>2
      <3> QED BY <3>1, <1>3, <1>5, <2>2 DEF Body, BodyInv
    <2> QED BY <2>1, <2>2
  <1>11. TInv'
    BY <1>2, <1>3, <1>4, <1>7, <1>10 DEF RInv, TInv, TypeOK, Body
  <1>12. PromotedInv' /\ HandlerReadsSentBody'
    BY <1>2, <1>5 DEF RInv, PromotedInv, HandlerReadsSentBody
  <1> QED BY <1>6, <1>10, <1>11, <1>12 DEF RInv

LEMMA FlushKeeps ==
  ASSUME RInv, Flush
  PROVE  RInv'
  <1>1. /\ stage = "handling" /\ setup.flusher
        /\ UNCHANGED <<stage, sent, setup, given, rw, capBuf, buf, written, promoted>>
        /\ wire' = IF wire = 0 /\ 200 \notin InfoCodes THEN 200 ELSE wire
    BY DEF Flush, Commit
  <1>2. TInv'
    BY <1>1, RequestAssumption DEF RInv, TInv, TypeOK
  <1>3. Readable' = Readable /\ Capturing' = Capturing
    BY <1>1 DEF Readable, Capturing
  <1>4. StatusInv'
    <2>1. wire' = wire \/ wire' = 200
      BY <1>1
    <2> QED BY <1>1, <2>1 DEF RInv, StatusInv
  <1>5. BodyInv' /\ PromotedInv' /\ HandlerReadsSentBody'
    BY <1>1, <1>3 DEF RInv, BodyInv, PromotedInv, HandlerReadsSentBody, Redact
  <1> QED BY <1>2, <1>4, <1>5 DEF RInv

LEMMA FinishKeeps ==
  ASSUME RInv, Return \/ Panic
  PROVE  RInv'
  <1>1. /\ stage = "handling" /\ stage' \in {"returned", "panicked"}
        /\ UNCHANGED <<sent, setup, given, rw, capBuf, buf, wire, written, promoted>>
    BY DEF Return, Panic
  <1>2. TInv'
    BY <1>1 DEF RInv, TInv, TypeOK
  <1>3. Readable' = Readable /\ Capturing' = Capturing
    BY <1>1 DEF Readable, Capturing
  <1>4. StatusInv' /\ BodyInv' /\ PromotedInv'
    BY <1>1, <1>3 DEF RInv, StatusInv, BodyInv, PromotedInv, Redact
  <1>5. HandlerReadsSentBody'
    BY <1>1, <1>3 DEF RInv, HandlerReadsSentBody
  <1> QED BY <1>2, <1>4, <1>5 DEF RInv

LEMMA EvaluateKeeps ==
  ASSUME RInv, Evaluate
  PROVE  RInv'
  <1>1. PICK other \in BOOLEAN :
          promoted' = IF (StatusPolicy(rw.statusCode) \/ other) /\ setup.correlated
                      THEN rw.statusCode ELSE 0
    BY DEF Evaluate
  <1>2. /\ stage = "returned" /\ stage' = "done"
        /\ UNCHANGED <<sent, setup, given, rw, capBuf, buf, wire, written>>
    BY DEF Evaluate
  <1>3. TInv'
    BY <1>1, <1>2 DEF RInv, TInv, TypeOK
  <1>4. Readable' = Readable /\ Capturing' = Capturing
    BY <1>2 DEF Readable, Capturing
  <1>5. PromotedInv'
    <2>1. rw'.statusCode = rw.statusCode /\ setup'.correlated = setup.correlated
      BY <1>2
    <2>2. promoted' = rw.statusCode \/ (promoted' = 0 /\ ~(StatusPolicy(rw.statusCode) /\ setup.correlated))
      <3>1. CASE StatusPolicy(rw.statusCode) /\ setup.correlated
        BY <3>1, <1>1, Zenon
      <3>2. CASE ~(StatusPolicy(rw.statusCode) /\ setup.correlated)
        <4>1. promoted' = rw.statusCode \/ promoted' = 0
          BY <1>1, Zenon
        <4> QED BY <4>1, <3>2
      <3> QED BY <3>1, <3>2
    <2>3. StatusPolicy(rw'.statusCode) <=> StatusPolicy(rw.statusCode)
      BY <2>1
    <2> QED BY <2>1, <2>2, <2>3 DEF PromotedInv, StatusPolicy
  <1>6. StatusInv' /\ BodyInv' /\ HandlerReadsSentBody'
    BY <1>2, <1>4 DEF RInv, StatusInv, BodyInv, HandlerReadsSentBody, Redact
  <1> QED BY <1>3, <1>5, <1>6 DEF RInv

LEMMA NextKeeps ==
  ASSUME RInv, [Next]_vars
  PROVE  RInv'
  <1>1. CASE UNCHANGED vars
    <2>1. Readable' = Readable /\ Capturing' = Capturing
      BY <1>1 DEF vars, Readable, Capturing
    <2> QED BY <1>1, <2>1 DEF vars, RInv, TInv, TypeOK, StatusInv, PromotedInv, BodyInv, Redact,
                              HandlerReadsSentBody
  <1>2. CASE PassThrough
    BY <1>2, PassThroughKeeps
  <1>3. CASE CaptureRequest
    BY <1>3, CaptureRequestKeeps
  <1>4. CASE \E code \in FinalCodes \cup InfoCodes : WriteHeader(code)
    BY <1>4, WriteHeaderKeeps
  <1>5. CASE \E n \in 0..MaxWritten : Write(n)
    BY <1>5, WriteKeeps
  <1>6. CASE Flush
    BY <1>6, FlushKeeps
  <1>7. CASE Return \/ Panic
    BY <1>7, FinishKeeps
  <1>8. CASE Evaluate
    BY <1>8, EvaluateKeeps
  <1> QED BY <1>1, <1>2, <1>3, <1>4, <1>5, <1>6, <1>7, <1>8 DEF Next

LEMMA RInvHolds == Spec => []RInv
  <1>1. Init => RInv
    BY InitRInv
  <1>2. RInv /\ [Next]_vars => RInv'
    BY NextKeeps
  <1> QED BY <1>1, <1>2, PTL DEF Spec

LEMMA StatusFollows ==
  ASSUME RInv
  PROVE  StatusIsSentOrFlushed
  <1> SUFFICES ASSUME rw.statusCode \notin InfoCodes
               PROVE  rw.statusCode = SentStatus \/ (setup.flusher /\ SentStatus = 200)
    BY DEF StatusIsSentOrFlushed
  <1>1. rw.statusCode /= 0
    BY RequestAssumption DEF RInv, TInv, TypeOK
  <1>2. CASE ~rw.written
    BY <1>2 DEF RInv, StatusInv, SentStatus
  <1>3. CASE rw.written
    BY <1>1, <1>3 DEF RInv, StatusInv, SentStatus
  <1> QED BY <1>2, <1>3

-----------------------------------------------------------------------------
(* Every reachable state of a request is well-typed; the captured body     *)
(* never exceeds its limit (captureResponseWriter, bodycapture.go).        *)
THEOREM TypeCorrect == Spec => []TypeOK
  <1>1. RInv => TypeOK
    BY DEF RInv, TInv
  <1> QED BY <1>1, RInvHolds, PTL

(* Whatever the handler calls and in whatever order, the policies see the  *)
(* status the client gets, up to a Flush's 200 (responseWriter,            *)
(* autopromote.go).                                                        *)
THEOREM StatusIsSent == Spec => []StatusIsSentOrFlushed
  <1>1. RInv => StatusIsSentOrFlushed
    BY StatusFollows
  <1> QED BY <1>1, RInvHolds, PTL

(* If 200 is below the threshold, a correlated request that failed is      *)
(* promoted with the status that was sent (StatusPolicy, policy.go).       *)
THEOREM FailuresPromoted ==
  ASSUME MinCode > 200
  PROVE  Spec => []FinalFailuresArePromoted
  <1>1. RInv => FinalFailuresArePromoted
    <2> SUFFICES ASSUME RInv, rw.statusCode \notin InfoCodes, stage = "done",
                        setup.correlated, SentStatus >= MinCode
                 PROVE  promoted = SentStatus
      BY DEF FinalFailuresArePromoted, FailuresArePromoted
    <2>1. MinCode \in Nat
      BY RequestAssumption
    <2>2. SentStatus /= 200
      BY <2>1
    <2>3. rw.statusCode = SentStatus
      BY <2>2, StatusFollows DEF StatusIsSentOrFlushed
    <2> QED BY <2>3 DEF RInv, PromotedInv, StatusPolicy
  <1> QED BY <1>1, RInvHolds, PTL

(* However the writes are cut, the stored response body is the redacted    *)
(* beginning of what was written (captureResponseWriter.Write).            *)
THEOREM ResponseBodyStored == Spec => []ResponseBodyIsPrefix
  <1>1. RInv => ResponseBodyIsPrefix
    BY DEF RInv, BodyInv, ResponseBodyIsPrefix
  <1> QED BY <1>1, RInvHolds, PTL

(* The handler reads the body that was sent, captured or not, up to what a *)
(* redactor writes into its argument: the captured bytes, and the one      *)
(* beyond the limit if it appends (BodyCaptureMiddleware, bodycapture.go).  *)
THEOREM RequestBodyIntact == Spec => []HandlerReadsSentBody
  <1>1. RInv => HandlerReadsSentBody
    BY DEF RInv
  <1> QED BY <1>1, RInvHolds, PTL
==============================================================================
