--------------------------- MODULE HandoverProofs ---------------------------
(***************************************************************************)
(* Proofs about Handover for any number of bytes, sizes of buffers and     *)
(* scenes: parse_tls_sni stays inside the record, and the bytes of the     *)
(* user reach the local service in order.                                  *)
(***************************************************************************)
EXTENDS Handover, TLAPS

-----------------------------------------------------------------------------
(***************************************************************************)
(* parse_tls_sni, for a record of any length and whatever its length       *)
(* fields say.                                                             *)
(***************************************************************************)

\* The three ends the parser compares with are nested as soon as they are set.
SniInv ==
    /\ field \in Fields
    /\ len \in Nat /\ pos \in Nat /\ end \in Nat /\ snEnd \in Nat
    /\ span \in Nat \X Nat
    /\ field = "record" => pos = 0
    /\ field \in {"extension", "name", "found"} => end <= len
    /\ field \in {"name", "found"} => snEnd <= end
    /\ SniInBounds

\* The parser starts at the first byte of the record.
LEMMA SniStart == ASSUME NEW n \in Nat, SniInit(n) PROVE SniInv
  BY DEF SniInit, SniInv, SniInBounds, Fields

\* A length field that is skipped was inside the record.
LEMMA SkipInv ==
  ASSUME SniInv, NEW f, NEW k \in Nat, NEW lengths, lengths \subseteq Nat,
         NEW next \in {"ciphers", "compression", "extensions"}, Skip(f, k, lengths, next)
  PROVE  SniInv'
<1>1. CASE NoName
  BY <1>1 DEF NoName, Skip, SniInv, SniInBounds, Fields
<1>2. CASE pos + k <= len /\ Reads(k) /\ UNCHANGED <<end, snEnd>>
                /\ \E n \in lengths : Continue(next, pos + k + n)
  BY <1>2 DEF Skip, Reads, Continue, SniInv, SniInBounds, Fields
<1>. QED
  BY <1>1, <1>2 DEF Skip

\* Every step of parse_tls_sni keeps the invariant.
LEMMA SniStep == SniInv /\ [SniNext]_sniVars => SniInv'
<1>. SUFFICES ASSUME SniInv, [SniNext]_sniVars PROVE SniInv'
  OBVIOUS
<1>. USE WidthAssumption DEF SniInv, SniInBounds, Fields
<1>1. CASE Record
  BY <1>1 DEF Record, NoName, Refused, Reads, Continue
<1>2. CASE Hello
  BY <1>2 DEF Hello, NoName, Refused, Reads, Continue
<1>3. CASE SessionId
  BY <1>3, SkipInv, Zenon DEF SessionId
<1>4. CASE CipherSuites
  BY <1>4, SkipInv, Zenon DEF CipherSuites
<1>5. CASE Compression
  BY <1>5, SkipInv DEF Compression
<1>6. CASE Extensions
  BY <1>6 DEF Extensions, NoName, Reads
<1>7. CASE Extension
  BY <1>7 DEF Extension, NoName, Refused, Reads, Continue
<1>8. CASE Name
  BY <1>8 DEF Name, NoName, Refused, Reads, Continue
<1>9. CASE UNCHANGED sniVars
  BY <1>9 DEF sniVars
<1>. QED
  BY <1>1, <1>2, <1>3, <1>4, <1>5, <1>6, <1>7, <1>8, <1>9 DEF SniNext

\* parse_tls_sni never indexes past the record it was given.
THEOREM SniSafe == SniSpec => []SniInBounds
<1>1. (\E n \in Nat : SniInit(n)) => SniInv
  BY SniStart
<1>2. SniInv => SniInBounds
  BY DEF SniInv
<1>. QED
  BY <1>1, <1>2, SniStep, PTL DEF SniSpec
-----------------------------------------------------------------------------
(***************************************************************************)
(* Streams.  Run: bytes that follow one another, perhaps with the end of   *)
(* the stream.  Frames: the same inside mux frames, the first of which may *)
(* have been read in part.                                                 *)
(***************************************************************************)

Item == {"byte", "eof", "frame", "close", "length", "json"} \X Nat

\* The bytes of the user after the a-th up to the b-th, then Eof if e.
Run(w, a, b, e) ==
    /\ w \in Seq(Item) /\ a \in Nat /\ b \in Nat /\ a <= b
    /\ Len(w) = (b - a) + (IF e THEN 1 ELSE 0)
    /\ \A i \in 1..(b - a) : w[i] = Byte(a + i)
    /\ e => w[Len(w)] = Eof

\* n bytes of a payload, then whole frames: after the i-th item r[i] bytes of
\* payload are to come, and c[i] is the last byte so far.
FramesBy(w, n, a, b, e, r, c) ==
    /\ r[0] = n /\ c[0] = a /\ c[Len(w)] = b
    /\ \A i \in 0..Len(w) :
          /\ r[i] \in Nat /\ c[i] \in Nat /\ i + r[i] <= Len(w)
          /\ \A j \in 1..r[i] : /\ w[i + j] = Byte(c[i] + j)
                                /\ c[i + j] = c[i] + j /\ r[i + j] = r[i] - j
    /\ \A i \in 0..(Len(w) - 1) : r[i] = 0 =>
          /\ c[i + 1] = c[i]
          /\ \/ w[i + 1] = Frame(r[i + 1])
             \/ w[i + 1] = CloseFrame /\ e /\ i + 1 = Len(w) /\ r[i + 1] = 0

Frames(w, n, a, b, e) == w \in Seq(Item) /\ \E r, c : FramesBy(w, n, a, b, e, r, c)

LEMMA FirstFacts ==
  ASSUME NEW w \in Seq(Item), NEW k \in 0..Len(w)
  PROVE  /\ First(w, k) \in Seq(Item) /\ Len(First(w, k)) = k
         /\ \A i \in 1..k : First(w, k)[i] = w[i]
  BY DEF First

LEMMA RestFacts ==
  ASSUME NEW w \in Seq(Item), NEW k \in 0..Len(w)
  PROVE  /\ Rest(w, k) \in Seq(Item) /\ Len(Rest(w, k)) = Len(w) - k
         /\ \A i \in 1..(Len(w) - k) : Rest(w, k)[i] = w[k + i]
  BY DEF Rest

\* u is s followed by t.
Joined(u, s, t) ==
    /\ u \in Seq(Item) /\ Len(u) = Len(s) + Len(t)
    /\ \A i \in 1..Len(s) : u[i] = s[i]
    /\ \A i \in 1..Len(t) : u[Len(s) + i] = t[i]

LEMMA JoinFacts == ASSUME NEW s \in Seq(Item), NEW t \in Seq(Item) PROVE Joined(s \o t, s, t)
  BY DEF Joined

\* Sequences with the same items are the same.
LEMMA SameItems ==
  ASSUME NEW s \in Seq(Item), NEW t \in Seq(Item), Len(s) = Len(t), \A i \in 1..Len(s) : s[i] = t[i]
  PROVE  s = t
  OBVIOUS

\* A stream in two parts, and then in two parts again.
LEMMA Rejoined ==
  ASSUME NEW s \in Seq(Item), NEW t \in Seq(Item), NEW f \in Seq(Item), NEW g \in Seq(Item),
         NEW h, NEW u, NEW v, Joined(t, f, g), Joined(h, s, f), Joined(u, h, g), Joined(v, s, t)
  PROVE  u = v
<1>1. Len(s) \in Nat /\ Len(t) \in Nat /\ Len(f) \in Nat /\ Len(g) \in Nat
  OBVIOUS
<1>2. ASSUME NEW i \in 1..Len(s) PROVE u[i] = v[i]
  BY <1>1 DEF Joined
<1>3. ASSUME NEW j \in 1..Len(f) PROVE u[Len(s) + j] = v[Len(s) + j]
  BY <1>1 DEF Joined
<1>4. ASSUME NEW j \in 1..Len(g) PROVE u[Len(s) + (Len(f) + j)] = v[Len(s) + (Len(f) + j)]
  <2>1. u[Len(s) + (Len(f) + j)] = g[j]
    BY <1>1, SMTT(60) DEF Joined
  <2>2. t[Len(f) + j] = g[j] /\ Len(f) + j \in 1..Len(t)
    BY <1>1 DEF Joined
  <2>. QED
    BY <1>1, <2>1, <2>2 DEF Joined
<1>5. ASSUME NEW i \in 1..Len(u) PROVE u[i] = v[i]
  <2>1. i \in 1..Len(s) \/ i - Len(s) \in 1..Len(f) \/ i - Len(s) - Len(f) \in 1..Len(g)
    BY <1>1 DEF Joined
  <2>2. i = Len(s) + (i - Len(s)) /\ i = Len(s) + (Len(f) + (i - Len(s) - Len(f)))
    BY <1>1, <1>5
  <2>. QED
    BY <1>2, <1>3, <1>4, <2>1, <2>2, Zenon
<1>6. u \in Seq(Item) /\ v \in Seq(Item) /\ Len(u) = Len(v)
  BY <1>1 DEF Joined
<1>. QED
  BY <1>5, <1>6, SameItems

\* What is read from one stream and appended to another.
LEMMA Passed ==
  ASSUME NEW s \in Seq(Item), NEW t \in Seq(Item), NEW k \in 0..Len(t)
  PROVE  (s \o First(t, k)) \o Rest(t, k) = s \o t
<1>. DEFINE f == First(t, k)
            g == Rest(t, k)
<1>1. /\ f \in Seq(Item) /\ Len(f) = k /\ \A i \in 1..k : f[i] = t[i]
      /\ g \in Seq(Item) /\ Len(g) = Len(t) - k /\ \A i \in 1..(Len(t) - k) : g[i] = t[k + i]
  BY FirstFacts, RestFacts, Zenon
<1>. HIDE DEF f, g
<1>2. Joined(t, f, g)
  BY <1>1 DEF Joined
<1>3. Joined(s \o f, s, f) /\ s \o f \in Seq(Item) /\ Joined(s \o t, s, t)
  BY <1>1, JoinFacts, Zenon DEF Joined
<1>4. Joined((s \o f) \o g, s \o f, g)
  BY <1>1, <1>3, JoinFacts, Zenon
<1>5. (s \o f) \o g = s \o t
  BY <1>1, <1>2, <1>3, <1>4, Rejoined, Zenon
<1>. QED
  BY <1>5 DEF f, g

\* The operators on streams in combination.
LEMMA JoinAssoc ==
  ASSUME NEW s \in Seq(Item), NEW f \in Seq(Item), NEW g \in Seq(Item)
  PROVE  (s \o f) \o g = s \o (f \o g)
<1>1. s \o f \in Seq(Item) /\ f \o g \in Seq(Item)
  OBVIOUS
<1>2. Joined(s \o f, s, f) /\ Joined(f \o g, f, g) /\ Joined((s \o f) \o g, s \o f, g)
      /\ Joined(s \o (f \o g), s, f \o g)
  BY <1>1, JoinFacts
<1>. QED
  BY <1>1, <1>2, Rejoined

LEMMA JoinEmpty == ASSUME NEW t \in Seq(Item) PROVE <<>> \o t = t /\ t \o <<>> = t
  OBVIOUS

LEMMA JoinAppend ==
  ASSUME NEW s \in Seq(Item), NEW t \in Seq(Item), NEW x \in Item
  PROVE  s \o Append(t, x) = Append(s \o t, x)
  OBVIOUS

LEMMA AppendIsJoin == ASSUME NEW s \in Seq(Item), NEW x \in Item PROVE Append(s, x) = s \o <<x>>
  OBVIOUS

LEMMA RestJoin ==
  ASSUME NEW v \in Seq(Item), NEW s \in Seq(Item), NEW k \in 0..Len(v)
  PROVE  Rest(v \o s, k) = Rest(v, k) \o s
<1>. DEFINE u == v \o s
            a == Rest(u, k)
            b == Rest(v, k)
            z == b \o s
<1>1. u \in Seq(Item) /\ Len(u) = Len(v) + Len(s) /\ (\A i \in 1..Len(v) : u[i] = v[i])
      /\ \A i \in 1..Len(s) : u[Len(v) + i] = s[i]
  BY JoinFacts DEF Joined
<1>2. Len(v) \in Nat /\ Len(s) \in Nat
  OBVIOUS
<1>. HIDE DEF u
<1>3. k \in 0..Len(u)
  BY <1>1, <1>2
<1>4. a \in Seq(Item) /\ Len(a) = Len(u) - k /\ \A i \in 1..(Len(u) - k) : a[i] = u[k + i]
  BY <1>1, <1>3, RestFacts, Zenon
<1>5. b \in Seq(Item) /\ Len(b) = Len(v) - k /\ \A i \in 1..(Len(v) - k) : b[i] = v[k + i]
  BY RestFacts
<1>. HIDE DEF a, b
<1>6. z \in Seq(Item) /\ Len(z) = Len(b) + Len(s) /\ (\A i \in 1..Len(b) : z[i] = b[i])
      /\ \A i \in 1..Len(s) : z[Len(b) + i] = s[i]
  BY <1>5, JoinFacts DEF Joined
<1>. HIDE DEF z
<1>7. ASSUME NEW i \in 1..Len(a) PROVE a[i] = z[i]
  <2>1. a[i] = u[k + i]
    BY <1>4
  <2>2. CASE i <= Len(v) - k
    <3>1. i \in 1..Len(b) /\ k + i \in 1..Len(v) /\ i \in 1..(Len(v) - k)
      BY <1>2, <1>5, <2>2
    <3>. QED
      BY <1>1, <1>5, <1>6, <2>1, <3>1
  <2>3. CASE i > Len(v) - k
    <3>1. PICK j \in 1..Len(s) : k + i = Len(v) + j /\ i = Len(b) + j
      <4>1. i - (Len(v) - k) \in 1..Len(s) /\ k + i = Len(v) + (i - (Len(v) - k)) /\ i = Len(b) + (i - (Len(v) - k))
        BY <1>1, <1>2, <1>4, <1>5, <2>3
      <4>. QED
        BY <4>1, Zenon
    <3>. QED
      BY <1>1, <1>6, <2>1, <3>1
  <2>. QED
    BY <1>2, <2>2, <2>3
<1>8. a \in Seq(Item) /\ z \in Seq(Item) /\ Len(a) = Len(z)
  BY <1>1, <1>2, <1>4, <1>5, <1>6
<1>9. a = z
  BY <1>7, <1>8, SameItems
<1>. QED
  BY <1>9 DEF a, z, b, u

LEMMA RestRest ==
  ASSUME NEW v \in Seq(Item), NEW j \in 0..Len(v), NEW k \in 0..(Len(v) - j)
  PROVE  Rest(Rest(v, j), k) = Rest(v, j + k)
<1>. DEFINE u == Rest(v, j)
            a == Rest(u, k)
            b == Rest(v, j + k)
<1>1. u \in Seq(Item) /\ Len(u) = Len(v) - j /\ \A i \in 1..(Len(v) - j) : u[i] = v[j + i]
  BY RestFacts, Zenon
<1>2. j + k \in 0..Len(v) /\ Len(v) \in Nat
  OBVIOUS
<1>. HIDE DEF u
<1>3. a \in Seq(Item) /\ Len(a) = Len(u) - k /\ \A i \in 1..(Len(u) - k) : a[i] = u[k + i]
  BY <1>1, RestFacts, Zenon
<1>4. b \in Seq(Item) /\ Len(b) = Len(v) - (j + k) /\ \A i \in 1..(Len(v) - (j + k)) : b[i] = v[(j + k) + i]
  BY <1>2, RestFacts
<1>. HIDE DEF a, b
<1>5. ASSUME NEW i \in 1..Len(a) PROVE a[i] = b[i]
  <2>1. k + i \in 1..(Len(v) - j) /\ i \in 1..(Len(v) - (j + k)) /\ j + (k + i) = (j + k) + i /\ i \in 1..(Len(u) - k)
    BY <1>1, <1>2, <1>3
  <2>. QED
    BY <1>1, <1>3, <1>4, <2>1, SMTT(60)
<1>6. Len(a) = Len(b)
  BY <1>1, <1>2, <1>3, <1>4
<1>7. a = b
  BY <1>3, <1>4, <1>5, <1>6, SameItems, Zenon
<1>. QED
  BY <1>7 DEF a, b, u

\* A joined stream falls into its two parts again.
LEMMA Parts ==
  ASSUME NEW s \in Seq(Item), NEW t \in Seq(Item)
  PROVE  First(s \o t, Len(s)) = s /\ Rest(s \o t, Len(s)) = t
<1>. DEFINE u == s \o t
<1>1. u \in Seq(Item) /\ Len(u) = Len(s) + Len(t) /\ (\A i \in 1..Len(s) : u[i] = s[i])
      /\ \A i \in 1..Len(t) : u[Len(s) + i] = t[i]
  BY JoinFacts DEF Joined
<1>2. Len(s) \in Nat /\ Len(t) \in Nat
  OBVIOUS
<1>. HIDE DEF u
<1>3. Len(s) \in 0..Len(u) /\ Len(u) - Len(s) = Len(t)
  BY <1>1, <1>2
<1>4. First(u, Len(s)) = s
  <2>1. /\ First(u, Len(s)) \in Seq(Item) /\ Len(First(u, Len(s))) = Len(s)
        /\ \A i \in 1..Len(s) : First(u, Len(s))[i] = u[i]
    BY <1>1, <1>3, FirstFacts, Zenon
  <2>2. \A i \in 1..Len(s) : First(u, Len(s))[i] = s[i]
    BY <1>1, <2>1
  <2>. QED
    BY <2>1, <2>2, SameItems
<1>5. Rest(u, Len(s)) = t
  <2>1. /\ Rest(u, Len(s)) \in Seq(Item) /\ Len(Rest(u, Len(s))) = Len(t)
        /\ \A i \in 1..Len(t) : Rest(u, Len(s))[i] = u[Len(s) + i]
    BY <1>1, <1>3, RestFacts, ZenonT(60)
  <2>2. \A i \in 1..Len(t) : Rest(u, Len(s))[i] = t[i]
    BY <1>1, <2>1
  <2>. QED
    BY <2>1, <2>2, SameItems
<1>. QED
  BY <1>4, <1>5 DEF u

\* The items are what they are called.
LEMMA Items ==
  /\ \A n \in Nat : Byte(n) \in Item /\ Frame(n) \in Item /\ Frame(n)[2] = n
  /\ Eof \in Item /\ CloseFrame \in Item
  /\ Message \in Seq(Item) /\ Len(Message) = 2 /\ Message[1] # Eof /\ Message[2] # Eof
  /\ \A n : Byte(n) # Eof /\ Frame(n) # CloseFrame /\ Frame(n) # Eof
  /\ CloseFrame # Eof
<1>1. \A n \in Nat : Byte(n) \in Item /\ Frame(n) \in Item /\ Frame(n)[2] = n
  BY DEF Byte, Frame, Item
<1>2. Eof \in Item /\ CloseFrame \in Item
  BY DEF Eof, CloseFrame, Item
<1>3. <<"length", 0>> \in Item /\ <<"json", 0>> \in Item
  BY DEF Item
<1>4. Message \in Seq(Item) /\ Len(Message) = 2 /\ Message[1] = <<"length", 0>> /\ Message[2] = <<"json", 0>>
  BY <1>3 DEF Message
<1>5. \A n : Byte(n)[1] = "byte" /\ Frame(n)[1] = "frame"
  BY DEF Byte, Frame
<1>6. Eof[1] = "eof" /\ CloseFrame[1] = "close"
  BY DEF Eof, CloseFrame
<1>7. \A n : Byte(n) # Eof /\ Frame(n) # CloseFrame /\ Frame(n) # Eof
  BY <1>5, <1>6
<1>8. <<"length", 0>>[1] = "length" /\ <<"json", 0>>[1] = "json"
  OBVIOUS
<1>9. CloseFrame # Eof /\ <<"length", 0>> # Eof /\ <<"json", 0>> # Eof
  BY <1>6, <1>8
<1>. QED
  BY <1>1, <1>2, <1>4, <1>7, <1>9

\* Runs.
LEMMA RunJoin ==
  ASSUME NEW w, NEW s, NEW a, NEW b, NEW d, NEW e \in BOOLEAN, Run(w, a, b, FALSE), Run(s, b, d, e)
  PROVE  Run(w \o s, a, d, e)
<1>. DEFINE u == w \o s
<1>1. Joined(u, w, s) /\ Len(w) = b - a /\ Len(s) = (d - b) + (IF e THEN 1 ELSE 0)
      /\ a \in Nat /\ b \in Nat /\ d \in Nat /\ a <= b /\ b <= d
  BY JoinFacts DEF Run
<1>. HIDE DEF u
<1>2. /\ u \in Seq(Item) /\ Len(u) = (d - a) + (IF e THEN 1 ELSE 0)
      /\ \A i \in 1..(b - a) : u[i] = Byte(a + i)
      /\ \A i \in 1..Len(s) : u[(b - a) + i] = s[i]
  BY <1>1 DEF Joined, Run
<1>3. ASSUME NEW i \in 1..(d - a), i > b - a PROVE u[i] = Byte(a + i)
  <2>1. i - (b - a) \in 1..(d - b) /\ (b - a) + (i - (b - a)) = i /\ b + (i - (b - a)) = a + i
        /\ i - (b - a) \in 1..Len(s)
    BY <1>1, <1>3
  <2>. QED
    BY <1>2, <2>1, Zenon DEF Run
<1>4. e => u[Len(u)] = Eof
  BY <1>1, <1>2, SMTT(60) DEF Run
<1>. QED
  BY <1>1, <1>2, <1>3, <1>4, SMTT(60) DEF Run, u

LEMMA RunCut ==
  ASSUME NEW w, NEW a, NEW b, NEW e \in BOOLEAN, Run(w, a, b, e), NEW k \in 0..Len(w),
         \A i \in 1..k : w[i] # Eof
  PROVE  /\ k <= b - a
         /\ Run(First(w, k), a, a + k, FALSE)
         /\ Run(Rest(w, k), a + k, b, e)
<1>1. w \in Seq(Item) /\ a \in Nat /\ b \in Nat /\ a <= b /\ Len(w) = (b - a) + (IF e THEN 1 ELSE 0)
  BY DEF Run
<1>2. k <= b - a
  BY <1>1 DEF Run
<1>3. Run(First(w, k), a, a + k, FALSE)
  <2>1. \A i \in 1..k : w[i] = Byte(a + i)
    BY <1>1, <1>2 DEF Run
  <2>. QED
    BY <1>1, <2>1, FirstFacts DEF Run
<1>4. Run(Rest(w, k), a + k, b, e)
  <2>. DEFINE u == Rest(w, k)
  <2>1. u \in Seq(Item) /\ Len(u) = Len(w) - k /\ \A i \in 1..(Len(w) - k) : u[i] = w[k + i]
    BY <1>1, RestFacts, Zenon
  <2>. HIDE DEF u
  <2>2. ASSUME NEW i \in 1..(b - (a + k)) PROVE u[i] = Byte((a + k) + i)
    <3>1. k + i \in 1..(b - a) /\ i \in 1..(Len(w) - k) /\ a + (k + i) = (a + k) + i
      BY <1>1, <1>2
    <3>. QED
      BY <2>1, <3>1, SMTT(60) DEF Run
  <2>3. e => u[Len(u)] = Eof
    BY <1>1, <1>2, <2>1 DEF Run
  <2>. QED
    BY <1>1, <1>2, <2>1, <2>2, <2>3 DEF Run, u
<1>. QED
  BY <1>2, <1>3, <1>4, Zenon

\* One more byte, or the end.
LEMMA RunGrows ==
  ASSUME NEW w, NEW a, NEW b, Run(w, a, b, FALSE)
  PROVE  Run(Append(w, Byte(b + 1)), a, b + 1, FALSE) /\ Run(Append(w, Eof), a, b, TRUE)
<1>1. w \in Seq(Item) /\ a \in Nat /\ b \in Nat /\ a <= b /\ Len(w) = b - a
      /\ \A i \in 1..(b - a) : w[i] = Byte(a + i)
  BY DEF Run
<1>2. Byte(b + 1) \in Item /\ Eof \in Item
  BY <1>1, Items
<1>3. ASSUME NEW x \in Item
      PROVE  /\ Append(w, x) \in Seq(Item) /\ Len(Append(w, x)) = Len(w) + 1
             /\ Append(w, x)[Len(w) + 1] = x /\ \A i \in 1..Len(w) : Append(w, x)[i] = w[i]
  BY <1>1
<1>4. a + (b - a + 1) = b + 1
  BY <1>1
<1>. QED
  BY <1>1, <1>2, <1>3, <1>4 DEF Run

LEMMA RunEmpty == ASSUME NEW a \in Nat PROVE Run(<<>>, a, a, FALSE)
  BY DEF Run

\* Frames: what follows a header, and what follows a part of a payload.
LEMMA FramesShift ==
  ASSUME NEW w \in Seq(Item), NEW n, NEW a, NEW b, NEW e, NEW r, NEW c,
         FramesBy(w, n, a, b, e, r, c), NEW k \in 0..Len(w)
  PROVE  Frames(Rest(w, k), r[k], c[k], b, e)
<1>. DEFINE u == Rest(w, k)
            q == [i \in 0..(Len(w) - k) |-> r[k + i]]
            d == [i \in 0..(Len(w) - k) |-> c[k + i]]
<1>1. u \in Seq(Item) /\ Len(u) = Len(w) - k /\ \A i \in 1..(Len(w) - k) : u[i] = w[k + i]
  BY RestFacts, Zenon
<1>2. /\ Len(w) \in Nat /\ k \in Nat /\ k <= Len(w)
      /\ \A i \in 0..(Len(w) - k) : q[i] = r[k + i] /\ d[i] = c[k + i]
  OBVIOUS
<1>. HIDE DEF u, q, d
<1>3. q[0] = r[k] /\ d[0] = c[k] /\ d[Len(u)] = b
  <2>1. 0 \in 0..(Len(w) - k) /\ k + 0 = k /\ Len(w) - k \in 0..(Len(w) - k) /\ k + (Len(w) - k) = Len(w)
    BY <1>2
  <2>. QED
    BY <1>1, <1>2, <2>1, Zenon DEF FramesBy
<1>4. ASSUME NEW i \in 0..Len(u)
      PROVE  /\ q[i] \in Nat /\ d[i] \in Nat /\ i + q[i] <= Len(u)
             /\ \A j \in 1..q[i] : /\ u[i + j] = Byte(d[i] + j)
                                   /\ d[i + j] = d[i] + j /\ q[i + j] = q[i] - j
  <2>1. k + i \in 0..Len(w) /\ q[i] = r[k + i] /\ d[i] = c[k + i] /\ i \in Nat
    BY <1>1, <1>2
  <2>2. /\ r[k + i] \in Nat /\ c[k + i] \in Nat /\ (k + i) + r[k + i] <= Len(w)
        /\ \A j \in 1..r[k + i] : /\ w[(k + i) + j] = Byte(c[k + i] + j)
                                  /\ c[(k + i) + j] = c[k + i] + j /\ r[(k + i) + j] = r[k + i] - j
    BY <2>1, Zenon DEF FramesBy
  <2>3. ASSUME NEW j \in 1..q[i]
        PROVE  /\ u[i + j] = Byte(d[i] + j)
               /\ d[i + j] = d[i] + j /\ q[i + j] = q[i] - j
    <3>1. i + j \in 1..(Len(w) - k) /\ k + (i + j) = (k + i) + j /\ j \in 1..r[k + i]
      <4>1. PICK m \in Nat : m = r[k + i] /\ (k + i) + m <= Len(w) /\ j \in 1..m
        BY <2>1, <2>2, Zenon
      <4>. QED
        BY <1>2, <2>1, <4>1
    <3>2. /\ u[i + j] = w[(k + i) + j] /\ d[i + j] = c[(k + i) + j] /\ q[i + j] = r[(k + i) + j]
      <4>1. i + j \in 0..(Len(w) - k)
        BY <3>1
      <4>. QED
        BY <1>1, <1>2, <3>1, <4>1, Zenon
    <3>. QED
      BY <2>1, <2>2, <3>1, <3>2, Zenon
  <2>. QED
    BY <1>1, <1>2, <2>1, <2>2, <2>3
<1>5. ASSUME NEW i \in 0..(Len(u) - 1), q[i] = 0
      PROVE  /\ d[i + 1] = d[i]
             /\ \/ u[i + 1] = Frame(q[i + 1])
                \/ u[i + 1] = CloseFrame /\ e /\ i + 1 = Len(u) /\ q[i + 1] = 0
  <2>1. /\ k + i \in 0..(Len(w) - 1) /\ k + (i + 1) = (k + i) + 1
        /\ i \in 0..(Len(w) - k) /\ i + 1 \in 1..(Len(w) - k)
        /\ (k + i) + 1 = Len(w) => i + 1 = Len(u)
    BY <1>1, <1>2
  <2>2. /\ q[i] = r[k + i] /\ d[i] = c[k + i] /\ q[i + 1] = r[(k + i) + 1] /\ d[i + 1] = c[(k + i) + 1]
        /\ u[i + 1] = w[(k + i) + 1]
    BY <1>1, <1>2, <2>1, SMTT(60)
  <2>. QED
    BY <1>5, <2>1, <2>2, SMTT(60) DEF FramesBy
<1>6. FramesBy(u, r[k], c[k], b, e, q, d)
  BY <1>3, <1>4, <1>5, Zenon DEF FramesBy
<1>. QED
  BY <1>1, <1>6 DEF Frames, u

LEMMA FramesPayload ==
  ASSUME NEW w, NEW n \in Nat, NEW a, NEW b, NEW e, Frames(w, n, a, b, e), NEW k \in 1..n
  PROVE  /\ k \in 1..Len(w) /\ a \in Nat
         /\ \A i \in 1..k : w[i] = Byte(a + i)
         /\ Frames(Rest(w, k), n - k, a + k, b, e)
<1>1. PICK r, c : FramesBy(w, n, a, b, e, r, c)
  BY DEF Frames
<1>2. w \in Seq(Item) /\ Len(w) \in Nat /\ 0 \in 0..Len(w)
  BY DEF Frames
<1>3. /\ r[0] = n /\ c[0] = a /\ a \in Nat /\ 0 + n <= Len(w)
      /\ \A j \in 1..n : w[0 + j] = Byte(a + j) /\ c[0 + j] = a + j /\ r[0 + j] = n - j
  BY <1>1, <1>2, Zenon DEF FramesBy
<1>4. k \in 0..Len(w) /\ k \in 1..Len(w) /\ \A j \in 1..n : 0 + j = j
  BY <1>2, <1>3
<1>5. r[k] = n - k /\ c[k] = a + k
  BY <1>3, <1>4
<1>6. Frames(Rest(w, k), n - k, a + k, b, e)
  BY <1>1, <1>2, <1>4, <1>5, FramesShift
<1>. QED
  BY <1>3, <1>4, <1>6

LEMMA FramesHeader ==
  ASSUME NEW w, NEW a, NEW b, NEW e, Frames(w, 0, a, b, e), w # <<>>
  PROVE  /\ w[1] = CloseFrame => e /\ b = a
         /\ w[1] # CloseFrame => w[1][2] \in Nat /\ Frames(Rest(w, 1), w[1][2], a, b, e)
<1>1. PICK r, c : FramesBy(w, 0, a, b, e, r, c)
  BY DEF Frames
<1>2. w \in Seq(Item) /\ Len(w) \in Nat /\ Len(w) >= 1 /\ 0 \in 0..(Len(w) - 1) /\ 0 + 1 = 1 /\ 1 \in 0..Len(w)
  BY DEF Frames
<1>3. /\ r[0] = 0 /\ c[0] = a /\ c[0 + 1] = c[0]
      /\ \/ w[0 + 1] = Frame(r[0 + 1])
         \/ w[0 + 1] = CloseFrame /\ e /\ 0 + 1 = Len(w) /\ r[0 + 1] = 0
      /\ r[1] \in Nat /\ c[Len(w)] = b
  BY <1>1, <1>2, Zenon DEF FramesBy
<1>4. ASSUME w[1] = CloseFrame PROVE e /\ b = a
  BY <1>2, <1>3, <1>4, Items, Zenon
<1>5. ASSUME w[1] # CloseFrame PROVE w[1][2] \in Nat /\ Frames(Rest(w, 1), w[1][2], a, b, e)
  <2>1. w[1] = Frame(r[1]) /\ w[1][2] = r[1] /\ c[1] = a
    BY <1>2, <1>3, <1>5 DEF Frame
  <2>. QED
    BY <1>1, <1>2, <1>3, <2>1, FramesShift
<1>. QED
  BY <1>4, <1>5, Zenon

\* More frames after whole frames.
LEMMA FramesJoin ==
  ASSUME NEW w, NEW s, NEW n, NEW a, NEW b, NEW h, NEW e,
         Frames(w, n, a, b, FALSE), Frames(s, 0, b, h, e)
  PROVE  Frames(w \o s, n, a, h, e)
<1>1. PICK r, c : FramesBy(w, n, a, b, FALSE, r, c)
  BY Zenon DEF Frames
<1>2. PICK q, d : FramesBy(s, 0, b, h, e, q, d)
  BY DEF Frames
<1>3. PICK l \in Nat : l = Len(w)
  BY DEF Frames
<1>4. PICK m \in Nat : m = Len(s)
  BY DEF Frames
<1>. DEFINE u == w \o s
            R == [i \in 0..(l + m) |-> IF i <= l THEN r[i] ELSE q[i - l]]
            C == [i \in 0..(l + m) |-> IF i <= l THEN c[i] ELSE d[i - l]]
<1>5. /\ u \in Seq(Item) /\ Len(u) = l + m
      /\ \A i \in 1..l : u[i] = w[i]
      /\ \A i \in 1..m : u[l + i] = s[i]
  BY <1>3, <1>4, JoinFacts, Zenon DEF Joined, Frames
<1>6. \A i \in 0..l : R[i] = r[i] /\ C[i] = c[i]
  BY <1>3, <1>4
<1>7. r[l] = 0 /\ c[l] = b /\ q[0] = 0 /\ d[0] = b
  BY <1>1, <1>2, <1>3 DEF FramesBy
<1>8. ASSUME NEW i \in 0..m PROVE R[l + i] = q[i] /\ C[l + i] = d[i]
  <2>1. l + i \in 0..(l + m) /\ (l + i) - l = i /\ (l + i <= l => i = 0 /\ l + i = l)
    BY <1>3, <1>4
  <2>. QED
    BY <1>7, <2>1, Zenon
<1>. HIDE DEF u, R, C
<1>9. R[0] = n /\ C[0] = a /\ C[Len(u)] = h
  <2>1. 0 \in 0..l /\ m \in 0..m
    BY <1>3, <1>4
  <2>. QED
    BY <1>1, <1>2, <1>4, <1>5, <1>6, <1>8, <2>1, Zenon DEF FramesBy
<1>10. ASSUME NEW i \in 0..Len(u)
       PROVE  /\ R[i] \in Nat /\ C[i] \in Nat /\ i + R[i] <= Len(u)
              /\ \A j \in 1..R[i] : /\ u[i + j] = Byte(C[i] + j)
                                    /\ C[i + j] = C[i] + j /\ R[i + j] = R[i] - j
  <2>1. CASE i \in 0..l
    <3>1. /\ r[i] \in Nat /\ c[i] \in Nat /\ i + r[i] <= l
          /\ \A j \in 1..r[i] : w[i + j] = Byte(c[i] + j) /\ c[i + j] = c[i] + j /\ r[i + j] = r[i] - j
      BY <1>1, <1>3, <2>1, Zenon DEF FramesBy
    <3>2. R[i] = r[i] /\ C[i] = c[i]
      BY <1>6, <2>1
    <3>3. ASSUME NEW j \in 1..r[i] PROVE i + j \in 1..l /\ i + j \in 0..l
      BY <2>1, <3>1, SMTT(60)
    <3>4. ASSUME NEW j \in 1..R[i]
          PROVE  u[i + j] = Byte(C[i] + j) /\ C[i + j] = C[i] + j /\ R[i + j] = R[i] - j
      BY <1>5, <1>6, <3>1, <3>2, <3>3, Zenon
    <3>. QED
      BY <1>5, <2>1, <3>1, <3>2, <3>4
  <2>2. CASE i > l
    <3>1. PICK x \in 0..m : x = i - l /\ i = l + x
      BY <1>5, <2>2
    <3>2. /\ q[x] \in Nat /\ d[x] \in Nat /\ x + q[x] <= m
          /\ \A j \in 1..q[x] : s[x + j] = Byte(d[x] + j) /\ d[x + j] = d[x] + j /\ q[x + j] = q[x] - j
      BY <1>2, <1>4, Zenon DEF FramesBy
    <3>3. R[i] = q[x] /\ C[i] = d[x]
      BY <1>8, <3>1
    <3>4. ASSUME NEW j \in 1..q[x] PROVE x + j \in 1..m /\ x + j \in 0..m /\ i + j = l + (x + j)
      BY <3>1, <3>2
    <3>5. ASSUME NEW j \in 1..R[i]
          PROVE  u[i + j] = Byte(C[i] + j) /\ C[i + j] = C[i] + j /\ R[i + j] = R[i] - j
      BY <1>5, <1>8, <3>2, <3>3, <3>4, ZenonT(60)
    <3>. QED
      BY <1>5, <3>1, <3>2, <3>3, <3>5
  <2>. QED
    BY <1>5, <2>1, <2>2, SMTT(60)
<1>11. ASSUME NEW i \in 0..(Len(u) - 1), R[i] = 0
       PROVE  /\ C[i + 1] = C[i]
              /\ \/ u[i + 1] = Frame(R[i + 1])
                 \/ u[i + 1] = CloseFrame /\ e /\ i + 1 = Len(u) /\ R[i + 1] = 0
  <2>1. CASE i < l
    <3>1. i \in 0..(l - 1) /\ i \in 0..l /\ i + 1 \in 1..l /\ i + 1 \in 0..l
      BY <1>5, <2>1
    <3>2. r[i] = 0
      BY <1>6, <1>11, <3>1
    <3>3. c[i + 1] = c[i] /\ w[i + 1] = Frame(r[i + 1])
      BY <1>1, <1>3, <3>1, <3>2, Zenon DEF FramesBy
    <3>. QED
      BY <1>5, <1>6, <3>1, <3>3, Zenon
  <2>2. CASE i >= l
    <3>1. PICK x \in 0..(m - 1) : x = i - l /\ i = l + x
      BY <1>5, <2>2
    <3>2. x \in 0..m /\ x + 1 \in 1..m /\ x + 1 \in 0..m /\ i + 1 = l + (x + 1) /\ (x + 1 = m => i + 1 = l + m)
      BY <1>5, <3>1
    <3>3. q[x] = 0
      BY <1>8, <1>11, <3>1, <3>2
    <3>4. /\ d[x + 1] = d[x]
          /\ \/ s[x + 1] = Frame(q[x + 1])
             \/ s[x + 1] = CloseFrame /\ e /\ x + 1 = m /\ q[x + 1] = 0
      BY <1>2, <1>4, <3>1, <3>3, Zenon DEF FramesBy
    <3>5. R[i + 1] = q[x + 1] /\ C[i + 1] = d[x + 1] /\ C[i] = d[x] /\ u[i + 1] = s[x + 1]
      BY <1>5, <1>8, <3>1, <3>2, Zenon
    <3>. QED
      BY <1>5, <3>2, <3>4, <3>5, Zenon
  <2>. QED
    BY <1>5, <2>1, <2>2
<1>12. FramesBy(u, n, a, h, e, R, C)
  BY <1>9, <1>10, <1>11 DEF FramesBy
<1>. QED
  BY <1>5, <1>12, Zenon DEF Frames, u

\* One frame: a header and as many bytes as it says.
LEMMA FramesOne ==
  ASSUME NEW s, NEW a, NEW b, Run(s, a, b, FALSE)
  PROVE  Frames(<<Frame(b - a)>> \o s, 0, a, b, FALSE)
<1>1. PICK m \in Nat : m = b - a
  BY DEF Run
<1>. DEFINE u == <<Frame(m)>> \o s
            R == [i \in 0..(m + 1) |-> IF i = 0 THEN 0 ELSE (m + 1) - i]
            C == [i \in 0..(m + 1) |-> IF i = 0 THEN a ELSE a + (i - 1)]
<1>2. s \in Seq(Item) /\ Len(s) = m /\ a \in Nat /\ b = a + m /\ \A i \in 1..m : s[i] = Byte(a + i)
  BY <1>1 DEF Run
<1>3. <<Frame(m)>> \in Seq(Item) /\ Len(<<Frame(m)>>) = 1 /\ <<Frame(m)>>[1] = Frame(m)
  BY <1>1, Items
<1>4. /\ u \in Seq(Item) /\ Len(u) = m + 1
      /\ u[1] = Frame(m) /\ \A i \in 1..m : u[1 + i] = Byte(a + i)
  BY <1>2, <1>3, JoinFacts DEF Joined
<1>5. /\ R[0] = 0 /\ C[0] = a
      /\ \A i \in 1..(m + 1) : R[i] = (m + 1) - i /\ C[i] = a + (i - 1)
  BY <1>2
<1>. HIDE DEF u, R, C
<1>6. ASSUME NEW i \in 0..Len(u)
      PROVE  /\ R[i] \in Nat /\ C[i] \in Nat /\ i + R[i] <= Len(u)
             /\ \A j \in 1..R[i] : /\ u[i + j] = Byte(C[i] + j)
                                   /\ C[i + j] = C[i] + j /\ R[i + j] = R[i] - j
  <2>1. CASE i = 0
    BY <1>2, <1>4, <1>5, <2>1
  <2>2. CASE i \in 1..(m + 1)
    <3>1. R[i] = (m + 1) - i /\ C[i] = a + (i - 1)
      BY <1>5, <2>2, Zenon
    <3>2. ASSUME NEW j \in 1..R[i]
          PROVE  u[i + j] = Byte(C[i] + j) /\ C[i + j] = C[i] + j /\ R[i + j] = R[i] - j
      <4>1. /\ i + j \in 1..(m + 1) /\ (i - 1) + j \in 1..m /\ i + j = 1 + ((i - 1) + j)
            /\ a + ((i - 1) + j) = (a + (i - 1)) + j
            /\ (m + 1) - (i + j) = ((m + 1) - i) - j /\ a + ((i + j) - 1) = (a + (i - 1)) + j
        BY <1>2, <2>2, <3>1
      <4>2. u[i + j] = Byte(a + ((i - 1) + j)) /\ R[i + j] = (m + 1) - (i + j) /\ C[i + j] = a + ((i + j) - 1)
        BY <1>4, <1>5, <4>1
      <4>. QED
        BY <3>1, <4>1, <4>2
    <3>. QED
      BY <1>2, <1>4, <2>2, <3>1, <3>2
  <2>. QED
    BY <1>4, <2>1, <2>2
<1>7. ASSUME NEW i \in 0..(Len(u) - 1), R[i] = 0
      PROVE  C[i + 1] = C[i] /\ u[i + 1] = Frame(R[i + 1])
  <2>1. i = 0
    BY <1>4, <1>5, <1>7
  <2>2. 1 \in 1..(m + 1) /\ (m + 1) - 1 = m /\ a + (1 - 1) = a /\ 0 + 1 = 1
    BY <1>2
  <2>. QED
    BY <1>4, <1>5, <2>1, <2>2
<1>8. C[Len(u)] = b
  BY <1>2, <1>4, <1>5
<1>9. FramesBy(u, 0, a, b, FALSE, R, C)
  BY <1>5, <1>6, <1>7, <1>8 DEF FramesBy
<1>. QED
  BY <1>1, <1>4, <1>9, Zenon DEF Frames, u

\* An empty frame, and the frame that ends the stream.
LEMMA FramesBase ==
  ASSUME NEW a \in Nat
  PROVE  Frames(<<Frame(0)>>, 0, a, a, FALSE) /\ Frames(<<CloseFrame>>, 0, a, a, TRUE)
<1>1. Frames(<<Frame(0)>>, 0, a, a, FALSE)
  <2>1. <<Frame(0)>> \in Seq(Item)
    BY Items
  <2>2. a - a = 0 /\ <<Frame(0)>> \o <<>> = <<Frame(0)>>
    BY <2>1
  <2>3. Frames(<<Frame(a - a)>> \o <<>>, 0, a, a, FALSE)
    BY RunEmpty, FramesOne, Zenon
  <2>. QED
    BY <2>2, <2>3, Zenon
<1>2. Frames(<<CloseFrame>>, 0, a, a, TRUE)
  <2>. DEFINE u == <<CloseFrame>>
              R == [i \in 0..1 |-> 0]
              C == [i \in 0..1 |-> a]
  <2>1. u \in Seq(Item) /\ Len(u) = 1 /\ u[1] = CloseFrame
    BY Items
  <2>2. R[0] = 0 /\ R[1] = 0 /\ C[0] = a /\ C[1] = a
    OBVIOUS
  <2>. HIDE DEF u, R, C
  <2>3. FramesBy(u, 0, a, a, TRUE, R, C)
    <3>1. ASSUME NEW i \in 0..Len(u)
          PROVE  /\ R[i] \in Nat /\ C[i] \in Nat /\ i + R[i] <= Len(u)
                 /\ \A j \in 1..R[i] : /\ u[i + j] = Byte(C[i] + j)
                                       /\ C[i + j] = C[i] + j /\ R[i + j] = R[i] - j
      <4>1. R[i] = 0 /\ C[i] = a
        BY <2>1, <2>2
      <4>2. 1..0 = {}
        OBVIOUS
      <4>. QED
        BY <2>1, <4>1, <4>2
    <3>2. ASSUME NEW i \in 0..(Len(u) - 1)
          PROVE  C[i + 1] = C[i] /\ u[i + 1] = CloseFrame /\ i + 1 = Len(u) /\ R[i + 1] = 0
      <4>1. i = 0
        BY <2>1
      <4>. QED
        BY <2>1, <2>2, <4>1
    <3>. QED
      BY <2>1, <2>2, <3>1, <3>2, Zenon DEF FramesBy
  <2>. QED
    BY <2>1, <2>3, Zenon DEF Frames, u
<1>. QED
  BY <1>1, <1>2, Zenon

-----------------------------------------------------------------------------
(***************************************************************************)
(* The bytes of the user.  Before the work connection is there they are in *)
(* what the server has read and what is on its way to it; from then on     *)
(* those up to the x-th have passed the server and the others have not.    *)
(***************************************************************************)

\* A stream of the work connection.
Line(w, n, a, b, e) == IF scene.kind = "mux" THEN Frames(w, n, a, b, e) ELSE n = 0 /\ Run(w, a, b, e)

\* A stream that starts with a message, and what follows it.
StartsWithMessage(v) == /\ v \in Seq(Item) /\ Len(v) >= Len(Message)
                        /\ \A i \in 1..Len(Message) : v[i] = Message[i]
AfterMessage(v) == Rest(v, Len(Message))

\* What the client has in its buffer or has not read.
Waiting == buf \o down

Kept ==
    /\ scene.kind \in Kinds /\ scene.head \in Nat /\ sent \in Nat /\ shut \in BOOLEAN /\ skipped \in Nat
    /\ scene.kind # "visitor" => skipped = 0
    /\ got \in Seq(Item) /\ \A i \in 1..Len(got) : got[i] = Byte(skipped + i)

Fresh == /\ client = "wait" /\ buf = <<>> /\ down = <<>> /\ need = 0 /\ part = <<>>
         /\ got = <<>> /\ skipped = 0

\* The server reads: v is what it has read and what it may read.
Intake(v) ==
    /\ server \in {"head", "tls", "sni", "visit", "ask"}
    /\ Fresh
    /\ data \in Seq(Item) /\ up \in Seq(Item)
    /\ server = "visit" => scene.kind = "visitor"
    /\ server \in {"head", "tls", "sni"} => scene.kind \in {"http", "https"}
    /\ scene.kind = "mux" => data = <<>>
    /\ IF scene.kind = "visitor"
       THEN \/ server = "visit" /\ data = <<>> /\ up = <<>> /\ sent = 0 /\ ~shut
            \/ /\ StartsWithMessage(v) /\ Run(AfterMessage(v), 0, sent, shut)
               /\ Len(data) <= Len(Message) + sent
               /\ server = "ask" => Len(data) >= Len(Message)
       ELSE Run(v, 0, sent, shut) /\ Len(data) <= sent

\* The client has, or will get, the bytes up to the x-th, and the end if e.
Flow(x, e) ==
    /\ client \in {"wait", "connect", "relay", "frames", "ended"}
    /\ buf \in Seq(Item) /\ down \in Seq(Item) /\ part \in Seq(Item) /\ need \in Nat
    /\ client \in {"wait", "connect"} =>
          got = <<>> /\ part = <<>> /\ need = 0 /\ \A i \in 1..Len(buf) : buf[i] # Eof
    /\ client = "wait" =>
          /\ StartsWithMessage(Waiting) /\ Line(AfterMessage(Waiting), 0, skipped, x, e)
          /\ Len(buf) < Len(Message)
    /\ client = "connect" => Line(Waiting, 0, skipped, x, e)
    /\ client = "relay" =>
          scene.kind # "mux" /\ buf = <<>> /\ Run(down, skipped + Len(got), x, e)
    /\ client = "frames" =>
          /\ scene.kind = "mux" /\ (need = 0 => part = <<>>)
          /\ \A i \in 1..Len(part) : part[i] = Byte(skipped + Len(got) + i)
          /\ Frames(Waiting, need, skipped + Len(got) + Len(part), x, e)
    /\ client = "ended" => e /\ x = skipped + Len(got)

Relaying == server = "relay" /\ \E x \in Nat : Run(up, x, sent, shut) /\ Flow(x, FALSE)
Finishing == server = "closed" /\ shut /\ Flow(sent, TRUE)
Dead == server = "closed" /\ (client = "closed" \/ (client = "wait" /\ buf = <<>> /\ down = <<>>))

HandoverInv == Kept /\ (Intake(data \o up) \/ Relaying \/ Finishing \/ Dead)

-----------------------------------------------------------------------------
(***************************************************************************)
(* One lemma per operation.                                                *)
(***************************************************************************)

\* A read returns no more than there is and there is room for, and never Eof.
LEMMA ReadFacts ==
  ASSUME NEW w \in Seq(Item), NEW m \in Nat, NEW k \in Readable(w, m)
  PROVE  k \in 0..Len(w) /\ k \in 1..m /\ k \in Nat /\ \A i \in 1..k : w[i] # Eof
<1>1. k \in 1..m /\ k <= Len(w) /\ Eof \notin Range(SubSeq(w, 1, k))
  BY DEF Readable
<1>2. k \in 0..Len(w) /\ k \in Nat
  BY <1>1
<1>3. DOMAIN SubSeq(w, 1, k) = 1..k /\ \A i \in 1..k : SubSeq(w, 1, k)[i] = w[i]
  BY <1>1, <1>2
<1>4. \A i \in 1..k : w[i] \in Range(SubSeq(w, 1, k))
  BY <1>3, Zenon DEF Range
<1>. QED
  BY <1>1, <1>2, <1>4

\* Nothing can be read from an empty stream.
LEMMA NothingToRead == ASSUME NEW m PROVE Readable(<<>>, m) = {} /\ ~AtEof(<<>>)
  BY DEF Readable, AtEof

\* A stream that starts with a message still does when it grows.
LEMMA MessageJoin ==
  ASSUME NEW v, StartsWithMessage(v), NEW s \in Seq(Item)
  PROVE  StartsWithMessage(v \o s) /\ AfterMessage(v \o s) = AfterMessage(v) \o s
<1>1. v \in Seq(Item) /\ Len(v) \in Nat /\ Len(v) >= 2 /\ 2 \in 0..Len(v) /\ Len(Message) = 2
      /\ \A i \in 1..2 : v[i] = Message[i]
  BY Items DEF StartsWithMessage
<1>2. v \o s \in Seq(Item) /\ Len(v \o s) >= 2 /\ \A i \in 1..2 : (v \o s)[i] = v[i]
  BY <1>1
<1>. QED
  BY <1>1, <1>2, RestJoin, Zenon DEF StartsWithMessage, AfterMessage

\* A message and what was written after it.
LEMMA MessageFirst ==
  ASSUME NEW s \in Seq(Item)
  PROVE  StartsWithMessage(Message \o s) /\ AfterMessage(Message \o s) = s
<1>1. Message \in Seq(Item) /\ Len(Message) = 2
  BY Items
<1>2. AfterMessage(Message \o s) = s
  BY <1>1, Parts, Zenon DEF AfterMessage
<1>3. Joined(Message \o s, Message, s)
  BY <1>1, JoinFacts
<1>. QED
  BY <1>1, <1>2, <1>3 DEF Joined, StartsWithMessage

\* The work connection carries what the server writes to it.
LEMMA LineJoin ==
  ASSUME NEW w, NEW s, NEW n, NEW a, NEW b, NEW d, NEW e \in BOOLEAN,
         Line(w, n, a, b, FALSE), Line(s, 0, b, d, e)
  PROVE  Line(w \o s, n, a, d, e)
<1>1. CASE scene.kind = "mux"
  BY <1>1, FramesJoin, Zenon DEF Line
<1>2. CASE scene.kind # "mux"
  BY <1>2, RunJoin, Zenon DEF Line
<1>. QED
  BY <1>1, <1>2

\* Every stream is a sequence of items.
LEMMA LineItems == ASSUME NEW w, NEW n, NEW a, NEW b, NEW e, Line(w, n, a, b, e) PROVE w \in Seq(Item)
  BY DEF Line, Run, Frames

\* The server writes s to the work connection.
LEMMA FlowGrows ==
  ASSUME NEW x, NEW y, NEW e \in BOOLEAN, NEW s, Flow(x, FALSE), Line(s, 0, x, y, e), down' = down \o s,
         UNCHANGED <<scene, skipped, clientVars>>
  PROVE  Flow(y, e)'
<1>1. s \in Seq(Item)
  BY LineItems
<1>2. buf \in Seq(Item) /\ down \in Seq(Item) /\ Waiting \in Seq(Item) /\ down' \in Seq(Item)
  BY <1>1 DEF Flow, Waiting
<1>3. Waiting' = Waiting \o s
  BY <1>1, <1>2, JoinAssoc, SMTT(60) DEF Waiting, clientVars
<1>4. UNCHANGED <<client, buf, need, part, got, scene, skipped>>
  BY DEF clientVars
<1>6. CASE client = "wait"
  <2>1. StartsWithMessage(Waiting) /\ Line(AfterMessage(Waiting), 0, skipped, x, FALSE)
    BY <1>6, Zenon DEF Flow
  <2>2. StartsWithMessage(Waiting') /\ AfterMessage(Waiting') = AfterMessage(Waiting) \o s
    BY <1>1, <1>3, <2>1, MessageJoin, Zenon
  <2>3. Line(AfterMessage(Waiting'), 0, skipped, y, e)
    BY <2>1, <2>2, LineJoin, Zenon
  <2>. QED
    BY <1>2, <1>4, <1>6, <2>2, <2>3 DEF Flow, StartsWithMessage, AfterMessage, Line
<1>7. CASE client = "connect"
  <2>1. Line(Waiting', 0, skipped, y, e)
    BY <1>3, <1>7, LineJoin, Zenon DEF Flow
  <2>. QED
    BY <1>2, <1>4, <1>7, <2>1 DEF Flow, Line
<1>8. CASE client = "relay"
  <2>1. Run(s, x, y, e)
    BY <1>8 DEF Flow, Line
  <2>2. Run(down', skipped + Len(got), y, e)
    BY <1>8, <2>1, RunJoin, Zenon DEF Flow
  <2>. QED
    BY <1>2, <1>4, <1>8, <2>2, Zenon DEF Flow
<1>9. CASE client = "frames"
  <2>1. Frames(s, 0, x, y, e)
    BY <1>9 DEF Flow, Line
  <2>2. Frames(Waiting', need, skipped + Len(got) + Len(part), y, e)
    BY <1>3, <1>9, <2>1, FramesJoin, Zenon DEF Flow
  <2>. QED
    BY <1>2, <1>4, <1>9, <2>2, Zenon DEF Flow
<1>. QED
  BY <1>6, <1>7, <1>8, <1>9, Zenon DEF Flow

\* The client reads through its prefix: the stream it reads is the prefix and
\* what arrives after it.
LEMMA TakeFacts ==
  ASSUME buf \in Seq(Item), down \in Seq(Item), NEW k \in 0..Len(Prefixed), TakePrefixed(k)
  PROVE  /\ buf' \in Seq(Item) /\ down' \in Seq(Item) /\ Waiting' = Rest(Waiting, k)
         /\ Prefixed \in Seq(Item) /\ Waiting \in Seq(Item) /\ k \in 0..Len(Waiting)
         /\ \A i \in 1..k : Prefixed[i] = Waiting[i]
<1>1. CASE buf # <<>>
  <2>1. Prefixed = buf /\ buf' = Rest(buf, k) /\ down' = down /\ k \in 0..Len(buf)
    BY <1>1, Zenon DEF Prefixed, TakePrefixed
  <2>2. Rest(buf \o down, k) = Rest(buf, k) \o down /\ Rest(buf, k) \in Seq(Item)
    BY <2>1, RestJoin, RestFacts, Zenon
  <2>3. /\ buf \o down \in Seq(Item) /\ k \in 0..Len(buf \o down)
        /\ \A i \in 1..k : (buf \o down)[i] = buf[i]
    BY <2>1
  <2>. QED
    BY <2>1, <2>2, <2>3 DEF Waiting
<1>2. CASE buf = <<>>
  <2>1. Prefixed = down /\ down' = Rest(down, k) /\ buf' = <<>> /\ k \in 0..Len(down)
    BY <1>2 DEF Prefixed, TakePrefixed
  <2>2. Rest(down, k) \in Seq(Item) /\ buf' \in Seq(Item)
    BY <2>1, RestFacts
  <2>3. Waiting = down /\ Waiting' = Rest(down, k)
    BY <1>2, <2>1, <2>2, JoinEmpty DEF Waiting
  <2>. QED
    BY <2>1, <2>2, <2>3
<1>. QED
  BY <1>1, <1>2, Zenon

\* The bytes that the local service has, and more of them.
LEMMA GotGrows ==
  ASSUME Kept, NEW s \in Seq(Item), \A i \in 1..Len(s) : s[i] = Byte(skipped + Len(got) + i),
         got' = got \o s, UNCHANGED <<scene, sent, shut, skipped>>
  PROVE  Kept' /\ Len(got') = Len(got) + Len(s)
<1>1. got \in Seq(Item) /\ Len(got) \in Nat /\ skipped \in Nat /\ \A i \in 1..Len(got) : got[i] = Byte(skipped + i)
  BY DEF Kept
<1>2. Joined(got', got, s)
  BY <1>1, JoinFacts, Zenon
<1>3. ASSUME NEW i \in 1..Len(got') PROVE got'[i] = Byte(skipped + i)
  <2>1. CASE i <= Len(got)
    BY <1>1, <1>2, <2>1 DEF Joined
  <2>2. CASE i > Len(got)
    <3>1. PICK j \in 1..Len(s) : i = Len(got) + j /\ skipped + Len(got) + j = skipped + i
      <4>1. i - Len(got) \in 1..Len(s) /\ i = Len(got) + (i - Len(got))
            /\ skipped + Len(got) + (i - Len(got)) = skipped + i
        BY <1>1, <1>2, <2>2 DEF Joined
      <4>. QED
        BY <4>1, Zenon
    <3>. QED
      BY <1>2, <3>1 DEF Joined
  <2>. QED
    BY <1>1, <2>1, <2>2
<1>. QED
  BY <1>1, <1>2, <1>3, Zenon DEF Kept, Joined

\* create_work_conn_static keeps what it read beyond StartWorkConn.
LEMMA RecvStartStep ==
  ASSUME Chunk \in Nat, Kept, NEW x, NEW e \in BOOLEAN, Flow(x, e), RecvStart
  PROVE  Kept' /\ Flow(x, e)'
<1>1. PICK k \in Readable(down, Chunk) :
          LET b == buf \o First(down, k)
          IN /\ down' = Rest(down, k)
             /\ buf' = IF Decodes(b) THEN Rest(b, Len(Message)) ELSE b
             /\ client' = IF Decodes(b) THEN "connect" ELSE "wait"
  BY Zenon DEF RecvStart
<1>. DEFINE f == First(down, k)
            g == Rest(down, k)
            b == buf \o f
<1>2. buf \in Seq(Item) /\ down \in Seq(Item) /\ client = "wait" /\ \A i \in 1..Len(buf) : buf[i] # Eof
  BY Zenon DEF Flow, RecvStart
<1>3. k \in 0..Len(down) /\ k \in Nat /\ \A i \in 1..k : down[i] # Eof
  BY <1>2, ReadFacts, Zenon
<1>4. /\ f \in Seq(Item) /\ Len(f) = k /\ (\A i \in 1..k : f[i] = down[i])
      /\ g \in Seq(Item) /\ b \o g = Waiting
  BY <1>2, <1>3, FirstFacts, RestFacts, Passed, Zenon DEF Waiting
<1>5. down' = g /\ buf' = (IF Decodes(b) THEN Rest(b, Len(Message)) ELSE b)
      /\ client' = (IF Decodes(b) THEN "connect" ELSE "wait")
  BY <1>1
<1>. HIDE DEF f, g
<1>6. b \in Seq(Item) /\ Len(b) \in Nat /\ Joined(b, buf, f)
  <2>1. Joined(b, buf, f)
    BY <1>2, <1>4, JoinFacts, Zenon
  <2>. QED
    BY <2>1 DEF Joined
<1>7. \A i \in 1..Len(b) : b[i] # Eof
  <2>1. ASSUME NEW i \in 1..Len(b) PROVE b[i] # Eof
    <3>1. CASE i <= Len(buf)
      BY <1>2, <1>6, <3>1 DEF Joined
    <3>2. CASE i > Len(buf)
      <4>1. i - Len(buf) \in 1..k /\ i = Len(buf) + (i - Len(buf))
        BY <1>2, <1>4, <1>6, <3>2, SMTT(60) DEF Joined
      <4>. QED
        BY <1>3, <1>4, <1>6, <4>1, Zenon DEF Joined
    <3>. QED
      BY <1>2, <3>1, <3>2
  <2>. QED
    BY <2>1, Zenon
<1>. HIDE DEF b
<1>8. UNCHANGED <<scene, sent, shut, skipped, need, part, got>> /\ Kept'
  BY Zenon DEF RecvStart, userVars, serverVars, Kept
<1>9. /\ got = <<>> /\ part = <<>> /\ need = 0
      /\ StartsWithMessage(Waiting) /\ Line(AfterMessage(Waiting), 0, skipped, x, e) /\ Len(Message) = 2
  BY <1>2, Items, Zenon DEF Flow
<1>10. CASE Decodes(b)
  <2>1. 2 \in 0..Len(b) /\ Len(b) - 2 \in Nat
    BY <1>6, <1>9, <1>10 DEF Decodes
  <2>2. /\ Rest(b, 2) \in Seq(Item) /\ Len(Rest(b, 2)) = Len(b) - 2
        /\ \A i \in 1..(Len(b) - 2) : Rest(b, 2)[i] = b[2 + i]
    BY <1>6, <2>1, RestFacts
  <2>3. \A i \in 1..(Len(b) - 2) : 2 + i \in 1..Len(b)
    BY <1>6, <2>1
  <2>4. \A i \in 1..Len(buf') : buf'[i] # Eof
    BY <1>5, <1>7, <1>9, <1>10, <2>2, <2>3
  <2>5. Waiting' = AfterMessage(Waiting)
    <3>1. Rest(b \o g, 2) = Rest(b, 2) \o g
      BY <1>4, <1>6, <2>1, RestJoin, Zenon
    <3>. QED
      BY <1>4, <1>5, <1>9, <1>10, <3>1, Zenon DEF Waiting, AfterMessage
  <2>. QED
    BY <1>4, <1>5, <1>8, <1>9, <1>10, <2>2, <2>4, <2>5 DEF Flow, Line
<1>11. CASE ~Decodes(b)
  <2>1. Waiting' = Waiting /\ Len(buf') < Len(Message)
    <3>1. buf' = b /\ ~(Len(b) >= Len(Message))
      BY <1>5, <1>11 DEF Decodes
    <3>2. Waiting' = Waiting
      BY <1>4, <1>5, <3>1, Zenon DEF Waiting
    <3>. QED
      BY <1>6, <1>9, <3>1, <3>2
  <2>. QED
    BY <1>4, <1>5, <1>6, <1>7, <1>8, <1>9, <1>11, <2>1, Zenon
       DEF Flow, Line, StartsWithMessage, AfterMessage
<1>. QED
  BY <1>10, <1>11

\* handle_work_conn writes the buffer to the local service before it copies;
\* handle_mux_work_conn keeps it as the prefix of its stream.
LEMMA ConnectLocalStep ==
  ASSUME Kept, NEW x, NEW e \in BOOLEAN, Flow(x, e), ConnectLocal
  PROVE  Kept' /\ Flow(x, e)'
<1>1. /\ client = "connect" /\ UNCHANGED <<scene, sent, shut, skipped, need, part, down>>
      /\ Line(Waiting, 0, skipped, x, e) /\ buf \in Seq(Item) /\ down \in Seq(Item)
      /\ got = <<>> /\ part = <<>> /\ need = 0 /\ skipped \in Nat
      /\ \A i \in 1..Len(buf) : buf[i] # Eof
  BY Zenon DEF ConnectLocal, Flow, Kept, userVars, serverVars
<1>2. Len(<<>>) = 0 /\ skipped + 0 = skipped /\ skipped + 0 + 0 = skipped
  BY <1>1
<1>3. CASE scene.kind = "mux"
  <2>1. client' = "frames" /\ buf' = buf /\ got' = got
    BY <1>3, Zenon DEF ConnectLocal
  <2>2. Frames(Waiting, 0, skipped + Len(got) + Len(part), x, e)
    BY <1>1, <1>2, <1>3, Zenon DEF Line
  <2>3. Kept'
    BY <1>1, <2>1, Zenon DEF Kept
  <2>. QED
    BY <1>1, <1>3, <2>1, <2>2, <2>3 DEF Flow, Waiting
<1>4. CASE scene.kind # "mux"
  <2>1. client' = "relay" /\ got' = got \o buf /\ buf' = <<>>
    BY <1>4 DEF ConnectLocal
  <2>2. Run(Waiting, skipped, x, e)
    BY <1>1, <1>4, Zenon DEF Line
  <2>3. Waiting \in Seq(Item) /\ Len(buf) \in 0..Len(Waiting) /\ \A i \in 1..Len(buf) : Waiting[i] = buf[i]
    BY <1>1 DEF Waiting
  <2>4. First(Waiting, Len(buf)) = buf /\ Rest(Waiting, Len(buf)) = down
    BY <1>1, Parts DEF Waiting
  <2>5. Run(buf, skipped, skipped + Len(buf), FALSE) /\ Run(down, skipped + Len(buf), x, e)
    BY <1>1, <2>2, <2>3, <2>4, RunCut, Zenon
  <2>6. \A i \in 1..Len(buf) : buf[i] = Byte(skipped + Len(got) + i)
    BY <1>1, <1>2, <2>5 DEF Run
  <2>7. Kept' /\ Len(got') = Len(got) + Len(buf)
    BY <1>1, <2>1, <2>6, GotGrows
  <2>8. Len(got') = Len(buf)
    BY <1>1, <1>2, <2>7, SMTT(30)
  <2>. QED
    BY <1>1, <1>4, <2>1, <2>5, <2>7, <2>8 DEF Flow
<1>. QED
  BY <1>3, <1>4

\* copy_bidirectional of the client.
LEMMA ClientCopiesStep ==
  ASSUME Chunk \in Nat, Kept, NEW x, NEW e \in BOOLEAN, Flow(x, e), ClientCopies
  PROVE  Kept' /\ Flow(x, e)'
<1>1. PICK k \in Readable(down, Chunk) : got' = got \o First(down, k) /\ down' = Rest(down, k)
  BY Zenon DEF ClientCopies
<1>2. /\ client = "relay" /\ scene.kind # "mux" /\ buf = <<>> /\ Run(down, skipped + Len(got), x, e)
      /\ down \in Seq(Item) /\ UNCHANGED <<scene, sent, shut, skipped, need, part, client, buf>>
      /\ skipped \in Nat /\ Len(got) \in Nat
  BY DEF ClientCopies, Flow, Kept, userVars, serverVars
<1>3. k \in 0..Len(down) /\ k \in Nat /\ \A i \in 1..k : down[i] # Eof
  BY <1>2, ReadFacts
<1>4. /\ Run(First(down, k), skipped + Len(got), skipped + Len(got) + k, FALSE)
      /\ Run(Rest(down, k), skipped + Len(got) + k, x, e)
  BY <1>2, <1>3, RunCut, Zenon
<1>5. First(down, k) \in Seq(Item) /\ Len(First(down, k)) = k
  BY <1>2, <1>3, FirstFacts, Zenon
<1>6. \A i \in 1..k : First(down, k)[i] = Byte(skipped + Len(got) + i)
  BY <1>2, <1>3, <1>4 DEF Run
<1>7. Kept' /\ Len(got') = Len(got) + k
  BY <1>1, <1>2, <1>5, <1>6, GotGrows, Zenon
<1>8. skipped + (Len(got) + k) = skipped + Len(got) + k
  BY <1>2, <1>3
<1>. QED
  BY <1>1, <1>2, <1>4, <1>7, <1>8 DEF Flow, Run

\* read_mux_frame: the header.
LEMMA FrameHeaderStep ==
  ASSUME Kept, NEW x, NEW e \in BOOLEAN, Flow(x, e), ReadFrameHeader
  PROVE  Kept' /\ Flow(x, e)'
<1>1. /\ client = "frames" /\ need = 0 /\ scene.kind = "mux" /\ part = <<>>
      /\ buf \in Seq(Item) /\ down \in Seq(Item) /\ Prefixed # <<>> /\ TakePrefixed(1)
      /\ need' = Prefixed[1][2] /\ client' = (IF Prefixed[1] = CloseFrame THEN "ended" ELSE "frames")
      /\ UNCHANGED <<scene, sent, shut, skipped, part, got>>
      /\ skipped \in Nat /\ Len(got) \in Nat
  BY SMTT(30) DEF ReadFrameHeader, Flow, Kept, userVars, serverVars
<1>2. Frames(Waiting, 0, skipped + Len(got) + Len(part), x, e)
  BY <1>1, Zenon DEF Flow
<1>3. Prefixed \in Seq(Item)
  BY <1>1, Zenon DEF Prefixed
<1>4. 1 \in 0..Len(Prefixed) /\ 1 \in 1..1
  BY <1>1, <1>3
<1>5. /\ buf' \in Seq(Item) /\ down' \in Seq(Item) /\ Waiting' = Rest(Waiting, 1)
      /\ Waiting \in Seq(Item) /\ 1 \in 0..Len(Waiting) /\ Prefixed[1] = Waiting[1]
  BY <1>1, <1>4, TakeFacts
<1>6. Waiting # <<>>
  BY <1>5
<1>7. Kept'
  BY <1>1 DEF Kept
<1>8. CASE Waiting[1] = CloseFrame
  <2>1. e /\ x = skipped + Len(got) + Len(part)
    BY <1>2, <1>6, <1>8, FramesHeader
  <2>2. need' = 0 /\ client' = "ended"
    BY <1>1, <1>5, <1>8 DEF CloseFrame
  <2>3. x = skipped + Len(got)
    BY <1>1, <2>1, SMTT(30)
  <2>. QED
    BY <1>1, <1>5, <1>7, <2>1, <2>2, <2>3, Zenon DEF Flow
<1>9. CASE Waiting[1] # CloseFrame
  <2>1. Waiting[1][2] \in Nat /\ Frames(Waiting', Waiting[1][2], skipped + Len(got) + Len(part), x, e)
    BY <1>2, <1>5, <1>6, <1>9, FramesHeader, SMTT(20)
  <2>2. client' = "frames" /\ need' = Waiting[1][2]
    BY <1>1, <1>5, <1>9
  <2>. QED
    BY <1>1, <1>5, <1>7, <2>1, <2>2, Zenon DEF Flow
<1>. QED
  BY <1>8, <1>9, Zenon

\* ... and the payload, which is written when it is complete.
LEMMA FramePayloadStep ==
  ASSUME Kept, NEW x, NEW e \in BOOLEAN, Flow(x, e), ReadFramePayload
  PROVE  Kept' /\ Flow(x, e)'
<1>1. /\ client = "frames" /\ scene.kind = "mux" /\ need \in Nat /\ need > 0
      /\ buf \in Seq(Item) /\ down \in Seq(Item) /\ part \in Seq(Item)
      /\ UNCHANGED <<scene, sent, shut, skipped, client>>
      /\ skipped \in Nat /\ got \in Seq(Item) /\ Len(got) \in Nat /\ Len(part) \in Nat
      /\ \A i \in 1..Len(part) : part[i] = Byte(skipped + Len(got) + i)
      /\ Frames(Waiting, need, skipped + Len(got) + Len(part), x, e)
  BY DEF ReadFramePayload, Flow, Kept, userVars, serverVars
<1>2. PICK k \in Readable(Prefixed, need) :
          LET p == part \o First(Prefixed, k)
          IN /\ TakePrefixed(k)
             /\ need' = need - k
             /\ part' = IF need = k THEN <<>> ELSE p
             /\ got' = IF need = k THEN got \o p ELSE got
  BY DEF ReadFramePayload
<1>3. Prefixed \in Seq(Item)
  BY <1>1, Zenon DEF Prefixed
<1>4. k \in 0..Len(Prefixed) /\ k \in 1..need /\ k \in Nat
  BY <1>1, <1>3, ReadFacts
<1>5. TakePrefixed(k)
  BY <1>2, Zenon
<1>6. /\ buf' \in Seq(Item) /\ down' \in Seq(Item) /\ Waiting' = Rest(Waiting, k)
      /\ \A i \in 1..k : Prefixed[i] = Waiting[i]
  BY <1>1, <1>4, <1>5, TakeFacts, Zenon
<1>7. /\ \A i \in 1..k : Waiting[i] = Byte(skipped + Len(got) + Len(part) + i)
      /\ Frames(Waiting', need - k, skipped + Len(got) + Len(part) + k, x, e)
  <2>1. PICK a : a = skipped + Len(got) + Len(part)
    BY Zenon
  <2>2. Frames(Waiting, need, a, x, e)
    BY <1>1, <2>1, Zenon
  <2>3. (\A i \in 1..k : Waiting[i] = Byte(a + i)) /\ Frames(Rest(Waiting, k), need - k, a + k, x, e)
    <3>1. PICK n \in Nat : n = need
      BY <1>1
    <3>2. PICK w : w = Waiting
      OBVIOUS
    <3>3. Frames(w, n, a, x, e) /\ k \in 1..n
      BY <1>4, <2>2, <3>1, <3>2, Zenon
    <3>4. (\A i \in 1..k : w[i] = Byte(a + i)) /\ Frames(Rest(w, k), n - k, a + k, x, e)
      BY <3>3, FramesPayload, SMTT(60)
    <3>. QED
      BY <3>1, <3>2, <3>4, Zenon
  <2>. QED
    BY <1>6, <2>1, <2>3
<1>. DEFINE f == First(Prefixed, k)
            p == part \o f
<1>8. f \in Seq(Item) /\ Len(f) = k /\ \A i \in 1..k : f[i] = Byte(skipped + Len(got) + Len(part) + i)
  BY <1>3, <1>4, <1>6, <1>7, FirstFacts
<1>9. need' = need - k /\ part' = (IF need = k THEN <<>> ELSE p) /\ got' = (IF need = k THEN got \o p ELSE got)
  BY <1>2, Zenon
<1>. HIDE DEF f
<1>10. Joined(p, part, f)
  BY <1>1, <1>8, JoinFacts, Zenon
<1>. HIDE DEF p
<1>11. p \in Seq(Item) /\ Len(p) = Len(part) + k
  BY <1>8, <1>10, Zenon DEF Joined
<1>12. ASSUME NEW i \in 1..Len(p) PROVE p[i] = Byte(skipped + Len(got) + i)
  <2>1. CASE i <= Len(part)
    BY <1>1, <1>10, <2>1 DEF Joined
  <2>2. CASE i > Len(part)
    <3>1. PICK j \in 1..k : i = Len(part) + j /\ skipped + Len(got) + Len(part) + j = skipped + Len(got) + i
      <4>1. /\ i - Len(part) \in 1..k /\ i = Len(part) + (i - Len(part))
            /\ skipped + Len(got) + Len(part) + (i - Len(part)) = skipped + Len(got) + i
        BY <1>1, <1>4, <1>11, <2>2
      <4>. QED
        BY <4>1, Zenon
    <3>2. p[i] = f[j]
      BY <1>8, <1>10, <3>1, Zenon DEF Joined
    <3>. QED
      BY <1>8, <3>1, <3>2
  <2>. QED
    BY <1>1, <2>1, <2>2
<1>13. CASE need = k
  <2>1. got' = got \o p /\ part' = <<>> /\ need' = 0
    BY <1>1, <1>9, <1>13
  <2>2. Kept' /\ Len(got') = Len(got) + Len(p)
    BY <1>1, <1>11, <1>12, <2>1, GotGrows, Zenon
  <2>3. skipped + Len(got') + Len(part') = skipped + Len(got) + Len(part) + k /\ need - k = 0
    BY <1>1, <1>4, <1>11, <1>13, <2>1, <2>2, SMTT(60)
  <2>4. Frames(Waiting', need', skipped' + Len(got') + Len(part'), x, e)
    BY <1>1, <1>7, <2>1, <2>3
  <2>5. part' \in Seq(Item) /\ 1..Len(part') = {}
    BY <2>1, SMTT(20)
  <2>. QED
    BY <1>1, <1>6, <2>1, <2>2, <2>4, <2>5, Zenon DEF Flow
<1>14. CASE need # k
  <2>1. got' = got /\ part' = p /\ need' = need - k /\ need - k \in Nat /\ need - k > 0
    BY <1>1, <1>4, <1>9, <1>14
  <2>2. Kept'
    BY <1>1, <2>1, Zenon DEF Kept
  <2>3. skipped + Len(got) + Len(p) = skipped + Len(got) + Len(part) + k
    BY <1>1, <1>4, <1>11
  <2>4. Frames(Waiting', need', skipped' + Len(got') + Len(part'), x, e)
    BY <1>1, <1>7, <2>1, <2>3, Zenon
  <2>5. need' \in Nat /\ need' # 0
    BY <2>1
  <2>6. part' \in Seq(Item) /\ \A i \in 1..Len(part') : part'[i] = Byte(skipped' + Len(got') + i)
    BY <1>1, <1>11, <1>12, <2>1, Zenon
  <2>. QED
    BY <1>1, <1>6, <2>2, <2>4, <2>5, <2>6, Zenon DEF Flow
<1>. QED
  BY <1>13, <1>14, Zenon

\* The local service sees the end of its stream.
LEMMA ClientShutsDownStep ==
  ASSUME Kept, NEW x, NEW e \in BOOLEAN, Flow(x, e), ClientShutsDown
  PROVE  Kept' /\ Flow(x, e)'
<1>1. /\ client = "relay" /\ Run(down, skipped + Len(got), x, e) /\ down # <<>> /\ down[1] = Eof
      /\ down' = <<>> /\ client' = "ended" /\ UNCHANGED <<scene, sent, shut, skipped, buf, need, part, got>>
      /\ skipped \in Nat /\ Len(got) \in Nat
  BY DEF ClientShutsDown, AtEof, Flow, Kept, userVars, serverVars
<1>2. ~(skipped + Len(got) < x)
  <2>1. ASSUME skipped + Len(got) < x PROVE FALSE
    <3>1. 1 \in 1..(x - (skipped + Len(got)))
      BY <1>1, <2>1 DEF Run
    <3>. QED
      BY <1>1, <3>1, Items, Zenon DEF Run
  <2>. QED
    BY <2>1
<1>3. x = skipped + Len(got) /\ e
  BY <1>1, <1>2 DEF Run
<1>4. Kept' /\ down' \in Seq(Item)
  BY <1>1 DEF Kept
<1>. QED
  BY <1>1, <1>3, <1>4, Zenon DEF Flow

\* Whatever the client does.
LEMMA ClientSteps ==
  ASSUME Chunk \in Nat, Kept, NEW x, NEW e \in BOOLEAN, Flow(x, e), ClientStep
  PROVE  Kept' /\ Flow(x, e)'
  BY RecvStartStep, ConnectLocalStep, ClientCopiesStep, FrameHeaderStep, FramePayloadStep,
     ClientShutsDownStep DEF ClientStep

\* It does nothing without a stream.
LEMMA ClientIdle ==
  ASSUME client = "closed" \/ (client = "wait" /\ down = <<>>)
  PROVE  ~ClientStep
  BY NothingToRead, Zenon
     DEF ClientStep, RecvStart, ConnectLocal, ClientCopies, ReadFrameHeader, ReadFramePayload, ClientShutsDown

\* The server reads k items of the connection into its buffer: what it has read
\* and may read stays the same stream, and it never reads the end.
LEMMA IntakeRead ==
  ASSUME Kept, NEW v, Intake(v), v = data \o up, NEW m \in Nat, NEW k \in Readable(up, m),
         data' = data \o First(up, k), up' = Rest(up, k),
         scene.kind # "mux", scene.kind = "visitor" => server = "visit",
         UNCHANGED <<scene, sent, shut, skipped, down, clientVars>>
  PROVE  /\ data' \o up' = v /\ data' \in Seq(Item) /\ up' \in Seq(Item) /\ Len(data') \in Nat
         /\ scene.kind # "visitor" => Run(v, 0, sent, shut) /\ Len(data') <= sent
         /\ scene.kind = "visitor" => /\ StartsWithMessage(v) /\ Run(AfterMessage(v), 0, sent, shut)
                                      /\ Len(data') <= Len(Message) + sent
<1>1. data \in Seq(Item) /\ up \in Seq(Item) /\ sent \in Nat /\ shut \in BOOLEAN
  BY Zenon DEF Intake, Kept
<1>2. k \in 0..Len(up) /\ k \in Nat /\ k \in 1..m /\ \A i \in 1..k : up[i] # Eof
  BY <1>1, ReadFacts, Zenon
<1>3. k >= 1 /\ up # <<>> /\ Len(up) \in Nat /\ Len(data) \in Nat /\ k \in 1..k
  BY <1>1, <1>2
<1>4. First(up, k) \in Seq(Item) /\ Len(First(up, k)) = k /\ up' \in Seq(Item)
  BY <1>1, <1>2, FirstFacts, RestFacts, Zenon
<1>5. data' \in Seq(Item) /\ Len(data') = Len(data) + k
  <2>1. Joined(data', data, First(up, k))
    BY <1>1, <1>4, JoinFacts, Zenon
  <2>. QED
    BY <1>4, <2>1, Zenon DEF Joined
<1>6. data' \o up' = v
  BY <1>1, <1>2, Passed, Zenon
<1>7. v \in Seq(Item) /\ Len(v) = Len(data) + Len(up) /\ v[Len(data) + k] = up[k] /\ up[k] # Eof
  <2>1. Joined(v, data, up)
    BY <1>1, JoinFacts, Zenon
  <2>2. k \in 1..Len(up)
    BY <1>2, <1>3
  <2>. QED
    BY <1>2, <1>3, <2>1, <2>2, Zenon DEF Joined
<1>8. ASSUME scene.kind # "visitor" PROVE Run(v, 0, sent, shut) /\ Len(data') <= sent
  <2>1. Run(v, 0, sent, shut)
    BY <1>8, Zenon DEF Intake
  <2>2. Len(v) = sent + (IF shut THEN 1 ELSE 0) /\ (shut => v[Len(v)] = Eof)
    BY <1>1, <2>1 DEF Run
  <2>3. Len(data) + k <= Len(v)
    BY <1>2, <1>3, <1>7
  <2>. QED
    BY <1>1, <1>2, <1>3, <1>5, <1>7, <2>1, <2>2, <2>3, SMTT(60)
<1>9. ASSUME scene.kind = "visitor"
      PROVE  /\ StartsWithMessage(v) /\ Run(AfterMessage(v), 0, sent, shut)
             /\ Len(data') <= Len(Message) + sent
  <2>1. StartsWithMessage(v) /\ Run(AfterMessage(v), 0, sent, shut) /\ Len(Message) = 2
    BY <1>3, <1>9, Items, SMTT(20) DEF Intake
  <2>2. 2 \in 0..Len(v) /\ Len(v) \in Nat
    BY <1>7, <2>1 DEF StartsWithMessage
  <2>3. /\ Len(AfterMessage(v)) = Len(v) - 2
        /\ \A i \in 1..(Len(v) - 2) : AfterMessage(v)[i] = v[2 + i]
    BY <1>7, <2>1, <2>2, RestFacts, ZenonT(60) DEF AfterMessage
  <2>4. /\ Len(v) - 2 = sent + (IF shut THEN 1 ELSE 0)
        /\ (shut => AfterMessage(v)[Len(v) - 2] = Eof)
    BY <1>1, <2>1, <2>3 DEF Run
  <2>5. shut => v[Len(v)] = Eof
    <3>1. ASSUME shut PROVE Len(v) - 2 \in 1..(Len(v) - 2) /\ 2 + (Len(v) - 2) = Len(v)
      BY <1>1, <2>2, <2>4, <3>1
    <3>. QED
      BY <2>3, <2>4, <3>1, Zenon
  <2>6. Len(data) + k <= Len(v)
    BY <1>2, <1>3, <1>7
  <2>. QED
    BY <1>1, <1>2, <1>3, <1>5, <1>7, <2>1, <2>2, <2>4, <2>5, <2>6, SMTT(60)
<1>. QED
  BY <1>1, <1>4, <1>5, <1>6, <1>8, <1>9

\* The server gives up before it knew where the connection goes.
LEMMA GivesUp ==
  ASSUME Kept, NEW v, Intake(v), server' = "closed", UNCHANGED <<scene, sent, shut, skipped, down, clientVars>>
  PROVE  HandoverInv'
  BY Zenon DEF Kept, Intake, Fresh, HandoverInv, Dead, clientVars

\* The steps that find out where the connection goes.
LEMMA IntakeSteps ==
  ASSUME Chunk \in Nat, Kept, Intake(data \o up),
         ReadHead \/ ReadRecord \/ ParseSni \/ RecvVisitor \/ EofEarly
  PROVE  HandoverInv'
<1>. DEFINE v == data \o up
            Goes(s) == /\ scene.kind # "mux" /\ (scene.kind = "visitor" => server = "visit")
                       /\ server' = s /\ s \in {"head", "tls", "sni", "visit", "ask"}
                       /\ s = "visit" => scene.kind = "visitor"
                       /\ s \in {"head", "tls", "sni"} => scene.kind \in {"http", "https"}
                       /\ s = "ask" /\ scene.kind = "visitor" => Len(data') >= Len(Message)
            Reading == \E m \in Nat : \E k \in Readable(up, m) : data' = data \o First(up, k) /\ up' = Rest(up, k)
            Rests == UNCHANGED <<scene, sent, shut, skipped, down, clientVars>>
<1>1. Chunk \in Nat /\ scene.kind \in Kinds /\ (data = <<>> \/ data # <<>>) /\ scene.head \in Nat
  BY Zenon DEF Kept
<1>2. ASSUME Rests, Reading, NEW s, Goes(s) PROVE HandoverInv'
  <2>0. PICK m \in Nat : \E k \in Readable(up, m) : data' = data \o First(up, k) /\ up' = Rest(up, k)
    BY <1>2, Zenon
  <2>1. PICK k \in Readable(up, m) : data' = data \o First(up, k) /\ up' = Rest(up, k)
    BY <2>0, Zenon
  <2>2. scene.kind # "mux" /\ (scene.kind = "visitor" => server = "visit")
    BY <1>2, Zenon
  <2>3. UNCHANGED <<scene, sent, shut, skipped, down, clientVars>>
    BY <1>2
  <2>4. /\ data' \o up' = v /\ data' \in Seq(Item) /\ up' \in Seq(Item) /\ Len(data') \in Nat
        /\ scene.kind # "visitor" => Run(v, 0, sent, shut) /\ Len(data') <= sent
        /\ scene.kind = "visitor" => /\ StartsWithMessage(v) /\ Run(AfterMessage(v), 0, sent, shut)
                                     /\ Len(data') <= Len(Message) + sent
    BY <2>1, <2>2, <2>3, IntakeRead, Zenon
  <2>5. Fresh' /\ Kept'
    BY <2>3, Zenon DEF Intake, Fresh, Kept, clientVars
  <2>6. server' = s
    BY <1>2, Zenon
  <2>7. /\ s \in {"head", "tls", "sni", "visit", "ask"}
        /\ s = "visit" => scene.kind = "visitor"
        /\ s \in {"head", "tls", "sni"} => scene.kind \in {"http", "https"}
        /\ s = "ask" /\ scene.kind = "visitor" => Len(data') >= Len(Message)
    BY <1>2, SMTT(20)
  <2>. HIDE DEF v
  <2>8. Intake(data \o up)'
    BY <2>2, <2>3, <2>4, <2>5, <2>6, <2>7, Zenon DEF Intake, StartsWithMessage, AfterMessage
  <2>. QED
    BY <2>5, <2>8, Zenon DEF HandoverInv
<1>3. ASSUME Rests, server' = "closed" PROVE HandoverInv'
  BY <1>3, GivesUp, Zenon
<1>. HIDE DEF Reading
<1>4. CASE ReadHead
  <2>1. Rests /\ server = "head"
    BY <1>4, Zenon DEF ReadHead
  <2>2. Reading
    BY <1>1, <1>4, Zenon DEF ReadHead, Reading
  <2>3. server' \in {"ask", "closed", "head"}
    BY <1>4, Zenon DEF ReadHead
  <2>4. scene.kind \in {"http", "https"}
    BY <2>1, Zenon DEF Intake
  <2>. QED
    BY <1>2, <1>3, <2>1, <2>2, <2>3, <2>4, Zenon
<1>5. CASE ReadRecord
  <2>1. Rests /\ server = "tls"
    BY <1>5, Zenon DEF ReadRecord
  <2>4. scene.kind \in {"http", "https"}
    BY <2>1, Zenon DEF Intake
  <2>2. Reading
    <3>1. PICK m : m = (IF data = <<>> THEN 1 ELSE scene.head - Len(data))
      BY Zenon
    <3>2. \E k \in Readable(up, m) : data' = data \o First(up, k) /\ up' = Rest(up, k)
      BY <1>5, <3>1, Zenon DEF ReadRecord
    <3>3. m \in Int /\ Readable(up, m) # {}
      BY <1>1, <3>1, <3>2 DEF Intake
    <3>4. m \in Nat
      BY <3>3 DEF Readable
    <3>. QED
      BY <3>2, <3>4 DEF Reading
  <2>3. server' \in {"tls", "closed", "sni"}
    BY <1>5 DEF ReadRecord
  <2>. QED
    BY <1>2, <1>3, <2>1, <2>2, <2>3, <2>4, Zenon
<1>6. CASE ParseSni
  <2>1. /\ server = "sni" /\ server' \in {"sni", "ask", "closed"} /\ UNCHANGED <<data, up>> /\ Rests
    BY <1>6, Zenon DEF ParseSni, userVars
  <2>2. CASE server' = "closed"
    BY <1>3, <2>1, <2>2
  <2>3. CASE server' # "closed"
    <3>1. scene.kind \in {"http", "https"}
      BY <2>1, Zenon DEF Intake
    <3>2. Fresh' /\ Kept'
      BY <2>1, Zenon DEF Intake, Fresh, Kept, clientVars
    <3>3. Intake(data \o up)'
      BY <2>1, <2>3, <3>1, <3>2, Zenon DEF Intake
    <3>. QED
      BY <3>2, <3>3, Zenon DEF HandoverInv
  <2>. QED
    BY <2>2, <2>3, Zenon
<1>7. CASE RecvVisitor
  <2>1. Rests /\ server = "visit"
    BY <1>7, Zenon DEF RecvVisitor
  <2>2. Reading
    BY <1>1, <1>7, Zenon DEF RecvVisitor, Reading
  <2>3. server' \in {"visit", "ask", "closed"} /\ (server' = "ask" => Len(data') >= Len(Message))
    BY <1>7, Zenon DEF RecvVisitor, Decodes
  <2>4. scene.kind = "visitor"
    BY <2>1, Zenon DEF Intake
  <2>. QED
    BY <1>2, <1>3, <2>1, <2>2, <2>3, <2>4, Zenon
<1>8. CASE EofEarly
  BY <1>3, <1>8 DEF EofEarly, userVars
<1>. QED
  BY <1>4, <1>5, <1>6, <1>7, <1>8, Zenon

\* The work connection starts with StartWorkConn and s, and the server has
\* passed the bytes up to the x-th.
LEMMA RelayStarts ==
  ASSUME Kept, NEW v, Intake(v), StartWorkConn, NEW s, NEW x \in Nat, down' = Message \o s,
         skipped' \in Nat, scene.kind # "visitor" => skipped' = 0,
         Line(s, 0, skipped', x, FALSE), Run(up, x, sent, shut)
  PROVE  HandoverInv'
<1>1. /\ server' = "relay" /\ UNCHANGED <<scene, sent, shut, up, client, buf, need, part, got>>
      /\ client = "wait" /\ buf = <<>> /\ need = 0 /\ part = <<>> /\ got = <<>>
  BY DEF StartWorkConn, Intake, Fresh, userVars, clientVars
<1>2. s \in Seq(Item) /\ Message \in Seq(Item) /\ Len(Message) = 2
  BY LineItems, Items, Zenon
<1>3. down' \in Seq(Item) /\ buf' \o down' = Message \o s
  BY <1>1, <1>2, JoinEmpty
<1>4. StartsWithMessage(Waiting') /\ AfterMessage(Waiting') = s
  BY <1>2, <1>3, MessageFirst DEF Waiting
<1>5. Line(s, 0, skipped, x, FALSE)'
  BY <1>1, Zenon DEF Line
<1>6. Kept'
  <2>1. 1..Len(got') = {} /\ got' \in Seq(Item)
    BY <1>1
  <2>. QED
    BY <1>1, <2>1, Zenon DEF Kept
<1>7. Flow(x, FALSE)'
  <2>1. /\ client' = "wait" /\ buf' = <<>> /\ need' = 0 /\ part' = <<>> /\ got' = <<>>
        /\ buf' \in Seq(Item) /\ part' \in Seq(Item) /\ need' \in Nat /\ Len(buf') < Len(Message) /\ 1..Len(buf') = {}
    BY <1>1, <1>2
  <2>2. StartsWithMessage(Waiting)' /\ Line(AfterMessage(Waiting), 0, skipped, x, FALSE)'
    BY <1>1, <1>4, <1>5, Zenon DEF StartsWithMessage, AfterMessage, Line
  <2>. QED
    BY <1>3, <2>1, <2>2, Zenon DEF Flow
<1>. QED
  BY <1>1, <1>6, <1>7, Zenon DEF HandoverInv, Relaying

LEMMA StartWorkConnStep ==
  ASSUME Kept, Intake(data \o up), StartWorkConn
  PROVE  HandoverInv'
<1>. DEFINE v == data \o up
<1>1. /\ server = "ask" /\ down' = Message \o Forwarded /\ skipped' = Discarded
      /\ data \in Seq(Item) /\ up \in Seq(Item) /\ sent \in Nat /\ shut \in BOOLEAN /\ Len(data) \in Nat
      /\ Intake(v)
  BY DEF StartWorkConn, Intake, Kept
<1>2. v \in Seq(Item) /\ Len(v) = Len(data) + Len(up) /\ Len(v) \in Nat
  BY <1>1
<1>3. First(v, Len(data)) = data /\ Rest(v, Len(data)) = up
  BY <1>1, Parts
<1>. HIDE DEF v
<1>4. CASE scene.kind = "mux"
  <2>1. data = <<>> /\ Run(v, 0, sent, shut)
    BY <1>1, <1>4 DEF Intake
  <2>2. Forwarded = <<Frame(0)>> /\ Discarded = 0
    BY <1>4, Zenon DEF Forwarded, Discarded
  <2>3. v = up
    BY <1>1, <2>1, JoinEmpty DEF v
  <2>4. Line(<<Frame(0)>>, 0, 0, 0, FALSE)
    BY <1>4, FramesBase, Zenon DEF Line
  <2>. QED
    BY <1>1, <2>1, <2>2, <2>3, <2>4, RelayStarts, Zenon
<1>5. CASE scene.kind = "visitor"
  <2>1. StartsWithMessage(v) /\ Run(AfterMessage(v), 0, sent, shut) /\ Len(Message) = 2
        /\ Len(data) >= 2 /\ Len(data) <= 2 + sent
    BY <1>1, <1>5, Items, Zenon DEF Intake
  <2>2. Forwarded = <<>> /\ Discarded = Len(data) - 2
    BY <1>5, <2>1 DEF Forwarded, Discarded
  <2>3. PICK k \in Nat : k = Len(data) - 2
    <3>1. Len(data) - 2 \in Nat
      BY <1>1, <2>1
    <3>. QED
      BY <3>1, Zenon
  <2>4. 2 \in 0..Len(v) /\ k \in 0..(Len(v) - 2) /\ 2 + k = Len(data) /\ k <= sent
    BY <1>1, <1>2, <2>1, <2>3
  <2>5. Rest(AfterMessage(v), k) = up
    BY <1>2, <1>3, <2>1, <2>4, RestRest, Zenon DEF AfterMessage
  <2>6. AfterMessage(v) \in Seq(Item) /\ Len(AfterMessage(v)) = Len(v) - 2
    BY <1>2, <2>1, <2>4, RestFacts, ZenonT(60) DEF AfterMessage
  <2>7. \A i \in 1..k : AfterMessage(v)[i] # Eof
    <3>1. \A i \in 1..k : i \in 1..(sent - 0)
      BY <1>1, <2>4
    <3>2. \A i \in 1..k : AfterMessage(v)[i] = Byte(0 + i)
      BY <2>1, <3>1, Zenon DEF Run
    <3>. QED
      BY <3>2, Items, ZenonT(60)
  <2>8. Run(up, 0 + k, sent, shut)
    BY <1>1, <2>1, <2>4, <2>5, <2>6, <2>7, RunCut, Zenon
  <2>9. Run(up, k, sent, shut) /\ Line(<<>>, 0, k, k, FALSE)
    <3>1. 0 + k = k
      BY <2>3
    <3>2. Run(up, k, sent, shut) /\ Run(<<>>, k, k, FALSE)
      BY <2>8, <3>1, RunEmpty, Zenon
    <3>. QED
      BY <1>5, <3>2, Zenon DEF Line
  <2>. QED
    BY <1>1, <1>5, <2>2, <2>3, <2>9, RelayStarts, Zenon
<1>6. CASE scene.kind # "mux" /\ scene.kind # "visitor"
  <2>1. Run(v, 0, sent, shut) /\ Len(data) <= sent
    BY <1>1, <1>6, Zenon DEF Intake
  <2>2. Forwarded = data /\ Discarded = 0
    BY <1>6 DEF Forwarded, Discarded
  <2>3. PICK k \in Nat : k = Len(data)
    BY <1>1
  <2>4. k \in 0..Len(v) /\ k <= sent
    BY <1>1, <1>2, <2>1, <2>3
  <2>5. \A i \in 1..k : v[i] # Eof
    <3>1. \A i \in 1..k : i \in 1..(sent - 0)
      BY <1>1, <2>4
    <3>. QED
      BY <2>1, <3>1, Items DEF Run
  <2>6. Run(First(v, k), 0, 0 + k, FALSE) /\ Run(Rest(v, k), 0 + k, sent, shut)
    BY <1>1, <2>1, <2>4, <2>5, RunCut, Zenon
  <2>7. Run(up, k, sent, shut) /\ Line(data, 0, 0, k, FALSE)
    <3>1. 0 + k = k
      BY <2>3
    <3>2. Run(up, k, sent, shut) /\ Run(data, 0, k, FALSE)
      BY <1>3, <2>3, <2>6, <3>1, Zenon
    <3>. QED
      BY <1>6, <3>2, Zenon DEF Line
  <2>. QED
    BY <1>1, <1>6, <2>2, <2>7, RelayStarts, Zenon
<1>. QED
  BY <1>4, <1>5, <1>6, Zenon

\* copy_bidirectional and relay_mux_stream pass on what they read ...
LEMMA ServerCopiesStep ==
  ASSUME Chunk \in Nat, Kept, Relaying, ServerCopies
  PROVE  HandoverInv'
<1>1. PICK x \in Nat : Run(up, x, sent, shut) /\ Flow(x, FALSE)
  BY Zenon DEF Relaying
<1>2. PICK k \in Readable(up, Chunk) :
          /\ up' = Rest(up, k)
          /\ down' = down \o (IF scene.kind = "mux" THEN <<Frame(k)>> ELSE <<>>) \o First(up, k)
  BY Zenon DEF ServerCopies
<1>3. /\ UNCHANGED <<scene, sent, shut, skipped, server, clientVars>> /\ shut \in BOOLEAN
      /\ server = "relay" /\ up \in Seq(Item) /\ down \in Seq(Item)
  <2>1. UNCHANGED <<scene, sent, shut, skipped, server, clientVars>> /\ server = "relay"
    BY Zenon DEF ServerCopies, serverVars
  <2>2. shut \in BOOLEAN
    BY Zenon DEF Kept
  <2>3. up \in Seq(Item)
    BY <1>1, Zenon DEF Run
  <2>4. down \in Seq(Item)
    BY <1>1, Zenon DEF Flow
  <2>. QED
    BY <2>1, <2>2, <2>3, <2>4, Zenon
<1>4. k \in 0..Len(up) /\ k \in Nat /\ \A i \in 1..k : up[i] # Eof
  BY <1>3, ReadFacts
<1>5. Run(First(up, k), x, x + k, FALSE) /\ Run(Rest(up, k), x + k, sent, shut)
  BY <1>1, <1>3, <1>4, RunCut, Zenon
<1>6. First(up, k) \in Seq(Item)
  BY <1>3, <1>4, FirstFacts
<1>7. \E s : Line(s, 0, x, x + k, FALSE) /\ down' = down \o s
  <2>1. CASE scene.kind = "mux"
    <3>1. (x + k) - x = k /\ <<Frame(k)>> \in Seq(Item)
      BY <1>4, Items
    <3>2. Frames(<<Frame(k)>> \o First(up, k), 0, x, x + k, FALSE)
      BY <1>5, <3>1, FramesOne, Zenon
    <3>3. down' = (down \o <<Frame(k)>>) \o First(up, k)
      BY <1>2, <2>1
    <3>4. down' = down \o (<<Frame(k)>> \o First(up, k))
      BY <1>3, <1>6, <3>1, <3>3, JoinAssoc, ZenonT(60)
    <3>. QED
      BY <2>1, <3>2, <3>4, Zenon DEF Line
  <2>2. CASE scene.kind # "mux"
    <3>1. down' = (down \o <<>>) \o First(up, k)
      BY <1>2, <2>2, Zenon
    <3>2. down' = down \o First(up, k)
      BY <1>3, <3>1, JoinEmpty, Zenon
    <3>. QED
      BY <1>5, <2>2, <3>2, Zenon DEF Line
  <2>. QED
    BY <2>1, <2>2, Zenon
<1>8. Flow(x + k, FALSE)'
  BY <1>1, <1>3, <1>7, FlowGrows, Zenon
<1>9. Kept' /\ x + k \in Nat /\ Run(up', x + k, sent', shut') /\ server' = "relay"
  BY <1>2, <1>3, <1>4, <1>5 DEF Kept, clientVars
<1>. QED
  BY <1>8, <1>9, Zenon DEF HandoverInv, Relaying

\* ... and the end of the user's stream after its last byte.
LEMMA ServerShutsDownStep ==
  ASSUME Kept, Relaying, ServerShutsDown
  PROVE  HandoverInv'
<1>1. PICK x \in Nat : Run(up, x, sent, shut) /\ Flow(x, FALSE)
  BY Zenon DEF Relaying
<1>2. /\ UNCHANGED <<scene, sent, shut, skipped, clientVars>> /\ sent \in Nat
      /\ server' = "closed" /\ up # <<>> /\ up[1] = Eof /\ down \in Seq(Item)
      /\ down' = Append(down, IF scene.kind = "mux" THEN CloseFrame ELSE Eof)
  BY <1>1, Zenon DEF ServerShutsDown, AtEof, Kept, Flow
<1>3. ~(x < sent)
  <2>1. ASSUME x < sent PROVE FALSE
    <3>1. 1 \in 1..(sent - x)
      BY <1>1, <1>2, <2>1
    <3>. QED
      BY <1>1, <1>2, <3>1, Items, Zenon DEF Run
  <2>. QED
    BY <2>1
<1>4. x = sent /\ shut
  BY <1>1, <1>2, <1>3 DEF Run, Kept
<1>5. \E s : Line(s, 0, x, x, TRUE) /\ down' = down \o s
  <2>1. CASE scene.kind = "mux"
    BY <1>2, <2>1, FramesBase, AppendIsJoin, Items, Zenon DEF Line
  <2>2. CASE scene.kind # "mux"
    <3>1. Run(Append(<<>>, Eof), x, x, TRUE)
      BY RunEmpty, RunGrows, Zenon
    <3>2. Append(<<>>, Eof) = <<Eof>>
      BY Items
    <3>. QED
      BY <1>2, <2>2, <3>1, <3>2, AppendIsJoin, Items, Zenon DEF Line
  <2>. QED
    BY <2>1, <2>2, Zenon
<1>6. Flow(x, TRUE)'
  BY <1>1, <1>2, <1>5, FlowGrows, Zenon
<1>7. Kept' /\ shut' /\ server' = "closed" /\ sent' = x
  BY <1>2, <1>4 DEF Kept, clientVars
<1>8. Flow(sent, TRUE)'
  BY <1>6, <1>7, Zenon DEF Flow
<1>. QED
  BY <1>7, <1>8, Zenon DEF HandoverInv, Finishing

\* The user's stream grows by the item z, a byte or its end.
LEMMA UserGrows ==
  ASSUME Kept, Intake(data \o up) \/ Relaying, NEW z \in Item, up' = Append(up, z),
         sent' \in Nat, shut' \in BOOLEAN, sent' >= sent,
         UNCHANGED <<scene, serverVars, down, clientVars>>,
         \A w, a : Run(w, a, sent, shut) => Run(Append(w, z), a, sent', shut'),
         scene.kind = "visitor" => up # <<>> \/ data # <<>> \/ server # "visit" \/ sent > 0
  PROVE  HandoverInv'
<1>1. Kept' /\ UNCHANGED <<scene, server, data, skipped, down, client, buf, need, part, got>>
  BY Zenon DEF Kept, serverVars, clientVars
<1>2. CASE Intake(data \o up)
  <2>. DEFINE v == data \o up
  <2>1. data \in Seq(Item) /\ up \in Seq(Item) /\ Intake(v) /\ sent \in Nat /\ Len(data) \in Nat
    BY <1>2 DEF Intake, Kept
  <2>2. v \in Seq(Item) /\ up' \in Seq(Item)
    BY <2>1
  <2>3. data' \o up' = Append(v, z)
    BY <1>1, <2>1, JoinAppend, Zenon
  <2>4. UNCHANGED Fresh /\ Fresh
    BY <1>1, <1>2, Zenon DEF Fresh, Intake
  <2>. HIDE DEF v
  <2>5. CASE scene.kind = "visitor"
    <3>1. StartsWithMessage(v) /\ Run(AfterMessage(v), 0, sent, shut) /\ Len(data) <= Len(Message) + sent
          /\ (server = "ask" => Len(data) >= Len(Message))
      BY <2>1, <2>5, SMTT(60) DEF Intake
    <3>2. Append(v, z) = v \o <<z>> /\ <<z>> \in Seq(Item) /\ AfterMessage(v) \in Seq(Item)
      BY <2>2, <3>1, AppendIsJoin DEF Run
    <3>3. AfterMessage(v) \o <<z>> = Append(AfterMessage(v), z)
      BY <3>2, AppendIsJoin, Zenon
    <3>4. StartsWithMessage(Append(v, z)) /\ AfterMessage(Append(v, z)) = Append(AfterMessage(v), z)
      BY <3>1, <3>2, <3>3, MessageJoin, Zenon
    <3>5. Run(AfterMessage(Append(v, z)), 0, sent', shut')
      BY <3>1, <3>4, Zenon
    <3>6. Len(data') <= Len(Message) + sent'
      BY <1>1, <2>1, <3>1, Items, SMTT(60)
    <3>7. Intake(data \o up)'
      BY <1>1, <2>1, <2>2, <2>3, <2>4, <2>5, <3>1, <3>4, <3>5, <3>6, Zenon
         DEF Intake, StartsWithMessage, AfterMessage
    <3>. QED
      BY <1>1, <3>7, Zenon DEF HandoverInv
  <2>6. CASE scene.kind # "visitor"
    <3>1. Run(Append(v, z), 0, sent', shut') /\ Len(data) <= sent'
      BY <2>1, <2>6, SMTT(60) DEF Intake
    <3>2. Intake(data \o up)'
      BY <1>1, <2>1, <2>2, <2>3, <2>4, <2>6, <3>1 DEF Intake
    <3>. QED
      BY <1>1, <3>2, SMTT(60) DEF HandoverInv
  <2>. QED
    BY <2>5, <2>6, Zenon
<1>3. CASE Relaying
  <2>1. PICK x \in Nat : Run(up, x, sent, shut) /\ Flow(x, FALSE)
    BY <1>3, Zenon DEF Relaying
  <2>2. Run(up', x, sent', shut') /\ server' = "relay"
    BY <1>1, <1>3, <2>1, SMTT(20) DEF Relaying
  <2>3. Flow(x, FALSE)'
    BY <1>1, <2>1, Zenon DEF Flow, Waiting, Line, StartsWithMessage, AfterMessage
  <2>. QED
    BY <1>1, <2>2, <2>3, Zenon DEF HandoverInv, Relaying
<1>. QED
  BY <1>2, <1>3, Zenon

LEMMA UserSteps ==
  ASSUME HandoverInv, UserStep
  PROVE  HandoverInv'
<1>1. Kept /\ sent \in Nat /\ shut \in BOOLEAN
  BY Zenon DEF HandoverInv, Kept
<1>2. CASE Dead
  <2>1. /\ sent' \in Nat /\ shut' \in BOOLEAN
        /\ UNCHANGED <<scene, server, skipped, down, client, buf, got>>
    <3>1. CASE VisitorHandshake
      BY <1>1, <3>1, Zenon DEF VisitorHandshake, serverVars, clientVars
    <3>2. CASE UserWrites
      BY <1>1, <3>2 DEF UserWrites, serverVars, clientVars
    <3>3. CASE UserShutsDown
      BY <1>1, <3>3, Zenon DEF UserShutsDown, serverVars, clientVars
    <3>. QED
      BY <3>1, <3>2, <3>3, Zenon DEF UserStep
  <2>. QED
    BY <1>1, <1>2, <2>1, Zenon DEF HandoverInv, Kept, Dead
<1>3. CASE Finishing
  BY <1>3 DEF Finishing, UserStep, VisitorHandshake, UserWrites, UserShutsDown
<1>4. CASE Intake(data \o up) \/ Relaying
  <2>1. CASE VisitorHandshake
    <3>1. /\ scene.kind = "visitor" /\ sent = 0 /\ up = <<>> /\ server = "visit" /\ data = <<>> /\ up' = Message
          /\ UNCHANGED <<scene, sent, shut, server, data, skipped, down, client, buf, need, part, got>>
      BY <2>1, Zenon DEF VisitorHandshake, serverVars, clientVars
    <3>2. Intake(data \o up) /\ data \o up = <<>> /\ Len(<<>>) = 0 /\ Len(Message) = 2 /\ Message \in Seq(Item)
      BY <1>4, <3>1, Items, SMTT(60) DEF Relaying
    <3>3. ~shut
      BY <3>1, <3>2 DEF Intake, StartsWithMessage
    <3>4. data' \o up' = Message /\ Message \o <<>> = Message
      BY <3>1, <3>2, JoinEmpty
    <3>5. StartsWithMessage(Message) /\ AfterMessage(Message) = <<>>
      <4>1. <<>> \in Seq(Item)
        OBVIOUS
      <4>. QED
        BY <3>4, <4>1, MessageFirst, Zenon
    <3>6. Run(<<>>, 0, sent', shut')
      <4>1. sent' = 0 /\ shut' = FALSE
        BY <1>1, <3>1, <3>3, Zenon
      <4>. QED
        BY <4>1, RunEmpty, Zenon
    <3>7. Fresh' /\ Kept'
      BY <1>1, <3>1, <3>2, Zenon DEF Intake, Fresh, Kept
    <3>8. data' \in Seq(Item) /\ up' \in Seq(Item) /\ Len(data') <= Len(Message) + sent'
      BY <1>1, <3>1, <3>2
    <3>9. Intake(data \o up)'
      BY <3>1, <3>4, <3>5, <3>6, <3>7, <3>8, Zenon DEF Intake, StartsWithMessage, AfterMessage
    <3>. QED
      BY <3>7, <3>9, Zenon DEF HandoverInv
  <2>2. CASE UserWrites
    <3>1. /\ ~shut /\ sent' = sent + 1 /\ up' = Append(up, Byte(sent + 1)) /\ shut' = shut
          /\ UNCHANGED <<scene, serverVars, down, clientVars>>
          /\ scene.kind = "visitor" => up # <<>> \/ data # <<>> \/ server # "visit"
      BY <2>2, Zenon DEF UserWrites
    <3>2. sent' \in Nat /\ sent' >= sent /\ Byte(sent + 1) \in Item /\ shut = FALSE
      BY <1>1, <3>1, Items
    <3>3. \A w, a : Run(w, a, sent, shut) => Run(Append(w, Byte(sent + 1)), a, sent', shut')
      BY <3>1, <3>2, RunGrows, Zenon
    <3>. QED
      BY <1>1, <1>4, <3>1, <3>2, <3>3, UserGrows, Zenon
  <2>3. CASE UserShutsDown
    <3>1. /\ ~shut /\ sent > 0 /\ sent' = sent /\ up' = Append(up, Eof) /\ shut' = TRUE
          /\ UNCHANGED <<scene, serverVars, down, clientVars>>
      BY <2>3, Zenon DEF UserShutsDown
    <3>2. sent' \in Nat /\ sent' >= sent /\ Eof \in Item /\ shut = FALSE
      BY <1>1, <3>1, Items
    <3>3. \A w, a : Run(w, a, sent, shut) => Run(Append(w, Eof), a, sent', shut')
      BY <3>1, <3>2, RunGrows, Zenon
    <3>. QED
      BY <1>1, <1>4, <3>1, <3>2, <3>3, UserGrows, Zenon
  <2>. QED
    BY <2>1, <2>2, <2>3, Zenon DEF UserStep
<1>. QED
  BY <1>2, <1>3, <1>4, Zenon DEF HandoverInv

\* The server acts on a connection that it still has.
LEMMA ServerSteps ==
  ASSUME Chunk \in Nat, HandoverInv, ServerStep
  PROVE  HandoverInv'
<1>1. Kept /\ server # "closed"
  BY SMTT(20) DEF HandoverInv, ServerStep, ReadHead, ReadRecord, ParseSni, RecvVisitor, EofEarly, StartWorkConn,
         ServerCopies, ServerShutsDown
<1>2. CASE Intake(data \o up)
  <2>1. ~ServerCopies /\ ~ServerShutsDown
    BY <1>2, Zenon DEF Intake, ServerCopies, ServerShutsDown
  <2>. QED
    BY <1>1, <1>2, <2>1, IntakeSteps, StartWorkConnStep, Zenon DEF ServerStep
<1>3. CASE Relaying
  <2>1. ServerCopies \/ ServerShutsDown
    BY <1>3, Zenon DEF Relaying, ServerStep, ReadHead, ReadRecord, ParseSni, RecvVisitor, EofEarly, StartWorkConn
  <2>. QED
    BY <1>1, <1>3, <2>1, ServerCopiesStep, ServerShutsDownStep, Zenon
<1>. QED
  BY <1>1, <1>2, <1>3, ZenonT(60) DEF HandoverInv, Finishing, Dead

LEMMA ClientKeepsInv ==
  ASSUME Chunk \in Nat, HandoverInv, ClientStep
  PROVE  HandoverInv'
<1>1. UNCHANGED <<scene, sent, shut, up, server, data, skipped>>
  BY Zenon DEF ClientStep, RecvStart, ConnectLocal, ClientCopies, ReadFrameHeader, ReadFramePayload,
         ClientShutsDown, userVars, serverVars
<1>2. ~Intake(data \o up) /\ ~Dead
  BY ClientIdle DEF Intake, Fresh, Dead
<1>3. CASE Relaying
  <2>1. PICK x \in Nat : Run(up, x, sent, shut) /\ Flow(x, FALSE)
    BY <1>3, Zenon DEF Relaying
  <2>2. Kept' /\ Flow(x, FALSE)'
    BY <2>1, ClientSteps, Zenon DEF HandoverInv
  <2>3. server' = "relay" /\ Run(up', x, sent', shut')
    BY <1>1, <1>3, <2>1 DEF Relaying
  <2>. QED
    BY <2>2, <2>3, Zenon DEF HandoverInv, Relaying
<1>4. CASE Finishing
  <2>1. PICK x : x = sent
    BY Zenon
  <2>2. Flow(x, TRUE)
    BY <1>4, <2>1, Zenon DEF Finishing
  <2>3. Kept' /\ Flow(x, TRUE)'
    BY <2>2, ClientSteps, Zenon DEF HandoverInv
  <2>4. server' = "closed" /\ shut' /\ sent' = x
    BY <1>1, <1>4, <2>1, Zenon DEF Finishing
  <2>5. Flow(sent, TRUE)'
    BY <2>3, <2>4, Zenon DEF Flow
  <2>. QED
    BY <2>3, <2>4, <2>5, Zenon DEF HandoverInv, Finishing
<1>. QED
  BY <1>2, <1>3, <1>4, SMTT(20) DEF HandoverInv

-----------------------------------------------------------------------------

LEMMA HandoverStart == Init => HandoverInv
<1>. SUFFICES ASSUME Init PROVE HandoverInv
  OBVIOUS
<1>1. scene.kind \in Kinds /\ scene.head \in Nat
  BY SceneAssumption DEF Init
<1>2. /\ sent = 0 /\ shut = FALSE /\ up = <<>> /\ data = <<>> /\ Fresh
  BY DEF Init, Fresh
<1>3. got = <<>> /\ skipped = 0 /\ 1..Len(<<>>) = {} /\ Len(<<>>) = 0 /\ <<>> \in Seq(Item)
  BY <1>2 DEF Fresh
<1>4. Kept
  BY <1>1, <1>2, <1>3, Zenon DEF Kept
<1>5. /\ scene.kind = "http" => server = "head"
      /\ scene.kind = "https" => server = "tls"
      /\ scene.kind = "visitor" => server = "visit"
      /\ scene.kind \in {"tcp", "mux"} => server = "ask"
  BY DEF Init
<1>6. data \o up = <<>> /\ Run(<<>>, 0, 0, FALSE)
  BY <1>2, <1>3, JoinEmpty, RunEmpty, Zenon
<1>7. Intake(data \o up)
  <2>1. /\ server \in {"head", "tls", "sni", "visit", "ask"}
        /\ server = "visit" => scene.kind = "visitor"
        /\ server \in {"head", "tls", "sni"} => scene.kind \in {"http", "https"}
    BY <1>1, <1>5, Zenon DEF Kinds
  <2>2. data \in Seq(Item) /\ up \in Seq(Item) /\ Run(data \o up, 0, sent, shut) /\ Len(data) <= sent
    <3>1. Run(data \o up, 0, sent, shut)
      BY <1>2, <1>6, Zenon
    <3>2. data \in Seq(Item) /\ up \in Seq(Item) /\ Len(data) = 0
      BY <1>2, <1>3, Zenon
    <3>. QED
      BY <1>2, <3>1, <3>2
  <2>. QED
    BY <1>2, <1>5, <2>1, <2>2, Zenon DEF Intake
<1>. QED
  BY <1>4, <1>7, Zenon DEF HandoverInv

LEMMA HandoverStep == HandoverInv /\ [Next]_vars => HandoverInv'
<1>. SUFFICES ASSUME HandoverInv, [Next]_vars PROVE HandoverInv'
  OBVIOUS
<1>1. Chunk \in Nat
  BY SceneAssumption, Zenon
<1>2. CASE Break
  BY <1>2, Zenon DEF Break, HandoverInv, Kept, Dead, userVars
<1>3. CASE UNCHANGED vars
  BY <1>3, Zenon DEF vars, userVars, serverVars, clientVars, HandoverInv, Kept, Intake, Fresh, Relaying, Finishing,
              Dead, Flow, Waiting, Line, StartsWithMessage, AfterMessage
<1>. QED
  BY <1>1, <1>2, <1>3, UserSteps, ServerSteps, ClientKeepsInv DEF Next

LEMMA HandoverShows == HandoverInv => BytesInOrder
<1>. SUFFICES ASSUME HandoverInv PROVE BytesInOrder
  BY Zenon
<1>1. Kept /\ got \in Seq(Item) /\ skipped \in Nat /\ sent \in Nat /\ Len(got) \in Nat
  BY DEF HandoverInv, Kept
<1>2. got = [i \in 1..Len(got) |-> Byte(skipped + i)]
  BY <1>1 DEF Kept
<1>3. ASSUME client = "ended" PROVE shut /\ sent = skipped + Len(got)
  <2>1. Finishing
    BY <1>3 DEF HandoverInv, Intake, Fresh, Relaying, Dead, Flow
  <2>. QED
    BY <1>3, <2>1, Zenon DEF Finishing, Flow
<1>4. client = "ended" => shut /\ Len(got) = sent - skipped
  BY <1>1, <1>3
<1>. QED
  BY <1>1, <1>2, <1>4, Zenon DEF BytesInOrder, Kept

\* However the network cuts the user's stream up, the local service receives the
\* user's bytes in order, none missing and none twice, and the end after the last
\* one: no handover from read_http_request_head, read_tls_client_hello or a
\* transport's recv to copy_bidirectional or to the mux frames loses what was read
\* too much, except that of the stcp visitor's transport in the server.
THEOREM BytesSafe == Spec => []BytesInOrder
  BY HandoverStart, HandoverStep, HandoverShows, PTL DEF Spec

\* The parser is only called with the record that was read, and the rest of the
\* server never touches its state: parse_tls_sni stays inside the record in every
\* connection the server handles.
THEOREM ParserSafe == Spec => []SniInBounds
<1>1. Init => SniInv
  BY SceneAssumption, SniStart DEF Init
<1>2. SniInv /\ [Next]_vars => SniInv'
  <2>. SUFFICES ASSUME SniInv, [Next]_vars PROVE SniInv'
    OBVIOUS
  <2>1. [SniNext]_sniVars
    <3>1. CASE ParseSni
      BY <3>1, Zenon DEF ParseSni
    <3>2. CASE UserStep
      BY <3>2, ZenonT(60) DEF UserStep, VisitorHandshake, UserWrites, UserShutsDown
    <3>3. CASE ServerStep
      BY <3>1, <3>3 DEF ServerStep, ReadHead, ReadRecord, RecvVisitor, EofEarly, StartWorkConn,
                        ServerCopies, ServerShutsDown
    <3>4. CASE ClientStep
      BY <3>4, Zenon DEF ClientStep, RecvStart, ConnectLocal, ClientCopies, ReadFrameHeader,
                  ReadFramePayload, ClientShutsDown
    <3>5. CASE Break
      BY <3>5, Zenon DEF Break
    <3>6. CASE UNCHANGED vars
      BY <3>6 DEF vars
    <3>. QED
      BY <3>2, <3>3, <3>4, <3>5, <3>6, Zenon DEF Next
  <2>. QED
    BY <2>1, SniStep, Zenon
<1>3. SniInv => SniInBounds
  BY DEF SniInv
<1>. QED
  BY <1>1, <1>2, <1>3, PTL DEF Spec
=============================================================================
