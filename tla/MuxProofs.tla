---------------------------- MODULE MuxProofs -------------------------------
(***************************************************************************)
(* Proofs about MuxTunnel, for any number of users, chunks and tunnels.    *)
(* The provers slow down as a module grows: lemmas with arithmetic, queues *)
(* and frame kinds come first, and the steps that use them name Zenon.     *)
(***************************************************************************)
EXTENDS MuxTunnel, TLAPS

-----------------------------------------------------------------------------
(***************************************************************************)
(* The inductive invariant of MuxTunnel: the gate, and each user.          *)
(***************************************************************************)

Frames == {"Open", "Data", "Close"} \X Users

TypeInv ==
    /\ lock \in Users \cup {None} /\ holder \in Nat /\ made \in Nat
    /\ link \in [Tunnels -> BOOLEAN] /\ client \in [Tunnels -> BOOLEAN]
    /\ writer \in [Tunnels -> BOOLEAN] /\ reader \in [Tunnels -> BOOLEAN]
    /\ up \in [Tunnels -> Seq(Frames)] /\ down \in [Tunnels -> Seq(Frames)]
    /\ srv \in [Tunnels -> SUBSET Users] /\ cli \in [Tunnels -> SUBSET Users]
    /\ user \in [Users -> {"away", "lock", "request", "open", "relay", "reset"}]
    /\ tun \in [Users -> Nat]
    /\ inbox \in [Users -> Nat] /\ got \in [Users -> Nat] /\ sent \in [Users -> Nat]
    /\ shut \in [Users -> BOOLEAN] /\ spoke \in [Users -> BOOLEAN] /\ broke \subseteq Users
    /\ local \in [Users -> {"none", "open", "closed", "reset", "failed"}]

\* Whoever requests a connection has the mutex, and the holder is empty; a tunnel
\* whose connection works has all its tasks and, until the proxy is closed, is the
\* one in the holder.
GateInv ==
    /\ \A u \in Users : user[u] = "request" <=> lock = u
    /\ lock # None => holder = 0
    /\ holder <= made /\ made <= MaxTunnels
    /\ \A t \in Tunnels : link[t] => /\ t <= made /\ writer[t] /\ reader[t] /\ client[t]
                                     /\ proxy # "closed" => t = holder

\* Frames of u in a queue: any, one of kind k.
Carries(q, u) == \E i \in DOMAIN q : q[i][2] = u
Has(q, k, u) == \E i \in DOMAIN q : q[i][1] = k /\ q[i][2] = u

\* Open is the first frame of u; no Data of u follows a Close.
OpenFirst(q, u) ==
    \A i, j \in DOMAIN q : q[i][1] = "Open" /\ q[i][2] = u /\ q[j][2] = u => i = j \/ i < j
CloseLast(q, u) ==
    \A i, j \in DOMAIN q : q[i][1] = "Close" /\ q[i][2] = u /\ q[j][1] = "Data" /\ q[j][2] = u => j < i

\* The Data frames of u in q are the chunks a + 1 to b: the places e of each.
ChunksAt(q, u, a, b, e) ==
    /\ \A c \in (a + 1)..b : e[c] \in DOMAIN q /\ q[e[c]][1] = "Data" /\ q[e[c]][2] = u
    /\ \A c, d \in (a + 1)..b : c < d => e[c] < e[d]
    /\ \A i \in DOMAIN q : q[i][1] = "Data" /\ q[i][2] = u => \E c \in (a + 1)..b : e[c] = i
Chunks(q, u, a, b) == a <= b /\ \E e : ChunksAt(q, u, a, b, e)

\* Whatever there is of a stream is in the tunnel of its user.
Home(u) == \A t \in Tunnels : Carries(up[t], u) \/ Carries(down[t], u) \/ u \in cli[t] => t = tun[u]

\* There is nothing of it before it is opened, and nothing at the relay after it.
Begins(u) ==
    user[u] \in {"lock", "request", "open"} =>
        /\ local[u] = "none" /\ sent[u] = 0
        /\ \A t \in Tunnels : ~Carries(up[t], u) /\ ~Carries(down[t], u) /\ u \notin cli[t]
Rests(u) == user[u] \notin {"relay", "reset"} => inbox[u] = 0 /\ got[u] = 0 /\ ~shut[u]
Placed(u) ==
    /\ user[u] \in {"open", "relay", "reset"} \/ local[u] = "open" => tun[u] \in Tunnels
    /\ tun[u] <= made

\* The Open frame comes before anything else.
Opening(u, t) ==
    /\ OpenFirst(up[t], u)
    /\ Has(up[t], "Open", u) => local[u] = "none" /\ u \notin cli[t] /\ ~Carries(down[t], u)

\* StreamsCovered, also of the stream the client is about to open.
Covered(u, t) ==
    link[t] /\ u \notin broke /\ user[u] # "relay" /\ (u \in cli[t] \/ Has(up[t], "Open", u))
        => Has(up[t], "Close", u)

\* A stream whose user is served: the client has it or is about to, or its end is
\* known to the client; the server loses it only by the client's Close, which
\* comes after the last chunk.
Ended(u) == local[u] \in {"closed", "failed"}
Served(u, t) ==
    link[t] /\ user[u] = "relay" /\ tun[u] = t =>
        /\ ~Has(up[t], "Close", u)
        /\ u \in cli[t] \/ Has(up[t], "Open", u) \/ Ended(u)
        /\ CloseLast(down[t], u) /\ (Has(down[t], "Close", u) => Ended(u))
        /\ u \notin srv[t] => Ended(u) /\ ~Has(down[t], "Data", u)
        /\ local[u] = "closed" /\ u \in srv[t] => Has(down[t], "Close", u)
        /\ Chunks(down[t], u, got[u] + inbox[u], sent[u])
        /\ shut[u] => inbox[u] = 0 /\ u \notin srv[t]

UserInv(u) ==
    /\ Home(u) /\ Begins(u) /\ Rests(u) /\ Placed(u)
    /\ \A t \in Tunnels : Opening(u, t) /\ Covered(u, t) /\ Served(u, t)

MuxInv == TypeInv /\ GateInv /\ \A u \in Users : UserInv(u)

-----------------------------------------------------------------------------
(***************************************************************************)
(* Queues of frames.                                                       *)
(***************************************************************************)

LEMMA TailFacts ==
  ASSUME NEW q \in Seq(Frames), q # <<>>
  PROVE  /\ Tail(q) \in Seq(Frames) /\ Head(q) = q[1] /\ q[1] \in Frames /\ 1 \in DOMAIN q
         /\ \A i \in DOMAIN Tail(q) : i \in Nat /\ i + 1 \in DOMAIN q /\ Tail(q)[i] = q[i + 1]
         /\ \A i \in DOMAIN q : i \in Nat /\ (i = 1 \/ (i > 1 /\ i - 1 \in DOMAIN Tail(q) /\ Tail(q)[i - 1] = q[i]))
<1>1. /\ Tail(q) \in Seq(Frames) /\ Len(q) \in Nat /\ Len(q) >= 1 /\ DOMAIN q = 1..Len(q)
      /\ DOMAIN Tail(q) = 1..(Len(q) - 1) /\ \A i \in 1..(Len(q) - 1) : Tail(q)[i] = q[i + 1]
      /\ Head(q) = q[1] /\ q[1] \in Frames
  OBVIOUS
<1>2. ASSUME NEW i \in DOMAIN q, i # 1 PROVE i > 1 /\ i - 1 \in DOMAIN Tail(q) /\ Tail(q)[i - 1] = q[i]
  <2>1. i \in Nat /\ i > 1 /\ i - 1 \in 1..(Len(q) - 1) /\ (i - 1) + 1 = i
    BY <1>1, <1>2
  <2>. QED
    BY <1>1, <2>1
<1>. QED
  BY <1>1, <1>2

LEMMA AppendFacts ==
  ASSUME NEW q \in Seq(Frames), NEW m \in Frames
  PROVE  /\ Append(q, m) \in Seq(Frames)
         /\ Len(q) + 1 \in DOMAIN Append(q, m) /\ Append(q, m)[Len(q) + 1] = m /\ Len(q) \in Nat
         /\ \A i \in DOMAIN q : i \in Nat /\ i \in DOMAIN Append(q, m) /\ Append(q, m)[i] = q[i] /\ i < Len(q) + 1
         /\ \A i \in DOMAIN Append(q, m) : i \in Nat /\ (i \in DOMAIN q \/ i = Len(q) + 1)
  OBVIOUS

\* The frames of u in r, moved by d places, are in q; and the other way round.
Within(u, q, r, d) == \A i \in DOMAIN r : r[i][2] = u => i + d \in DOMAIN q /\ q[i + d] = r[i]
Whole(u, q, r, d) == \A i \in DOMAIN q : q[i][2] = u => i - d \in DOMAIN r /\ r[i - d] = q[i]
Less(u, q, r) == \E d \in {0, 1} : Within(u, q, r, d)
Same(u, q, r) == \E d \in {0, 1} : Within(u, q, r, d) /\ Whole(u, q, r, d)

LEMMA SameSelf == ASSUME NEW q \in Seq(Frames), NEW u PROVE Same(u, q, q)
<1>1. \A i \in DOMAIN q : i + 0 = i /\ i - 0 = i
  OBVIOUS
<1>. QED
  BY <1>1 DEF Same, Within, Whole

LEMMA SameLess == ASSUME NEW q, NEW r, NEW u, Same(u, q, r) PROVE Less(u, q, r)
  BY DEF Same, Less

LEMMA LessNone == ASSUME NEW q, NEW u PROVE Less(u, q, <<>>)
<1>1. DOMAIN <<>> = {}
  OBVIOUS
<1>. QED
  BY <1>1 DEF Less, Within

LEMMA LessTail == ASSUME NEW q \in Seq(Frames), q # <<>>, NEW u PROVE Less(u, q, Tail(q))
  BY TailFacts DEF Less, Within

LEMMA SameTail ==
  ASSUME NEW q \in Seq(Frames), q # <<>>, NEW u, Head(q)[2] # u
  PROVE  Same(u, q, Tail(q))
  BY TailFacts DEF Same, Within, Whole

LEMMA SameAppend ==
  ASSUME NEW q \in Seq(Frames), NEW m \in Frames, NEW u, m[2] # u
  PROVE  Same(u, q, Append(q, m))
<1>1. \A i \in DOMAIN q : i + 0 = i /\ i - 0 = i
  BY AppendFacts
<1>2. \A i \in DOMAIN Append(q, m) : i + 0 = i
  BY AppendFacts
<1>. QED
  BY <1>1, <1>2, AppendFacts DEF Same, Within, Whole

LEMMA LessViews ==
  ASSUME NEW q \in Seq(Frames), NEW r \in Seq(Frames), NEW u, Less(u, q, r)
  PROVE  /\ Carries(r, u) => Carries(q, u)
         /\ \A k : Has(r, k, u) => Has(q, k, u)
         /\ OpenFirst(q, u) => OpenFirst(r, u)
<1>1. PICK d \in {0, 1} : Within(u, q, r, d)
  BY DEF Less
<1>2. Carries(r, u) => Carries(q, u)
  BY <1>1 DEF Within, Carries
<1>3. ASSUME NEW k, Has(r, k, u) PROVE Has(q, k, u)
  BY <1>1, <1>3 DEF Within, Has
<1>4. ASSUME OpenFirst(q, u),
             NEW i \in DOMAIN r, NEW j \in DOMAIN r, r[i][1] = "Open", r[i][2] = u, r[j][2] = u
      PROVE  i = j \/ i < j
  <2>1. i + d \in DOMAIN q /\ q[i + d] = r[i] /\ j + d \in DOMAIN q /\ q[j + d] = r[j] /\ i \in Nat /\ j \in Nat
    BY <1>1, <1>4 DEF Within
  <2>2. i + d = j + d \/ i + d < j + d
    BY <1>4, <2>1 DEF OpenFirst
  <2>. QED
    BY <2>1, <2>2, SMTT(60)
<1>. QED
  BY <1>2, <1>3, <1>4 DEF OpenFirst

LEMMA SameViews ==
  ASSUME NEW q \in Seq(Frames), NEW r \in Seq(Frames), NEW u, Same(u, q, r)
  PROVE  /\ Carries(r, u) <=> Carries(q, u)
         /\ \A k : Has(r, k, u) <=> Has(q, k, u)
         /\ OpenFirst(q, u) => OpenFirst(r, u)
         /\ CloseLast(q, u) => CloseLast(r, u)
         /\ \A a \in Nat, b \in Nat : Chunks(q, u, a, b) => Chunks(r, u, a, b)
<1>1. PICK d \in {0, 1} : Within(u, q, r, d) /\ Whole(u, q, r, d)
  BY DEF Same
<1>2. Carries(r, u) => Carries(q, u)
  BY <1>1 DEF Within, Carries
<1>3. Carries(q, u) => Carries(r, u)
  BY <1>1 DEF Whole, Carries
<1>4. ASSUME NEW k PROVE Has(r, k, u) => Has(q, k, u)
  BY <1>1 DEF Within, Has
<1>5. ASSUME NEW k PROVE Has(q, k, u) => Has(r, k, u)
  BY <1>1 DEF Whole, Has
<1>6. OpenFirst(q, u) => OpenFirst(r, u)
  BY LessViews, SameLess
<1>7. ASSUME CloseLast(q, u), NEW i \in DOMAIN r, NEW j \in DOMAIN r,
             r[i][1] = "Close", r[i][2] = u, r[j][1] = "Data", r[j][2] = u
      PROVE  j < i
  <2>1. i + d \in DOMAIN q /\ q[i + d] = r[i] /\ j + d \in DOMAIN q /\ q[j + d] = r[j] /\ i \in Nat /\ j \in Nat
    BY <1>1, <1>7 DEF Within
  <2>2. j + d < i + d
    BY <1>7, <2>1 DEF CloseLast
  <2>. QED
    BY <2>1, <2>2
<1>8. ASSUME NEW a \in Nat, NEW b \in Nat, Chunks(q, u, a, b) PROVE Chunks(r, u, a, b)
  <2>1. PICK e : ChunksAt(q, u, a, b, e)
    BY <1>8 DEF Chunks
  <2>2. \A i \in DOMAIN q : i \in Nat
    OBVIOUS
  <2>. DEFINE g == [c \in (a + 1)..b |-> e[c] - d]
  <2>3. \A c \in (a + 1)..b : g[c] = e[c] - d
    OBVIOUS
  <2>. HIDE DEF g
  <2>4. ASSUME NEW c \in (a + 1)..b
        PROVE  e[c] \in Nat /\ g[c] \in DOMAIN r /\ r[g[c]][1] = "Data" /\ r[g[c]][2] = u
    BY <1>1, <2>1, <2>2, <2>3, SMTT(60) DEF ChunksAt, Whole
  <2>5. ASSUME NEW c \in (a + 1)..b, NEW k \in (a + 1)..b, c < k PROVE g[c] < g[k]
    <3>1. e[c] < e[k] /\ e[c] \in Nat /\ e[k] \in Nat
      BY <2>1, <2>4, <2>5 DEF ChunksAt
    <3>. QED
      BY <2>3, <3>1
  <2>6. ASSUME NEW i \in DOMAIN r, r[i][1] = "Data", r[i][2] = u PROVE \E c \in (a + 1)..b : g[c] = i
    <3>1. i + d \in DOMAIN q /\ q[i + d] = r[i] /\ i \in Nat
      BY <1>1, <2>6 DEF Within
    <3>2. PICK c \in (a + 1)..b : e[c] = i + d
      BY <2>1, <2>6, <3>1, SMTT(60) DEF ChunksAt
    <3>3. g[c] = i
      BY <2>3, <3>1, <3>2, SMTT(60)
    <3>. QED
      BY <3>3
  <2>7. ChunksAt(r, u, a, b, g)
    BY <2>4, <2>5, <2>6 DEF ChunksAt
  <2>. QED
    BY <1>8, <2>7 DEF Chunks
<1>. QED
  BY <1>2, <1>3, <1>4, <1>5, <1>6, <1>7, <1>8 DEF CloseLast

\* Reading the first frame.
LEMMA TailViews ==
  ASSUME NEW q \in Seq(Frames), q # <<>>, NEW u
  PROVE  /\ \A k : Has(q, k, u) => Has(Tail(q), k, u) \/ (Head(q)[1] = k /\ Head(q)[2] = u)
         /\ OpenFirst(q, u) /\ Head(q)[2] = u => ~Has(Tail(q), "Open", u)
         /\ CloseLast(q, u) => CloseLast(Tail(q), u)
         /\ CloseLast(q, u) /\ Head(q)[1] = "Close" /\ Head(q)[2] = u => ~Has(Tail(q), "Data", u)
<1>1. ASSUME NEW k, Has(q, k, u) PROVE Has(Tail(q), k, u) \/ (Head(q)[1] = k /\ Head(q)[2] = u)
  <2>1. PICK i \in DOMAIN q : q[i][1] = k /\ q[i][2] = u
    BY <1>1 DEF Has
  <2>2. i = 1 \/ (i - 1 \in DOMAIN Tail(q) /\ Tail(q)[i - 1] = q[i])
    BY TailFacts
  <2>3. Head(q) = q[1]
    BY TailFacts
  <2>. QED
    BY <2>1, <2>2, <2>3 DEF Has
<1>2. ASSUME OpenFirst(q, u), Head(q)[2] = u, Has(Tail(q), "Open", u) PROVE FALSE
  <2>1. PICK i \in DOMAIN Tail(q) : Tail(q)[i][1] = "Open" /\ Tail(q)[i][2] = u
    BY <1>2 DEF Has
  <2>2. i \in Nat /\ i + 1 \in DOMAIN q /\ q[i + 1] = Tail(q)[i] /\ 1 \in DOMAIN q /\ q[1][2] = u /\ i # 0
    BY <1>2, <2>1, TailFacts
  <2>3. i + 1 = 1 \/ i + 1 < 1
    BY <1>2, <2>1, <2>2 DEF OpenFirst
  <2>. QED
    BY <2>2, <2>3
<1>3. ASSUME CloseLast(q, u), NEW i \in DOMAIN Tail(q), NEW j \in DOMAIN Tail(q),
             Tail(q)[i][1] = "Close", Tail(q)[i][2] = u, Tail(q)[j][1] = "Data", Tail(q)[j][2] = u
      PROVE  j < i
  <2>1. /\ i \in Nat /\ i + 1 \in DOMAIN q /\ q[i + 1] = Tail(q)[i]
        /\ j \in Nat /\ j + 1 \in DOMAIN q /\ q[j + 1] = Tail(q)[j]
    BY TailFacts
  <2>2. j + 1 < i + 1
    BY <1>3, <2>1 DEF CloseLast
  <2>. QED
    BY <2>1, <2>2
<1>4. ASSUME CloseLast(q, u), Head(q)[1] = "Close", Head(q)[2] = u, Has(Tail(q), "Data", u) PROVE FALSE
  <2>1. PICK i \in DOMAIN Tail(q) : Tail(q)[i][1] = "Data" /\ Tail(q)[i][2] = u
    BY <1>4 DEF Has
  <2>2. /\ i \in Nat /\ i + 1 \in DOMAIN q /\ q[i + 1] = Tail(q)[i]
        /\ 1 \in DOMAIN q /\ q[1][2] = u /\ q[1][1] = "Close"
    BY <1>4, <2>1, TailFacts
  <2>3. i + 1 < 1
    BY <1>4, <2>1, <2>2 DEF CloseLast
  <2>. QED
    BY <2>2, <2>3
<1>. QED
  BY <1>1, <1>2, <1>3, <1>4 DEF CloseLast

\* Writing one more.
LEMMA AppendViews ==
  ASSUME NEW q \in Seq(Frames), NEW m \in Frames, NEW u
  PROVE  /\ \A k : Has(Append(q, m), k, u) <=> Has(q, k, u) \/ (m[1] = k /\ m[2] = u)
         /\ Carries(Append(q, m), u) => Carries(q, u) \/ m[2] = u
         /\ OpenFirst(q, u) /\ (m[1] # "Open" \/ ~Carries(q, u)) => OpenFirst(Append(q, m), u)
         /\ CloseLast(q, u) /\ (m[1] # "Data" \/ ~Has(q, "Close", u)) => CloseLast(Append(q, m), u)
<1>1. ASSUME NEW k PROVE Has(Append(q, m), k, u) <=> Has(q, k, u) \/ (m[1] = k /\ m[2] = u)
  BY AppendFacts DEF Has
<1>2. Carries(Append(q, m), u) => Carries(q, u) \/ m[2] = u
  BY AppendFacts DEF Carries
<1>3. OpenFirst(q, u) /\ (m[1] # "Open" \/ ~Carries(q, u)) => OpenFirst(Append(q, m), u)
  BY AppendFacts DEF OpenFirst, Carries
<1>4. CloseLast(q, u) /\ (m[1] # "Data" \/ ~Has(q, "Close", u)) => CloseLast(Append(q, m), u)
  BY AppendFacts DEF CloseLast, Has
<1>. QED
  BY <1>1, <1>2, <1>3, <1>4

\* The same for the frame each step sends or takes.
LEMMA CloseTaken ==
  ASSUME NEW q \in Seq(Frames), q # <<>>, NEW u, CloseLast(q, u), Head(q)[1] = "Close", Head(q)[2] = u
  PROVE  ~Has(Tail(q), "Data", u)
  BY TailViews

LEMMA OpenSent ==
  ASSUME NEW q \in Seq(Frames), NEW m \in Frames, NEW u, m[1] = "Open", m[2] = u,
         OpenFirst(q, u), ~Carries(q, u), ~Has(q, "Close", u)
  PROVE  OpenFirst(Append(q, m), u) /\ Has(Append(q, m), "Open", u) /\ ~Has(Append(q, m), "Close", u)
  BY AppendViews

LEMMA DataSent ==
  ASSUME NEW q \in Seq(Frames), NEW m \in Frames, NEW u, m[1] = "Data", OpenFirst(q, u)
  PROVE  /\ OpenFirst(Append(q, m), u)
         /\ Has(Append(q, m), "Open", u) <=> Has(q, "Open", u)
         /\ Has(Append(q, m), "Close", u) <=> Has(q, "Close", u)
  BY AppendViews

LEMMA CloseSent ==
  ASSUME NEW q \in Seq(Frames), NEW m \in Frames, NEW u, m[1] = "Close", m[2] = u
  PROVE  /\ Has(Append(q, m), "Close", u)
         /\ Has(Append(q, m), "Open", u) => Has(q, "Open", u)
         /\ Has(Append(q, m), "Data", u) => Has(q, "Data", u)
         /\ OpenFirst(q, u) => OpenFirst(Append(q, m), u)
         /\ CloseLast(q, u) => CloseLast(Append(q, m), u)
<1>1. m[1] # "Open" /\ m[1] # "Data"
  OBVIOUS
<1>2. Has(Append(q, m), "Close", u)
  BY AppendViews
<1>3. ASSUME NEW k, m[1] # k, Has(Append(q, m), k, u) PROVE Has(q, k, u)
  BY <1>3, AppendViews
<1>4. OpenFirst(q, u) => OpenFirst(Append(q, m), u)
  BY <1>1, AppendViews
<1>5. CloseLast(q, u) => CloseLast(Append(q, m), u)
  BY <1>1, AppendViews
<1>. QED
  BY <1>1, <1>2, <1>3, <1>4, <1>5

\* Chunks under way.
LEMMA ChunksNone ==
  ASSUME NEW q, NEW u, NEW a \in Nat, NEW b \in Nat, ~Has(q, "Data", u)
  PROVE  /\ Chunks(q, u, a, b) => a = b
         /\ Chunks(q, u, a, a)
<1>1. ASSUME Chunks(q, u, a, b), a # b PROVE FALSE
  <2>1. PICK e : ChunksAt(q, u, a, b, e)
    BY <1>1 DEF Chunks
  <2>2. a + 1 \in (a + 1)..b
    BY <1>1 DEF Chunks
  <2>. QED
    BY <2>1, <2>2 DEF ChunksAt, Has
<1>2. Chunks(q, u, a, a)
  <2>1. (a + 1)..a = {}
    OBVIOUS
  <2>2. ChunksAt(q, u, a, a, <<>>)
    BY <2>1 DEF ChunksAt, Has
  <2>. QED
    BY <2>2 DEF Chunks
<1>. QED
  BY <1>1, <1>2

LEMMA ChunksTail ==
  ASSUME NEW q \in Seq(Frames), q # <<>>, NEW u, NEW a \in Nat, NEW b \in Nat, Chunks(q, u, a, b)
  PROVE  /\ Head(q)[1] = "Data" /\ Head(q)[2] = u => Chunks(Tail(q), u, a + 1, b)
         /\ Head(q)[1] # "Data" \/ Head(q)[2] # u => Chunks(Tail(q), u, a, b)
<1>1. PICK e : ChunksAt(q, u, a, b, e)
  BY DEF Chunks
<1>2. a <= b
  BY DEF Chunks
<1>. DEFINE g == [c \in (a + 1)..b |-> e[c] - 1]
<1>3. \A c \in (a + 1)..b : g[c] = e[c] - 1
  OBVIOUS
<1>. HIDE DEF g
<1>4. ASSUME NEW c \in (a + 1)..b, e[c] # 1
      PROVE  g[c] \in DOMAIN Tail(q) /\ Tail(q)[g[c]][1] = "Data" /\ Tail(q)[g[c]][2] = u
  <2>1. e[c] \in DOMAIN q /\ q[e[c]][1] = "Data" /\ q[e[c]][2] = u
    BY <1>1 DEF ChunksAt
  <2>. QED
    BY <1>3, <1>4, <2>1, TailFacts
<1>5. ASSUME NEW c \in (a + 1)..b, NEW d \in (a + 1)..b, c < d PROVE g[c] < g[d]
  <2>1. e[c] < e[d] /\ e[c] \in Nat /\ e[d] \in Nat
    BY <1>1, <1>5, TailFacts DEF ChunksAt
  <2>. QED
    BY <1>3, <2>1
<1>6. ASSUME NEW i \in DOMAIN Tail(q), Tail(q)[i][1] = "Data", Tail(q)[i][2] = u
      PROVE  \E c \in (a + 1)..b : g[c] = i /\ e[c] # 1
  <2>1. i \in Nat /\ i + 1 \in DOMAIN q /\ q[i + 1] = Tail(q)[i] /\ i # 0
    BY TailFacts
  <2>2. PICK c \in (a + 1)..b : e[c] = i + 1
    BY <1>1, <1>6, <2>1 DEF ChunksAt
  <2>3. g[c] = i /\ e[c] # 1
    BY <1>3, <2>1, <2>2
  <2>. QED
    BY <2>3
<1>7. ASSUME Head(q)[1] = "Data", Head(q)[2] = u PROVE Chunks(Tail(q), u, a + 1, b)
  <2>1. PICK c \in (a + 1)..b : e[c] = 1
    BY <1>1, <1>7, TailFacts DEF ChunksAt
  <2>2. ASSUME NEW d \in (a + 1)..b PROVE e[d] = 1 <=> d = a + 1
    <3>1. \A k \in (a + 1)..b : e[k] \in Nat /\ e[k] >= 1
      BY <1>1, TailFacts DEF ChunksAt
    <3>2. c = a + 1
      <4>1. CASE a + 1 < c
        <5>1. e[a + 1] < e[c] /\ a + 1 \in (a + 1)..b
          BY <1>1, <4>1 DEF ChunksAt
        <5>. QED
          BY <2>1, <3>1, <5>1
      <4>. QED
        BY <4>1
    <3>3. d # c => e[c] < e[d]
      BY <1>1, <3>2 DEF ChunksAt
    <3>. QED
      BY <2>1, <3>1, <3>2, <3>3
  <2>3. a + 1 <= b /\ \A d : d \in ((a + 1) + 1)..b <=> d \in (a + 1)..b /\ d # a + 1
    BY <2>1
  <2>4. ChunksAt(Tail(q), u, a + 1, b, g)
    BY <1>4, <1>5, <1>6, <2>2, <2>3, SMTT(60) DEF ChunksAt
  <2>. QED
    BY <2>3, <2>4 DEF Chunks
<1>8. ASSUME Head(q)[1] # "Data" \/ Head(q)[2] # u PROVE Chunks(Tail(q), u, a, b)
  <2>1. \A c \in (a + 1)..b : e[c] # 1
    BY <1>1, <1>8, TailFacts DEF ChunksAt
  <2>2. ChunksAt(Tail(q), u, a, b, g)
    BY <1>4, <1>5, <1>6, <2>1 DEF ChunksAt
  <2>. QED
    BY <1>2, <2>2 DEF Chunks
<1>. QED
  BY <1>7, <1>8

LEMMA ChunksAppend ==
  ASSUME NEW q \in Seq(Frames), NEW m \in Frames, NEW u, NEW a \in Nat, NEW b \in Nat, Chunks(q, u, a, b)
  PROVE  /\ m[1] = "Data" /\ m[2] = u => Chunks(Append(q, m), u, a, b + 1)
         /\ m[1] # "Data" \/ m[2] # u => Chunks(Append(q, m), u, a, b)
<1>1. PICK e : ChunksAt(q, u, a, b, e)
  BY DEF Chunks
<1>2. a <= b
  BY DEF Chunks
<1>3. PICK n \in Nat : n = Len(q) + 1
  OBVIOUS
<1>4. PICK r \in Seq(Frames) : r = Append(q, m)
  BY AppendFacts, Zenon
<1>5. /\ n \in DOMAIN r /\ r[n] = m
      /\ \A i \in DOMAIN q : i \in Nat /\ i \in DOMAIN r /\ r[i] = q[i] /\ i < n
      /\ \A i \in DOMAIN r : i \in DOMAIN q \/ i = n
  BY <1>3, <1>4, AppendFacts
<1>6. ASSUME m[1] = "Data", m[2] = u PROVE Chunks(r, u, a, b + 1)
  <2>. DEFINE g == [c \in (a + 1)..(b + 1) |-> IF c = b + 1 THEN n ELSE e[c]]
  <2>1. b + 1 \in (a + 1)..(b + 1) /\ \A c \in (a + 1)..(b + 1) : c = b + 1 \/ (c \in (a + 1)..b /\ c < b + 1)
    BY <1>2
  <2>2. g[b + 1] = n /\ \A c \in (a + 1)..b : g[c] = e[c] /\ c \in (a + 1)..(b + 1)
    BY <2>1
  <2>. HIDE DEF g
  <2>3. ASSUME NEW c \in (a + 1)..(b + 1) PROVE g[c] \in DOMAIN r /\ r[g[c]][1] = "Data" /\ r[g[c]][2] = u
    <3>1. CASE c = b + 1
      BY <1>5, <1>6, <2>2, <3>1
    <3>2. CASE c \in (a + 1)..b
      BY <1>1, <1>5, <2>2, <3>2, ZenonT(60) DEF ChunksAt
    <3>. QED
      BY <2>1, <3>1, <3>2
  <2>4. ASSUME NEW c \in (a + 1)..(b + 1), NEW d \in (a + 1)..(b + 1), c < d PROVE g[c] < g[d]
    <3>1. c \in (a + 1)..b /\ g[c] = e[c] /\ e[c] \in DOMAIN q
      BY <1>1, <2>1, <2>2, <2>4 DEF ChunksAt
    <3>2. CASE d = b + 1
      BY <1>5, <2>2, <3>1, <3>2, SMTT(60)
    <3>3. CASE d \in (a + 1)..b
      BY <1>1, <2>2, <2>4, <3>1, <3>3 DEF ChunksAt
    <3>. QED
      BY <2>1, <3>2, <3>3
  <2>5. ASSUME NEW i \in DOMAIN r, r[i][1] = "Data", r[i][2] = u PROVE \E c \in (a + 1)..(b + 1) : g[c] = i
    BY <1>1, <1>5, <2>1, <2>2, <2>5, Zenon DEF ChunksAt
  <2>6. ChunksAt(r, u, a, b + 1, g)
    BY <2>3, <2>4, <2>5 DEF ChunksAt
  <2>. QED
    BY <1>2, <2>6 DEF Chunks
<1>7. ASSUME m[1] # "Data" \/ m[2] # u PROVE Chunks(r, u, a, b)
  <2>1. ChunksAt(r, u, a, b, e)
    BY <1>1, <1>5, <1>7, Zenon DEF ChunksAt
  <2>. QED
    BY <1>2, <2>1 DEF Chunks
<1>. QED
  BY <1>4, <1>6, <1>7

-----------------------------------------------------------------------------
(***************************************************************************)
(* A step of other users, or one that only loses things with a connection. *)
(***************************************************************************)

Untouched(u) ==
    /\ user'[u] = user[u] /\ tun'[u] = tun[u] /\ local'[u] = local[u] /\ sent'[u] = sent[u]
    /\ inbox'[u] = inbox[u] /\ got'[u] = got[u] /\ shut'[u] = shut[u]
    /\ u \in broke' <=> u \in broke

\* What u has in tunnel t stays, or goes with the connection.
Keeps(u, t) ==
    /\ Less(u, up[t], up'[t]) /\ Less(u, down[t], down'[t]) /\ (u \in cli'[t] => u \in cli[t])
    /\ link'[t] /\ t = tun[u] =>
          /\ link[t] /\ Same(u, up[t], up'[t]) /\ Same(u, down[t], down'[t])
          /\ (u \in cli'[t] <=> u \in cli[t]) /\ (u \in srv'[t] <=> u \in srv[t])

LEMMA SelfOrder == \A n \in Nat : n <= n
  OBVIOUS

LEMMA OrderTrans == \A a, b, c \in Nat : a <= b /\ b <= c => a <= c
  OBVIOUS

LEMMA NextNat == \A n \in Nat : n + 1 \in Nat /\ n <= n + 1
  OBVIOUS

LEMMA SumNat == \A a, b \in Nat : a + b \in Nat
  OBVIOUS

LEMMA SumNext == \A a, b \in Nat : a + (b + 1) = (a + b) + 1
  OBVIOUS

LEMMA SumMoves == \A a, b \in Nat : b > 0 => (a + 1) + (b - 1) = a + b /\ b # 0
  OBVIOUS

LEMMA Zero == \A a \in Nat : a + 0 = a
  OBVIOUS

LEMMA TunnelNat == \A t \in Tunnels : t \in Nat
  BY DEF Tunnels

LEMMA AtRest ==
  ASSUME NEW u, Rests(u), user[u] = "open"
  PROVE  inbox[u] = 0 /\ got[u] = 0 /\ ~shut[u] /\ 0 + 0 = 0
  BY DEF Rests

LEMMA FrameAt == ASSUME NEW q \in Seq(Frames), NEW i \in DOMAIN q PROVE q[i] \in Frames
  OBVIOUS

LEMMA FrameIs == ASSUME NEW f \in Frames PROVE f = <<f[1], f[2]>>
  BY DEF Frames

LEMMA BeforeClose ==
  ASSUME NEW q, NEW u, CloseLast(q, u), NEW i \in DOMAIN q, q[i][1] = "Close", q[i][2] = u
  PROVE  \A j \in DOMAIN q : q[j] = <<"Data", u>> => j < i
  BY DEF CloseLast

LEMMA QueueTypes ==
  ASSUME TypeInv, NEW t \in Tunnels
  PROVE  up[t] \in Seq(Frames) /\ down[t] \in Seq(Frames)
  BY Zenon DEF TypeInv

LEMMA QueueTypesNext ==
  ASSUME TypeInv', NEW t \in Tunnels
  PROVE  up'[t] \in Seq(Frames) /\ down'[t] \in Seq(Frames)
  BY Zenon DEF TypeInv

LEMMA Apart ==
  ASSUME TypeInv, TypeInv', NEW u \in Users, UserInv(u), Untouched(u), made <= made',
         \A t \in Tunnels : Keeps(u, t)
  PROVE  UserInv(u)'
<1>1. ASSUME NEW t \in Tunnels
      PROVE  /\ Carries(up'[t], u) => Carries(up[t], u)
             /\ Carries(down'[t], u) => Carries(down[t], u)
             /\ \A k : Has(up'[t], k, u) => Has(up[t], k, u)
             /\ OpenFirst(up[t], u) => OpenFirst(up'[t], u)
  <2>1. up[t] \in Seq(Frames) /\ down[t] \in Seq(Frames) /\ up'[t] \in Seq(Frames) /\ down'[t] \in Seq(Frames)
    BY QueueTypes, QueueTypesNext, Zenon
  <2>2. Less(u, up[t], up'[t]) /\ Less(u, down[t], down'[t])
    BY Zenon DEF Keeps
  <2>. QED
    BY <2>1, <2>2, LessViews, Zenon
<1>2. ASSUME NEW t \in Tunnels, link'[t], t = tun[u]
      PROVE  /\ link[t] /\ (u \in cli'[t] <=> u \in cli[t]) /\ (u \in srv'[t] <=> u \in srv[t])
             /\ \A k : (Has(up'[t], k, u) <=> Has(up[t], k, u)) /\ (Has(down'[t], k, u) <=> Has(down[t], k, u))
             /\ CloseLast(down[t], u) => CloseLast(down'[t], u)
             /\ \A a \in Nat, b \in Nat : Chunks(down[t], u, a, b) => Chunks(down'[t], u, a, b)
  <2>1. up[t] \in Seq(Frames) /\ down[t] \in Seq(Frames) /\ up'[t] \in Seq(Frames) /\ down'[t] \in Seq(Frames)
    BY QueueTypes, QueueTypesNext, Zenon
  <2>2. /\ link[t] /\ Same(u, up[t], up'[t]) /\ Same(u, down[t], down'[t])
        /\ (u \in cli'[t] <=> u \in cli[t]) /\ (u \in srv'[t] <=> u \in srv[t])
    BY <1>2, Zenon DEF Keeps
  <2>3. \A k : Has(up'[t], k, u) <=> Has(up[t], k, u)
    BY <2>1, <2>2, SameViews, Zenon
  <2>4. /\ \A k : Has(down'[t], k, u) <=> Has(down[t], k, u)
        /\ CloseLast(down[t], u) => CloseLast(down'[t], u)
        /\ \A a \in Nat, b \in Nat : Chunks(down[t], u, a, b) => Chunks(down'[t], u, a, b)
    BY <2>1, <2>2, SameViews, Zenon
  <2>. QED
    BY <2>2, <2>3, <2>4, Zenon
<1>3. \A t \in Tunnels : u \in cli'[t] => u \in cli[t]
  BY Zenon DEF Keeps
<1>4. Home(u)'
  BY <1>1, <1>3, ZenonT(30) DEF UserInv, Home, Untouched
<1>5. Begins(u)'
  BY <1>1, <1>3, Zenon DEF UserInv, Begins, Untouched
<1>6. Rests(u)'
  BY Zenon DEF UserInv, Rests, Untouched
<1>7. Placed(u)'
  <2>1. made \in Nat /\ made' \in Nat /\ tun[u] \in Nat
    BY ZenonT(30) DEF TypeInv
  <2>. QED
    BY <2>1 DEF UserInv, Placed, Untouched
<1>8. ASSUME NEW t \in Tunnels PROVE Opening(u, t)'
  BY <1>1, <1>3, Zenon DEF UserInv, Opening, Untouched
<1>9. ASSUME NEW t \in Tunnels PROVE Covered(u, t)'
  <2>1. CASE t # tun[u]
    <3>1. u \notin cli[t] /\ ~Carries(up[t], u)
      BY <2>1, Zenon DEF UserInv, Home
    <3>2. u \notin cli'[t] /\ ~Has(up[t], "Open", u)
      BY <1>3, <3>1, ZenonT(30) DEF Has, Carries
    <3>. QED
      BY <1>1, <3>2, Zenon DEF Covered
  <2>2. CASE t = tun[u]
    BY <1>2, <2>2, Zenon DEF UserInv, Covered, Untouched
  <2>. QED
    BY <2>1, <2>2, Zenon
<1>10. ASSUME NEW t \in Tunnels PROVE Served(u, t)'
  <2>. SUFFICES ASSUME link'[t], user[u] = "relay", tun[u] = t PROVE Served(u, t)'
    BY Zenon DEF Served, Untouched
  <2>1. got[u] \in Nat /\ inbox[u] \in Nat /\ sent[u] \in Nat
    BY Zenon DEF TypeInv
  <2>2. got[u] + inbox[u] \in Nat
    BY <2>1, SumNat, Zenon
  <2>3. Ended(u)' <=> Ended(u)
    BY Zenon DEF Untouched, Ended
  <2>. QED
    BY <1>2, <2>1, <2>2, <2>3, ZenonT(60) DEF UserInv, Served, Untouched
<1>. QED
  BY <1>4, <1>5, <1>6, <1>7, <1>8, <1>9, <1>10, Zenon DEF UserInv

\* Queues that change in one place, or not at all.
LEMMA SameAt ==
  ASSUME NEW f \in [Tunnels -> Seq(Frames)], NEW t \in Tunnels, NEW r, NEW u, Same(u, f[t], r)
  PROVE  \A s \in Tunnels : Same(u, f[s], [f EXCEPT ![t] = r][s])
  BY SameSelf, Zenon

LEMMA SameEverywhere ==
  ASSUME NEW f \in [Tunnels -> Seq(Frames)], NEW u
  PROVE  \A s \in Tunnels : Same(u, f[s], f[s])
  BY SameSelf, Zenon

LEMMA KeepsSame ==
  ASSUME NEW u, NEW t, Same(u, up[t], up'[t]), Same(u, down[t], down'[t]),
         u \in cli'[t] <=> u \in cli[t], u \in srv'[t] <=> u \in srv[t], link'[t] /\ t = tun[u] => link[t]
  PROVE  Keeps(u, t)
  BY SameLess, Zenon DEF Keeps

-----------------------------------------------------------------------------
(***************************************************************************)
(* Types, and the gate.                                                    *)
(***************************************************************************)

LEMMA FrameTypes ==
  ASSUME NEW u \in Users
  PROVE  <<"Open", u>> \in Frames /\ <<"Data", u>> \in Frames /\ <<"Close", u>> \in Frames
  BY Zenon DEF Frames

LEMMA WriteTypes ==
  ASSUME NEW q \in [Tunnels -> Seq(Frames)], NEW t, NEW m \in Frames
  PROVE  WriteFrame(q, t, m) \in [Tunnels -> Seq(Frames)]
<1>1. CASE t \in Tunnels
  <2>1. Append(q[t], m) \in Seq(Frames)
    BY <1>1, AppendFacts, Zenon
  <2>. QED
    BY <1>1, <2>1, Zenon DEF WriteFrame
<1>2. CASE t \notin Tunnels
  BY <1>2, Zenon DEF WriteFrame
<1>. QED
  BY <1>1, <1>2, Zenon

LEMMA ReadTypes ==
  ASSUME NEW q \in [Tunnels -> Seq(Frames)], NEW t \in Tunnels, q[t] # <<>>
  PROVE  /\ ReadFrame(q, t) \in [Tunnels -> Seq(Frames)]
         /\ Head(q[t]) \in Frames /\ Head(q[t])[1] \in {"Open", "Data", "Close"} /\ Head(q[t])[2] \in Users
<1>1. q[t] \in Seq(Frames)
  BY Zenon
<1>2. Tail(q[t]) \in Seq(Frames) /\ Head(q[t]) \in Frames
  BY <1>1, TailFacts, Zenon
<1>. QED
  BY <1>2, Zenon DEF ReadFrame, Frames

QueueType == up \in [Tunnels -> Seq(Frames)] /\ down \in [Tunnels -> Seq(Frames)]

LEMMA QueueStep ==
  ASSUME TypeInv, [Next]_vars
  PROVE  QueueType'
<1>0. up \in [Tunnels -> Seq(Frames)] /\ down \in [Tunnels -> Seq(Frames)]
  BY Zenon DEF TypeInv
<1>1. CASE UNCHANGED <<up, down>>
  BY <1>0, <1>1, Zenon DEF QueueType
<1>2. CASE \E u \in Users : OpenStream(u) \/ UserSends(u) \/ UserCloses(u)
  <2>1. PICK u \in Users : OpenStream(u) \/ UserSends(u) \/ UserCloses(u)
    BY <1>2, Zenon
  <2>2. PICK t : t = tun[u]
    BY Zenon
  <2>3. down' = down /\ (up' = up \/ \E m \in Frames : up' = WriteFrame(up, t, m))
    BY <2>1, <2>2, FrameTypes, Zenon DEF OpenStream, UserSends, UserCloses, SendFrame
  <2>. QED
    BY <1>0, <2>3, WriteTypes, Zenon DEF QueueType
<1>3. CASE \E u \in Users : LocalSends(u) \/ LocalCloses(u)
  <2>1. PICK u \in Users : LocalSends(u) \/ LocalCloses(u)
    BY <1>3, Zenon
  <2>2. PICK t : t = tun[u]
    BY Zenon
  <2>3. up' = up /\ (down' = down \/ \E m \in Frames : down' = WriteFrame(down, t, m))
    BY <2>1, <2>2, FrameTypes, Zenon DEF LocalSends, LocalCloses, SendBack
  <2>. QED
    BY <1>0, <2>3, WriteTypes, Zenon DEF QueueType
<1>4. CASE \E t \in Tunnels : ServerReads(t)
  <2>1. PICK t \in Tunnels : ServerReads(t)
    BY <1>4, Zenon
  <2>2. down[t] # <<>> /\ down' = ReadFrame(down, t)
    BY <2>1, Zenon DEF ServerReads
  <2>3. Head(down[t])[2] \in Users /\ down' \in [Tunnels -> Seq(Frames)]
    BY <1>0, <2>2, ReadTypes, Zenon
  <2>4. PICK u \in Users : u = Head(down[t])[2]
    BY <2>3, Zenon
  <2>5. up' = up \/ \E m \in Frames : up' = WriteFrame(up, t, m)
    BY <2>1, <2>4, FrameTypes, Zenon DEF ServerReads, SendFrame
  <2>. QED
    BY <1>0, <2>3, <2>5, WriteTypes, ZenonT(60) DEF QueueType
<1>5. CASE \E t \in Tunnels : ClientReads(t)
  <2>1. PICK t \in Tunnels : ClientReads(t)
    BY <1>5, Zenon
  <2>2. up[t] # <<>> /\ up' = ReadFrame(up, t)
    BY <2>1, Zenon DEF ClientReads
  <2>3. Head(up[t])[2] \in Users /\ up' \in [Tunnels -> Seq(Frames)]
    BY <1>0, <2>2, ReadTypes, Zenon
  <2>4. PICK u \in Users : u = Head(up[t])[2]
    BY <2>3, Zenon
  <2>5. down' = down \/ \E m \in Frames : down' = WriteFrame(down, t, m)
    BY <2>1, <2>4, FrameTypes, Zenon DEF ClientReads, SendBack
  <2>. QED
    BY <1>0, <2>3, <2>5, WriteTypes, ZenonT(60) DEF QueueType
<1>6. CASE \E t \in Tunnels : WriterLoses(t) \/ WriterExits(t) \/ Break(t)
  <2>1. PICK t \in Tunnels : WriterLoses(t) \/ WriterExits(t) \/ Break(t)
    BY <1>6, Zenon
  <2>2. <<>> \in Seq(Frames) /\ (up[t] # <<>> => Tail(up[t]) \in Seq(Frames))
    BY <1>0
  <2>3. CASE WriterLoses(t)
    BY <1>0, <2>2, <2>3, Zenon DEF WriterLoses, QueueType
  <2>4. CASE WriterExits(t)
    BY <1>0, <2>2, <2>4, Zenon DEF WriterExits, QueueType
  <2>5. CASE Break(t)
    BY <1>0, <2>2, <2>5, Zenon DEF Break, frames, QueueType
  <2>. QED
    BY <2>1, <2>3, <2>4, <2>5, Zenon
<1>7. CASE UNCHANGED vars
  BY <1>1, <1>7, Zenon DEF vars, frames
<1>8. CASE BeginClose \/ TakeTunnel
  BY <1>1, <1>8, Zenon DEF BeginClose, TakeTunnel, frames
<1>9. ASSUME NEW t \in Tunnels, ReaderExits(t) \/ ClientExits(t) PROVE QueueType'
  BY <1>1, <1>9, Zenon DEF ReaderExits, ClientExits, frames
<1>10. ASSUME NEW u \in Users,
              \/ Arrive(u) \/ UseTunnel(u) \/ StartRequest(u) \/ NewTunnel(u) \/ RequestFails(u) \/ SendFails(u)
              \/ UserReads(u) \/ ShutUser(u) \/ UserResets(u) \/ WriteFails(u) \/ LocalResets(u)
       PROVE  QueueType'
  <2>1. UNCHANGED frames
    BY <1>10, Zenon DEF Arrive, UseTunnel, StartRequest, NewTunnel, RequestFails, SendFails, UserReads, ShutUser,
       UserResets, WriteFails, LocalResets
  <2>. QED
    BY <1>1, <2>1, Zenon DEF frames
<1>. QED
  BY <1>2, <1>3, <1>4, <1>5, <1>6, <1>7, <1>8, <1>9, <1>10, Zenon DEF Next

LEMMA TypeStep ==
  ASSUME TypeInv, [Next]_vars
  PROVE  TypeInv'
<1>0. up' \in [Tunnels -> Seq(Frames)] /\ down' \in [Tunnels -> Seq(Frames)]
  BY QueueStep, Zenon DEF QueueType
<1>1. CASE UNCHANGED vars
  BY <1>0, <1>1, Zenon DEF vars, gate, tasks, frames, tables, relay, service, TypeInv
<1>2. CASE BeginClose \/ TakeTunnel
  BY <1>0, <1>2 DEF BeginClose, TakeTunnel, tasks, frames, tables, relay, service, TypeInv
<1>3. ASSUME NEW t \in Tunnels, ServerReads(t) PROVE TypeInv'
  <2>1. down[t] # <<>> /\ down \in [Tunnels -> Seq(Frames)]
    BY <1>3, Zenon DEF ServerReads, TypeInv
  <2>2. PICK u \in Users : u = Head(down[t])[2]
    BY <2>1, ReadTypes, Zenon
  <2>3. /\ srv' = srv \/ srv' = [srv EXCEPT ![t] = @ \ {u}]
        /\ inbox' = inbox \/ inbox' = [inbox EXCEPT ![u] = @ + 1]
        /\ UNCHANGED <<gate, tasks, cli, user, tun, got, shut, spoke, broke, service>>
    BY <1>3, <2>2, Zenon DEF ServerReads
  <2>4. srv' \in [Tunnels -> SUBSET Users]
    <3>1. srv \in [Tunnels -> SUBSET Users] /\ srv[t] \ {u} \in SUBSET Users
      BY Zenon DEF TypeInv
    <3>. QED
      BY <2>3, <3>1, Zenon
  <2>5. inbox' \in [Users -> Nat]
    <3>1. inbox \in [Users -> Nat] /\ inbox[u] + 1 \in Nat
      BY NextNat, Zenon DEF TypeInv
    <3>. QED
      BY <2>3, <3>1, Zenon
  <2>. QED
    BY <1>0, <2>3, <2>4, <2>5, Zenon DEF gate, tasks, service, TypeInv
<1>4. ASSUME NEW t \in Tunnels, ClientReads(t) PROVE TypeInv'
  <2>1. up[t] # <<>> /\ up \in [Tunnels -> Seq(Frames)]
    BY <1>4, Zenon DEF ClientReads, TypeInv
  <2>2. PICK u \in Users : u = Head(up[t])[2]
    BY <2>1, ReadTypes, Zenon
  <2>3. /\ cli' = cli \/ cli' = [cli EXCEPT ![t] = @ \ {u}] \/ cli' = [cli EXCEPT ![t] = @ \cup {u}]
        /\ local' = local \/ \E r \in {"open", "failed"} : local' = [local EXCEPT ![u] = r]
        /\ UNCHANGED <<gate, tasks, srv, relay, sent>>
    BY <1>4, <2>2, Zenon DEF ClientReads
  <2>4. cli' \in [Tunnels -> SUBSET Users]
    <3>1. cli \in [Tunnels -> SUBSET Users] /\ cli[t] \ {u} \in SUBSET Users /\ cli[t] \cup {u} \in SUBSET Users
      BY Zenon DEF TypeInv
    <3>. QED
      BY <2>3, <3>1, Zenon
  <2>5. local' \in [Users -> {"none", "open", "closed", "reset", "failed"}]
    BY <2>3, Zenon DEF TypeInv
  <2>. QED
    BY <1>0, <2>3, <2>4, <2>5, Zenon DEF gate, tasks, relay, TypeInv
<1>5. ASSUME NEW t \in Tunnels, ReaderExits(t) \/ WriterLoses(t) \/ WriterExits(t) \/ Break(t) \/ ClientExits(t)
      PROVE  TypeInv'
  <2>1. CASE ReaderExits(t)
    BY <1>0, <2>1, Zenon DEF ReaderExits, gate, relay, service, TypeInv
  <2>2. CASE WriterLoses(t)
    BY <1>0, <2>2, Zenon DEF WriterLoses, gate, tasks, tables, relay, service, TypeInv
  <2>3. CASE WriterExits(t)
    BY <1>0, <2>3, Zenon DEF WriterExits, gate, tables, relay, service, TypeInv
  <2>4. CASE Break(t)
    BY <1>0, <2>4, Zenon DEF Break, gate, tables, relay, service, TypeInv
  <2>5. CASE ClientExits(t)
    BY <1>0, <2>5, Zenon DEF ClientExits, gate, relay, service, TypeInv
  <2>. QED
    BY <1>5, <2>1, <2>2, <2>3, <2>4, <2>5, Zenon
<1>6. ASSUME NEW u \in Users, Arrive(u) \/ UseTunnel(u) \/ StartRequest(u) \/ NewTunnel(u) \/ RequestFails(u)
      PROVE  TypeInv'
  <2>1. CASE Arrive(u)
    BY <1>0, <2>1, Zenon DEF Arrive, gate, tasks, tables, TypeInv
  <2>2. CASE UseTunnel(u)
    BY <1>0, <2>2, Zenon DEF UseTunnel, gate, tasks, tables, service, TypeInv
  <2>3. CASE StartRequest(u)
    BY <1>0, <2>3, Zenon DEF StartRequest, tasks, tables, service, TypeInv
  <2>4. CASE NewTunnel(u)
    <3>1. PICK t \in Nat : t = made + 1
      BY NextNat, Zenon DEF TypeInv
    <3>2. /\ made' = t /\ holder' = t /\ lock' = None
          /\ link' = [link EXCEPT ![t] = TRUE] /\ client' = [client EXCEPT ![t] = TRUE]
          /\ writer' = [writer EXCEPT ![t] = TRUE] /\ reader' = [reader EXCEPT ![t] = TRUE]
          /\ user' = [user EXCEPT ![u] = "open"] /\ tun' = [tun EXCEPT ![u] = t]
          /\ UNCHANGED <<srv, cli, inbox, got, shut, spoke, broke, local, sent>>
      BY <2>4, <3>1, Zenon DEF NewTunnel, tables, service
    <3>. QED
      BY <1>0, <3>2, Zenon DEF TypeInv
  <2>5. CASE RequestFails(u)
    BY <1>0, <2>5, Zenon DEF RequestFails, tasks, tables, service, TypeInv
  <2>. QED
    BY <1>6, <2>1, <2>2, <2>3, <2>4, <2>5, Zenon
<1>7. ASSUME NEW u \in Users, OpenStream(u) \/ UserSends(u) \/ SendFails(u) \/ UserCloses(u)
      PROVE  TypeInv'
  <2>1. CASE OpenStream(u)
    BY <1>0, <2>1, Zenon DEF OpenStream, gate, tasks, service, TypeInv
  <2>2. CASE UserSends(u)
    BY <1>0, <2>2, Zenon DEF UserSends, gate, tasks, tables, service, TypeInv
  <2>3. CASE SendFails(u)
    BY <1>0, <2>3, Zenon DEF SendFails, Leave, gate, tasks, tables, service, TypeInv
  <2>4. CASE UserCloses(u)
    BY <1>0, <2>4, Zenon DEF UserCloses, Leave, gate, tasks, service, TypeInv
  <2>. QED
    BY <1>7, <2>1, <2>2, <2>3, <2>4, Zenon
<1>8. ASSUME NEW u \in Users, UserReads(u) \/ ShutUser(u) \/ UserResets(u) \/ WriteFails(u)
      PROVE  TypeInv'
  <2>1. CASE UserReads(u)
    <3>1. inbox' \in [Users -> Nat] /\ got' \in [Users -> Nat]
      BY <2>1, SMTT(60) DEF UserReads, TypeInv
    <3>. QED
      BY <1>0, <2>1, <3>1, Zenon DEF UserReads, gate, tasks, tables, service, TypeInv
  <2>2. CASE ShutUser(u)
    BY <1>0, <2>2, Zenon DEF ShutUser, gate, tasks, tables, service, TypeInv
  <2>3. CASE UserResets(u)
    BY <1>0, <2>3, Zenon DEF UserResets, gate, tasks, tables, service, TypeInv
  <2>4. CASE WriteFails(u)
    BY <1>0, <2>4, Zenon DEF WriteFails, Leave, gate, tasks, tables, service, TypeInv
  <2>. QED
    BY <1>8, <2>1, <2>2, <2>3, <2>4, Zenon
<1>9. ASSUME NEW u \in Users, LocalResets(u) \/ LocalSends(u) \/ LocalCloses(u)
      PROVE  TypeInv'
  <2>1. CASE LocalResets(u)
    BY <1>0, <2>1, Zenon DEF LocalResets, gate, tasks, tables, relay, TypeInv
  <2>2. CASE LocalSends(u)
    <3>1. /\ sent[u] + 1 \in Nat /\ sent' = [sent EXCEPT ![u] = @ + 1]
          /\ UNCHANGED <<gate, tasks, tables, relay, local>>
      BY <2>2, NextNat, Zenon DEF LocalSends, TypeInv
    <3>2. sent' \in [Users -> Nat]
      BY <3>1, Zenon DEF TypeInv
    <3>. QED
      BY <1>0, <3>1, <3>2, Zenon DEF gate, tasks, tables, relay, TypeInv
  <2>3. CASE LocalCloses(u)
    BY <1>0, <2>3, Zenon DEF LocalCloses, gate, tasks, relay, TypeInv
  <2>. QED
    BY <1>9, <2>1, <2>2, <2>3, Zenon
<1>. QED
  BY <1>1, <1>2, <1>3, <1>4, <1>5, <1>6, <1>7, <1>8, <1>9, Zenon DEF Next

LEMMA GateStep ==
  ASSUME TypeInv, GateInv, [Next]_vars
  PROVE  GateInv'
<1>1. CASE UNCHANGED <<gate, tasks>> /\ \A u \in Users : user'[u] = "request" <=> user[u] = "request"
  BY <1>1, Zenon DEF gate, tasks, GateInv
<1>2. CASE UNCHANGED vars \/ BeginClose
  BY <1>2, Zenon DEF vars, gate, tasks, relay, BeginClose, GateInv
<1>3. CASE TakeTunnel
  BY <1>3 DEF TakeTunnel, tasks, relay, GateInv, TypeInv
<1>4. ASSUME NEW t \in Tunnels, ServerReads(t) \/ WriterLoses(t) \/ ClientReads(t) PROVE GateInv'
  <2>1. UNCHANGED <<gate, tasks, user>>
    BY <1>4, Zenon DEF ServerReads, WriterLoses, ClientReads, relay
  <2>. QED
    BY <1>1, <2>1, Zenon
<1>5. ASSUME NEW t \in Tunnels, ReaderExits(t) \/ WriterExits(t) \/ Break(t) \/ ClientExits(t) PROVE GateInv'
  <2>1. /\ UNCHANGED <<lock, holder, proxy, made, user>>
        /\ \A s \in Tunnels : link'[s] => /\ link[s] /\ (writer'[s] <=> writer[s])
                                          /\ (reader'[s] <=> reader[s]) /\ (client'[s] <=> client[s])
    BY <1>5, Zenon DEF ReaderExits, WriterExits, Break, ClientExits, gate, relay, TypeInv
  <2>. QED
    BY <2>1, Zenon DEF GateInv
<1>6. ASSUME NEW u \in Users, StartRequest(u) PROVE GateInv'
  <2>1. /\ lock = None /\ lock' = u /\ holder' = 0 /\ ~IsAlive(holder) /\ user[u] = "lock"
        /\ user' = [user EXCEPT ![u] = "request"] /\ UNCHANGED <<proxy, made, link, writer, reader, client>>
    BY <1>6, Zenon DEF StartRequest, tasks
  <2>2. \A v \in Users : user'[v] = "request" <=> v = u
    BY <2>1, NoneAssumption, Zenon DEF GateInv, TypeInv
  <2>3. ASSUME NEW t \in Tunnels, link[t], proxy # "closed" PROVE FALSE
    <3>1. t = holder /\ writer[t] /\ t # 0
      BY <2>3 DEF GateInv, Tunnels
    <3>. QED
      BY <2>1, <3>1, Zenon DEF IsAlive
  <2>. QED
    BY <2>1, <2>2, <2>3 DEF GateInv, TypeInv
<1>7. ASSUME NEW u \in Users, NewTunnel(u) PROVE GateInv'
  <2>1. /\ user[u] = "request" /\ made' = made + 1 /\ holder' = made + 1 /\ lock' = None
        /\ link' = [link EXCEPT ![made + 1] = TRUE] /\ client' = [client EXCEPT ![made + 1] = TRUE]
        /\ writer' = [writer EXCEPT ![made + 1] = TRUE] /\ reader' = [reader EXCEPT ![made + 1] = TRUE]
        /\ user' = [user EXCEPT ![u] = "open"] /\ proxy' = proxy
    BY <1>7, Zenon DEF NewTunnel
  <2>2. lock = u /\ holder = 0 /\ made \in Nat
    BY <2>1, NoneAssumption, Zenon DEF GateInv, TypeInv
  <2>3. \A v \in Users : user'[v] # "request" /\ lock' # v
    BY <2>1, <2>2, NoneAssumption, Zenon DEF GateInv, TypeInv
  <2>4. ASSUME NEW t \in Tunnels, link'[t]
        PROVE  /\ t <= made' /\ writer'[t] /\ reader'[t] /\ client'[t]
               /\ proxy' # "closed" => t = holder'
    <3>1. CASE t = made + 1
      BY <2>1, <2>2, <3>1 DEF TypeInv
    <3>2. CASE t # made + 1
      <4>1. link[t] /\ writer'[t] = writer[t] /\ reader'[t] = reader[t] /\ client'[t] = client[t]
        BY <2>1, <2>4, <3>2, Zenon DEF TypeInv
      <4>2. t <= made /\ t \in Nat /\ t # 0
        BY <4>1 DEF GateInv, Tunnels
      <4>. QED
        BY <2>1, <2>2, <4>1, <4>2 DEF GateInv
    <3>. QED
      BY <3>1, <3>2, Zenon
  <2>5. made' <= MaxTunnels
    BY <1>7, <2>1, <2>2, TunnelsAssumption DEF NewTunnel
  <2>. QED
    BY <2>1, <2>2, <2>3, <2>4, <2>5 DEF GateInv
<1>8. ASSUME NEW u \in Users, RequestFails(u) PROVE GateInv'
  <2>1. /\ user[u] = "request" /\ lock' = None /\ user' = [user EXCEPT ![u] = "away"]
        /\ UNCHANGED <<holder, proxy, made, link, writer, reader, client>>
    BY <1>8, Zenon DEF RequestFails, tasks
  <2>2. lock = u
    BY <2>1, Zenon DEF GateInv
  <2>3. \A v \in Users : user'[v] # "request" /\ lock' # v
    BY <2>1, <2>2, NoneAssumption, Zenon DEF GateInv, TypeInv
  <2>. QED
    BY <2>1, <2>3, Zenon DEF GateInv
<1>9. ASSUME NEW u \in Users,
             \/ Arrive(u) \/ UseTunnel(u) \/ OpenStream(u) \/ UserSends(u) \/ SendFails(u) \/ UserCloses(u)
             \/ UserReads(u) \/ ShutUser(u) \/ UserResets(u) \/ WriteFails(u)
             \/ LocalResets(u) \/ LocalSends(u) \/ LocalCloses(u)
      PROVE  GateInv'
  <2>1. UNCHANGED <<gate, tasks>>
    BY <1>9, ZenonT(30) DEF Arrive, UseTunnel, OpenStream, UserSends, SendFails, UserCloses, UserReads, ShutUser, UserResets,
       WriteFails, LocalResets, LocalSends, LocalCloses
  <2>2. \/ user' = user
        \/ user[u] # "request" /\ \E w : w # "request" /\ user' = [user EXCEPT ![u] = w]
    BY <1>9, Zenon DEF Arrive, UseTunnel, OpenStream, UserSends, SendFails, UserCloses, UserReads, ShutUser, UserResets,
       WriteFails, LocalResets, LocalSends, LocalCloses, Leave, relay
  <2>3. \A v \in Users : user'[v] = "request" <=> user[v] = "request"
    BY <2>2, Zenon DEF TypeInv
  <2>. QED
    BY <1>1, <2>1, <2>3, Zenon
<1>. QED
  BY <1>2, <1>3, <1>4, <1>5, <1>6, <1>7, <1>8, <1>9, Zenon DEF Next

-----------------------------------------------------------------------------
(***************************************************************************)
(* The steps of a user: what they do to it, and that they leave the others *)
(* alone.                                                                  *)
(***************************************************************************)

LEMMA Bystander ==
  ASSUME TypeInv, TypeInv', NEW u \in Users, UserInv(u), Untouched(u), made <= made',
         UNCHANGED <<up, down, srv, cli>>, \A t \in Tunnels : link'[t] /\ t = tun[u] => link[t]
  PROVE  UserInv(u)'
<1>1. ASSUME NEW t \in Tunnels PROVE Keeps(u, t)
  <2>1. Same(u, up[t], up[t]) /\ Same(u, down[t], down[t])
    BY QueueTypes, SameSelf, Zenon
  <2>. QED
    BY <2>1, KeepsSame, Zenon
<1>. QED
  BY <1>1, Apart, Zenon

LEMMA NotCarried ==
  ASSUME NEW q, NEW u, ~Carries(q, u)
  PROVE  OpenFirst(q, u) /\ CloseLast(q, u) /\ \A k : ~Has(q, k, u)
  BY Zenon DEF Carries, OpenFirst, CloseLast, Has

\* A user without a stream.
LEMMA Fresh ==
  ASSUME NEW u \in Users, user'[u] # "relay", local'[u] = "none", sent'[u] = 0, Rests(u)', Placed(u)',
         \A t \in Tunnels : ~Carries(up'[t], u) /\ ~Carries(down'[t], u) /\ u \notin cli'[t]
  PROVE  UserInv(u)'
<1>1. Home(u)'
  BY Zenon DEF Home
<1>2. Begins(u)'
  BY Zenon DEF Begins
<1>3. ASSUME NEW t \in Tunnels PROVE Opening(u, t)' /\ Covered(u, t)' /\ Served(u, t)'
  <2>1. OpenFirst(up'[t], u) /\ ~Has(up'[t], "Open", u)
    BY NotCarried, Zenon
  <2>. QED
    BY <2>1, Zenon DEF Opening, Covered, Served
<1>. QED
  BY <1>1, <1>2, <1>3, Zenon DEF UserInv

\* A user with one.
LEMMA AtHome ==
  ASSUME NEW u \in Users, UserInv(u), NEW t \in Tunnels, t = tun[u], tun'[u] = tun[u],
         \A s \in Tunnels : s # t => up'[s] = up[s] /\ down'[s] = down[s] /\ cli'[s] = cli[s],
         user'[u] \notin {"lock", "request", "open"}, Rests(u)', made <= made', made \in Nat, made' \in Nat,
         Opening(u, t)', Covered(u, t)', Served(u, t)'
  PROVE  UserInv(u)'
<1>1. ASSUME NEW s \in Tunnels, s # t PROVE ~Carries(up'[s], u) /\ ~Carries(down'[s], u) /\ u \notin cli'[s]
  BY <1>1, Zenon DEF UserInv, Home
<1>2. Home(u)'
  BY <1>1, Zenon DEF Home
<1>3. Begins(u)'
  BY Zenon DEF Begins
<1>4. Placed(u)'
  <2>1. t \in Nat
    BY TunnelNat, Zenon
  <2>2. t <= made
    BY Zenon DEF UserInv, Placed
  <2>3. t <= made'
    BY <2>1, <2>2, OrderTrans, Zenon
  <2>. QED
    BY <2>3, Zenon DEF Placed
<1>5. ASSUME NEW s \in Tunnels, s # t PROVE Opening(u, s)' /\ Covered(u, s)' /\ Served(u, s)'
  <2>1. OpenFirst(up'[s], u) /\ ~Has(up'[s], "Open", u) /\ u \notin cli'[s]
    BY <1>1, <1>5, NotCarried, Zenon
  <2>. QED
    BY <1>5, <2>1, Zenon DEF Opening, Covered, Served
<1>. QED
  BY <1>2, <1>3, <1>4, <1>5, ZenonT(30) DEF UserInv

\* Until the stream is opened.
LEMMA GateUserSteps ==
  ASSUME MuxInv, TypeInv', NEW u \in Users,
         Arrive(u) \/ UseTunnel(u) \/ StartRequest(u) \/ NewTunnel(u) \/ RequestFails(u)
  PROVE  \A v \in Users : UserInv(v)'
<1>1. TypeInv /\ GateInv /\ made \in Nat /\ holder \in Nat /\ \A v \in Users : UserInv(v)
  BY Zenon DEF MuxInv, TypeInv
<1>2. UNCHANGED <<up, down, srv, cli, inbox, got, shut>>
  BY Zenon DEF Arrive, UseTunnel, StartRequest, NewTunnel, RequestFails, frames, tables
<1>3. made <= made' /\ \A v \in Users : tun[v] <= made /\ tun[v] \in Nat
  <2>1. made' = made \/ made' = made + 1
    BY Zenon DEF Arrive, UseTunnel, StartRequest, NewTunnel, RequestFails, tasks
  <2>2. made <= made'
    BY <1>1, <2>1, SelfOrder, NextNat, Zenon
  <2>. QED
    BY <1>1, <2>2, Zenon DEF UserInv, Placed, TypeInv
<1>4. ASSUME NEW t \in Tunnels, NEW v \in Users, link'[t], t = tun[v] PROVE link[t]
  <2>1. CASE NewTunnel(u)
    <3>1. t # made + 1
      BY <1>1, <1>3, <1>4
    <3>. QED
      BY <1>4, <2>1, <3>1, Zenon DEF NewTunnel, MuxInv, TypeInv
  <2>2. CASE ~NewTunnel(u)
    BY <1>4, <2>2, Zenon DEF Arrive, UseTunnel, StartRequest, RequestFails, tasks
  <2>. QED
    BY <2>1, <2>2, ZenonT(30)
<1>5. ASSUME NEW v \in Users, v # u PROVE UserInv(v)'
  <2>1. Untouched(v)
    BY <1>1, <1>2, <1>5, SMTT(60) DEF Arrive, UseTunnel, StartRequest, NewTunnel, RequestFails, service, Untouched, TypeInv
  <2>. QED
    BY <1>1, <1>2, <1>3, <1>4, <2>1, Bystander, ZenonT(30)
<1>6. UserInv(u)'
  <2>1. UserInv(u) /\ Rests(u) /\ user[u] \in {"away", "lock", "request"}
    BY <1>1, Zenon DEF UserInv, Arrive, UseTunnel, StartRequest, NewTunnel, RequestFails
  <2>2. /\ \A t \in Tunnels : ~Carries(up[t], u) /\ ~Carries(down[t], u) /\ u \notin cli[t]
        /\ local'[u] = "none" /\ sent'[u] = 0
    <3>1. CASE Arrive(u)
      <4>1. local'[u] = "none" /\ sent'[u] = 0 /\ Forgotten(u)
        BY <1>1, <3>1, Zenon DEF Arrive, TypeInv
      <4>. QED
        BY <4>1, Zenon DEF Forgotten, Carries
    <3>2. CASE ~Arrive(u)
      <4>1. UNCHANGED <<local, sent>> /\ user[u] \in {"lock", "request"}
        BY <3>2, Zenon DEF UseTunnel, StartRequest, NewTunnel, RequestFails, service
      <4>. QED
        BY <2>1, <4>1, Zenon DEF UserInv, Begins
    <3>. QED
      BY <3>1, <3>2, Zenon
  <2>3. user'[u] \in {"away", "lock", "request", "open"}
    BY <1>1, ZenonT(60) DEF Arrive, UseTunnel, StartRequest, NewTunnel, RequestFails, TypeInv
  <2>4. Rests(u)'
    BY <1>2, <2>1, Zenon DEF Rests
  <2>5. Placed(u)'
    <3>1. CASE Arrive(u)
      BY <1>1, <1>3, <2>2, <3>1 DEF Arrive, TypeInv, Placed
    <3>2. CASE UseTunnel(u)
      <4>1. tun'[u] = holder /\ made' = made /\ holder <= made /\ holder # 0
        BY <1>1, <3>2 DEF UseTunnel, IsAlive, GateInv, TypeInv, tasks
      <4>2. tun'[u] \in Tunnels
        <5>1. made <= MaxTunnels
          BY <1>1, ZenonT(30) DEF GateInv
        <5>. QED
          BY <1>1, <4>1, <5>1, TunnelsAssumption DEF Tunnels
      <4>. QED
        BY <4>1, <4>2, Zenon DEF Placed
    <3>3. CASE NewTunnel(u)
      <4>1. tun'[u] = made + 1 /\ made' = made + 1 /\ made < MaxTunnels
        BY <1>1, <3>3, Zenon DEF NewTunnel, TypeInv
      <4>2. tun'[u] \in Tunnels
        BY <1>1, <4>1, TunnelsAssumption DEF Tunnels
      <4>. QED
        BY <1>1, <4>1, <4>2 DEF Placed
    <3>4. CASE StartRequest(u) \/ RequestFails(u)
      <4>1. tun' = tun /\ made' = made /\ user'[u] \in {"request", "away"}
        BY <1>1, <3>4, Zenon DEF StartRequest, RequestFails, tasks, TypeInv
      <4>. QED
        BY <2>1, <2>2, <4>1, ZenonT(30) DEF UserInv, Placed
    <3>. QED
      BY <3>1, <3>2, <3>3, <3>4, Zenon
  <2>. QED
    BY <1>2, <2>2, <2>3, <2>4, <2>5, Fresh, Zenon
<1>. QED
  BY <1>5, <1>6, Zenon

\* The relay, the steps that send nothing.
LEMMA RelaySteps ==
  ASSUME MuxInv, TypeInv', NEW u \in Users,
         UserReads(u) \/ ShutUser(u) \/ UserResets(u) \/ WriteFails(u) \/ SendFails(u) \/ LocalResets(u)
  PROVE  \A v \in Users : UserInv(v)'
<1>1. TypeInv /\ GateInv /\ made \in Nat /\ \A v \in Users : UserInv(v)
  BY Zenon DEF MuxInv, TypeInv
<1>2. UNCHANGED <<up, down, srv, cli, made, link, tun, sent>>
  BY Zenon DEF UserReads, ShutUser, UserResets, WriteFails, SendFails, LocalResets, Leave, frames, tables, tasks, service, relay
<1>3. ASSUME NEW v \in Users, v # u PROVE UserInv(v)'
  <2>1. Untouched(v)
    <3>1. CASE UserReads(u) \/ ShutUser(u)
      BY <1>1, <1>2, <1>3, <3>1, ZenonT(30) DEF UserReads, ShutUser, service, Untouched, TypeInv
    <3>2. CASE UserResets(u) \/ LocalResets(u)
      BY <1>1, <1>2, <1>3, <3>2, ZenonT(30) DEF UserResets, LocalResets, service, relay, Untouched, TypeInv
    <3>3. CASE WriteFails(u) \/ SendFails(u)
      <4>1. Leave(u) /\ UNCHANGED <<broke, local>>
        BY <3>3, Zenon DEF WriteFails, SendFails, service
      <4>2. user'[v] = user[v] /\ inbox'[v] = inbox[v] /\ got'[v] = got[v] /\ shut'[v] = shut[v]
        BY <1>1, <1>3, <4>1, ZenonT(60) DEF Leave, TypeInv
      <4>. QED
        BY <1>2, <4>1, <4>2, Zenon DEF Untouched
    <3>. QED
      BY <3>1, <3>2, <3>3, Zenon
  <2>. QED
    <3>1. made <= made'
      BY <1>1, <1>2, SelfOrder, Zenon
    <3>. QED
      BY <1>1, <1>2, <2>1, <3>1, Bystander, Zenon
<1>4. UserInv(u)'
  <2>1. PICK t \in Tunnels : t = tun[u]
    BY <1>1, Zenon DEF UserInv, Placed, UserReads, ShutUser, UserResets, WriteFails, SendFails, LocalResets
  <2>2. UserInv(u) /\ Begins(u) /\ Rests(u) /\ Opening(u, t) /\ Covered(u, t) /\ Served(u, t) /\ Home(u)
    BY <1>1, Zenon DEF UserInv
  <2>3. made' \in Nat /\ made <= made'
    BY <1>1, <1>2, SelfOrder, Zenon
  <2>4. CASE UserReads(u)
    <3>1. /\ user[u] = "relay" /\ inbox[u] > 0 /\ inbox'[u] = inbox[u] - 1 /\ got'[u] = got[u] + 1
          /\ inbox[u] \in Nat /\ got[u] \in Nat /\ UNCHANGED <<user, shut, broke, local>>
      BY <1>1, <2>4, Zenon DEF UserReads, service, TypeInv
    <3>2. got'[u] + inbox'[u] = got[u] + inbox[u] /\ inbox[u] # 0
      BY <3>1, SumMoves, Zenon
    <3>3. Rests(u)' /\ Opening(u, t)' /\ Covered(u, t)'
      BY <1>2, <2>2, <3>1, Zenon DEF Rests, Opening, Covered
    <3>4. Served(u, t)'
      BY <1>2, <2>2, <3>1, <3>2, Zenon DEF Served, Ended
    <3>. QED
      BY <1>2, <2>1, <2>2, <2>3, <3>1, <3>3, <3>4, AtHome, <1>1, Zenon
  <2>5. CASE ShutUser(u)
    <3>1. /\ user[u] = "relay" /\ inbox[u] = 0 /\ u \notin srv[t] /\ shut'[u] = TRUE
          /\ UNCHANGED <<user, broke, local, inbox, got>>
      BY <1>1, <2>1, <2>5, Zenon DEF ShutUser, service, TypeInv
    <3>3. Rests(u)' /\ Opening(u, t)' /\ Covered(u, t)'
      BY <1>2, <2>2, <3>1, Zenon DEF Rests, Opening, Covered
    <3>4. Served(u, t)'
      BY <1>2, <2>2, <3>1, Zenon DEF Served, Ended
    <3>. QED
      BY <1>2, <2>1, <2>2, <2>3, <3>1, <3>3, <3>4, AtHome, <1>1, Zenon
  <2>6. CASE UserResets(u)
    <3>1. user'[u] = "reset" /\ u \in broke' /\ UNCHANGED local
      BY <1>1, <2>6, Zenon DEF UserResets, service, TypeInv
    <3>3. Rests(u)' /\ Opening(u, t)' /\ Covered(u, t)' /\ Served(u, t)'
      BY <1>2, <2>2, <3>1, Zenon DEF Rests, Opening, Covered, Served
    <3>. QED
      BY <1>2, <2>1, <2>2, <2>3, <3>1, <3>3, AtHome, <1>1, Zenon
  <2>7. CASE WriteFails(u)
    <3>1. /\ user[u] = "reset" /\ user'[u] = "away" /\ inbox'[u] = 0 /\ got'[u] = 0 /\ ~shut'[u]
          /\ UNCHANGED <<local, broke>>
      BY <1>1, <2>7, Zenon DEF WriteFails, Leave, service, TypeInv
    <3>3. Rests(u)' /\ Opening(u, t)' /\ Covered(u, t)' /\ Served(u, t)'
      BY <1>2, <2>2, <3>1, Zenon DEF Rests, Opening, Covered, Served
    <3>. QED
      BY <1>2, <2>1, <2>2, <2>3, <3>1, <3>3, AtHome, <1>1, ZenonT(30)
  <2>8. CASE SendFails(u)
    <3>1. /\ ~writer[t] /\ user'[u] = "away" /\ inbox'[u] = 0 /\ got'[u] = 0 /\ ~shut'[u]
          /\ UNCHANGED <<local, broke>>
      BY <1>1, <2>1, <2>8, Zenon DEF SendFails, Leave, service, TypeInv
    <3>2. ~link[t]
      BY <1>1, <3>1, Zenon DEF GateInv
    <3>3. Rests(u)' /\ Opening(u, t)' /\ Covered(u, t)' /\ Served(u, t)'
      BY <1>2, <2>2, <3>1, <3>2, Zenon DEF Rests, Opening, Covered, Served
    <3>. QED
      BY <1>2, <2>1, <2>2, <2>3, <3>1, <3>3, AtHome, <1>1, ZenonT(30)
  <2>9. CASE LocalResets(u)
    <3>1. local[u] = "open" /\ local'[u] = "reset" /\ UNCHANGED <<user, inbox, got, shut, broke>>
      BY <1>1, <2>9, Zenon DEF LocalResets, relay, TypeInv
    <3>2. user[u] \notin {"lock", "request", "open"} /\ ~Has(up[t], "Open", u)
      BY <2>2, <3>1, Zenon DEF Begins, Opening
    <3>3. Rests(u)' /\ Opening(u, t)' /\ Covered(u, t)'
      BY <1>2, <2>2, <3>1, <3>2, Zenon DEF Rests, Opening, Covered
    <3>4. Served(u, t)'
      BY <1>2, <2>2, <3>1, <3>2, Zenon DEF Served, Ended
    <3>. QED
      BY <1>2, <2>1, <2>2, <2>3, <3>1, <3>2, <3>3, <3>4, AtHome, <1>1, Zenon
  <2>. QED
    BY <2>4, <2>5, <2>6, <2>7, <2>8, <2>9, Zenon
<1>. QED
  BY <1>3, <1>4, Zenon

\* A queue that lost or gained a frame of someone else.
Other(v, q, r) ==
    \/ r = q
    \/ q # <<>> /\ Head(q)[2] # v /\ r = Tail(q)
    \/ \E m \in Frames : m[2] # v /\ r = Append(q, m)

LEMMA OtherSame ==
  ASSUME NEW q \in Seq(Frames), NEW r, NEW v, Other(v, q, r)
  PROVE  Same(v, q, r)
  BY SameSelf, SameTail, SameAppend, Zenon DEF Other

LEMMA Aside ==
  ASSUME TypeInv, TypeInv', NEW v \in Users, UserInv(v), Untouched(v), made' = made, link' = link,
         \A s \in Tunnels : /\ Other(v, up[s], up'[s]) /\ Other(v, down[s], down'[s])
                            /\ v \in srv'[s] <=> v \in srv[s]
                            /\ v \in cli'[s] <=> v \in cli[s]
  PROVE  UserInv(v)'
<1>1. ASSUME NEW s \in Tunnels PROVE Keeps(v, s)
  <2>1. Same(v, up[s], up'[s]) /\ Same(v, down[s], down'[s])
    BY QueueTypes, OtherSame, Zenon
  <2>. QED
    BY <2>1, KeepsSame, Zenon
<1>2. made <= made'
  BY SelfOrder, Zenon DEF TypeInv
<1>. QED
  BY <1>1, <1>2, Apart, Zenon

\* The queues after a frame is written or read.
Written(q, t, m, r) ==
    /\ r[t] = Append(q[t], m)
    /\ \A s \in Tunnels : s # t => r[s] = q[s]
    /\ \A v : m[2] # v => \A s \in Tunnels : Other(v, q[s], r[s])
Taken(q, t, r) ==
    /\ r[t] = Tail(q[t])
    /\ \A s \in Tunnels : s # t => r[s] = q[s]
    /\ \A v : Head(q[t])[2] # v => \A s \in Tunnels : Other(v, q[s], r[s])

LEMMA WriteAt ==
  ASSUME NEW q \in [Tunnels -> Seq(Frames)], NEW t \in Tunnels, NEW m \in Frames,
         NEW r, r = WriteFrame(q, t, m)
  PROVE  Written(q, t, m, r)
<1>1. r[t] = Append(q[t], m) /\ \A s \in Tunnels : s # t => r[s] = q[s]
  BY Zenon DEF WriteFrame
<1>. QED
  BY <1>1, Zenon DEF Other, Written

LEMMA ReadAt ==
  ASSUME NEW q \in [Tunnels -> Seq(Frames)], NEW t \in Tunnels, q[t] # <<>>,
         NEW r, r = ReadFrame(q, t)
  PROVE  Taken(q, t, r)
<1>1. r[t] = Tail(q[t]) /\ \A s \in Tunnels : s # t => r[s] = q[s]
  BY Zenon DEF ReadFrame
<1>. QED
  BY <1>1, Zenon DEF Other, Taken

\* The relay and the local service, the steps that send a frame.
LEMMA OpenStreamStep ==
  ASSUME MuxInv, TypeInv', NEW u \in Users, OpenStream(u)
  PROVE  \A v \in Users : UserInv(v)'
<1>1. TypeInv /\ GateInv /\ made \in Nat /\ \A v \in Users : UserInv(v)
  BY Zenon DEF MuxInv, TypeInv
<1>2. PICK t \in Tunnels : t = tun[u]
  BY <1>1, Zenon DEF UserInv, Placed, OpenStream
<1>3. PICK m \in Frames : m = <<"Open", u>>
  BY FrameTypes, Zenon
<1>4. /\ up' = WriteFrame(up, t, m) /\ srv' = [srv EXCEPT ![t] = @ \cup {u}]
      /\ user[u] = "open" /\ user' = [user EXCEPT ![u] = "relay"]
      /\ UNCHANGED <<down, cli, made, link, tun, inbox, got, shut, spoke, broke, local, sent>>
  BY <1>2, <1>3, Zenon DEF OpenStream, SendFrame, gate, tasks, service
<1>5. /\ up'[t] = Append(up[t], m)
      /\ \A s \in Tunnels : s # t => up'[s] = up[s]
      /\ \A v : m[2] # v => \A s \in Tunnels : Other(v, up[s], up'[s])
  <2>1. up \in [Tunnels -> Seq(Frames)] /\ up' = WriteFrame(up, t, m)
    BY <1>1, <1>4, Zenon DEF TypeInv
  <2>2. Written(up, t, m, up')
    BY <2>1, WriteAt, Zenon
  <2>. QED
    BY <2>2, Zenon DEF Written
<1>6. ASSUME NEW v \in Users, v # u PROVE UserInv(v)'
  <2>1. Untouched(v) /\ m[2] # v
    BY <1>1, <1>3, <1>4, <1>6, ZenonT(60) DEF Untouched, TypeInv
  <2>2. \A s \in Tunnels : v \in srv'[s] <=> v \in srv[s]
    BY <1>1, <1>4, <1>6, ZenonT(30) DEF TypeInv
  <2>3. \A s \in Tunnels : Other(v, down[s], down'[s])
    BY <1>4, Zenon DEF Other
  <2>. QED
    BY <1>1, <1>4, <1>5, <2>1, <2>2, <2>3, Aside, Zenon
<1>7. UserInv(u)'
  <2>1. UserInv(u) /\ Rests(u) /\ local[u] = "none" /\ sent[u] = 0
    BY <1>1, <1>4, Zenon DEF UserInv, Begins
  <2>2. ~Carries(up[t], u) /\ ~Carries(down[t], u) /\ u \notin cli[t] /\ OpenFirst(up[t], u)
    BY <1>1, <1>4, Zenon DEF UserInv, Begins, Opening
  <2>3. user'[u] = "relay" /\ u \in srv'[t]
    BY <1>1, <1>4, ZenonT(60) DEF TypeInv
  <2>4. \A k : ~Has(up[t], k, u) /\ ~Has(down[t], k, u)
    BY <2>2, NotCarried, Zenon
  <2>5. m[1] = "Open" /\ m[2] = u
    BY <1>3, Zenon
  <2>6. /\ OpenFirst(up'[t], u) /\ Has(up'[t], "Open", u) /\ ~Has(up'[t], "Close", u)
    <3>1. PICK r \in Seq(Frames) : r = up[t]
      BY <1>1, QueueTypes, Zenon
    <3>2. /\ OpenFirst(Append(r, m), u) /\ Has(Append(r, m), "Open", u)
          /\ ~Has(Append(r, m), "Close", u)
      BY <2>2, <2>4, <2>5, <3>1, OpenSent, Zenon
    <3>. QED
      BY <1>5, <3>1, <3>2, Zenon
  <2>7. CloseLast(down[t], u)
    BY <2>2, NotCarried, Zenon
  <2>8. Rests(u)' /\ Opening(u, t)' /\ Covered(u, t)'
    BY <1>4, <2>1, <2>2, <2>3, <2>6, Zenon DEF Rests, Opening, Covered
  <2>9. inbox[u] = 0 /\ got[u] = 0 /\ ~shut[u] /\ 0 + 0 = 0
    BY <1>4, <2>1, AtRest, Zenon
  <2>10. Chunks(down[t], u, got[u] + inbox[u], sent[u])
    <3>1. Chunks(down[t], u, 0, 0)
      BY <2>4, ChunksNone, Zenon
    <3>. QED
      BY <2>1, <2>9, <3>1, Zenon
  <2>11. Served(u, t)'
    BY <1>4, <2>1, <2>3, <2>4, <2>6, <2>7, <2>9, <2>10, Zenon DEF Served, Ended
  <2>12. made' \in Nat /\ made <= made'
    BY <1>1, <1>4, SelfOrder, Zenon
  <2>. QED
    BY <1>1, <1>2, <1>4, <1>5, <2>1, <2>3, <2>8, <2>11, <2>12, AtHome, Zenon
<1>. QED
  BY <1>6, <1>7, Zenon

LEMMA UserSendsStep ==
  ASSUME MuxInv, TypeInv', NEW u \in Users, UserSends(u)
  PROVE  \A v \in Users : UserInv(v)'
<1>1. TypeInv /\ GateInv /\ made \in Nat /\ \A v \in Users : UserInv(v)
  BY Zenon DEF MuxInv, TypeInv
<1>2. PICK t \in Tunnels : t = tun[u]
  BY <1>1, Zenon DEF UserInv, Placed, UserSends
<1>3. PICK m \in Frames : m = <<"Data", u>>
  BY FrameTypes, Zenon
<1>4. /\ up' = WriteFrame(up, t, m) /\ user[u] = "relay"
      /\ spoke' = [spoke EXCEPT ![u] = TRUE]
      /\ UNCHANGED <<down, srv, cli, made, link, user, tun, inbox, got, shut, broke, local, sent>>
  BY <1>2, <1>3, Zenon DEF UserSends, SendFrame, gate, tasks, tables, service
<1>5. /\ up'[t] = Append(up[t], m)
      /\ \A s \in Tunnels : s # t => up'[s] = up[s]
      /\ \A v : m[2] # v => \A s \in Tunnels : Other(v, up[s], up'[s])
  <2>1. up \in [Tunnels -> Seq(Frames)] /\ up' = WriteFrame(up, t, m)
    BY <1>1, <1>4, Zenon DEF TypeInv
  <2>2. Written(up, t, m, up')
    BY <2>1, WriteAt, Zenon
  <2>. QED
    BY <2>2, Zenon DEF Written
<1>6. ASSUME NEW v \in Users, v # u PROVE UserInv(v)'
  <2>1. Untouched(v) /\ m[2] # v
    BY <1>1, <1>3, <1>4, <1>6, Zenon DEF Untouched, TypeInv
  <2>2. \A s \in Tunnels : Other(v, down[s], down'[s])
    BY <1>4, Zenon DEF Other
  <2>. QED
    BY <1>1, <1>4, <1>5, <2>1, <2>2, Aside, Zenon
<1>7. UserInv(u)'
  <2>1. UserInv(u) /\ Rests(u) /\ Opening(u, t) /\ Covered(u, t) /\ Served(u, t)
    BY <1>1, Zenon DEF UserInv
  <2>2. m[1] = "Data"
    BY <1>3, Zenon
  <2>3. /\ OpenFirst(up'[t], u)
        /\ Has(up'[t], "Open", u) <=> Has(up[t], "Open", u)
        /\ Has(up'[t], "Close", u) <=> Has(up[t], "Close", u)
    <3>1. PICK r \in Seq(Frames) : r = up[t]
      BY <1>1, QueueTypes, Zenon
    <3>2. /\ OpenFirst(Append(r, m), u)
          /\ Has(Append(r, m), "Open", u) <=> Has(r, "Open", u)
          /\ Has(Append(r, m), "Close", u) <=> Has(r, "Close", u)
      <4>1. OpenFirst(r, u)
        BY <2>1, <3>1, Zenon DEF Opening
      <4>. QED
        BY <2>2, <4>1, DataSent, Zenon
    <3>. QED
      BY <1>5, <3>1, <3>2, Zenon
  <2>4. Rests(u)' /\ Opening(u, t)' /\ Covered(u, t)'
    BY <1>4, <2>1, <2>3, Zenon DEF Rests, Opening, Covered
  <2>5. Served(u, t)'
    BY <1>4, <2>1, <2>3, Zenon DEF Served, Ended
  <2>6. made' \in Nat /\ made <= made'
    BY <1>1, <1>4, SelfOrder, Zenon
  <2>. QED
    BY <1>1, <1>2, <1>4, <1>5, <2>1, <2>4, <2>5, <2>6, AtHome, Zenon
<1>. QED
  BY <1>6, <1>7, Zenon

LEMMA UserClosesStep ==
  ASSUME MuxInv, TypeInv', NEW u \in Users, UserCloses(u)
  PROVE  \A v \in Users : UserInv(v)'
<1>1. TypeInv /\ GateInv /\ made \in Nat /\ \A v \in Users : UserInv(v)
  BY Zenon DEF MuxInv, TypeInv
<1>2. PICK t \in Tunnels : t = tun[u]
  BY <1>1, Zenon DEF UserInv, Placed, UserCloses
<1>3. PICK m \in Frames : m = <<"Close", u>>
  BY FrameTypes, Zenon
<1>4. /\ up' = WriteFrame(up, t, m) \/ (~writer[t] /\ up' = up)
      /\ srv' = [srv EXCEPT ![t] = @ \ {u}] /\ user[u] = "relay"
      /\ user' = [user EXCEPT ![u] = "away"]
      /\ inbox' = [inbox EXCEPT ![u] = 0] /\ got' = [got EXCEPT ![u] = 0]
      /\ shut' = [shut EXCEPT ![u] = FALSE] /\ spoke' = [spoke EXCEPT ![u] = FALSE]
      /\ UNCHANGED <<down, cli, made, link, tun, broke, local, sent>>
  BY <1>2, <1>3, Zenon DEF UserCloses, Leave, SendFrame, gate, tasks, service
<1>5. /\ up'[t] = Append(up[t], m) \/ (~writer[t] /\ up'[t] = up[t])
      /\ \A s \in Tunnels : s # t => up'[s] = up[s]
      /\ \A v : m[2] # v => \A s \in Tunnels : Other(v, up[s], up'[s])
  <2>1. CASE up' = WriteFrame(up, t, m)
    <3>1. up \in [Tunnels -> Seq(Frames)]
      BY <1>1, Zenon DEF TypeInv
    <3>2. Written(up, t, m, up')
      BY <2>1, <3>1, WriteAt, Zenon
    <3>. QED
      BY <3>2, Zenon DEF Written
  <2>2. CASE ~writer[t] /\ up' = up
    BY <2>2, Zenon DEF Other
  <2>. QED
    BY <1>4, <2>1, <2>2, Zenon
<1>6. ASSUME NEW v \in Users, v # u PROVE UserInv(v)'
  <2>1. Untouched(v) /\ m[2] # v
    BY <1>1, <1>3, <1>4, <1>6, ZenonT(30) DEF Untouched, TypeInv
  <2>2. \A s \in Tunnels : Other(v, down[s], down'[s])
    BY <1>4, Zenon DEF Other
  <2>3. \A s \in Tunnels : v \in srv'[s] <=> v \in srv[s]
    BY <1>1, <1>4, <1>6, ZenonT(60) DEF TypeInv
  <2>. QED
    BY <1>1, <1>4, <1>5, <2>1, <2>2, <2>3, Aside, Zenon
<1>7. UserInv(u)'
  <2>1. UserInv(u) /\ Opening(u, t)
    BY <1>1, Zenon DEF UserInv
  <2>2. m[1] = "Close" /\ m[2] = u
    BY <1>3, Zenon
  <2>3. /\ OpenFirst(up'[t], u)
        /\ Has(up'[t], "Open", u) => Has(up[t], "Open", u)
        /\ Has(up'[t], "Close", u) \/ ~writer[t]
    <3>1. CASE up'[t] = Append(up[t], m)
      <4>1. PICK r \in Seq(Frames) : r = up[t]
        BY <1>1, QueueTypes, Zenon
      <4>2. /\ OpenFirst(Append(r, m), u) /\ Has(Append(r, m), "Close", u)
            /\ Has(Append(r, m), "Open", u) => Has(r, "Open", u)
        <5>1. OpenFirst(r, u)
          BY <2>1, <4>1, Zenon DEF Opening
        <5>. QED
          BY <2>2, <5>1, CloseSent, Zenon
      <4>. QED
        BY <3>1, <4>1, <4>2, Zenon
    <3>2. CASE ~writer[t] /\ up'[t] = up[t]
      BY <2>1, <3>2, Zenon DEF Opening
    <3>. QED
      BY <1>5, <3>1, <3>2, Zenon
  <2>4. Has(up'[t], "Close", u) \/ ~link[t]
    BY <1>1, <2>3, Zenon DEF GateInv
  <2>5. user'[u] = "away" /\ inbox'[u] = 0 /\ got'[u] = 0 /\ ~shut'[u]
    BY <1>1, <1>4, ZenonT(60) DEF TypeInv
  <2>6. Rests(u)' /\ Opening(u, t)' /\ Covered(u, t)' /\ Served(u, t)'
    BY <1>4, <2>1, <2>3, <2>4, <2>5, Zenon DEF Rests, Opening, Covered, Served
  <2>7. made' \in Nat /\ made <= made'
    BY <1>1, <1>4, SelfOrder, Zenon
  <2>. QED
    BY <1>1, <1>2, <1>4, <1>5, <2>1, <2>5, <2>6, <2>7, AtHome, Zenon
<1>. QED
  BY <1>6, <1>7, Zenon

LEMMA LocalSteps ==
  ASSUME MuxInv, TypeInv', NEW u \in Users, LocalSends(u) \/ LocalCloses(u)
  PROVE  \A v \in Users : UserInv(v)'
<1>1. TypeInv /\ GateInv /\ made \in Nat /\ \A v \in Users : UserInv(v)
  BY Zenon DEF MuxInv, TypeInv
<1>2. PICK t \in Tunnels : t = tun[u]
  BY <1>1, Zenon DEF UserInv, Placed, LocalSends, LocalCloses
<1>3. PICK m \in Frames : m[2] = u /\ m[1] = IF LocalSends(u) THEN "Data" ELSE "Close"
  <2>1. \E m \in Frames : m[2] = u /\ m[1] = "Data"
    BY FrameTypes, Zenon
  <2>2. \E m \in Frames : m[2] = u /\ m[1] = "Close"
    BY FrameTypes, Zenon
  <2>. QED
    BY <2>1, <2>2, Zenon
<1>4. /\ (link[t] /\ down' = WriteFrame(down, t, m)) \/ (~link[t] /\ down' = down)
      /\ local[u] = "open"
      /\ UNCHANGED <<up, srv, made, link, user, tun, inbox, got, shut, spoke, broke>>
  <2>1. CASE LocalSends(u)
    <3>1. m = <<"Data", u>>
      BY <1>3, <2>1, FrameIs, Zenon
    <3>. QED
      BY <1>2, <2>1, <3>1, Zenon DEF LocalSends, SendBack, gate, tasks, tables, relay
  <2>2. CASE ~LocalSends(u)
    <3>1. m = <<"Close", u>>
      BY <1>3, <2>2, FrameIs, Zenon
    <3>. QED
      BY <1>2, <2>2, <3>1, Zenon DEF LocalCloses, SendBack, gate, tasks, relay
  <2>. QED
    BY <2>1, <2>2, Zenon
<1>5. /\ (link[t] /\ down'[t] = Append(down[t], m)) \/ (~link[t] /\ down'[t] = down[t])
      /\ \A s \in Tunnels : s # t => down'[s] = down[s]
      /\ \A v : m[2] # v => \A s \in Tunnels : Other(v, down[s], down'[s])
  <2>1. CASE link[t] /\ down' = WriteFrame(down, t, m)
    <3>1. down \in [Tunnels -> Seq(Frames)]
      BY <1>1, Zenon DEF TypeInv
    <3>2. Written(down, t, m, down')
      BY <2>1, <3>1, WriteAt, Zenon
    <3>. QED
      BY <2>1, <3>2, Zenon DEF Written
  <2>2. CASE ~link[t] /\ down' = down
    BY <2>2, Zenon DEF Other
  <2>. QED
    BY <1>4, <2>1, <2>2, Zenon
<1>6. ASSUME NEW v \in Users, v # u PROVE UserInv(v)'
  <2>1. Untouched(v) /\ m[2] # v
    BY <1>1, <1>3, <1>4, <1>6, ZenonT(60) DEF LocalSends, LocalCloses, Untouched, TypeInv
  <2>2. \A s \in Tunnels : Other(v, up[s], up'[s])
    BY <1>4, Zenon DEF Other
  <2>3. \A s \in Tunnels : v \in cli'[s] <=> v \in cli[s]
    <3>1. CASE cli' = cli
      BY <3>1, Zenon
    <3>2. CASE cli' = [cli EXCEPT ![t] = @ \ {u}]
      BY <1>1, <1>6, <3>2, Zenon DEF TypeInv
    <3>. QED
      BY <1>2, <3>1, <3>2, Zenon DEF LocalSends, LocalCloses, tables
  <2>. QED
    BY <1>1, <1>4, <1>5, <2>1, <2>2, <2>3, Aside, Zenon
<1>7. UserInv(u)'
  <2>1. UserInv(u) /\ Begins(u) /\ Rests(u) /\ Opening(u, t) /\ Covered(u, t) /\ Served(u, t)
    BY <1>1, Zenon DEF UserInv
  <2>2. user[u] \notin {"lock", "request", "open"} /\ ~Has(up[t], "Open", u)
    BY <1>4, <2>1, Zenon DEF Begins, Opening
  <2>3. Rests(u)' /\ Opening(u, t)'
    BY <1>4, <2>1, <2>2, Zenon DEF Rests, Opening
  <2>4. got[u] + inbox[u] \in Nat /\ sent[u] \in Nat
    <3>1. got[u] \in Nat /\ inbox[u] \in Nat /\ sent[u] \in Nat
      BY <1>1, Zenon DEF TypeInv
    <3>. QED
      BY <3>1, SumNat, Zenon
  <2>q. PICK q \in Seq(Frames) : q = down[t]
    BY <1>1, QueueTypes, Zenon
  <2>5. made' \in Nat /\ made <= made'
    BY <1>1, <1>4, SelfOrder, Zenon
  <2>6. CASE LocalSends(u)
    <3>1. m[1] = "Data" /\ sent'[u] = sent[u] + 1 /\ UNCHANGED <<cli, local>>
      BY <1>1, <1>3, <2>6, Zenon DEF LocalSends, tables, TypeInv
    <3>2. Covered(u, t)'
      BY <1>4, <2>1, <3>1, Zenon DEF Covered
    <3>3. ASSUME link[t], user[u] = "relay" PROVE Served(u, t)'
      <4>1. /\ ~Has(up[t], "Close", u) /\ u \in cli[t] /\ CloseLast(down[t], u) /\ ~Has(down[t], "Close", u)
            /\ u \in srv[t] /\ Chunks(down[t], u, got[u] + inbox[u], sent[u]) /\ ~shut[u]
        BY <1>2, <1>4, <2>1, <2>2, <3>3, Zenon DEF Served, Ended
      <4>2. CloseLast(down'[t], u) /\ ~Has(down'[t], "Close", u)
        <5>1. CloseLast(Append(q, m), u) /\ ~Has(Append(q, m), "Close", u)
          <6>1. CloseLast(q, u) /\ ~Has(q, "Close", u)
            BY <2>q, <4>1, Zenon
          <6>. QED
            BY <3>1, <6>1, AppendViews, Zenon
        <5>. QED
          BY <1>5, <2>q, <3>3, <5>1, Zenon
      <4>3. Chunks(down'[t], u, got[u] + inbox[u], sent[u] + 1)
        <5>1. Chunks(Append(q, m), u, got[u] + inbox[u], sent[u] + 1)
          BY <1>3, <2>4, <2>q, <3>1, <4>1, ChunksAppend, Zenon
        <5>. QED
          BY <1>5, <2>q, <3>3, <5>1, Zenon
      <4>. QED
        BY <1>4, <3>1, <4>1, <4>2, <4>3, Zenon DEF Served, Ended
    <3>4. Served(u, t)'
      BY <1>4, <3>3, Zenon DEF Served
    <3>. QED
      BY <1>1, <1>2, <1>4, <1>5, <2>1, <2>2, <2>3, <2>5, <3>1, <3>2, <3>4, AtHome, ZenonT(30)
  <2>7. CASE ~LocalSends(u)
    <3>1. /\ m[1] = "Close" /\ local'[u] = "closed" /\ UNCHANGED sent
          /\ u \notin cli'[t] /\ \A s \in Tunnels : s # t => cli'[s] = cli[s]
      <4>1. cli' = [cli EXCEPT ![t] = @ \ {u}] /\ local' = [local EXCEPT ![u] = "closed"] /\ UNCHANGED sent
        BY <1>2, <2>7, Zenon DEF LocalCloses
      <4>2. u \notin cli'[t] /\ \A s \in Tunnels : s # t => cli'[s] = cli[s]
        BY <1>1, <4>1, ZenonT(60) DEF TypeInv
      <4>. QED
        BY <1>1, <1>3, <2>7, <4>1, <4>2, Zenon DEF TypeInv
    <3>2. Covered(u, t)'
      BY <1>4, <2>2, <3>1, Zenon DEF Covered
    <3>3. ASSUME link[t], user[u] = "relay" PROVE Served(u, t)'
      <4>1. /\ ~Has(up[t], "Close", u) /\ CloseLast(down[t], u)
            /\ u \in srv[t] /\ Chunks(down[t], u, got[u] + inbox[u], sent[u]) /\ ~shut[u]
        BY <1>2, <1>4, <2>1, <2>2, <3>3, Zenon DEF Served, Ended
      <4>2. CloseLast(down'[t], u) /\ Has(down'[t], "Close", u)
        <5>1. CloseLast(Append(q, m), u) /\ Has(Append(q, m), "Close", u)
          BY <1>3, <2>q, <3>1, <4>1, AppendViews, Zenon
        <5>. QED
          BY <1>5, <2>q, <3>3, <5>1, Zenon
      <4>3. Chunks(down'[t], u, got[u] + inbox[u], sent[u])
        <5>1. Chunks(Append(q, m), u, got[u] + inbox[u], sent[u])
          BY <1>3, <2>4, <2>q, <3>1, <4>1, ChunksAppend, Zenon
        <5>. QED
          BY <1>5, <2>q, <3>3, <5>1, Zenon
      <4>. QED
        BY <1>4, <3>1, <4>1, <4>2, <4>3, Zenon DEF Served, Ended
    <3>4. Served(u, t)'
      BY <1>4, <3>3, Zenon DEF Served
    <3>. QED
      BY <1>1, <1>2, <1>4, <1>5, <2>1, <2>2, <2>3, <2>5, <3>1, <3>2, <3>4, AtHome, Zenon
  <2>. QED
    BY <2>6, <2>7, Zenon
<1>. QED
  BY <1>6, <1>7, Zenon

\* The readers: a frame of u, which is u's from tun[u].
LEMMA CarriesHead ==
  ASSUME NEW q \in Seq(Frames), q # <<>>
  PROVE  Head(q) \in Frames /\ Head(q)[2] \in Users /\ Carries(q, Head(q)[2]) /\ Has(q, Head(q)[1], Head(q)[2])
<1>1. Head(q) = q[1] /\ q[1] \in Frames /\ 1 \in DOMAIN q
  BY TailFacts, Zenon
<1>. QED
  BY <1>1, Zenon DEF Frames, Carries, Has

LEMMA ServerReadsStep ==
  ASSUME MuxInv, TypeInv', NEW t \in Tunnels, ServerReads(t)
  PROVE  \A v \in Users : UserInv(v)'
<1>1. TypeInv /\ GateInv /\ made \in Nat /\ \A v \in Users : UserInv(v)
  BY Zenon DEF MuxInv, TypeInv
<1>2. PICK q \in Seq(Frames) : q = down[t]
  BY <1>1, QueueTypes, Zenon
<1>3. q # <<>>
  BY <1>2, ZenonT(30) DEF ServerReads
<1>4. PICK u \in Users : u = Head(q)[2]
  BY <1>3, CarriesHead, Zenon
<1>5. PICK m \in Frames : m = <<"Close", u>>
  BY FrameTypes, Zenon
<1>6. /\ down' = ReadFrame(down, t) /\ UNCHANGED <<made, link, cli, user, tun, got, shut, spoke, broke, local, sent>>
      /\ \/ Head(q)[1] = "Close" /\ srv' = [srv EXCEPT ![t] = @ \ {u}] /\ UNCHANGED <<inbox, up>>
         \/ /\ Head(q)[1] = "Data" /\ u \in srv[t] /\ user[u] \in {"relay", "reset"} /\ tun[u] = t
            /\ inbox' = [inbox EXCEPT ![u] = @ + 1] /\ UNCHANGED <<srv, up>>
         \/ /\ Head(q)[1] = "Data" /\ u \in srv[t] /\ ~(user[u] \in {"relay", "reset"} /\ tun[u] = t)
            /\ srv' = [srv EXCEPT ![t] = @ \ {u}] /\ UNCHANGED <<inbox, up>>
         \/ /\ Head(q)[1] = "Data" /\ u \notin srv[t] /\ UNCHANGED <<srv, inbox>>
            /\ up' = WriteFrame(up, t, m) \/ (~writer[t] /\ up' = up)
  BY <1>2, <1>4, <1>5, Zenon DEF ServerReads, SendFrame, gate, tasks, service
<1>7. /\ down'[t] = Tail(q) /\ \A s \in Tunnels : s # t => down'[s] = down[s]
      /\ \A v : v # u => \A s \in Tunnels : Other(v, down[s], down'[s])
  <2>1. down \in [Tunnels -> Seq(Frames)] /\ down[t] # <<>>
    BY <1>1, <1>2, <1>3, Zenon DEF TypeInv
  <2>2. Taken(down, t, down')
    BY <1>6, <2>1, ReadAt, Zenon
  <2>. QED
    BY <1>2, <1>4, <2>2, Zenon DEF Taken
<1>8. /\ \A s \in Tunnels : s # t => up'[s] = up[s]
      /\ \A v : v # u => \A s \in Tunnels : Other(v, up[s], up'[s])
      /\ up'[t] = up[t] \/ up'[t] = Append(up[t], m)
  <2>1. CASE up' = up
    BY <2>1, Zenon DEF Other
  <2>2. CASE up' = WriteFrame(up, t, m)
    <3>1. up \in [Tunnels -> Seq(Frames)]
      BY <1>1, Zenon DEF TypeInv
    <3>2. Written(up, t, m, up')
      BY <2>2, <3>1, WriteAt, Zenon
    <3>. QED
      BY <1>5, <3>2, Zenon DEF Written
  <2>. QED
    BY <1>6, <2>1, <2>2, Zenon
<1>9. ASSUME NEW v \in Users, v # u PROVE UserInv(v)'
  <2>1. Untouched(v)
    BY <1>1, <1>6, <1>9, Zenon DEF Untouched, TypeInv
  <2>2. \A s \in Tunnels : v \in srv'[s] <=> v \in srv[s]
    <3>1. CASE srv' = srv
      BY <3>1, Zenon
    <3>2. CASE srv' = [srv EXCEPT ![t] = @ \ {u}]
      BY <1>1, <1>9, <3>2, Zenon DEF TypeInv
    <3>. QED
      BY <1>6, <3>1, <3>2, Zenon
  <2>. QED
    BY <1>1, <1>6, <1>7, <1>8, <1>9, <2>1, <2>2, Aside, ZenonT(30)
<1>10. UserInv(u)'
  <2>1. UserInv(u) /\ Home(u) /\ Begins(u) /\ Rests(u) /\ Opening(u, t) /\ Covered(u, t) /\ Served(u, t)
    BY <1>1, Zenon DEF UserInv
  <2>2. Carries(q, u) /\ Has(q, Head(q)[1], u)
    BY <1>3, <1>4, CarriesHead, Zenon
  <2>3. t = tun[u] /\ user[u] \notin {"lock", "request", "open"} /\ ~Has(up[t], "Open", u)
    BY <1>2, <2>1, <2>2, ZenonT(30) DEF Home, Begins, Opening
  <2>4. Rests(u)'
    BY <1>1, <1>6, <2>1, Zenon DEF Rests, TypeInv
  <2>5. /\ OpenFirst(up'[t], u) /\ ~Has(up'[t], "Open", u)
        /\ Has(up[t], "Close", u) => Has(up'[t], "Close", u)
    <3>1. CASE up'[t] = up[t]
      BY <2>1, <2>3, <3>1, Zenon DEF Opening
    <3>2. CASE up'[t] = Append(up[t], m)
      <4>1. PICK r \in Seq(Frames) : r = up[t]
        BY <1>1, QueueTypes, Zenon
      <4>2. m[1] = "Close"
        BY <1>5, Zenon
      <4>3. /\ OpenFirst(Append(r, m), u) /\ ~Has(Append(r, m), "Open", u)
            /\ Has(r, "Close", u) => Has(Append(r, m), "Close", u)
        BY <2>1, <2>3, <4>1, <4>2, AppendViews, ZenonT(60) DEF Opening
      <4>. QED
        BY <3>2, <4>1, <4>3, Zenon
    <3>. QED
      BY <1>8, <3>1, <3>2, Zenon
  <2>6. Opening(u, t)' /\ Covered(u, t)'
    BY <1>6, <2>1, <2>3, <2>5, Zenon DEF Opening, Covered
  <2>7. ASSUME link[t], user[u] = "relay" PROVE Served(u, t)'
    <3>1. /\ ~Has(up[t], "Close", u) /\ (u \in cli[t] \/ Ended(u))
          /\ CloseLast(q, u) /\ (Has(q, "Close", u) => Ended(u))
          /\ u \notin srv[t] => Ended(u) /\ ~Has(q, "Data", u)
          /\ local[u] = "closed" /\ u \in srv[t] => Has(q, "Close", u)
          /\ Chunks(q, u, got[u] + inbox[u], sent[u])
          /\ shut[u] => inbox[u] = 0 /\ u \notin srv[t]
      BY <1>2, <2>1, <2>3, <2>7, Zenon DEF Served
    <3>2. CloseLast(Tail(q), u) /\ (Has(Tail(q), "Close", u) => Has(q, "Close", u))
      BY <1>3, <3>1, TailViews, TailFacts, LessTail, LessViews, Zenon
    <3>3. got[u] \in Nat /\ inbox[u] \in Nat /\ sent[u] \in Nat
      BY <1>1, Zenon DEF TypeInv
    <3>4. PICK a \in Nat : a = got[u] + inbox[u]
      BY <3>3, SumNat, Zenon
    <3>5. CASE Head(q)[1] = "Close"
      <4>1. srv' = [srv EXCEPT ![t] = @ \ {u}] /\ UNCHANGED <<inbox, up>>
        BY <1>6, <3>5, Zenon
      <4>2. u \notin srv'[t]
        BY <1>1, <4>1, Zenon DEF TypeInv
      <4>3. Ended(u) /\ ~Has(Tail(q), "Data", u)
        <5>1. Ended(u)
          BY <2>2, <3>1, <3>5, Zenon
        <5>2. ~Has(Tail(q), "Data", u)
          BY <1>3, <1>4, <3>1, <3>5, CloseTaken, Zenon
        <5>. QED
          BY <5>1, <5>2, Zenon
      <4>4. Chunks(Tail(q), u, a, sent[u])
        BY <1>3, <3>1, <3>3, <3>4, <3>5, ChunksTail, Zenon
      <4>. QED
        BY <1>6, <1>7, <2>3, <3>1, <3>2, <3>4, <4>1, <4>2, <4>3, <4>4, Zenon DEF Served, Ended
    <3>6. CASE Head(q)[1] = "Data"
      <4>1. u \in srv[t] /\ ~shut[u]
        BY <2>2, <3>1, <3>6, Zenon
      <4>2. inbox' = [inbox EXCEPT ![u] = @ + 1] /\ UNCHANGED <<srv, up>>
        BY <1>6, <2>3, <2>7, <3>6, <4>1, Zenon
      <4>3. inbox'[u] = inbox[u] + 1 /\ got[u] + inbox'[u] = a + 1
        <5>1. inbox'[u] = inbox[u] + 1
          BY <1>1, <4>2, Zenon DEF TypeInv
        <5>. QED
          BY <3>3, <3>4, <5>1, SumNext, ZenonT(60)
      <4>4. Chunks(Tail(q), u, a + 1, sent[u])
        BY <1>3, <1>4, <3>1, <3>3, <3>4, <3>6, ChunksTail, Zenon
      <4>5. Has(q, "Close", u) => Has(Tail(q), "Close", u)
        BY <1>3, <3>6, TailViews, Zenon
      <4>. QED
        BY <1>6, <1>7, <2>3, <3>1, <3>2, <4>1, <4>2, <4>3, <4>4, <4>5, Zenon DEF Served, Ended
    <3>. QED
      BY <1>6, <3>5, <3>6, Zenon
  <2>8. Served(u, t)'
    BY <1>6, <2>7, Zenon DEF Served
  <2>9. made' \in Nat /\ made <= made'
    BY <1>1, <1>6, SelfOrder, Zenon
  <2>. QED
    BY <1>1, <1>6, <1>7, <1>8, <2>1, <2>3, <2>4, <2>6, <2>8, <2>9, AtHome, Zenon
<1>. QED
  BY <1>9, <1>10, Zenon

LEMMA ClientReadsStep ==
  ASSUME MuxInv, TypeInv', NEW t \in Tunnels, ClientReads(t)
  PROVE  \A v \in Users : UserInv(v)'
<1>1. TypeInv /\ GateInv /\ made \in Nat /\ \A v \in Users : UserInv(v)
  BY Zenon DEF MuxInv, TypeInv
<1>2. PICK q \in Seq(Frames) : q = up[t]
  BY <1>1, QueueTypes, Zenon
<1>3. q # <<>> /\ link[t]
  BY <1>2, Zenon DEF ClientReads
<1>4. PICK u \in Users : u = Head(q)[2]
  BY <1>3, CarriesHead, Zenon
<1>5. PICK m \in Frames : m = <<"Close", u>>
  BY FrameTypes, Zenon
<1>6. /\ up' = ReadFrame(up, t) /\ UNCHANGED <<made, link, srv, user, tun, inbox, got, shut, spoke, broke, sent>>
      /\ \/ /\ Head(q)[1] = "Open" /\ cli' = [cli EXCEPT ![t] = @ \cup {u}]
            /\ local' \in {[local EXCEPT ![u] = r] : r \in {"open", "failed"}} /\ UNCHANGED down
         \/ /\ Head(q)[1] = "Data" /\ u \in cli[t]
            /\ cli' = IF local[u] = "failed" THEN [cli EXCEPT ![t] = @ \ {u}] ELSE cli
            /\ local' = IF local[u] = "reset" THEN [local EXCEPT ![u] = "failed"] ELSE local
            /\ UNCHANGED down
         \/ /\ Head(q)[1] = "Data" /\ u \notin cli[t] /\ down' = WriteFrame(down, t, m)
            /\ UNCHANGED <<cli, local>>
         \/ Head(q)[1] = "Close" /\ cli' = [cli EXCEPT ![t] = @ \ {u}] /\ UNCHANGED <<down, local>>
  BY <1>2, <1>3, <1>4, <1>5, Zenon DEF ClientReads, SendBack, gate, tasks, relay
<1>7. /\ up'[t] = Tail(q) /\ \A s \in Tunnels : s # t => up'[s] = up[s]
      /\ \A v : v # u => \A s \in Tunnels : Other(v, up[s], up'[s])
  <2>1. up \in [Tunnels -> Seq(Frames)] /\ up[t] # <<>>
    BY <1>1, <1>2, <1>3, Zenon DEF TypeInv
  <2>2. Taken(up, t, up')
    BY <1>6, <2>1, ReadAt, Zenon
  <2>. QED
    BY <1>2, <1>4, <2>2, Zenon DEF Taken
<1>8. /\ \A s \in Tunnels : s # t => down'[s] = down[s]
      /\ \A v : v # u => \A s \in Tunnels : Other(v, down[s], down'[s])
      /\ down' = WriteFrame(down, t, m) => down'[t] = Append(down[t], m)
  <2>1. CASE down' = WriteFrame(down, t, m)
    <3>1. down \in [Tunnels -> Seq(Frames)]
      BY <1>1, Zenon DEF TypeInv
    <3>2. Written(down, t, m, down')
      BY <2>1, <3>1, WriteAt, Zenon
    <3>. QED
      BY <1>5, <3>2, Zenon DEF Written
  <2>2. CASE down' = down /\ down' # WriteFrame(down, t, m)
    BY <2>2, Zenon DEF Other
  <2>. QED
    BY <1>6, <2>1, <2>2, Zenon
<1>c. \A s \in Tunnels : s # t => cli'[s] = cli[s]
  BY <1>1, <1>6, ZenonT(30) DEF TypeInv
<1>9. ASSUME NEW v \in Users, v # u PROVE UserInv(v)'
  <2>1. local'[v] = local[v]
    BY <1>1, <1>6, <1>9, ZenonT(60) DEF TypeInv
  <2>2. Untouched(v)
    BY <1>6, <2>1, Zenon DEF Untouched
  <2>3. v \in cli'[t] <=> v \in cli[t]
    <3>1. CASE cli' = cli
      BY <3>1, Zenon
    <3>2. CASE cli' = [cli EXCEPT ![t] = @ \ {u}]
      BY <1>1, <1>9, <3>2, Zenon DEF TypeInv
    <3>3. CASE cli' = [cli EXCEPT ![t] = @ \cup {u}]
      BY <1>1, <1>9, <3>3, Zenon DEF TypeInv
    <3>. QED
      BY <1>6, <3>1, <3>2, <3>3, Zenon
  <2>4. \A s \in Tunnels : v \in cli'[s] <=> v \in cli[s]
    BY <1>c, <2>3, Zenon
  <2>. QED
    BY <1>1, <1>6, <1>7, <1>8, <1>9, <2>2, <2>4, Aside, Zenon
<1>10. UserInv(u)'
  <2>1. UserInv(u) /\ Home(u) /\ Begins(u) /\ Rests(u) /\ Opening(u, t) /\ Covered(u, t) /\ Served(u, t)
    BY <1>1, Zenon DEF UserInv
  <2>2. Carries(q, u) /\ Has(q, Head(q)[1], u)
    BY <1>3, <1>4, CarriesHead, ZenonT(30)
  <2>3. t = tun[u] /\ user[u] \notin {"lock", "request", "open"} /\ Rests(u)'
    BY <1>2, <1>6, <2>1, <2>2, Zenon DEF Home, Begins, Rests
  <2>4. /\ OpenFirst(Tail(q), u) /\ ~Has(Tail(q), "Open", u)
        /\ Has(Tail(q), "Close", u) => Has(q, "Close", u)
    <3>1. OpenFirst(q, u)
      BY <1>2, <2>1, Zenon DEF Opening
    <3>2. Tail(q) \in Seq(Frames) /\ Less(u, q, Tail(q))
      BY <1>3, TailFacts, LessTail, ZenonT(30)
    <3>3. ~Has(Tail(q), "Open", u)
      BY <1>3, <1>4, <3>1, TailViews, ZenonT(60)
    <3>4. PICK r \in Seq(Frames) : r = Tail(q)
      BY <3>2, Zenon
    <3>5. OpenFirst(r, u) /\ (Has(r, "Close", u) => Has(q, "Close", u))
      BY <3>1, <3>2, <3>4, LessViews, Zenon
    <3>. QED
      BY <3>3, <3>4, <3>5, Zenon
  <2>5. \A k : Has(q, k, u) /\ Head(q)[1] # k => Has(Tail(q), k, u)
    BY <1>3, TailViews, Zenon
  <2>6. Opening(u, t)'
    BY <1>7, <2>4, Zenon DEF Opening
  <2>7. Covered(u, t)'
    <3>1. CASE Head(q)[1] = "Close"
      <4>1. u \notin cli'[t]
        <5>1. cli' = [cli EXCEPT ![t] = @ \ {u}]
          BY <1>6, <3>1, Zenon
        <5>2. cli'[t] = cli[t] \ {u}
          BY <1>1, <5>1, Zenon DEF TypeInv
        <5>. QED
          BY <5>2, Zenon
      <4>. QED
        BY <1>7, <2>4, <4>1, Zenon DEF Covered
    <3>2. CASE Head(q)[1] # "Close"
      <4>1. u \in cli'[t] => u \in cli[t] \/ Has(q, "Open", u)
        BY <1>1, <1>6, <2>2, <3>2, Zenon DEF TypeInv
      <4>. QED
        BY <1>2, <1>6, <1>7, <2>1, <2>4, <2>5, <3>2, <4>1, Zenon DEF Covered
    <3>. QED
      BY <3>1, <3>2, Zenon
  <2>8. ASSUME user[u] = "relay" PROVE Served(u, t)'
    <3>1. /\ ~Has(q, "Close", u) /\ (u \in cli[t] \/ Has(q, "Open", u) \/ Ended(u))
          /\ CloseLast(down[t], u) /\ (Has(down[t], "Close", u) => Ended(u))
          /\ u \notin srv[t] => Ended(u) /\ ~Has(down[t], "Data", u)
          /\ local[u] = "closed" /\ u \in srv[t] => Has(down[t], "Close", u)
          /\ Chunks(down[t], u, got[u] + inbox[u], sent[u])
          /\ shut[u] => inbox[u] = 0 /\ u \notin srv[t]
      BY <1>2, <1>3, <2>1, <2>3, <2>8, Zenon DEF Served
    <3>2. ~Has(Tail(q), "Close", u)
      BY <2>4, <3>1, Zenon
    <3>3. CASE Head(q)[1] = "Open"
      <4>1. local[u] = "none" /\ ~Carries(down[t], u)
        BY <1>2, <2>1, <2>2, <3>3, Zenon DEF Opening
      <4>2. u \in srv[t] /\ ~Has(down[t], "Close", u)
        BY <3>1, <4>1, NotCarried, Zenon DEF Ended
      <4>3. u \in cli'[t] /\ UNCHANGED down /\ local'[u] \in {"open", "failed"}
        <5>1. /\ cli' = [cli EXCEPT ![t] = @ \cup {u}] /\ UNCHANGED down
              /\ local' = [local EXCEPT ![u] = "open"] \/ local' = [local EXCEPT ![u] = "failed"]
          BY <1>6, <3>3, Zenon
        <5>2. cli'[t] = cli[t] \cup {u} /\ (local'[u] = "open" \/ local'[u] = "failed")
          BY <1>1, <5>1, ZenonT(60) DEF TypeInv
        <5>. QED
          BY <5>1, <5>2, Zenon
      <4>. QED
        BY <1>6, <1>7, <3>1, <3>2, <4>2, <4>3, Zenon DEF Served, Ended
    <3>4. CASE Head(q)[1] = "Data" /\ u \in cli[t]
      <4>1. UNCHANGED down /\ (local'[u] = local[u] \/ (local[u] = "reset" /\ local'[u] = "failed"))
        BY <1>1, <1>6, <3>4, ZenonT(60) DEF TypeInv
      <4>2. u \in cli'[t] \/ local'[u] = "failed"
        <5>1. CASE local[u] = "failed"
          BY <4>1, <5>1, Zenon
        <5>2. CASE local[u] # "failed"
          BY <1>6, <3>4, <5>2, Zenon
        <5>. QED
          BY <5>1, <5>2, Zenon
      <4>. QED
        BY <1>6, <1>7, <3>1, <3>2, <4>1, <4>2, Zenon DEF Served, Ended
    <3>5. CASE Head(q)[1] = "Data" /\ u \notin cli[t]
      <4>1. ~Has(q, "Open", u)
        BY <2>4, <2>5, <3>5, Zenon
      <4>2. Ended(u) /\ down' = WriteFrame(down, t, m) /\ UNCHANGED <<cli, local>>
        BY <1>6, <3>1, <3>5, <4>1, Zenon
      <4>3. PICK r \in Seq(Frames) : r = down[t]
        BY <1>1, QueueTypes, Zenon
      <4>4. down'[t] = Append(r, m)
        BY <1>8, <4>2, <4>3, Zenon
      <4>5. m[1] = "Close" /\ m[2] = u
        BY <1>5, Zenon
      <4>6. got[u] \in Nat /\ inbox[u] \in Nat /\ sent[u] \in Nat
        BY <1>1, Zenon DEF TypeInv
      <4>7. PICK a \in Nat : a = got[u] + inbox[u]
        BY <4>6, SumNat, Zenon
      <4>8. /\ CloseLast(Append(r, m), u) /\ Has(Append(r, m), "Close", u)
            /\ Has(Append(r, m), "Data", u) => Has(r, "Data", u)
        <5>1. CloseLast(r, u)
          BY <3>1, <4>3, Zenon
        <5>. QED
          BY <4>5, <5>1, CloseSent, Zenon
      <4>9. Chunks(Append(r, m), u, a, sent[u])
        BY <3>1, <4>3, <4>5, <4>6, <4>7, ChunksAppend, Zenon
      <4>. QED
        BY <1>6, <1>7, <3>1, <3>2, <4>2, <4>3, <4>4, <4>7, <4>8, <4>9, Zenon DEF Served, Ended
    <3>6. Head(q)[1] # "Close"
      BY <2>2, <3>1, Zenon
    <3>. QED
      BY <1>6, <3>3, <3>4, <3>5, <3>6, Zenon
  <2>9. Served(u, t)'
    BY <1>6, <2>8, Zenon DEF Served
  <2>10. made' \in Nat /\ made <= made'
    BY <1>1, <1>6, SelfOrder, Zenon
  <2>. QED
    BY <1>1, <1>6, <1>7, <1>8, <1>c, <2>1, <2>3, <2>6, <2>7, <2>9, <2>10, AtHome, Zenon
<1>. QED
  BY <1>9, <1>10, Zenon

\* The tasks of a tunnel whose connection does not work, or breaks.
LEMMA TaskSteps ==
  ASSUME MuxInv, TypeInv', NEW t \in Tunnels,
         ReaderExits(t) \/ WriterLoses(t) \/ WriterExits(t) \/ Break(t) \/ ClientExits(t)
  PROVE  \A v \in Users : UserInv(v)'
<1>1. TypeInv /\ made \in Nat /\ \A v \in Users : UserInv(v)
  BY Zenon DEF MuxInv, TypeInv
<1>2. /\ UNCHANGED <<made, user, tun, inbox, got, shut, spoke, broke, local, sent>>
      /\ up' = up \/ up' = [up EXCEPT ![t] = <<>>] \/ (up[t] # <<>> /\ up' = [up EXCEPT ![t] = Tail(@)])
      /\ down' = down \/ down' = [down EXCEPT ![t] = <<>>]
      /\ srv' = srv \/ srv' = [srv EXCEPT ![t] = {}]
      /\ cli' = cli \/ cli' = [cli EXCEPT ![t] = {}]
      /\ ~link'[t] /\ (link' = link \/ link' = [link EXCEPT ![t] = FALSE])
  BY <1>1, Zenon DEF ReaderExits, WriterLoses, WriterExits, Break, ClientExits, gate, tasks, frames, tables, relay, service, TypeInv
<1>3. \A s \in Tunnels : s # t => /\ up'[s] = up[s] /\ down'[s] = down[s] /\ srv'[s] = srv[s]
                                  /\ cli'[s] = cli[s] /\ link'[s] = link[s]
  BY <1>1, <1>2, ZenonT(60) DEF TypeInv
<1>4. up'[t] = up[t] \/ up'[t] = <<>> \/ (up[t] # <<>> /\ up'[t] = Tail(up[t]))
  BY <1>1, <1>2, ZenonT(30) DEF TypeInv
<1>5. (down'[t] = down[t] \/ down'[t] = <<>>) /\ cli'[t] \subseteq cli[t]
  BY <1>1, <1>2, Zenon DEF TypeInv
<1>6. ASSUME NEW v \in Users, NEW s \in Tunnels PROVE Keeps(v, s)
  <2>1. CASE s = t
    <3>1. PICK q \in Seq(Frames) : q = up[t]
      BY <1>1, QueueTypes, Zenon
    <3>2. PICK r \in Seq(Frames) : r = down[t]
      BY <1>1, QueueTypes, Zenon
    <3>3. Less(v, q, up'[t])
      BY <1>4, <3>1, SameSelf, SameLess, LessNone, LessTail, Zenon
    <3>4. Less(v, r, down'[t])
      BY <1>5, <3>2, SameSelf, SameLess, LessNone, Zenon
    <3>. QED
      BY <1>2, <1>5, <2>1, <3>1, <3>2, <3>3, <3>4, Zenon DEF Keeps
  <2>2. CASE s # t
    <3>1. Same(v, up[s], up[s]) /\ Same(v, down[s], down[s])
      BY <1>1, QueueTypes, SameSelf, Zenon
    <3>. QED
      BY <1>3, <2>2, <3>1, KeepsSame, Zenon
  <2>. QED
    BY <2>1, <2>2, ZenonT(30)
<1>7. ASSUME NEW v \in Users PROVE UserInv(v)'
  <2>1. Untouched(v) /\ made <= made'
    BY <1>1, <1>2, SelfOrder, Zenon DEF Untouched
  <2>. QED
    BY <1>1, <1>6, <2>1, Apart, Zenon
<1>. QED
  BY <1>7, Zenon

-----------------------------------------------------------------------------
(***************************************************************************)
(* The invariant holds always, and what follows from it.                   *)
(***************************************************************************)

LEMMA MuxStart == Init => MuxInv
<1>. SUFFICES ASSUME Init PROVE MuxInv
  BY Zenon
<1>1. <<>> \in Seq(Frames) /\ DOMAIN <<>> = {}
  OBVIOUS
<1>2. /\ up = [t \in Tunnels |-> <<>>] /\ down = [t \in Tunnels |-> <<>>]
      /\ srv = [t \in Tunnels |-> {}] /\ cli = [t \in Tunnels |-> {}]
      /\ link = [t \in Tunnels |-> FALSE] /\ client = [t \in Tunnels |-> FALSE]
      /\ writer = [t \in Tunnels |-> FALSE] /\ reader = [t \in Tunnels |-> FALSE]
      /\ tun = [u \in Users |-> 0] /\ inbox = [u \in Users |-> 0] /\ got = [u \in Users |-> 0]
      /\ sent = [u \in Users |-> 0] /\ shut = [u \in Users |-> FALSE] /\ spoke = [u \in Users |-> FALSE]
      /\ user = [u \in Users |-> "away"] /\ local = [u \in Users |-> "none"]
      /\ lock = None /\ holder = 0 /\ made = 0 /\ broke = {}
  BY Zenon DEF Init
<1>3. up \in [Tunnels -> Seq(Frames)] /\ down \in [Tunnels -> Seq(Frames)]
  BY <1>1, <1>2, Zenon
<1>4. TypeInv
  BY <1>2, <1>3, Zenon DEF TypeInv
<1>5. GateInv
  BY <1>2, NoneAssumption, TunnelsAssumption DEF GateInv
<1>6. ASSUME NEW u \in Users PROVE UserInv(u)
  <2>1. ASSUME NEW t \in Tunnels
        PROVE  ~Carries(up[t], u) /\ ~Carries(down[t], u) /\ u \notin cli[t]
    BY <1>1, <1>2, Zenon DEF Carries
  <2>2. Home(u) /\ Begins(u) /\ Rests(u) /\ Placed(u)
    BY <1>2, <2>1 DEF Home, Begins, Rests, Placed
  <2>3. ASSUME NEW t \in Tunnels PROVE Opening(u, t) /\ Covered(u, t) /\ Served(u, t)
    <3>1. OpenFirst(up[t], u) /\ ~Has(up[t], "Open", u) /\ ~link[t]
      BY <1>2, <2>1, NotCarried, Zenon
    <3>. QED
      BY <3>1, Zenon DEF Opening, Covered, Served
  <2>. QED
    BY <2>2, <2>3, Zenon DEF UserInv
<1>. QED
  BY <1>4, <1>5, <1>6, Zenon DEF MuxInv

LEMMA MuxStep == MuxInv /\ [Next]_vars => MuxInv'
<1>. SUFFICES ASSUME MuxInv, [Next]_vars PROVE MuxInv'
  BY Zenon
<1>1. TypeInv /\ GateInv /\ \A u \in Users : UserInv(u)
  BY Zenon DEF MuxInv
<1>2. TypeInv'
  BY <1>1, TypeStep, Zenon
<1>3. GateInv'
  BY <1>1, GateStep, Zenon
<1>4. \A v \in Users : UserInv(v)'
  <2>1. CASE UNCHANGED vars \/ BeginClose \/ TakeTunnel
    <3>1. UNCHANGED <<up, down, srv, cli, made, link, user, tun, inbox, got, shut, broke, local, sent>>
      BY <2>1, Zenon DEF vars, gate, tasks, frames, tables, relay, service, BeginClose, TakeTunnel
    <3>2. made <= made'
      BY <1>1, <3>1, SelfOrder, Zenon DEF TypeInv
    <3>3. ASSUME NEW v \in Users PROVE UserInv(v)'
      <4>1. Untouched(v)
        BY <3>1, Zenon DEF Untouched
      <4>. QED
        BY <1>1, <1>2, <3>1, <3>2, <4>1, Bystander, Zenon
    <3>. QED
      BY <3>3, Zenon
  <2>2. ASSUME NEW t \in Tunnels,
               \/ ServerReads(t) \/ ReaderExits(t) \/ WriterLoses(t) \/ WriterExits(t)
               \/ Break(t) \/ ClientReads(t) \/ ClientExits(t)
        PROVE  \A v \in Users : UserInv(v)'
    BY <1>2, <2>2, ServerReadsStep, ClientReadsStep, TaskSteps, Zenon
  <2>3. ASSUME NEW u \in Users,
               \/ Arrive(u) \/ UseTunnel(u) \/ StartRequest(u) \/ NewTunnel(u) \/ RequestFails(u)
               \/ OpenStream(u) \/ UserSends(u) \/ SendFails(u) \/ UserCloses(u)
               \/ UserReads(u) \/ ShutUser(u)
               \/ UserResets(u) \/ WriteFails(u) \/ LocalResets(u)
               \/ LocalSends(u) \/ LocalCloses(u)
        PROVE  \A v \in Users : UserInv(v)'
    BY <1>2, <2>3, GateUserSteps, OpenStreamStep, UserSendsStep, UserClosesStep, RelaySteps, LocalSteps, Zenon
  <2>. QED
    BY <2>1, <2>2, <2>3, Zenon DEF Next
<1>. QED
  BY <1>2, <1>3, <1>4, Zenon DEF MuxInv

LEMMA MuxAlways == Spec => []MuxInv
  BY MuxStart, MuxStep, PTL DEF Spec

INSTANCE FiniteSetTheorems

(* OneTunnel: get_or_create_mux_tunnel, which makes a tunnel with the mutex*)
(* held and keeps it in the holder, never leaves a proxy with two working  *)
(* connections, for any number of users and tunnels.                       *)
THEOREM OneTunnelSafe == Spec => []OneTunnel
<1>1. MuxInv => OneTunnel
  <2>. SUFFICES ASSUME MuxInv, proxy # "closed" PROVE Cardinality({t \in Tunnels : link[t]}) <= 1
    BY Zenon DEF OneTunnel
  <2>1. {t \in Tunnels : link[t]} \subseteq {holder}
    BY Zenon DEF MuxInv, GateInv
  <2>2. IsFiniteSet({holder}) /\ Cardinality({holder}) = 1
    BY FS_Singleton, Zenon
  <2>. QED
    BY <2>1, <2>2, FS_Subset, Zenon
<1>. QED
  BY <1>1, MuxAlways, PTL

(* DownloadComplete: the user whose writing half relay_mux_stream has ended*)
(* got every chunk handle_local_stream sent, however many there were.      *)
THEOREM DownloadSafe == Spec => []DownloadComplete
<1>1. MuxInv => DownloadComplete
  <2>. SUFFICES ASSUME MuxInv, NEW u \in Users, user[u] = "relay", shut[u], link[tun[u]]
                PROVE  got[u] = sent[u]
    BY Zenon DEF DownloadComplete
  <2>1. TypeInv /\ UserInv(u)
    BY Zenon DEF MuxInv
  <2>2. PICK t \in Tunnels : t = tun[u]
    BY <2>1, Zenon DEF UserInv, Placed
  <2>3. inbox[u] = 0 /\ ~Has(down[t], "Data", u) /\ Chunks(down[t], u, got[u] + inbox[u], sent[u])
    BY <2>1, <2>2, Zenon DEF UserInv, Served
  <2>4. got[u] \in Nat /\ sent[u] \in Nat /\ got[u] + inbox[u] = got[u]
    BY <2>1, <2>3, Zero, Zenon DEF TypeInv
  <2>5. PICK q : q = down[t]
    BY Zenon
  <2>6. Chunks(q, u, got[u], sent[u]) /\ ~Has(q, "Data", u)
    BY <2>3, <2>4, <2>5, Zenon
  <2>. QED
    BY <2>4, <2>6, ChunksNone, Zenon
<1>. QED
  BY <1>1, MuxAlways, PTL

(* StreamsCovered: an entry in the stream table of handle_mux_work_conn    *)
(* whose user closed has its Close frame on the way, because               *)
(* relay_mux_stream sends it and the server's reader answers data for a    *)
(* stream it does not know.                                                *)
THEOREM StreamsSafe == Spec => []StreamsCovered
<1>1. MuxInv => StreamsCovered
  <2>. SUFFICES ASSUME MuxInv, NEW t \in Tunnels, NEW u \in cli[t] \ broke,
                       link[t], ~(user[u] = "relay" /\ tun[u] = t)
                PROVE  \E i \in DOMAIN up[t] : up[t][i] = <<"Close", u>>
    BY Zenon DEF StreamsCovered
  <2>1. TypeInv /\ u \in Users
    BY Zenon DEF MuxInv, TypeInv
  <2>2. UserInv(u)
    BY <2>1, Zenon DEF MuxInv
  <2>3. user[u] # "relay"
    BY <2>2, Zenon DEF UserInv, Home
  <2>4. Has(up[t], "Close", u)
    BY <2>2, <2>3, Zenon DEF UserInv, Covered
  <2>5. PICK i \in DOMAIN up[t] : up[t][i][1] = "Close" /\ up[t][i][2] = u
    BY <2>4, Zenon DEF Has
  <2>6. up[t][i] \in Frames
    <3>1. PICK q \in Seq(Frames) : q = up[t]
      BY <2>1, QueueTypes, Zenon
    <3>. QED
      BY <2>5, <3>1, FrameAt, Zenon
  <2>. QED
    BY <2>5, <2>6, FrameIs, Zenon
<1>. QED
  BY <1>1, MuxAlways, PTL

(* UserIsTold: when handle_local_stream has ended a stream that the        *)
(* server's table still has, its Close frame is under way, behind all the  *)
(* data.                                                                   *)
THEOREM ToldSafe == Spec => []UserIsTold
<1>1. MuxInv => UserIsTold
  <2>. SUFFICES ASSUME MuxInv, NEW u \in Users, user[u] = "relay", link[tun[u]], local[u] = "closed",
                       u \in srv[tun[u]]
                PROVE  \E i \in DOMAIN down[tun[u]] :
                           /\ down[tun[u]][i] = <<"Close", u>>
                           /\ \A j \in DOMAIN down[tun[u]] : down[tun[u]][j] = <<"Data", u>> => j < i
    BY Zenon DEF UserIsTold
  <2>1. TypeInv /\ UserInv(u)
    BY Zenon DEF MuxInv
  <2>2. PICK t \in Tunnels : t = tun[u]
    BY <2>1, Zenon DEF UserInv, Placed
  <2>3. PICK q \in Seq(Frames) : q = down[t]
    BY <2>1, QueueTypes, Zenon
  <2>4. Has(q, "Close", u) /\ CloseLast(q, u)
    BY <2>1, <2>2, <2>3, Zenon DEF UserInv, Served
  <2>5. PICK i \in DOMAIN q : q[i][1] = "Close" /\ q[i][2] = u
    BY <2>4, Zenon DEF Has
  <2>6. q[i] = <<"Close", u>>
    BY <2>5, FrameAt, FrameIs, Zenon
  <2>7. \A j \in DOMAIN q : q[j] = <<"Data", u>> => j < i
    BY <2>4, <2>5, BeforeClose, Zenon
  <2>. QED
    BY <2>2, <2>3, <2>6, <2>7, Zenon
<1>. QED
  BY <1>1, MuxAlways, PTL

=============================================================================
