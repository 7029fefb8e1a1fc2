------------------------ MODULE WebConnectionProofs ------------------------
(***************************************************************************)
(* Proofs about responses, for any lengths of head and content, any room   *)
(* in the send buffer, and acknowledgements of any sizes.                  *)
(*                                                                         *)
(* The invariant says which part of the response is on the wire, for each  *)
(* kind of response in the terms of its object.  For chunks it names the   *)
(* places where the content was cut (Framing); that a peer reads the       *)
(* content from them whole is shown backwards from the last chunk, as      *)
(* Unchunked is defined.                                                   *)
(***************************************************************************)
EXTENDS WebConnection, WellFoundedInduction, TLAPS

Bytes == {"head", "content", "size", "CR", "LF"} \X Nat

-----------------------------------------------------------------------------
(* Numbers and sequences                                                    *)

\* A set of numbers has a least one.
LEMMA Least ==
    ASSUME NEW T \in SUBSET Nat, T # {}
    PROVE  \E x \in T : \A y \in T : x <= y
  <1>1. PICK x \in T : \A y \in T : <<y, x>> \notin OpToRel(<, Nat)
    BY NatLessThanWellFounded, WFMin, Zenon
  <1>2. \A y \in T : ~(y < x)
    BY <1>1 DEF OpToRel
  <1> QED  BY <1>2

\* Two sequences are the same if they agree everywhere.
LEMMA Same ==
    ASSUME NEW a \in Seq(Bytes), NEW b \in Seq(Bytes), Len(a) = Len(b),
           \A i \in 1 .. Len(a) : a[i] = b[i]
    PROVE  a = b
  OBVIOUS

\* Two sequences joined: the length, and where each byte of them is.
LEMMA Joined ==
    ASSUME NEW a \in Seq(Bytes), NEW b \in Seq(Bytes)
    PROVE  /\ a \o b \in Seq(Bytes) /\ Len(a \o b) = Len(a) + Len(b)
           /\ \A i \in 1 .. Len(a) : (a \o b)[i] = a[i]
           /\ \A i \in 1 .. Len(b) : (a \o b)[Len(a) + i] = b[i]
           /\ a \o <<>> = a /\ <<>> \o a = a
  OBVIOUS

\* A part of a sequence, from its m-th byte on.
LEMMA Middle ==
    ASSUME NEW a \in Seq(Bytes), NEW m \in Nat \ {0}, NEW n \in Nat, n <= Len(a), m <= n + 1
    PROVE  /\ SubSeq(a, m, n) \in Seq(Bytes) /\ Len(SubSeq(a, m, n)) = n + 1 - m
           /\ \A i \in 1 .. n + 1 - m : SubSeq(a, m, n)[i] = a[m + i - 1]
  OBVIOUS

\* A part of a sequence: its length, and where each byte of it comes from.
LEMMA Behind ==
    ASSUME NEW a \in Seq(Bytes), NEW m \in Nat, NEW k \in Nat, NEW part,
           m + k <= Len(a), part = SubSeq(a, m + 1, m + k)
    PROVE  /\ part \in Seq(Bytes) /\ Len(part) = k
           /\ \A i \in 1 .. k : part[i] = a[m + i]
  OBVIOUS

\* Joining is associative.
LEMMA Regrouped ==
    ASSUME NEW a \in Seq(Bytes), NEW b \in Seq(Bytes), NEW d \in Seq(Bytes)
    PROVE  (a \o b) \o d = a \o (b \o d)
  OBVIOUS

-----------------------------------------------------------------------------
(* Heads, contents and chunks                                               *)

\* The bytes of a head, of a content and of a chunk.
LEMMA HeadIs ==
    ASSUME NEW n \in Nat
    PROVE  HeadBytes(n) \in Seq(Bytes) /\ Len(HeadBytes(n)) = n
  <1>1. \A i \in 1 .. n : <<"head", i>> \in Bytes
    BY DEF Bytes
  <1> QED  BY <1>1 DEF HeadBytes

LEMMA ContentIs ==
    ASSUME NEW n \in Nat
    PROVE  Content(n) \in Seq(Bytes) /\ Len(Content(n)) = n
  <1>1. \A i \in 1 .. n : <<"content", i>> \in Bytes
    BY DEF Bytes
  <1> QED  BY <1>1 DEF Content

LEMMA ChunkIs ==
    ASSUME NEW d \in Seq(Bytes)
    PROVE  /\ Chunk(d) \in Seq(Bytes) /\ Len(Chunk(d)) = Len(d) + 8
           /\ Chunk(d)[1] = <<"size", Len(d)>>
           /\ SubSeq(Chunk(d), 7, Len(d) + 6) = d
  <1>1. PICK size, x, y, z, cr, lf, end1, end2 :
          /\ size = <<"size", Len(d)>> /\ x = <<"size", 2>> /\ y = <<"size", 3>> /\ z = <<"size", 4>>
          /\ cr = <<"CR", 1>> /\ lf = <<"LF", 1>> /\ end1 = <<"CR", 2>> /\ end2 = <<"LF", 2>>
    OBVIOUS
  <1>2. {size, x, y, z, cr, lf, end1, end2} \subseteq Bytes
    BY <1>1 DEF Bytes
  <1>3. Chunk(d) = (<<size, x, y, z, cr, lf>> \o d) \o <<end1, end2>>
    BY <1>1, Zenon DEF Chunk
  <1>4. PICK a, b : a = <<size, x, y, z, cr, lf>> /\ b = <<end1, end2>>
    OBVIOUS
  <1>13. a \in Seq(Bytes) /\ Len(a) = 6 /\ a[1] = size
    BY <1>2, <1>4
  <1>14. b \in Seq(Bytes) /\ Len(b) = 2
    BY <1>2, <1>4
  <1>15. /\ a \o d \in Seq(Bytes) /\ Len(a \o d) = Len(a) + Len(d)
         /\ \A i \in 1 .. Len(a) : (a \o d)[i] = a[i]
         /\ \A i \in 1 .. Len(d) : (a \o d)[Len(a) + i] = d[i]
    BY <1>13, Joined
  <1>5. /\ a \o d \in Seq(Bytes) /\ Len(a \o d) = Len(d) + 6 /\ (a \o d)[1] = <<"size", Len(d)>>
        /\ \A i \in 1 .. Len(d) : (a \o d)[6 + i] = d[i]
    BY <1>1, <1>13, <1>15
  <1>6. PICK e : e = a \o d
    OBVIOUS
  <1>7. /\ e \o b \in Seq(Bytes) /\ Len(e \o b) = Len(d) + 8
        /\ \A i \in 1 .. Len(d) + 6 : (e \o b)[i] = e[i]
    <2>1. e \in Seq(Bytes) /\ Len(e) = Len(d) + 6
      BY <1>5, <1>6
    <2>2. /\ e \o b \in Seq(Bytes) /\ Len(e \o b) = Len(e) + Len(b)
          /\ \A i \in 1 .. Len(e) : (e \o b)[i] = e[i]
      BY <2>1, <1>14, Joined
    <2> QED  BY <2>1, <2>2, <1>14
  <1>8. Chunk(d) = e \o b
    BY <1>3, <1>4, <1>6
  <1>9. PICK k : k = e \o b
    OBVIOUS
  <1>10. /\ SubSeq(k, 7, Len(d) + 6) \in Seq(Bytes) /\ Len(SubSeq(k, 7, Len(d) + 6)) = Len(d)
         /\ \A i \in 1 .. Len(d) : SubSeq(k, 7, Len(d) + 6)[i] = k[6 + i]
    <2>1. k \in Seq(Bytes) /\ Len(d) + 6 \in Nat /\ Len(d) + 6 <= Len(k) /\ 7 <= Len(d) + 6 + 1
      BY <1>7, <1>9
    <2>2. \A i \in 1 .. Len(d) : 7 + i - 1 = 6 + i /\ Len(d) + 6 + 1 - 7 = Len(d)
      OBVIOUS
    <2> QED  BY <2>1, <2>2, Middle
  <1>11. \A i \in 1 .. Len(d) : k[6 + i] = d[i]
    BY <1>5, <1>6, <1>7, <1>9
  <1>12. SubSeq(k, 7, Len(d) + 6) = d
    BY <1>10, <1>11, Same
  <1> QED  BY <1>5, <1>6, <1>7, <1>8, <1>9, <1>12

-----------------------------------------------------------------------------
(* What the peer makes of chunks                                            *)

\* The definition of Unchunked: what is read from the i-th byte on, given what is
\* read from later ones.
ReadFrom(bytes, data, i) ==
    IF i > Len(bytes) THEN [read |-> <<>>, last |-> FALSE]
    ELSE LET size == bytes[i][2]
             chunk == SubSeq(bytes, i, i + size + 7)
             rest == data[i + size + 8]
         IN IF bytes[i][1] # "size" \/ i + size + 7 > Len(bytes)
            THEN [read |-> <<<<"garbled", i>>>>, last |-> FALSE]
            ELSE IF chunk # Chunk(SubSeq(bytes, i + 6, i + size + 5))
            THEN [read |-> <<<<"garbled", i>>>>, last |-> FALSE]
            ELSE IF size = 0 THEN [read |-> <<>>, last |-> i + 7 = Len(bytes)]
            ELSE [read |-> SubSeq(bytes, i + 6, i + size + 5) \o rest.read, last |-> rest.last]

\* It depends on later ones only.
LEMMA ReadLater ==
    ASSUME NEW bytes \in Seq(Bytes), NEW i \in 1 .. Len(bytes) + 1, NEW f, NEW g,
           \A j \in i + 1 .. Len(bytes) + 1 : f[j] = g[j]
    PROVE  ReadFrom(bytes, f, i) = ReadFrom(bytes, g, i)
  <1>1. CASE i > Len(bytes)
    BY <1>1 DEF ReadFrom
  <1>2. CASE i <= Len(bytes)
    <2>1. bytes[i] \in Bytes /\ bytes[i][2] \in Nat
      BY <1>2 DEF Bytes
    <2>2. i + bytes[i][2] + 7 <= Len(bytes) => f[i + bytes[i][2] + 8] = g[i + bytes[i][2] + 8]
      BY <2>1
    <2>3. PICK size : size = bytes[i][2]
      OBVIOUS
    <2>4. i + size + 7 <= Len(bytes) => f[i + size + 8] = g[i + size + 8]
      BY <2>2, <2>3
    <2>5. CASE bytes[i][1] # "size" \/ i + size + 7 > Len(bytes)
      BY <1>2, <2>3, <2>5, Zenon DEF ReadFrom
    <2>6. CASE bytes[i][1] = "size" /\ i + size + 7 <= Len(bytes)
      <3>1. ~(i + size + 7 > Len(bytes)) /\ ~(i > Len(bytes))
        BY <1>2, <2>1, <2>3, <2>6
      <3>2. f[i + size + 8] = g[i + size + 8]
        BY <2>4, <2>6
      <3> QED  BY <2>3, <2>6, <3>1, <3>2, Zenon DEF ReadFrom
    <2> QED  BY <2>1, <2>3, <2>5, <2>6
  <1> QED  BY <1>1, <1>2

\* So there is a function as Unchunked asks for, as far back as one likes.
LEMMA ReadExists ==
    ASSUME NEW bytes \in Seq(Bytes)
    PROVE  \E f : f = [i \in 1 .. Len(bytes) + 1 |-> ReadFrom(bytes, f, i)]
  <1>0. PICK n \in Nat : n = Len(bytes) + 1 /\ n > 0
    OBVIOUS
  <1> DEFINE From(k) == n - k + 1 .. n
             Reads(f, k) == f = [i \in From(k) |-> ReadFrom(bytes, f, i)]
             Fails == {k \in 0 .. n : ~\E f : Reads(f, k)}
  <1>1. n \in Nat /\ n > 0
    BY <1>0
  <1>2. SUFFICES ASSUME Fails # {}  PROVE FALSE
    <2>1. n \notin Fails => \E f : Reads(f, n)
      BY <1>1
    <2>2. From(n) = 1 .. Len(bytes) + 1
      BY <1>0
    <2> QED  BY <2>1, <2>2
  <1>3. PICK k \in Fails : \A j \in Fails : k <= j
    <2>1. Fails \in SUBSET Nat
      BY <1>1
    <2> QED  BY <1>2, <2>1, Least
  <1>4. k \in 0 .. n /\ ~\E f : Reads(f, k)
    BY <1>3
  <1>5. k # 0
    <2>1. PICK f : f = [i \in {} |-> 0]
      OBVIOUS
    <2>2. From(0) = {}
      BY <1>1
    <2>3. Reads(f, 0)
      BY <2>1, <2>2
    <2> QED  BY <2>3, <1>4
  <1>6. PICK f : Reads(f, k - 1)
    <2>1. k - 1 \in 0 .. n /\ ~(k <= k - 1)
      BY <1>1, <1>4, <1>5
    <2>2. k - 1 \notin Fails
      BY <1>3, <2>1
    <2> QED  BY <2>1, <2>2
  <1>7. PICK a \in 1 .. n : a = n - k + 1
    <2>1. n - k + 1 \in 1 .. n
      BY <1>1, <1>4, <1>5
    <2> QED  BY <2>1
  <1>8. PICK g : g = [i \in From(k) |-> IF i = a THEN ReadFrom(bytes, f, a) ELSE f[i]]
    OBVIOUS
  <1>9. \A i \in From(k) : i \in a .. n /\ i \in 1 .. n
    BY <1>1, <1>4, <1>7
  <1>10. \A i \in a + 1 .. n : i \in From(k) /\ i \in From(k - 1) /\ i # a
    BY <1>1, <1>4, <1>7
  <1>11. \A i \in a + 1 .. n : g[i] = f[i]
    BY <1>8, <1>10
  <1>12. ASSUME NEW i \in From(k)
         PROVE  g[i] = ReadFrom(bytes, g, i)
    <2>1. i \in 1 .. Len(bytes) + 1 /\ i \in a .. n
      BY <1>0, <1>9
    <2>2. \A j \in i + 1 .. Len(bytes) + 1 : f[j] = g[j]
      BY <2>1, <1>0, <1>7, <1>11
    <2>3. ReadFrom(bytes, f, i) = ReadFrom(bytes, g, i)
      <3> HIDE DEF From, Reads, Fails
      <3> QED  BY <2>1, <2>2, ReadLater
    <2>4. CASE i = a
      BY <1>8, <2>3, <2>4
    <2>5. CASE i # a
      <3>1. i \in From(k - 1)
        BY <2>1, <2>5, <1>7, <1>10
      <3>2. f[i] = ReadFrom(bytes, f, i)
        BY <1>6, <3>1
      <3> QED  BY <1>8, <2>3, <2>5, <3>2
    <2> QED  BY <2>4, <2>5
  <1>13. g = [i \in From(k) |-> g[i]]
    BY <1>8
  <1>14. Reads(g, k)
    BY <1>12, <1>13
  <1> QED  BY <1>4, <1>14

\* What is read of all bytes is what is read from the first.
LEMMA UnchunkedReads ==
    ASSUME NEW bytes \in Seq(Bytes)
    PROVE  \E data :
              /\ \A i \in 1 .. Len(bytes) + 1 : data[i] = ReadFrom(bytes, data, i)
              /\ Unchunked(bytes) = data[1]
  <1> DEFINE read == CHOOSE data : data = [i \in 1 .. Len(bytes) + 1 |-> ReadFrom(bytes, data, i)]
  <1>1. read = [i \in 1 .. Len(bytes) + 1 |-> ReadFrom(bytes, read, i)]
    BY ReadExists
  <1>2. Unchunked(bytes) = read[1]
    BY DEF Unchunked, ReadFrom
  <1>3. PICK data : data = read
    OBVIOUS
  <1> HIDE DEF read
  <1>4. data = [i \in 1 .. Len(bytes) + 1 |-> ReadFrom(bytes, data, i)]
    BY <1>1, <1>3
  <1>5. \A i \in 1 .. Len(bytes) + 1 : data[i] = ReadFrom(bytes, data, i)
    BY <1>4
  <1> QED  BY <1>2, <1>3, <1>5

\* A part of a sequence: from behind its m-th byte to its n-th; and two joined.
Cut(a, m, n) == SubSeq(a, m + 1, n)
Glue(a, b) == a \o b

\* A part: its length, and where each byte of it comes from.
LEMMA CutIs ==
    ASSUME NEW a \in Seq(Bytes), NEW m \in Nat, NEW n \in Nat, m <= n, n <= Len(a)
    PROVE  /\ Cut(a, m, n) \in Seq(Bytes) /\ Len(Cut(a, m, n)) = n - m
           /\ \A i \in 1 .. n - m : Cut(a, m, n)[i] = a[m + i]
  <1>1. PICK k : k = n - m
    OBVIOUS
  <1>2. k \in Nat /\ m + k = n /\ m + k <= Len(a)
    BY <1>1
  <1>3. PICK part : part = SubSeq(a, m + 1, m + k)
    OBVIOUS
  <1>4. part \in Seq(Bytes) /\ Len(part) = k /\ \A i \in 1 .. k : part[i] = a[m + i]
    BY <1>2, <1>3, Behind
  <1>5. part = Cut(a, m, n)
    BY <1>2, <1>3 DEF Cut
  <1> QED  BY <1>1, <1>4, <1>5

\* Two sequences that begin with the same have the same parts there.
Agrees(a, b) == Len(a) <= Len(b) /\ \A i \in 1 .. Len(a) : a[i] = b[i]

LEMMA Within ==
    ASSUME NEW a \in Seq(Bytes), NEW b \in Seq(Bytes), Agrees(a, b),
           NEW m \in Nat, NEW n \in Nat, m <= n, n <= Len(a)
    PROVE  Cut(a, m, n) = Cut(b, m, n)
  <1>1. PICK x, y : x = Cut(a, m, n) /\ y = Cut(b, m, n)
    OBVIOUS
  <1>2. x \in Seq(Bytes) /\ Len(x) = n - m /\ \A i \in 1 .. n - m : x[i] = a[m + i]
    BY <1>1, CutIs
  <1>3. Len(a) <= Len(b) /\ \A i \in 1 .. Len(a) : a[i] = b[i]
    BY DEF Agrees
  <1>4. n <= Len(b)
    BY <1>3
  <1>5. y \in Seq(Bytes) /\ Len(y) = n - m /\ \A i \in 1 .. n - m : y[i] = b[m + i]
    BY <1>1, <1>4, CutIs
  <1>6. \A i \in 1 .. n - m : m + i \in 1 .. Len(a)
    OBVIOUS
  <1>7. \A i \in 1 .. n - m : x[i] = y[i]
    BY <1>2, <1>3, <1>5, <1>6
  <1>8. x = y
    BY <1>2, <1>5, <1>7, Same
  <1> QED  BY <1>1, <1>8

\* A sequence begins what it is joined into.
LEMMA Begins ==
    ASSUME NEW a \in Seq(Bytes), NEW b \in Seq(Bytes)
    PROVE  Glue(a, b) \in Seq(Bytes) /\ Agrees(a, Glue(a, b))
  BY Joined DEF Agrees, Glue

\* From the first byte to the last.
LEMMA CutWhole ==
    ASSUME NEW a \in Seq(Bytes)
    PROVE  Cut(a, 0, Len(a)) = a
  <1>1. PICK n \in Nat : n = Len(a)
    OBVIOUS
  <1>2. PICK x : x = Cut(a, 0, n)
    OBVIOUS
  <1>3. 0 \in Nat /\ 0 <= n /\ n <= Len(a) /\ n - 0 = n
    BY <1>1
  <1>5. x \in Seq(Bytes) /\ Len(x) = n - 0 /\ \A i \in 1 .. n - 0 : x[i] = a[0 + i]
    BY <1>2, <1>3, CutIs, Zenon
  <1>6. \A i \in 1 .. n : x[i] = a[i]
    BY <1>1, <1>5
  <1>4. x = a
    BY <1>1, <1>3, <1>5, <1>6, Same
  <1> QED  BY <1>1, <1>2, <1>4

\* Two parts, of which one begins where the other ends.
LEMMA CutJoin ==
    ASSUME NEW a \in Seq(Bytes), NEW l \in Nat, NEW m \in Nat, NEW n \in Nat, l <= m, m <= n, n <= Len(a)
    PROVE  Glue(Cut(a, l, m), Cut(a, m, n)) = Cut(a, l, n)
  <1>1. PICK x, y, z : x = Cut(a, l, m) /\ y = Cut(a, m, n) /\ z = Cut(a, l, n)
    OBVIOUS
  <1>11. m <= Len(a) /\ l <= n
    OBVIOUS
  <1>2. x \in Seq(Bytes) /\ Len(x) = m - l /\ \A i \in 1 .. m - l : x[i] = a[l + i]
    BY <1>1, <1>11, CutIs, Zenon
  <1>3. y \in Seq(Bytes) /\ Len(y) = n - m /\ \A i \in 1 .. n - m : y[i] = a[m + i]
    BY <1>1, CutIs, Zenon
  <1>4. z \in Seq(Bytes) /\ Len(z) = n - l /\ \A i \in 1 .. n - l : z[i] = a[l + i]
    BY <1>1, <1>11, CutIs, Zenon
  <1>5. PICK w : w = x \o y
    OBVIOUS
  <1>6. /\ w \in Seq(Bytes) /\ Len(w) = Len(x) + Len(y)
        /\ \A i \in 1 .. Len(x) : w[i] = x[i]
        /\ \A i \in 1 .. Len(y) : w[Len(x) + i] = y[i]
    BY <1>2, <1>3, <1>5, Joined
  <1>7. Len(w) = n - l
    BY <1>2, <1>3, <1>6
  <1>8. ASSUME NEW i \in 1 .. n - l  PROVE w[i] = z[i]
    <2>1. CASE i <= m - l
      <3>1. i \in 1 .. m - l
        BY <2>1
      <3>2. w[i] = x[i] /\ x[i] = a[l + i]
        BY <3>1, <1>2, <1>6
      <3> QED  BY <3>2, <1>4
    <2>2. CASE i > m - l
      <3>1. PICK j \in 1 .. n - m : i = (m - l) + j
        <4>1. i - (m - l) \in 1 .. n - m /\ i = (m - l) + (i - (m - l))
          BY <2>2
        <4> QED  BY <4>1
      <3>2. w[i] = y[j] /\ y[j] = a[m + j]
        BY <3>1, <1>2, <1>3, <1>6
      <3>3. l + i = m + j
        BY <3>1
      <3> QED  BY <3>2, <3>3, <1>4
    <2>3. i <= m - l \/ i > m - l
      OBVIOUS
    <2> QED  BY <2>1, <2>2, <2>3, Zenon
  <1>9. Len(w) = Len(z) /\ \A i \in 1 .. Len(w) : w[i] = z[i]
    BY <1>4, <1>7, <1>8
  <1>10. w = z
    BY <1>4, <1>6, <1>9, Same
  <1> QED  BY <1>1, <1>5, <1>10 DEF Glue

\* Nothing.
LEMMA CutNothing ==
    ASSUME NEW a, NEW m \in Nat
    PROVE  Cut(a, m, m) = <<>>
  BY DEF Cut

LEMMA NoBytes == <<>> \in Seq(Bytes) /\ Len(<<>>) = 0
  OBVIOUS

\* A chunk with the data d is found at the i-th byte, and the k-th is behind it.
ChunkAt(bytes, i, k, d) ==
    /\ bytes \in Seq(Bytes) /\ d \in Seq(Bytes) /\ i \in Nat \ {0} /\ k \in Nat
    /\ k = i + Len(d) + 8 /\ k <= Len(bytes) + 1 /\ SubSeq(bytes, i, k - 1) = Chunk(d)

\* The chunks of a body, which hold the first "from" bytes of a content: the j-th
\* begins in the body at at[j], and holds the content from cuts[j] to cuts[j + 1].
Framing(body, c, from, m, cuts, at) ==
    /\ m \in Nat /\ cuts \in [0 .. m -> 0 .. from] /\ at \in [0 .. m -> Nat]
    /\ cuts[0] = 0 /\ cuts[m] = from /\ at[0] = 1 /\ at[m] = Len(body) + 1
    /\ \A j \in 0 .. m - 1 :
          /\ cuts[j] < cuts[j + 1]
          /\ ChunkAt(body, at[j], at[j + 1], Cut(Content(c), cuts[j], cuts[j + 1]))
Framed(body, c, from) == \E m, cuts, at : Framing(body, c, from, m, cuts, at)

\* What a peer has read, and whether it knows that there is no more.
Read(read, last) == [read |-> read, last |-> last]
At(data, i) == data[i]

\* What is read of one chunk.
LEMMA ReadAChunk ==
    ASSUME NEW bytes, NEW data, NEW i, NEW k, NEW d, ChunkAt(bytes, i, k, d)
    PROVE  ReadFrom(bytes, data, i) =
              IF Len(d) = 0 THEN Read(<<>>, k - 1 = Len(bytes))
              ELSE Read(Glue(d, At(data, k).read), At(data, k).last)
  <1>1. /\ bytes \in Seq(Bytes) /\ d \in Seq(Bytes) /\ i \in Nat \ {0} /\ k \in Nat
        /\ k = i + Len(d) + 8 /\ k <= Len(bytes) + 1 /\ SubSeq(bytes, i, k - 1) = Chunk(d)
    BY DEF ChunkAt
  <1>2. PICK n \in Nat : n = Len(d)
    BY <1>1
  <1>3. PICK a \in Nat : i = a + 1
    <2>1. i - 1 \in Nat /\ i = (i - 1) + 1
      BY <1>1
    <2> QED  BY <2>1
  <1>4. /\ n + 8 \in Nat /\ a + (n + 8) <= Len(bytes) /\ a + (n + 8) = k - 1
    BY <1>1, <1>2, <1>3
  <1>5. PICK part : part = SubSeq(bytes, a + 1, a + (n + 8))
    OBVIOUS
  <1>6. part = Chunk(d)
    BY <1>1, <1>3, <1>4, <1>5
  <1>7. part \in Seq(Bytes) /\ Len(part) = n + 8 /\ \A j \in 1 .. n + 8 : part[j] = bytes[a + j]
    BY <1>1, <1>4, <1>5, Behind
  <1>8. part[1] = <<"size", n>> /\ SubSeq(part, 7, n + 6) = d
    BY <1>1, <1>2, <1>6, ChunkIs
  <1>9. bytes[i] = <<"size", n>>
    BY <1>3, <1>7, <1>8
  <1>10. SubSeq(bytes, i + 6, i + n + 5) = d
    <2>1. PICK b \in Nat : b = a + 6 /\ b + n <= Len(bytes) /\ b + 1 = i + 6 /\ b + n = i + n + 5
      <3>1. /\ a + 6 \in Nat /\ (a + 6) + n <= Len(bytes) /\ (a + 6) + 1 = i + 6
            /\ (a + 6) + n = i + n + 5
        BY <1>3, <1>4
      <3> QED  BY <3>1, Zenon
    <2>2. PICK x, y : x = SubSeq(bytes, b + 1, b + n) /\ y = SubSeq(part, 6 + 1, 6 + n)
      OBVIOUS
    <2>3. x \in Seq(Bytes) /\ Len(x) = n /\ \A j \in 1 .. n : x[j] = bytes[b + j]
      BY <1>1, <2>1, <2>2, Behind
    <2>4. y \in Seq(Bytes) /\ Len(y) = n /\ \A j \in 1 .. n : y[j] = part[6 + j]
      <3>1. 6 \in Nat /\ 6 + n <= Len(part)
        BY <1>7
      <3> QED  BY <3>1, <1>7, <2>2, Behind
    <2>5. \A j \in 1 .. n : 6 + j \in 1 .. n + 8 /\ a + (6 + j) = b + j
      BY <2>1
    <2>6. \A j \in 1 .. n : x[j] = y[j]
      BY <1>7, <2>3, <2>4, <2>5
    <2>7. x = y
      BY <2>3, <2>4, <2>6, Same
    <2>8. y = d
      BY <1>8, <2>2
    <2> QED  BY <2>1, <2>2, <2>7, <2>8
  <1>11. PICK size \in Nat : size = n
    OBVIOUS
  <1>12. ~(i > Len(bytes)) /\ ~(i + size + 7 > Len(bytes)) /\ i + size + 7 = k - 1 /\ i + size + 8 = k
    BY <1>1, <1>2, <1>3, <1>4, <1>11
  <1>13. bytes[i][1] = "size" /\ bytes[i][2] = size
    BY <1>9, <1>11
  <1>14. SubSeq(bytes, i + 6, i + size + 5) = d
    BY <1>10, <1>11
  <1>15. SubSeq(bytes, i, i + size + 7) = Chunk(SubSeq(bytes, i + 6, i + size + 5))
    BY <1>1, <1>12, <1>14, Zenon
  <1>16. ReadFrom(bytes, data, i) =
            IF size = 0 THEN [read |-> <<>>, last |-> i + 7 = Len(bytes)]
            ELSE [read |-> d \o data[i + size + 8].read, last |-> data[i + size + 8].last]
    BY <1>12, <1>13, <1>14, <1>15, Zenon DEF ReadFrom
  <1>17. CASE size = 0
    <2>1. i + 7 = k - 1
      BY <1>1, <1>12, <1>17
    <2> QED  BY <1>2, <1>11, <1>16, <1>17, <2>1, Zenon DEF Read
  <1>18. CASE size # 0
    BY <1>2, <1>11, <1>12, <1>16, <1>18, Zenon DEF Read, Glue, At
  <1> QED  BY <1>17, <1>18, Zenon

\* A chunk with data is read before what is behind it; an empty one ends the body.
LEMMA ReadChunk ==
    ASSUME NEW bytes, NEW data, NEW i, NEW k, NEW d, ChunkAt(bytes, i, k, d), d # <<>>,
           NEW e, NEW last, At(data, k) = Read(e, last)
    PROVE  ReadFrom(bytes, data, i) = Read(Glue(d, e), last)
  <1>1. Len(d) # 0
    BY DEF ChunkAt
  <1>2. At(data, k).read = e /\ At(data, k).last = last
    BY DEF Read
  <1>3. ReadFrom(bytes, data, i) = Read(Glue(d, At(data, k).read), At(data, k).last)
    BY <1>1, ReadAChunk
  <1> QED  BY <1>2, <1>3, Zenon

LEMMA ReadEnd ==
    ASSUME NEW bytes, NEW data, NEW i, NEW k, NEW d, ChunkAt(bytes, i, k, d), d = <<>>, k > Len(bytes)
    PROVE  ReadFrom(bytes, data, i) = Read(<<>>, TRUE)
  <1>1. Len(d) = 0 /\ k - 1 = Len(bytes)
    BY DEF ChunkAt
  <1>2. ReadFrom(bytes, data, i) = Read(<<>>, k - 1 = Len(bytes))
    BY <1>1, ReadAChunk
  <1> QED  BY <1>1, <1>2, Zenon

\* A chunk is found in what the bytes go on to.
LEMMA ChunkWithin ==
    ASSUME NEW a, NEW b \in Seq(Bytes), NEW i, NEW k, NEW d, ChunkAt(a, i, k, d), Agrees(a, b)
    PROVE  ChunkAt(b, i, k, d)
  <1>1. /\ a \in Seq(Bytes) /\ d \in Seq(Bytes) /\ i \in Nat \ {0} /\ k \in Nat
        /\ k = i + Len(d) + 8 /\ k <= Len(a) + 1 /\ SubSeq(a, i, k - 1) = Chunk(d)
    BY DEF ChunkAt
  <1>2. PICK m \in Nat, n \in Nat : m + 1 = i /\ n = k - 1
    <2>1. i - 1 \in Nat /\ k - 1 \in Nat /\ (i - 1) + 1 = i
      BY <1>1
    <2> QED  BY <2>1, Zenon
  <1>3. m <= n /\ n <= Len(a)
    BY <1>1, <1>2
  <1>4. Cut(a, m, n) = Cut(b, m, n)
    BY <1>1, <1>3, Within
  <1>5. SubSeq(a, i, k - 1) = SubSeq(b, i, k - 1)
    BY <1>2, <1>4, Zenon DEF Cut
  <1>6. k <= Len(b) + 1
    BY <1>1 DEF Agrees
  <1> QED  BY <1>1, <1>5, <1>6 DEF ChunkAt

\* A chunk is found where it has been appended.
LEMMA ChunkBehind ==
    ASSUME NEW body \in Seq(Bytes), NEW d \in Seq(Bytes)
    PROVE  /\ Glue(body, Chunk(d)) \in Seq(Bytes)
           /\ Len(Glue(body, Chunk(d))) = Len(body) + Len(d) + 8
           /\ ChunkAt(Glue(body, Chunk(d)), Len(body) + 1, Len(body) + Len(d) + 9, d)
  <1>1. PICK a \in Nat, n \in Nat : a = Len(body) /\ n = Len(d)
    OBVIOUS
  <1>2. PICK end, bytes : end = Chunk(d) /\ bytes = Glue(body, end)
    OBVIOUS
  <1>3. end \in Seq(Bytes) /\ Len(end) = n + 8
    BY <1>1, <1>2, ChunkIs
  <1>4. bytes \in Seq(Bytes) /\ Len(bytes) = a + (n + 8) /\ \A j \in 1 .. n + 8 : bytes[a + j] = end[j]
    <2>1. bytes = body \o end
      BY <1>2 DEF Glue
    <2>2. /\ body \o end \in Seq(Bytes) /\ Len(body \o end) = Len(body) + Len(end)
          /\ \A j \in 1 .. Len(end) : (body \o end)[Len(body) + j] = end[j]
      BY <1>3, Joined
    <2> QED  BY <1>1, <1>3, <2>1, <2>2
  <1>5. PICK part : part = SubSeq(bytes, a + 1, a + (n + 8))
    OBVIOUS
  <1>6. part \in Seq(Bytes) /\ Len(part) = n + 8 /\ \A j \in 1 .. n + 8 : part[j] = bytes[a + j]
    <2>1. PICK l \in Nat : l = n + 8
      OBVIOUS
    <2>2. bytes \in Seq(Bytes) /\ a + l <= Len(bytes)
      BY <1>4, <2>1
    <2>3. part = SubSeq(bytes, a + 1, a + l)
      BY <1>5, <2>1, Zenon
    <2>4. part \in Seq(Bytes) /\ Len(part) = l /\ \A j \in 1 .. l : part[j] = bytes[a + j]
      BY <2>2, <2>3, Behind
    <2> QED  BY <2>1, <2>4, Zenon
  <1>7. \A j \in 1 .. n + 8 : part[j] = end[j]
    BY <1>4, <1>6
  <1>8. part = end
    BY <1>3, <1>6, <1>7, Same
  <1>9. PICK i \in Nat, k \in Nat : i = a + 1 /\ k = a + n + 9
    <2>1. a + 1 \in Nat /\ a + n + 9 \in Nat
      OBVIOUS
    <2> QED  BY <2>1, Zenon
  <1>10. i \in Nat \ {0} /\ k = i + Len(d) + 8 /\ k <= Len(bytes) + 1 /\ k - 1 = a + (n + 8)
    BY <1>1, <1>4, <1>9
  <1>11. SubSeq(bytes, i, k - 1) = Chunk(d)
    BY <1>2, <1>5, <1>8, <1>9, <1>10, Zenon
  <1>12. ChunkAt(bytes, i, k, d)
    BY <1>4, <1>9, <1>10, <1>11 DEF ChunkAt
  <1>13. Len(bytes) = a + n + 8
    BY <1>4
  <1> QED  BY <1>1, <1>2, <1>4, <1>9, <1>12, <1>13, Zenon

\* Every byte is read as ReadFrom says.
Reading(bytes, data) == \A i \in 1 .. Len(bytes) + 1 : At(data, i) = ReadFrom(bytes, data, i)

\* What is read before a chunk, from what is read behind it.
LEMMA ReadBack ==
    ASSUME NEW c \in Nat, NEW from \in Nat, from <= c, NEW low \in Nat, NEW high \in Nat, low < high, high <= from,
           NEW bytes, NEW data, Reading(bytes, data),
           NEW i, NEW k, ChunkAt(bytes, i, k, Cut(Content(c), low, high)),
           NEW last, At(data, k) = Read(Cut(Content(c), high, from), last)
    PROVE  At(data, i) = Read(Cut(Content(c), low, from), last)
  <1>1. PICK t \in Seq(Bytes) : t = Content(c) /\ Len(t) = c
    BY ContentIs
  <1>2. PICK d, e, f : d = Cut(t, low, high) /\ e = Cut(t, high, from) /\ f = Cut(t, low, from)
    OBVIOUS
  <1>3. low <= high /\ high <= Len(t) /\ from <= Len(t) /\ high - low # 0
    BY <1>1
  <1>4. d # <<>>
    <2>1. Len(d) = high - low
      BY <1>2, <1>3, CutIs
    <2> QED  BY <1>3, <2>1
  <1>5. Glue(d, e) = f
    <2>1. Glue(Cut(t, low, high), Cut(t, high, from)) = Cut(t, low, from)
      BY <1>3, CutJoin
    <2> QED  BY <1>2, <2>1, Zenon
  <1>6. ChunkAt(bytes, i, k, d) /\ At(data, k) = Read(e, last)
    BY <1>1, <1>2, Zenon
  <1>7. ReadFrom(bytes, data, i) = Read(Glue(d, e), last)
    BY <1>4, <1>6, ReadChunk
  <1>8. At(data, i) = ReadFrom(bytes, data, i)
    <2>1. i \in 1 .. Len(bytes) + 1
      BY <1>6 DEF ChunkAt
    <2> QED  BY <2>1 DEF Reading
  <1> QED  BY <1>1, <1>2, <1>5, <1>7, <1>8, Zenon

\* What is read from the beginning, by what is read behind the last chunk.
LEMMA ReadFramed ==
    ASSUME NEW c \in Nat, NEW from \in Nat, from <= c, NEW body \in Seq(Bytes), Framed(body, c, from),
           NEW bytes \in Seq(Bytes), Agrees(body, bytes), NEW data, Reading(bytes, data),
           NEW end, end = Len(body) + 1, NEW last, At(data, end) = Read(<<>>, last)
    PROVE  At(data, 1) = Read(Cut(Content(c), 0, from), last)
  <1>1. PICK m, cuts, at : Framing(body, c, from, m, cuts, at)
    BY DEF Framed
  <1>2. /\ m \in Nat /\ cuts \in [0 .. m -> 0 .. from] /\ at \in [0 .. m -> Nat]
        /\ cuts[0] = 0 /\ cuts[m] = from /\ at[0] = 1 /\ at[m] = Len(body) + 1
    BY <1>1 DEF Framing
  <1>3. ASSUME NEW j \in 0 .. m - 1
        PROVE  /\ cuts[j] < cuts[j + 1]
               /\ ChunkAt(body, at[j], at[j + 1], Cut(Content(c), cuts[j], cuts[j + 1]))
    BY <1>1, Zenon DEF Framing
  <1> DEFINE Reads(j) == At(data, at[j]) = Read(Cut(Content(c), cuts[j], from), last)
             Fails == {k \in 0 .. m : ~Reads(m - k)}
  <1>4. Reads(m)
    <2>1. Cut(Content(c), from, from) = <<>>
      BY CutNothing
    <2> QED  BY <1>2, <2>1, Zenon
  <1>5. ASSUME NEW j \in 0 .. m - 1, Reads(j + 1)  PROVE Reads(j)
    <2>1. j \in 0 .. m /\ j + 1 \in 0 .. m
      BY <1>2
    <2>2. cuts[j] \in 0 .. from /\ cuts[j + 1] \in 0 .. from
      BY <1>2, <2>1
    <2>3. PICK low, high, i, k : low = cuts[j] /\ high = cuts[j + 1] /\ i = at[j] /\ k = at[j + 1]
      OBVIOUS
    <2>4. low \in Nat /\ high \in Nat /\ high <= from /\ low < high
      BY <1>3, <2>2, <2>3
    <2>5. ChunkAt(body, i, k, Cut(Content(c), low, high))
      BY <1>3, <2>3, Zenon
    <2>6. ChunkAt(bytes, i, k, Cut(Content(c), low, high))
      BY <2>5, ChunkWithin
    <2>7. At(data, k) = Read(Cut(Content(c), high, from), last)
      BY <1>5, <2>3, Zenon
    <2>8. At(data, i) = Read(Cut(Content(c), low, from), last)
      BY <2>4, <2>6, <2>7, ReadBack
    <2> QED  BY <2>3, <2>8, Zenon
  <1>6. Fails = {}
    <2>1. SUFFICES ASSUME Fails # {}  PROVE FALSE
      OBVIOUS
    <2>2. PICK k \in Fails : \A i \in Fails : k <= i
      <3>1. Fails \in SUBSET Nat
        BY <1>2
      <3> QED  BY <2>1, <3>1, Least
    <2>3. k \in 0 .. m /\ ~Reads(m - k)
      OBVIOUS
    <2>4. k # 0
      <3>1. m - 0 = m
        BY <1>2
      <3> QED  BY <3>1, <2>3, <1>4
    <2>5. k - 1 \in 0 .. m /\ ~(k <= k - 1)
      BY <1>2, <2>3, <2>4
    <2>6. Reads(m - (k - 1))
      BY <2>2, <2>5
    <2>7. m - k \in 0 .. m - 1 /\ (m - k) + 1 = m - (k - 1)
      BY <1>2, <2>3, <2>4
    <2>8. Reads((m - k) + 1)
      BY <2>6, <2>7, Zenon
    <2>9. Reads(m - k)
      <3> HIDE DEF Reads, Fails
      <3> QED  BY <1>5, <2>7, <2>8
    <2> QED  BY <2>3, <2>9
  <1>7. Reads(0)
    <2>1. m \in 0 .. m /\ m - m = 0
      BY <1>2
    <2> QED  BY <1>6, <2>1
  <1> QED  BY <1>2, <1>7, Zenon

\* Every body is read from its first byte.
LEMMA Unread ==
    ASSUME NEW bytes \in Seq(Bytes)
    PROVE  \E data : Reading(bytes, data) /\ Unchunked(bytes) = At(data, 1)
  BY UnchunkedReads, Zenon DEF Reading, At

\* A peer reads the content from its chunks,
LEMMA FramedReads ==
    ASSUME NEW c \in Nat, NEW from \in Nat, from <= c, NEW body \in Seq(Bytes), Framed(body, c, from)
    PROVE  Unchunked(body) = Read(Cut(Content(c), 0, from), FALSE)
  <1>1. PICK data : Reading(body, data) /\ Unchunked(body) = At(data, 1)
    BY Unread
  <1>2. PICK i \in Nat : i = Len(body) + 1 /\ i \in 1 .. Len(body) + 1 /\ i > Len(body)
    <2>1. /\ Len(body) + 1 \in Nat /\ Len(body) + 1 \in 1 .. Len(body) + 1 /\ Len(body) + 1 > Len(body)
      OBVIOUS
    <2> QED  BY <2>1, Zenon
  <1>3. At(data, i) = ReadFrom(body, data, i)
    BY <1>1, <1>2 DEF Reading
  <1>4. ReadFrom(body, data, i) = Read(<<>>, FALSE)
    BY <1>2, Zenon DEF ReadFrom, Read
  <1>5. PICK last : last = FALSE
    OBVIOUS
  <1>8. At(data, i) = Read(<<>>, last)
    BY <1>3, <1>4, <1>5, Zenon
  <1>6. Agrees(body, body)
    BY DEF Agrees
  <1>9. i = Len(body) + 1
    BY <1>2
  <1>7. At(data, 1) = Read(Cut(Content(c), 0, from), last)
    BY <1>1, <1>6, <1>8, <1>9, ReadFramed
  <1> QED  BY <1>1, <1>5, <1>7, Zenon

\* and from an empty one that there is no more.
LEMMA FramedEnds ==
    ASSUME NEW c \in Nat, NEW from \in Nat, from <= c, NEW body \in Seq(Bytes), Framed(body, c, from)
    PROVE  Unchunked(Glue(body, Chunk(<<>>))) = Read(Cut(Content(c), 0, from), TRUE)
  <1>1. PICK none, bytes : none = <<>> /\ bytes = Glue(body, Chunk(none))
    OBVIOUS
  <1>2. none \in Seq(Bytes) /\ Len(none) = 0
    BY <1>1, NoBytes
  <1>3. /\ bytes \in Seq(Bytes) /\ Len(bytes) = Len(body) + Len(none) + 8
        /\ ChunkAt(bytes, Len(body) + 1, Len(body) + Len(none) + 9, none)
    BY <1>1, <1>2, ChunkBehind, Zenon
  <1>4. Agrees(body, bytes)
    <2>1. Chunk(none) \in Seq(Bytes)
      BY <1>2, ChunkIs
    <2> QED  BY <1>1, <2>1, Begins
  <1>5. PICK data : Reading(bytes, data) /\ Unchunked(bytes) = At(data, 1)
    BY <1>3, Unread
  <1>6. PICK i \in Nat, k \in Nat : /\ i = Len(body) + 1 /\ k = Len(body) + Len(none) + 9
                                    /\ k > Len(bytes) /\ i \in 1 .. Len(bytes) + 1
    <2>1. /\ Len(body) + 1 \in Nat /\ Len(body) + Len(none) + 9 \in Nat
          /\ Len(body) + Len(none) + 9 > Len(bytes) /\ Len(body) + 1 \in 1 .. Len(bytes) + 1
      BY <1>2, <1>3
    <2> QED  BY <2>1, Zenon
  <1>7. ChunkAt(bytes, i, k, none)
    BY <1>3, <1>6, Zenon
  <1>8. ReadFrom(bytes, data, i) = Read(<<>>, TRUE)
    BY <1>1, <1>6, <1>7, ReadEnd
  <1>9. At(data, i) = ReadFrom(bytes, data, i)
    BY <1>5, <1>6 DEF Reading
  <1>10. PICK last : last = TRUE
    OBVIOUS
  <1>11. At(data, i) = Read(<<>>, last) /\ i = Len(body) + 1
    BY <1>6, <1>8, <1>9, <1>10, Zenon
  <1>12. At(data, 1) = Read(Cut(Content(c), 0, from), last)
    BY <1>3, <1>4, <1>5, <1>11, ReadFramed
  <1> QED  BY <1>1, <1>5, <1>10, <1>12, Zenon

\* No chunk yet.
LEMMA FramedNone ==
    ASSUME NEW c \in Nat
    PROVE  Framed(<<>>, c, 0)
  <1>1. PICK m, cuts, at : m = 0 /\ cuts = [j \in 0 .. 0 |-> 0] /\ at = [j \in 0 .. 0 |-> 1]
    OBVIOUS
  <1>2. /\ m \in Nat /\ cuts \in [0 .. m -> 0 .. 0] /\ at \in [0 .. m -> Nat]
        /\ cuts[0] = 0 /\ cuts[m] = 0 /\ at[0] = 1 /\ at[m] = 1
    BY <1>1
  <1>3. Len(<<>>) + 1 = 1
    BY NoBytes
  <1>4. \A j \in 0 .. m - 1 : FALSE
    BY <1>1
  <1>5. Framing(<<>>, c, 0, m, cuts, at)
    BY <1>2, <1>3, <1>4 DEF Framing
  <1> QED  BY <1>5 DEF Framed

\* Another chunk with what comes next of the content.
LEMMA FramedMore ==
    ASSUME NEW c \in Nat, NEW from \in Nat, NEW to \in Nat, from < to, to <= c,
           NEW body \in Seq(Bytes), Framed(body, c, from)
    PROVE  /\ Glue(body, Chunk(Cut(Content(c), from, to))) \in Seq(Bytes)
           /\ Framed(Glue(body, Chunk(Cut(Content(c), from, to))), c, to)
  <1>1. PICK m, cuts, at : Framing(body, c, from, m, cuts, at)
    BY DEF Framed
  <1>2. /\ m \in Nat /\ cuts \in [0 .. m -> 0 .. from] /\ at \in [0 .. m -> Nat]
        /\ cuts[0] = 0 /\ cuts[m] = from /\ at[0] = 1 /\ at[m] = Len(body) + 1
    BY <1>1 DEF Framing
  <1>3. ASSUME NEW j \in 0 .. m - 1
        PROVE  /\ cuts[j] < cuts[j + 1]
               /\ ChunkAt(body, at[j], at[j + 1], Cut(Content(c), cuts[j], cuts[j + 1]))
    BY <1>1, Zenon DEF Framing
  <1>4. PICK d, bytes : d = Cut(Content(c), from, to) /\ bytes = Glue(body, Chunk(d))
    OBVIOUS
  <1>5. d \in Seq(Bytes) /\ Len(d) = to - from
    <2>1. PICK t \in Seq(Bytes) : t = Content(c) /\ Len(t) = c
      BY ContentIs
    <2>3. from <= to /\ to <= Len(t)
      BY <2>1
    <2>2. Cut(t, from, to) \in Seq(Bytes) /\ Len(Cut(t, from, to)) = to - from
      BY <2>1, <2>3, CutIs
    <2> QED  BY <1>4, <2>1, <2>2, Zenon
  <1>6. /\ bytes \in Seq(Bytes) /\ Len(bytes) = Len(body) + Len(d) + 8
        /\ ChunkAt(bytes, Len(body) + 1, Len(body) + Len(d) + 9, d)
    BY <1>4, <1>5, ChunkBehind, Zenon
  <1>7. Agrees(body, bytes)
    <2>1. Chunk(d) \in Seq(Bytes)
      BY <1>5, ChunkIs
    <2> QED  BY <1>4, <2>1, Begins
  <1>8. PICK end \in Nat : end = Len(body) + Len(d) + 9 /\ end = Len(bytes) + 1
    <2>1. /\ Len(body) + Len(d) + 9 \in Nat /\ Len(body) + Len(d) + 9 = Len(bytes) + 1
      BY <1>5, <1>6
    <2> QED  BY <2>1, Zenon
  <1>9. PICK l \in Nat : l = m + 1 /\ m \in 0 .. l /\ l \in 0 .. l /\ 0 \in 0 .. l /\ 0 # l /\ m # l
    <2>1. /\ m + 1 \in Nat /\ m \in 0 .. m + 1 /\ m + 1 \in 0 .. m + 1 /\ 0 \in 0 .. m + 1
          /\ 0 # m + 1 /\ m # m + 1
      BY <1>2
    <2> QED  BY <2>1, Zenon
  <1>10. PICK cuts1, at1 : /\ cuts1 = [j \in 0 .. l |-> IF j = l THEN to ELSE cuts[j]]
                           /\ at1 = [j \in 0 .. l |-> IF j = l THEN end ELSE at[j]]
    OBVIOUS
  <1>11. \A j \in 0 .. l : j = l \/ j \in 0 .. m
    BY <1>2, <1>9
  <1>12. cuts1 \in [0 .. l -> 0 .. to] /\ at1 \in [0 .. l -> Nat]
    <2>1. \A j \in 0 .. m : cuts[j] \in 0 .. to /\ at[j] \in Nat
      BY <1>2
    <2> QED  BY <1>10, <1>11, <2>1
  <1>13. cuts1[0] = 0 /\ cuts1[l] = to /\ at1[0] = 1 /\ at1[l] = Len(bytes) + 1
    BY <1>2, <1>8, <1>9, <1>10
  <1>14. ASSUME NEW j \in 0 .. l - 1
         PROVE  /\ cuts1[j] < cuts1[j + 1]
                /\ ChunkAt(bytes, at1[j], at1[j + 1], Cut(Content(c), cuts1[j], cuts1[j + 1]))
    <2>1. CASE j = m
      <3>1. cuts1[j] = from /\ cuts1[j + 1] = to /\ at1[j] = Len(body) + 1 /\ at1[j + 1] = end
        BY <1>2, <1>9, <1>10, <2>1
      <3> QED  BY <1>4, <1>6, <1>8, <3>1, Zenon
    <2>2. CASE j # m
      <3>1. /\ j \in 0 .. m - 1 /\ j \in 0 .. l /\ j + 1 \in 0 .. l /\ j # l /\ j + 1 # l
        BY <1>2, <1>9, <2>2
      <3>2. cuts1[j] = cuts[j] /\ cuts1[j + 1] = cuts[j + 1] /\ at1[j] = at[j] /\ at1[j + 1] = at[j + 1]
        BY <1>10, <3>1
      <3>3. PICK i, k, part : i = at[j] /\ k = at[j + 1] /\ part = Cut(Content(c), cuts[j], cuts[j + 1])
        OBVIOUS
      <3>4. ChunkAt(body, i, k, part) /\ cuts[j] < cuts[j + 1]
        BY <1>3, <3>1, <3>3, Zenon
      <3>5. ChunkAt(bytes, i, k, part)
        BY <1>6, <1>7, <3>4, ChunkWithin
      <3> QED  BY <3>2, <3>3, <3>4, <3>5, Zenon
    <2> QED  BY <2>1, <2>2, Zenon
  <1>15. Framing(bytes, c, to, l, cuts1, at1)
    BY <1>9, <1>12, <1>13, <1>14 DEF Framing
  <1>16. Framed(bytes, c, to)
    BY <1>15 DEF Framed
  <1> QED  BY <1>4, <1>6, <1>16, Zenon

-----------------------------------------------------------------------------
(* Acknowledgements                                                         *)

\* What has been reported to the response, and the reports that wait, are not
\* more than has been acknowledged; sums are what they come to, one by one.
Sums(len, q, all, sums) ==
    /\ len \in Nat /\ q \in Seq(Nat) /\ all \in Nat /\ sums \in [0 .. Len(q) -> 0 .. all]
    /\ len <= sums[0]
    /\ \A i \in 1 .. Len(q) : sums[i] = sums[i - 1] + q[i]
Reported(len, q, all) == \E sums : Sums(len, q, all, sums)

\* Reports: none yet, some overtaken, one more, the first one handled.
LEMMA NothingReported ==
    ASSUME NEW all \in Nat
    PROVE  Reported(0, <<>>, all)
  <1>1. PICK sums : sums = [i \in 0 .. 0 |-> 0]
    OBVIOUS
  <1>2. /\ <<>> \in Seq(Nat) /\ Len(<<>>) = 0 /\ sums \in [0 .. 0 -> 0 .. all] /\ 0 <= sums[0]
        /\ \A i \in 1 .. 0 : FALSE
    BY <1>1
  <1>3. Sums(0, <<>>, all, sums)
    BY <1>2 DEF Sums
  <1> QED  BY <1>3 DEF Reported

LEMMA ReportedFewer ==
    ASSUME NEW len, NEW q, NEW all, Reported(len, q, all), NEW few \in Nat, few <= len
    PROVE  Reported(few, q, all)
  <1>1. PICK sums : Sums(len, q, all, sums)
    BY DEF Reported
  <1>2. few <= sums[0]
    <2>1. len \in Nat /\ q \in Seq(Nat) /\ sums \in [0 .. Len(q) -> 0 .. all] /\ all \in Nat /\ len <= sums[0]
      BY <1>1 DEF Sums
    <2>2. 0 \in 0 .. Len(q)
      BY <2>1
    <2>3. sums[0] \in Nat
      BY <2>1, <2>2
    <2> QED  BY <2>1, <2>3
  <1>3. Sums(few, q, all, sums)
    BY <1>1, <1>2 DEF Sums
  <1> QED  BY <1>3 DEF Reported

LEMMA ReportedBound ==
    ASSUME NEW len, NEW q, NEW all, Reported(len, q, all)
    PROVE  len \in Nat /\ len <= all
  <1>1. PICK sums : Sums(len, q, all, sums)
    BY DEF Reported
  <1>2. len \in Nat /\ q \in Seq(Nat) /\ sums \in [0 .. Len(q) -> 0 .. all] /\ all \in Nat /\ len <= sums[0]
    BY <1>1 DEF Sums
  <1>3. 0 \in 0 .. Len(q)
    BY <1>2
  <1>4. sums[0] \in 0 .. all
    BY <1>2, <1>3
  <1> QED  BY <1>2, <1>4

LEMMA ReportedMore ==
    ASSUME NEW len, NEW q, NEW all, Reported(len, q, all), NEW n \in Nat
    PROVE  Reported(len, Append(q, n), all + n)
  <1>1. PICK sums : Sums(len, q, all, sums)
    BY DEF Reported
  <1>2. /\ len \in Nat /\ q \in Seq(Nat) /\ sums \in [0 .. Len(q) -> 0 .. all] /\ all \in Nat
        /\ len <= sums[0]
    BY <1>1 DEF Sums
  <1>3. \A i \in 1 .. Len(q) : sums[i] = sums[i - 1] + q[i]
    BY <1>1 DEF Sums
  <1>4. PICK k \in Nat : k = Len(q)
    BY <1>2
  <1>5. PICK p, all1 : p = Append(q, n) /\ all1 = all + n
    OBVIOUS
  <1>6. /\ p \in Seq(Nat) /\ Len(p) = k + 1 /\ p[k + 1] = n /\ \A i \in 1 .. k : p[i] = q[i]
        /\ all1 \in Nat
    BY <1>2, <1>4, <1>5
  <1>7. PICK more : more = [i \in 0 .. k + 1 |-> IF i = k + 1 THEN sums[k] + n ELSE sums[i]]
    OBVIOUS
  <1>8. \A i \in 0 .. k : sums[i] \in 0 .. all /\ sums[i] \in 0 .. all1 /\ sums[i] + n \in 0 .. all1
    BY <1>2, <1>4, <1>5
  <1>9. /\ \A i \in 0 .. k : i \in 0 .. k + 1 /\ i # k + 1
        /\ \A i \in 0 .. k + 1 : i = k + 1 \/ i \in 0 .. k
        /\ k \in 0 .. k /\ k + 1 \in 0 .. k + 1 /\ 0 \in 0 .. k
    OBVIOUS
  <1>10. more \in [0 .. k + 1 -> 0 .. all1]
    BY <1>7, <1>8, <1>9
  <1>11. more[0] = sums[0] /\ len <= more[0]
    BY <1>2, <1>7, <1>9
  <1>12. ASSUME NEW i \in 1 .. k + 1  PROVE more[i] = more[i - 1] + p[i]
    <2>1. CASE i = k + 1
      <3>1. i \in 0 .. k + 1 /\ i - 1 = k
        BY <2>1
      <3>2. more[i] = sums[k] + n /\ more[i - 1] = sums[k]
        BY <1>7, <1>9, <2>1, <3>1
      <3> QED  BY <1>6, <2>1, <3>2
    <2>2. CASE i # k + 1
      <3>1. i \in 1 .. k /\ i \in 0 .. k /\ i - 1 \in 0 .. k
        BY <2>2
      <3>2. more[i] = sums[i] /\ more[i - 1] = sums[i - 1]
        BY <1>7, <1>9, <3>1
      <3> QED  BY <1>3, <1>4, <1>6, <3>1, <3>2
    <2> QED  BY <2>1, <2>2, Zenon
  <1>13. Sums(len, p, all1, more)
    BY <1>2, <1>6, <1>10, <1>11, <1>12 DEF Sums
  <1> QED  BY <1>5, <1>13, Zenon DEF Reported

LEMMA ReportedNext ==
    ASSUME NEW len, NEW q, NEW all, Reported(len, q, all), q # <<>>
    PROVE  /\ Head(q) \in Nat /\ len + Head(q) \in Nat
           /\ Reported(len + Head(q), Tail(q), all)
  <1>1. PICK sums : Sums(len, q, all, sums)
    BY DEF Reported
  <1>2. /\ len \in Nat /\ q \in Seq(Nat) /\ sums \in [0 .. Len(q) -> 0 .. all] /\ all \in Nat
        /\ len <= sums[0]
    BY <1>1 DEF Sums
  <1>3. \A i \in 1 .. Len(q) : sums[i] = sums[i - 1] + q[i]
    BY <1>1 DEF Sums
  <1>4. PICK k \in Nat : Len(q) = k + 1
    <2>1. Len(q) - 1 \in Nat /\ Len(q) = (Len(q) - 1) + 1
      BY <1>2
    <2> QED  BY <2>1, Zenon
  <1>5. PICK h, p : h = Head(q) /\ p = Tail(q)
    OBVIOUS
  <1>6. h \in Nat /\ h = q[1] /\ p \in Seq(Nat) /\ Len(p) = k /\ \A i \in 1 .. k : p[i] = q[i + 1]
    BY <1>2, <1>4, <1>5
  <1>7. PICK rest : rest = [i \in 0 .. k |-> sums[i + 1]]
    OBVIOUS
  <1>8. /\ \A i \in 0 .. k : i + 1 \in 0 .. k + 1 /\ i + 1 \in 1 .. k + 1
        /\ 0 \in 0 .. k /\ 0 + 1 = 1 /\ 1 - 1 = 0 /\ 1 \in 1 .. k + 1 /\ 0 \in 0 .. k + 1
    OBVIOUS
  <1>9. rest \in [0 .. k -> 0 .. all]
    BY <1>2, <1>4, <1>7, <1>8
  <1>10. len + h \in Nat /\ len + h <= rest[0]
    <2>1. rest[0] = sums[1] /\ sums[1] = sums[0] + h
      BY <1>3, <1>4, <1>6, <1>7, <1>8
    <2>2. sums[0] \in 0 .. all
      BY <1>2, <1>4, <1>8
    <2> QED  BY <1>2, <1>6, <2>1, <2>2
  <1>11. ASSUME NEW i \in 1 .. k  PROVE rest[i] = rest[i - 1] + p[i]
    <2>1. i \in 0 .. k /\ i - 1 \in 0 .. k /\ (i - 1) + 1 = i /\ i + 1 \in 1 .. k + 1 /\ (i + 1) - 1 = i
      OBVIOUS
    <2>2. rest[i] = sums[i + 1] /\ rest[i - 1] = sums[i]
      BY <1>7, <2>1
    <2>3. sums[i + 1] = sums[i] + q[i + 1]
      BY <1>3, <1>4, <2>1
    <2> QED  BY <1>6, <2>2, <2>3
  <1>12. Sums(len + h, p, all, rest)
    BY <1>2, <1>6, <1>9, <1>10, <1>11 DEF Sums
  <1>13. Reported(len + h, p, all)
    BY <1>12 DEF Reported
  <1> QED  BY <1>5, <1>6, <1>10, <1>13, Zenon

-----------------------------------------------------------------------------
(* The response and the wire                                                *)

\* An object that has counted on room that is not there says so for good; of one
\* that has not the shapes below say what it has written.
Object ==
    [of : Responses, state : {"HEADERS", "CONTENT", "WAIT_ACK", "END", "FAILED"}, head : Seq(Bytes),
     content : Seq(Bytes), contentLength : Nat, sentLength : Nat, ackedLength : Nat,
     writtenLength : Nat, from : Nat, tries : Nat, lapse : {"none"}]

Lapsed(o) == {"state", "lapse"} \subseteq DOMAIN o /\ o.state # "SETUP" /\ o.lapse # "none"

\* The head and the first "from" bytes of the content.
Beginning(a, from) == Glue(HeadBytes(a.head), Cut(Content(a.content), 0, from))
Whole(a) == Glue(HeadBytes(a.head), Content(a.content))

\* A string: what is left is content, and is as long as the lengths say.
BasicShape(a, state, content, left, w) ==
    /\ state \in {"CONTENT", "WAIT_ACK", "END"}
    /\ state = "CONTENT" => Glue(w, content) = Whole(a) /\ left = Len(content)
    /\ state # "CONTENT" => w = Whole(a)

\* With a length or none: what is left of the head is to come before more content.
PlainShape(a, state, head, from, length, sent, w) ==
    /\ from <= a.content /\ sent = from /\ length = LengthOf(a)
    /\ Glue(w, head) = Beginning(a, from)
    /\ state \notin {"HEADERS", "FAILED"} => head = <<>>
    /\ state \in {"WAIT_ACK", "END"} => from = a.content

\* In chunks: when the head is out, a body of chunks comes behind it, to which
\* an empty one is added at the end.
Chunks(a, from, w) ==
    \E body \in Seq(Bytes) : Framed(body, a.content, from) /\ w = Glue(HeadBytes(a.head), body)
ChunksEnd(a, w) ==
    \E body \in Seq(Bytes) :
       Framed(body, a.content, a.content) /\ w = Glue(HeadBytes(a.head), Glue(body, Chunk(<<>>)))
ChunkedShape(a, state, head, from, w) ==
    /\ from <= a.content
    /\ state = "HEADERS" => Glue(w, head) = HeadBytes(a.head) /\ from = 0
    /\ state \notin {"HEADERS", "FAILED"} => head = <<>>
    /\ state = "CONTENT" => Chunks(a, from, w)
    /\ state \in {"WAIT_ACK", "END"} => ChunksEnd(a, w)
    /\ state = "FAILED" => Glue(w, head) = HeadBytes(a.head) \/ Chunks(a, from, w) \/ ChunksEnd(a, w)

Shape(o, w) ==
    /\ o.of.kind = "basic" =>
         BasicShape(o.of, o.state, o.content, o.contentLength - o.sentLength, w)
    /\ o.of.kind \in {"sized", "unsized"} =>
         PlainShape(o.of, o.state, o.head, o.from, o.contentLength, o.sentLength, w)
    /\ o.of.kind = "chunked" => ChunkedShape(o.of, o.state, o.head, o.from, w)

\* Whose end is acknowledged before it is an end.
Waits(a) == a.kind \in {"basic", "sized"}

\* What is out and not acknowledged has room in the send buffer.
Room == wire \in Seq(Bytes) /\ acked \in Nat /\ acked <= Len(wire) /\ Len(wire) - acked <= SendBuffer

\* The room in the send buffer.
LEMMA SpaceIs ==
    ASSUME Room
    PROVE  Space \in Nat /\ Space = SendBuffer - (Len(wire) - acked) /\ wire \in Seq(Bytes)
  BY ResponseAssumption DEF Room, Space

\* What is joined, in the opaque form.
LEMMA Glued ==
    ASSUME NEW a \in Seq(Bytes), NEW b \in Seq(Bytes)
    PROVE  /\ Glue(a, b) \in Seq(Bytes) /\ Len(Glue(a, b)) = Len(a) + Len(b)
           /\ Glue(a, <<>>) = a /\ Glue(<<>>, a) = a
  <1>1. /\ a \o b \in Seq(Bytes) /\ Len(a \o b) = Len(a) + Len(b)
        /\ a \o <<>> = a /\ <<>> \o a = a
    BY Joined
  <1> QED  BY <1>1, Zenon DEF Glue

LEMMA Reglued ==
    ASSUME NEW a \in Seq(Bytes), NEW b \in Seq(Bytes), NEW d \in Seq(Bytes)
    PROVE  Glue(Glue(a, b), d) = Glue(a, Glue(b, d))
  BY Regrouped, Zenon DEF Glue

\* The object goes on as o, and all of what it writes goes out.
LEMMA GoesOut ==
    ASSUME Room, NEW o \in Object, NEW bytes \in Seq(Bytes), Len(bytes) <= Space, Writes(o, bytes)
    PROVE  /\ wire' = Glue(wire, bytes) /\ wire' \in Seq(Bytes) /\ Len(wire') = Len(wire) + Len(bytes)
           /\ s' = [o EXCEPT !.writtenLength = @ + Len(bytes)]
  <1>1. PICK n \in Nat : n = Len(bytes)
    OBVIOUS
  <1>2. Space \in Nat /\ wire \in Seq(Bytes)
    BY SpaceIs
  <1>3. Fit(bytes) = SubSeq(bytes, 1, n)
    <2>1. ~(Len(bytes) > Space)
      BY <1>1, <1>2
    <2> QED  BY <1>1, <2>1, Zenon DEF Fit
  <1>4. SubSeq(bytes, 1, n) = Cut(bytes, 0, n)
    BY DEF Cut
  <1>5. Fit(bytes) = bytes
    BY <1>1, <1>3, <1>4, CutWhole, Zenon
  <1>6. wire' = wire \o bytes /\ s' = [o EXCEPT !.writtenLength = @ + Len(bytes)]
    BY <1>5, Zenon DEF Writes
  <1>7. wire' = Glue(wire, bytes)
    BY <1>6, Zenon DEF Glue
  <1>8. Glue(wire, bytes) \in Seq(Bytes) /\ Len(Glue(wire, bytes)) = Len(wire) + Len(bytes)
    BY <1>2, Glued
  <1> QED  BY <1>6, <1>7, <1>8, Zenon

\* The object after writing n bytes.
LEMMA Written ==
    ASSUME NEW o \in Object, NEW n \in Nat, NEW o1, o1 = [o EXCEPT !.writtenLength = @ + n]
    PROVE  /\ o1 \in Object /\ o1.writtenLength = o.writtenLength + n
           /\ o1.of = o.of /\ o1.state = o.state /\ o1.head = o.head /\ o1.content = o.content
           /\ o1.contentLength = o.contentLength /\ o1.sentLength = o.sentLength
           /\ o1.ackedLength = o.ackedLength /\ o1.from = o.from
  <1>1. o.writtenLength + n \in Nat
    BY DEF Object
  <1> QED  BY <1>1 DEF Object

\* What an answer has done, going on with the object o.
Goes(o) ==
    /\ s' \in Object /\ s'.of = o.of /\ s'.ackedLength = o.ackedLength /\ s'.writtenLength = Len(wire')
    /\ wire' \in Seq(Bytes) /\ Len(wire) <= Len(wire') /\ Len(wire') <= Len(wire) + Space
    /\ Shape(s', wire')
    /\ s'.state = "END" /\ Waits(s'.of) => Len(wire') <= o.ackedLength
Answered(o) == Lapsed(s') \/ Goes(o)

\* An answer that writes all of the bytes, and one that writes none.
LEMMA Sends ==
    ASSUME Room, NEW o, NEW o1 \in Object, o1.of = o.of, o1.ackedLength = o.ackedLength,
           o1.writtenLength = Len(wire), o1.state # "END",
           NEW bytes \in Seq(Bytes), Len(bytes) <= Space, Writes(o1, bytes), Shape(o1, Glue(wire, bytes))
    PROVE  Answered(o)
  <1>1. /\ wire' = Glue(wire, bytes) /\ wire' \in Seq(Bytes) /\ Len(wire') = Len(wire) + Len(bytes)
        /\ s' = [o1 EXCEPT !.writtenLength = @ + Len(bytes)]
    BY GoesOut
  <1>2. PICK n \in Nat : n = Len(bytes)
    OBVIOUS
  <1>3. PICK o2 : o2 = s'
    OBVIOUS
  <1>4. o2 = [o1 EXCEPT !.writtenLength = @ + n]
    BY <1>1, <1>2, <1>3, Zenon
  <1>5. /\ o2 \in Object /\ o2.writtenLength = o1.writtenLength + n
        /\ o2.of = o1.of /\ o2.state = o1.state /\ o2.head = o1.head /\ o2.content = o1.content
        /\ o2.contentLength = o1.contentLength /\ o2.sentLength = o1.sentLength
        /\ o2.ackedLength = o1.ackedLength /\ o2.from = o1.from
    BY <1>4, Written
  <1>6. Shape(o2, wire')
    BY <1>1, <1>5, Zenon DEF Shape
  <1>7. Len(wire) <= Len(wire') /\ Len(wire') <= Len(wire) + Space
    BY <1>1, <1>2, SpaceIs
  <1>8. o2.writtenLength = Len(wire')
    BY <1>1, <1>2, <1>5
  <1>9. /\ s' \in Object /\ s'.of = o.of /\ s'.ackedLength = o.ackedLength 
        /\ s'.writtenLength = Len(wire') /\ s'.state # "END"
    BY <1>3, <1>5, <1>8, Zenon
  <1> QED  BY <1>1, <1>3, <1>6, <1>7, <1>9, Zenon DEF Answered, Goes

LEMMA SendsNothing ==
    ASSUME Room, NEW o, NEW o1 \in Object, o1.of = o.of, o1.ackedLength = o.ackedLength,
           o1.writtenLength = Len(wire), WritesNothing(o1), Shape(o1, wire),
           o1.state = "END" /\ Waits(o1.of) => Len(wire) <= o.ackedLength
    PROVE  Answered(o)
  <1>1. s' = o1 /\ wire' = wire
    BY DEF WritesNothing
  <1>2. Len(wire) <= Len(wire') /\ Len(wire') <= Len(wire) + Space /\ wire' \in Seq(Bytes)
    BY <1>1, SpaceIs
  <1> QED  BY <1>1, <1>2, Zenon DEF Answered, Goes

\* The object that writes nothing, and says that it has lapsed.
LEMMA Lapses ==
    ASSUME NEW o, NEW o1, WritesNothing(o1), Lapsed(o1)
    PROVE  Answered(o)
  BY DEF WritesNothing, Answered

\* The object o1 is o with these values.
Becomes(o, o1, state, head, content, contentLength, sentLength, from) ==
    /\ o1 \in Object /\ o1.of = o.of /\ o1.ackedLength = o.ackedLength /\ o1.writtenLength = o.writtenLength
    /\ o1.state = state /\ o1.head = head /\ o1.content = content
    /\ o1.contentLength = contentLength /\ o1.sentLength = sentLength /\ o1.from = from

States == {"HEADERS", "CONTENT", "WAIT_ACK", "END", "FAILED"}

\* The updates that the code makes, one lemma for each form.
LEMMA BecomesBasic ==
    ASSUME NEW o \in Object, NEW h \in Seq(Bytes), NEW c \in Seq(Bytes), NEW o1,
           o1 = [o EXCEPT !.head = h, !.content = c]
    PROVE  Becomes(o, o1, o.state, h, c, o.contentLength, o.sentLength, o.from)
  BY DEF Object, Becomes

LEMMA BecomesState ==
    ASSUME NEW o \in Object, NEW st \in States, NEW o1, o1 = [o EXCEPT !.state = st]
    PROVE  Becomes(o, o1, st, o.head, o.content, o.contentLength, o.sentLength, o.from)
  BY DEF Object, Becomes, States

LEMMA BecomesLonger ==
    ASSUME NEW o \in Object, NEW st \in States, NEW cl \in Nat, NEW c \in Seq(Bytes), NEW o1,
           o1 = [o EXCEPT !.state = st, !.contentLength = cl, !.content = c]
    PROVE  Becomes(o, o1, st, o.head, c, cl, o.sentLength, o.from)
  BY DEF Object, Becomes, States

LEMMA BecomesSent ==
    ASSUME NEW o \in Object, NEW st \in States, NEW sl \in Nat, NEW c \in Seq(Bytes), NEW o1,
           o1 = [o EXCEPT !.state = st, !.sentLength = sl, !.content = c]
    PROVE  Becomes(o, o1, st, o.head, c, o.contentLength, sl, o.from)
  BY DEF Object, Becomes, States

LEMMA BecomesFilled ==
    ASSUME NEW o \in Object, NEW st \in States, NEW h \in Seq(Bytes), NEW f \in Nat, NEW sl \in Nat, NEW o1,
           o1 = [o EXCEPT !.head = h, !.from = f, !.sentLength = sl, !.state = st]
    PROVE  Becomes(o, o1, st, h, o.content, o.contentLength, sl, f)
  BY DEF Object, Becomes, States

LEMMA BecomesTried ==
    ASSUME NEW o \in Object, NEW t \in Nat, NEW o1, o1 = [[o EXCEPT !.tries = t] EXCEPT !.lapse = "none"]
    PROVE  Becomes(o, o1, o.state, o.head, o.content, o.contentLength, o.sentLength, o.from)
  BY DEF Object, Becomes

LEMMA BecomesAcked ==
    ASSUME NEW o \in Object, NEW n \in Nat, NEW o1, o1 = [o EXCEPT !.ackedLength = n]
    PROVE  /\ o1 \in Object /\ o1.of = o.of /\ o1.ackedLength = n /\ o1.writtenLength = o.writtenLength
           /\ o1.state = o.state /\ o1.head = o.head /\ o1.content = o.content
           /\ o1.contentLength = o.contentLength /\ o1.sentLength = o.sentLength /\ o1.from = o.from
  BY DEF Object

LEMMA BecomesShorter ==
    ASSUME NEW o \in Object, NEW sl \in Nat, NEW c \in Seq(Bytes), NEW o1,
           o1 = [o EXCEPT !.sentLength = sl, !.content = c]
    PROVE  Becomes(o, o1, o.state, o.head, c, o.contentLength, sl, o.from)
  BY DEF Object, Becomes

LEMMA BecomesEmpty ==
    ASSUME NEW o \in Object, NEW st \in States, NEW c \in Seq(Bytes), NEW o1,
           o1 = [o EXCEPT !.state = st, !.content = c]
    PROVE  Becomes(o, o1, st, o.head, c, o.contentLength, o.sentLength, o.from)
  BY DEF Object, Becomes, States

LEMMA BecomesOut ==
    ASSUME NEW o \in Object, NEW h \in Seq(Bytes), NEW o1, o1 = [o EXCEPT !.head = h]
    PROVE  Becomes(o, o1, o.state, h, o.content, o.contentLength, o.sentLength, o.from)
  BY DEF Object, Becomes

\* What the assumption says of a response.
LEMMA ResponseIs ==
    ASSUME NEW a \in Responses
    PROVE  /\ a.kind \in {"basic", "sized", "unsized", "chunked"} /\ a.head \in Nat /\ a.content \in Nat
           /\ LengthOf(a) \in Nat
           /\ HeadBytes(a.head) \in Seq(Bytes) /\ Len(HeadBytes(a.head)) = a.head
           /\ Content(a.content) \in Seq(Bytes) /\ Len(Content(a.content)) = a.content
  <1>1. a.kind \in {"basic", "sized", "unsized", "chunked"} /\ a.head \in Nat /\ a.content \in Nat
    BY ResponseAssumption
  <1>2. LengthOf(a) \in Nat
    BY <1>1 DEF LengthOf
  <1> QED  BY <1>1, <1>2, HeadIs, ContentIs

\* A sequence cut in two.
LEMMA Split ==
    ASSUME NEW a \in Seq(Bytes), NEW m \in Nat, m <= Len(a)
    PROVE  /\ Cut(a, 0, m) \in Seq(Bytes) /\ Len(Cut(a, 0, m)) = m
           /\ Cut(a, m, Len(a)) \in Seq(Bytes) /\ Len(Cut(a, m, Len(a))) = Len(a) - m
           /\ Glue(Cut(a, 0, m), Cut(a, m, Len(a))) = a
  <1>1. PICK n \in Nat, l \in Nat : n = Len(a) /\ l = 0
    <2>1. Len(a) \in Nat /\ 0 \in Nat
      OBVIOUS
    <2> QED  BY <2>1, Zenon
  <1>2. l <= m /\ m <= n /\ n <= Len(a) /\ l <= n /\ m <= Len(a) /\ m - l = m
    BY <1>1
  <1>3. Cut(a, l, m) \in Seq(Bytes) /\ Len(Cut(a, l, m)) = m - l
    BY <1>2, CutIs
  <1>4. Cut(a, m, n) \in Seq(Bytes) /\ Len(Cut(a, m, n)) = n - m
    BY <1>2, CutIs
  <1>5. Glue(Cut(a, l, m), Cut(a, m, n)) = Cut(a, l, n)
    BY <1>2, CutJoin
  <1>6. Cut(a, l, n) = a
    BY <1>1, CutWhole, Zenon
  <1> QED  BY <1>1, <1>2, <1>3, <1>4, <1>5, <1>6, Zenon

\* The first answer of a string.
LEMMA BasicAnswers ==
    ASSUME Room, wire = <<>>, NEW o \in Object, o.of.kind = "basic", o.writtenLength = Len(wire),
           o.head = HeadBytes(o.of.head), o.contentLength = o.of.content, o.sentLength = 0, BasicRespond(o)
    PROVE  Answered(o)
  <1> DEFINE out == o.head
             content == Content(o.of.content)
             o1 == [o EXCEPT !.head = <<>>, !.content = content]
             n == Len(out)
             shift == Space - n
  <1>1. \/ Space >= n + Len(content) /\ Writes([o1 EXCEPT !.state = "WAIT_ACK"], out \o content)
        \/ /\ Space > 0 /\ Space < n
           /\ Writes([o1 EXCEPT !.state = "CONTENT", !.contentLength = @ + n - Space,
                                !.content = SubSeq(out, Space + 1, n) \o content],
                     SubSeq(out, 1, Space))
        \/ /\ Space > n /\ Space < n + Len(content)
           /\ Writes([o1 EXCEPT !.state = "CONTENT", !.sentLength = shift,
                                !.content = SubSeq(content, shift + 1, Len(content))],
                     out \o SubSeq(content, 1, shift))
        \/ WritesNothing([o1 EXCEPT !.state = "CONTENT", !.contentLength = @ + n,
                                    !.content = out \o content])
    BY Zenon DEF BasicRespond
  <1>12. PICK x, t : x = out /\ t = content
    OBVIOUS
  <1>13. PICK sp \in Nat, k \in Nat, l \in Nat : sp = Space /\ k = Len(x) /\ l = Len(t)
    <2>1. Space \in Nat /\ Len(out) \in Nat /\ Len(content) \in Nat
      BY SpaceIs, ResponseIs DEF Object
    <2>2. Space \in Nat /\ Len(x) \in Nat /\ Len(t) \in Nat
      BY <1>12, <2>1, Zenon
    <2> QED  BY <2>2, Zenon
  <1>2. x = out /\ t = content /\ sp = Space /\ k = Len(x) /\ l = Len(t)
    BY <1>12, <1>13, Zenon
  <1>3. /\ x \in Seq(Bytes) /\ t \in Seq(Bytes) /\ o.contentLength = l
        /\ Glue(x, t) = Whole(o.of) /\ Glue(x, t) \in Seq(Bytes) /\ Len(Glue(x, t)) = k + l
    <2>1. o.of \in Responses
      BY DEF Object
    <2>2. x \in Seq(Bytes) /\ t \in Seq(Bytes) /\ o.contentLength = l
      BY <1>2, <2>1, ResponseIs
    <2>3. Glue(x, t) \in Seq(Bytes) /\ Len(Glue(x, t)) = Len(x) + Len(t)
      BY <2>2, Glued
    <2> QED  BY <1>2, <2>2, <2>3, Zenon DEF Whole
  <1>4. wire \in Seq(Bytes) /\ "CONTENT" \in States /\ "WAIT_ACK" \in States
    BY SpaceIs DEF States
  <1>9. PICK p : p = o1
    OBVIOUS
  <1>10. Becomes(o, p, o.state, <<>>, t, l, 0, o.from)
    <2>1. p = [o EXCEPT !.head = <<>>, !.content = t]
      BY <1>2, <1>9, Zenon
    <2>2. Becomes(o, p, o.state, <<>>, t, o.contentLength, o.sentLength, o.from)
      BY <1>3, <2>1, NoBytes, BecomesBasic
    <2> QED  BY <1>3, <2>2, Zenon
  <1>11. /\ p \in Object /\ p.of = o.of /\ p.ackedLength = o.ackedLength /\ p.writtenLength = o.writtenLength
         /\ p.head = <<>> /\ p.content = t /\ p.contentLength = l /\ p.sentLength = 0
    BY <1>10, Zenon DEF Becomes
  <1>5. CASE Space >= n + Len(content) /\ Writes([o1 EXCEPT !.state = "WAIT_ACK"], out \o content)
    <2>1. PICK o2, b : o2 = [o1 EXCEPT !.state = "WAIT_ACK"] /\ b = Glue(x, t)
      OBVIOUS
    <2>2. Writes(o2, b)
      BY <1>2, <1>5, <2>1, Zenon DEF Glue
    <2>3. /\ o2 \in Object /\ o2.of = o.of /\ o2.ackedLength = o.ackedLength
          /\ o2.writtenLength = Len(wire) /\ o2.state = "WAIT_ACK"
      <3>1. o2 = [p EXCEPT !.state = "WAIT_ACK"]
        BY <1>9, <2>1, Zenon
      <3>2. Becomes(p, o2, "WAIT_ACK", p.head, p.content, p.contentLength, p.sentLength, p.from)
        BY <1>4, <1>11, <3>1, BecomesState
      <3> QED  BY <1>11, <3>2, Zenon DEF Becomes
    <2>4. b \in Seq(Bytes) /\ Len(b) <= Space
      BY <1>2, <1>3, <1>5, <2>1
    <2>5. Glue(wire, b) = Whole(o.of)
      BY <1>3, <2>1, <2>4, Glued
    <2>6. Shape(o2, Glue(wire, b))
      BY <2>3, <2>5 DEF Shape, BasicShape
    <2> QED  BY <2>2, <2>3, <2>4, <2>6, Sends
  <1>6. CASE /\ Space > 0 /\ Space < n
             /\ Writes([o1 EXCEPT !.state = "CONTENT", !.contentLength = @ + n - Space,
                                  !.content = SubSeq(out, Space + 1, n) \o content],
                       SubSeq(out, 1, Space))
    <2>1. PICK b, y : b = Cut(x, 0, sp) /\ y = Cut(x, sp, k)
      OBVIOUS
    <2>2. sp <= Len(x) /\ k - sp \in Nat
      BY <1>2, <1>6
    <2>3. /\ b \in Seq(Bytes) /\ Len(b) = sp /\ y \in Seq(Bytes) /\ Len(y) = k - sp /\ Glue(b, y) = x
      BY <1>2, <1>3, <2>1, <2>2, Split
    <2>4. PICK z : z = Glue(y, t)
      OBVIOUS
    <2>5. z \in Seq(Bytes) /\ Len(z) = (k - sp) + l /\ Glue(b, z) = Glue(x, t)
      <3>1. z \in Seq(Bytes) /\ Len(z) = Len(y) + Len(t)
        BY <1>3, <2>3, <2>4, Glued
      <3>2. Glue(Glue(b, y), t) = Glue(b, Glue(y, t))
        BY <1>3, <2>3, Reglued
      <3> QED  BY <1>2, <2>3, <2>4, <3>1, <3>2, Zenon
    <2>6. PICK o2 : o2 = [o1 EXCEPT !.state = "CONTENT", !.contentLength = @ + n - Space,
                                    !.content = SubSeq(out, Space + 1, n) \o content]
      OBVIOUS
    <2>7. Writes(o2, b)
      <3>1. b = SubSeq(out, 1, Space)
        BY <1>2, <2>1 DEF Cut
      <3> QED  BY <1>6, <2>6, <3>1, Zenon
    <2>8. SubSeq(out, Space + 1, n) \o content = z
      BY <1>2, <2>1, <2>4, Zenon DEF Cut, Glue
    <2>9. o2 = [o1 EXCEPT !.state = "CONTENT", !.contentLength = @ + n - Space, !.content = z]
      BY <2>6, <2>8, Zenon
    <2>10. l + k - sp \in Nat /\ l + k - sp - 0 = Len(z)
      BY <2>2, <2>5
    <2>11. /\ o2 \in Object /\ o2.of = o.of /\ o2.ackedLength = o.ackedLength
           /\ o2.writtenLength = Len(wire) /\ o2.state = "CONTENT" /\ o2.content = z
           /\ o2.contentLength = l + k - sp /\ o2.sentLength = 0
      <3>1. PICK cl \in Nat : cl = l + k - sp
        BY <2>10
      <3>2. o1.contentLength + n - Space = cl
        BY <1>2, <1>9, <1>11, <3>1
      <3>3. o2 = [p EXCEPT !.state = "CONTENT", !.contentLength = cl, !.content = z]
        BY <1>9, <2>9, <3>2, Zenon
      <3>4. Becomes(p, o2, "CONTENT", p.head, z, cl, p.sentLength, p.from)
        BY <1>4, <1>11, <2>5, <3>3, BecomesLonger
      <3> QED  BY <1>11, <3>1, <3>4, Zenon DEF Becomes
    <2>12. Glue(wire, b) = b /\ Len(b) <= Space
      BY <1>2, <2>3, Glued
    <2>13. Shape(o2, Glue(wire, b))
      <3>1. o2.contentLength - o2.sentLength = Len(z)
        BY <2>10, <2>11
      <3>2. Glue(Glue(wire, b), z) = Whole(o.of)
        BY <1>3, <2>5, <2>12, Zenon
      <3> QED  BY <2>11, <3>1, <3>2 DEF Shape, BasicShape
    <2> QED  BY <2>3, <2>7, <2>11, <2>12, <2>13, Sends
  <1>7. CASE /\ Space > n /\ Space < n + Len(content)
             /\ Writes([o1 EXCEPT !.state = "CONTENT", !.sentLength = shift,
                                  !.content = SubSeq(content, shift + 1, Len(content))],
                       out \o SubSeq(content, 1, shift))
    <2>1. PICK m \in Nat : m = shift /\ m = sp - k /\ m <= l
      <3>1. shift \in Nat /\ shift = sp - k /\ shift <= l
        BY <1>2, <1>7
      <3> QED  BY <3>1, Zenon
    <2>2. PICK y, z : y = Cut(t, 0, m) /\ z = Cut(t, m, l)
      OBVIOUS
    <2>3. /\ y \in Seq(Bytes) /\ Len(y) = m /\ z \in Seq(Bytes) /\ Len(z) = l - m /\ Glue(y, z) = t
      <3>1. m <= Len(t) /\ Len(t) = l
        BY <1>2, <2>1
      <3>2. /\ Cut(t, 0, m) \in Seq(Bytes) /\ Len(Cut(t, 0, m)) = m
            /\ Cut(t, m, Len(t)) \in Seq(Bytes) /\ Len(Cut(t, m, Len(t))) = Len(t) - m
            /\ Glue(Cut(t, 0, m), Cut(t, m, Len(t))) = t
        BY <1>3, <3>1, Split, Zenon
      <3> QED  BY <2>2, <3>1, <3>2, Zenon
    <2>4. PICK b : b = Glue(x, y)
      OBVIOUS
    <2>5. b \in Seq(Bytes) /\ Len(b) = Len(x) + Len(y) /\ Glue(b, z) = Glue(x, t)
      <3>1. b \in Seq(Bytes) /\ Len(b) = Len(x) + Len(y)
        BY <1>3, <2>3, <2>4, Glued
      <3>2. Glue(Glue(x, y), z) = Glue(x, Glue(y, z))
        BY <1>3, <2>3, Reglued
      <3> QED  BY <2>3, <2>4, <3>1, <3>2, Zenon
    <2>6. PICK o2 : o2 = [o1 EXCEPT !.state = "CONTENT", !.sentLength = shift,
                                    !.content = SubSeq(content, shift + 1, Len(content))]
      OBVIOUS
    <2>7. Writes(o2, b)
      <3>1. y = SubSeq(content, 1, shift)
        BY <1>2, <2>1, <2>2 DEF Cut
      <3>2. b = out \o SubSeq(content, 1, shift)
        BY <1>2, <2>4, <3>1, Zenon DEF Glue
      <3> QED  BY <1>7, <2>6, <3>2, Zenon
    <2>8. SubSeq(content, shift + 1, Len(content)) = z
      BY <1>2, <2>1, <2>2, Zenon DEF Cut
    <2>9. o2 = [o1 EXCEPT !.state = "CONTENT", !.sentLength = m, !.content = z]
      BY <2>1, <2>6, <2>8, Zenon
    <2>10. /\ o2 \in Object /\ o2.of = o.of /\ o2.ackedLength = o.ackedLength
           /\ o2.writtenLength = Len(wire) /\ o2.state = "CONTENT" /\ o2.content = z
           /\ o2.contentLength = l /\ o2.sentLength = m
      <3>1. o2 = [p EXCEPT !.state = "CONTENT", !.sentLength = m, !.content = z]
        BY <1>9, <2>9, Zenon
      <3>2. Becomes(p, o2, "CONTENT", p.head, z, p.contentLength, m, p.from)
        BY <1>4, <1>11, <2>3, <3>1, BecomesSent
      <3> QED  BY <1>11, <3>2, Zenon DEF Becomes
    <2>11. Len(b) <= Space
      BY <1>2, <2>1, <2>3, <2>5
    <2>12. Glue(wire, b) = b
      BY <2>5, Glued
    <2>13. Shape(o2, Glue(wire, b))
      <3>1. o2.contentLength - o2.sentLength = Len(z)
        BY <2>3, <2>10
      <3>2. Glue(Glue(wire, b), z) = Whole(o.of)
        BY <1>3, <2>5, <2>12, Zenon
      <3> QED  BY <2>10, <3>1, <3>2 DEF Shape, BasicShape
    <2> QED  BY <2>5, <2>7, <2>10, <2>11, <2>13, Sends
  <1>8. CASE WritesNothing([o1 EXCEPT !.state = "CONTENT", !.contentLength = @ + n,
                                      !.content = out \o content])
    <2>1. PICK o2, z : /\ o2 = [o1 EXCEPT !.state = "CONTENT", !.contentLength = @ + n,
                                          !.content = out \o content]
                       /\ z = Glue(x, t)
      OBVIOUS
    <2>2. out \o content = z
      BY <1>2, <2>1, Zenon DEF Glue
    <2>3. o2 = [o1 EXCEPT !.state = "CONTENT", !.contentLength = @ + n, !.content = z]
      BY <2>1, <2>2, Zenon
    <2>4. z \in Seq(Bytes) /\ Len(z) = l + k /\ l + k \in Nat /\ l + k - 0 = Len(z)
      BY <1>3, <2>1
    <2>5. /\ o2 \in Object /\ o2.of = o.of /\ o2.ackedLength = o.ackedLength
          /\ o2.writtenLength = Len(wire) /\ o2.state = "CONTENT" /\ o2.content = z
          /\ o2.contentLength = l + k /\ o2.sentLength = 0
      <3>1. PICK cl \in Nat : cl = l + k
        BY <2>4
      <3>2. o1.contentLength + n = cl
        BY <1>2, <1>9, <1>11, <3>1
      <3>3. o2 = [p EXCEPT !.state = "CONTENT", !.contentLength = cl, !.content = z]
        BY <1>9, <2>3, <3>2, Zenon
      <3>4. Becomes(p, o2, "CONTENT", p.head, z, cl, p.sentLength, p.from)
        BY <1>4, <1>11, <2>4, <3>3, BecomesLonger
      <3> QED  BY <1>11, <3>1, <3>4, Zenon DEF Becomes
    <2>6. Shape(o2, wire)
      <3>1. o2.contentLength - o2.sentLength = Len(z)
        BY <2>4, <2>5
      <3>2. Glue(wire, z) = Whole(o.of)
        BY <1>3, <2>1, <2>4, Glued
      <3> QED  BY <2>5, <3>1, <3>2 DEF Shape, BasicShape
    <2>7. WritesNothing(o2)
      BY <1>8, <2>1, Zenon
    <2> QED  BY <2>5, <2>6, <2>7, SendsNothing
  <1> QED  BY <1>1, <1>5, <1>6, <1>7, <1>8, Zenon

\* A string goes on.
LEMMA BasicGoesOn ==
    ASSUME Room, NEW o \in Object, o.of.kind = "basic", o.writtenLength = Len(wire), Shape(o, wire), BasicAck(o)
    PROVE  Answered(o)
  <1> DEFINE available == o.contentLength - o.sentLength
  <1>1. \/ /\ o.state = "CONTENT" /\ Space > available
           /\ Writes([o EXCEPT !.state = "WAIT_ACK", !.content = <<>>], o.content)
        \/ /\ o.state = "CONTENT" /\ Space <= available
           /\ Writes([o EXCEPT !.sentLength = @ + Space,
                               !.content = SubSeq(o.content, Space + 1, Len(o.content))],
                     SubSeq(o.content, 1, Space))
        \/ /\ o.state = "WAIT_ACK"
           /\ WritesNothing([o EXCEPT !.state = IF o.ackedLength >= o.writtenLength THEN "END" ELSE @])
    BY Zenon DEF BasicAck
  <1>2. BasicShape(o.of, o.state, o.content, o.contentLength - o.sentLength, wire)
    BY Zenon DEF Shape
  <1>3. /\ o.content \in Seq(Bytes) /\ Len(o.content) \in Nat /\ Space \in Nat /\ wire \in Seq(Bytes)
        /\ o.sentLength \in Nat /\ o.contentLength \in Nat
        /\ "CONTENT" \in States /\ "WAIT_ACK" \in States /\ "END" \in States
    BY SpaceIs DEF Object, States
  <1>4. PICK x : x = o.content
    OBVIOUS
  <1>5. PICK sp \in Nat, k \in Nat : sp = Space /\ k = Len(x)
    BY <1>3, <1>4
  <1>6. x \in Seq(Bytes)
    BY <1>3, <1>4
  <1>7. CASE o.state = "CONTENT"
    <2>1. Glue(wire, x) = Whole(o.of) /\ o.contentLength - o.sentLength = k
      BY <1>2, <1>4, <1>5, <1>7 DEF BasicShape
    <2>2. CASE /\ Space > available
               /\ Writes([o EXCEPT !.state = "WAIT_ACK", !.content = <<>>], o.content)
      <3>1. PICK o2 : o2 = [o EXCEPT !.state = "WAIT_ACK", !.content = <<>>]
        OBVIOUS
      <3>2. Becomes(o, o2, "WAIT_ACK", o.head, <<>>, o.contentLength, o.sentLength, o.from)
        BY <1>3, <3>1, NoBytes, BecomesEmpty
      <3>3. /\ o2 \in Object /\ o2.of = o.of /\ o2.ackedLength = o.ackedLength
            /\ o2.writtenLength = Len(wire) /\ o2.state = "WAIT_ACK"
        BY <3>2, Zenon DEF Becomes
      <3>4. Writes(o2, x) /\ Len(x) <= Space
        BY <1>4, <1>5, <2>1, <2>2, <3>1
      <3>5. Shape(o2, Glue(wire, x))
        BY <2>1, <3>3 DEF Shape, BasicShape
      <3> QED  BY <1>6, <3>3, <3>4, <3>5, Sends
    <2>3. CASE /\ Space <= available
               /\ Writes([o EXCEPT !.sentLength = @ + Space,
                                   !.content = SubSeq(o.content, Space + 1, Len(o.content))],
                         SubSeq(o.content, 1, Space))
      <3>1. sp <= k
        BY <1>5, <2>1, <2>3
      <3>2. PICK b, z : b = Cut(x, 0, sp) /\ z = Cut(x, sp, k)
        OBVIOUS
      <3>3. /\ b \in Seq(Bytes) /\ Len(b) = sp /\ z \in Seq(Bytes) /\ Len(z) = k - sp /\ Glue(b, z) = x
        <4>1. /\ Cut(x, 0, sp) \in Seq(Bytes) /\ Len(Cut(x, 0, sp)) = sp
              /\ Cut(x, sp, Len(x)) \in Seq(Bytes) /\ Len(Cut(x, sp, Len(x))) = Len(x) - sp
              /\ Glue(Cut(x, 0, sp), Cut(x, sp, Len(x))) = x
          BY <1>5, <1>6, <3>1, Split
        <4> QED  BY <1>5, <3>2, <4>1, Zenon
      <3>4. PICK o2 : o2 = [o EXCEPT !.sentLength = @ + Space,
                                     !.content = SubSeq(o.content, Space + 1, Len(o.content))]
        OBVIOUS
      <3>5. PICK sl \in Nat : sl = o.sentLength + Space
        BY <1>3
      <3>6. SubSeq(o.content, Space + 1, Len(o.content)) = z
        BY <1>4, <1>5, <3>2, Zenon DEF Cut
      <3>7. o2 = [o EXCEPT !.sentLength = sl, !.content = z]
        BY <3>4, <3>5, <3>6, Zenon
      <3>8. Becomes(o, o2, o.state, o.head, z, o.contentLength, sl, o.from)
        BY <3>3, <3>7, BecomesShorter
      <3>9. /\ o2 \in Object /\ o2.of = o.of /\ o2.ackedLength = o.ackedLength
            /\ o2.writtenLength = Len(wire) /\ o2.state = "CONTENT" /\ o2.content = z
            /\ o2.contentLength = o.contentLength /\ o2.sentLength = sl
        BY <1>7, <3>8, Zenon DEF Becomes
      <3>10. Writes(o2, b)
        <4>1. b = SubSeq(o.content, 1, Space)
          BY <1>4, <1>5, <3>2 DEF Cut
        <4> QED  BY <2>3, <3>4, <4>1, Zenon
      <3>11. o2.contentLength - o2.sentLength = Len(z)
        <4>1. PICK cl \in Nat, sent \in Nat : cl = o.contentLength /\ sent = o.sentLength
          BY <1>3, Zenon
        <4>2. sl = sent + sp /\ cl - sent = k
          BY <1>5, <2>1, <3>5, <4>1, Zenon
        <4>3. cl - sl = k - sp
          BY <4>2
        <4> QED  BY <3>3, <3>9, <4>1, <4>3, Zenon
      <3>12. Glue(Glue(wire, b), z) = Whole(o.of)
        <4>1. Glue(Glue(wire, b), z) = Glue(wire, Glue(b, z))
          BY <1>3, <3>3, Reglued
        <4> QED  BY <2>1, <3>3, <4>1, Zenon
      <3>13. Shape(o2, Glue(wire, b))
        BY <3>9, <3>11, <3>12 DEF Shape, BasicShape
      <3>14. Len(b) <= Space
        BY <1>5, <3>3
      <3> QED  BY <3>3, <3>9, <3>10, <3>13, <3>14, Sends
    <2> QED  BY <1>1, <1>7, <2>2, <2>3
  <1>8. CASE /\ o.state = "WAIT_ACK"
             /\ WritesNothing([o EXCEPT !.state = IF o.ackedLength >= o.writtenLength THEN "END" ELSE @])
    <2>1. PICK st \in States : st = IF o.ackedLength >= o.writtenLength THEN "END" ELSE o.state
      BY <1>3, <1>8
    <2>2. PICK o2 : o2 = [o EXCEPT !.state = IF o.ackedLength >= o.writtenLength THEN "END" ELSE @]
      OBVIOUS
    <2>3. o2 = [o EXCEPT !.state = st]
      BY <2>1, <2>2, Zenon
    <2>4. Becomes(o, o2, st, o.head, o.content, o.contentLength, o.sentLength, o.from)
      BY <2>3, BecomesState
    <2>5. /\ o2 \in Object /\ o2.of = o.of /\ o2.ackedLength = o.ackedLength
          /\ o2.writtenLength = Len(wire) /\ o2.state = st
      BY <2>4, Zenon DEF Becomes
    <2>6. wire = Whole(o.of) /\ st \in {"WAIT_ACK", "END"}
      BY <1>2, <1>8, <2>1 DEF BasicShape
    <2>7. Shape(o2, wire)
      BY <2>5, <2>6 DEF Shape, BasicShape
    <2>8. o2.state = "END" => Len(wire) <= o.ackedLength
      <3>1. Len(wire) \in Nat /\ o.ackedLength \in Nat
        BY <1>3 DEF Object
      <3> QED  BY <1>8, <2>1, <2>5, <3>1
    <2>9. WritesNothing(o2)
      BY <1>8, <2>2, Zenon
    <2> QED  BY <2>5, <2>7, <2>8, <2>9, SendsNothing
  <1> QED  BY <1>1, <1>7, <1>8, Zenon

-----------------------------------------------------------------------------
(* A response that is not in chunks                                          *)

\* A fill without a buffer: the object tries again, or has lapsed.
LEMMA NothingFilled ==
    ASSUME Room, NEW o \in Object, o.writtenLength = Len(wire), o.state = "CONTENT",
           o.head = <<>> => Shape(o, wire), WithoutFill(o) \/ TryAgain(o)
    PROVE  Answered(o)
  <1>1. PICK t \in Nat : WithoutFill([o EXCEPT !.tries = t])
    <2>1. CASE WithoutFill(o)
      <3>1. o.tries \in Nat /\ o = [o EXCEPT !.tries = o.tries]
        BY DEF Object
      <3> QED  BY <2>1, <3>1, Zenon
    <2>2. CASE TryAgain(o)
      <3>1. o.tries + 1 \in Nat
        BY DEF Object
      <3> QED  BY <2>2, <3>1, Zenon DEF TryAgain
    <2> QED  BY <2>1, <2>2, Zenon
  <1>2. PICK o1 : o1 = [o EXCEPT !.tries = t]
    OBVIOUS
  <1>3. o1.head = o.head /\ o1.lapse = "none" /\ {"state", "lapse"} \subseteq DOMAIN o1 /\ o1.state = "CONTENT"
    BY <1>2 DEF Object
  <1>4. PICK o2 : o2 = [o1 EXCEPT !.lapse = IF o1.head = <<>> THEN @ ELSE "kept"] /\ WritesNothing(o2)
    BY <1>1, <1>2, Zenon DEF WithoutFill
  <1>5. CASE o.head = <<>>
    <2>1. o2 = [[o EXCEPT !.tries = t] EXCEPT !.lapse = "none"]
      BY <1>2, <1>3, <1>4, <1>5, Zenon
    <2>2. Becomes(o, o2, o.state, o.head, o.content, o.contentLength, o.sentLength, o.from)
      BY <2>1, BecomesTried
    <2>3. /\ o2 \in Object /\ o2.of = o.of /\ o2.ackedLength = o.ackedLength /\ o2.writtenLength = Len(wire)
          /\ o2.state = "CONTENT" /\ o2.state # "END"
      BY <2>2, Zenon DEF Becomes
    <2>4. Shape(o2, wire)
      BY <1>5, <2>2, Zenon DEF Becomes, Shape
    <2> QED  BY <1>4, <2>3, <2>4, SendsNothing
  <1>6. CASE o.head # <<>>
    <2>1. o2 = [o1 EXCEPT !.lapse = "kept"]
      BY <1>3, <1>4, <1>6, Zenon
    <2>2. Lapsed(o2)
      BY <1>3, <2>1 DEF Lapsed
    <2> QED  BY <1>4, <2>2, Lapses
  <1> QED  BY <1>5, <1>6, Zenon

\* A filler gives no more than it is asked for, nor than there is.
LEMMA FillsIs ==
    ASSUME NEW o \in Object, NEW room \in Nat, o.from <= o.of.content, NEW n \in Fills(o, room)
    PROVE  /\ n \in Nat /\ n <= room /\ o.from + n \in Nat /\ o.from + n <= o.of.content
           /\ n = 0 /\ room > 0 => o.from = o.of.content
  <1>1. PICK f \in Nat, c \in Nat : f = o.from /\ c = o.of.content
    BY ResponseIs DEF Object
  <1>2. n \in IF (IF room < c - f THEN room ELSE c - f) = 0 THEN {0}
              ELSE {1, IF room < c - f THEN room ELSE c - f}
    BY <1>1, Zenon DEF Fills
  <1>3. f <= c
    BY <1>1
  <1>4. n \in Nat /\ n <= room /\ f + n \in Nat /\ f + n <= c /\ (n = 0 /\ room > 0 => f = c)
    BY <1>2, <1>3
  <1> QED  BY <1>1, <1>4, Zenon

\* What comes behind a beginning.
LEMMA BeginsMore ==
    ASSUME NEW a \in Responses, NEW from \in Nat, NEW to \in Nat, from <= to, to <= a.content
    PROVE  /\ Cut(Content(a.content), from, to) \in Seq(Bytes)
           /\ Len(Cut(Content(a.content), from, to)) = to - from
           /\ Glue(Beginning(a, from), Cut(Content(a.content), from, to)) = Beginning(a, to)
  <1>1. PICK h, t : h = HeadBytes(a.head) /\ t = Content(a.content)
    OBVIOUS
  <1>2. h \in Seq(Bytes) /\ t \in Seq(Bytes) /\ Len(t) = a.content
    BY <1>1, ResponseIs
  <1>3. 0 \in Nat /\ 0 <= from /\ to <= Len(t) /\ from <= Len(t)
    BY <1>2, ResponseIs
  <1>4. Cut(t, 0, from) \in Seq(Bytes)
    BY <1>2, <1>3, CutIs
  <1>5. Cut(t, from, to) \in Seq(Bytes) /\ Len(Cut(t, from, to)) = to - from
    BY <1>2, <1>3, CutIs
  <1>6. Glue(Cut(t, 0, from), Cut(t, from, to)) = Cut(t, 0, to)
    BY <1>2, <1>3, CutJoin
  <1>7. Glue(Glue(h, Cut(t, 0, from)), Cut(t, from, to)) = Glue(h, Glue(Cut(t, 0, from), Cut(t, from, to)))
    BY <1>2, <1>4, <1>5, Reglued
  <1> QED  BY <1>1, <1>5, <1>6, <1>7, Zenon DEF Beginning

\* The beginning with none of the content, and with all of it.
LEMMA BeginningIs ==
    ASSUME NEW a \in Responses
    PROVE  Beginning(a, 0) = HeadBytes(a.head) /\ Beginning(a, a.content) = Whole(a)
  <1>1. PICK h, t : h = HeadBytes(a.head) /\ t = Content(a.content)
    OBVIOUS
  <1>2. h \in Seq(Bytes) /\ t \in Seq(Bytes) /\ Len(t) = a.content
    BY <1>1, ResponseIs
  <1>3. Cut(t, 0, 0) = <<>>
    <2>1. 0 \in Nat
      OBVIOUS
    <2> QED  BY <2>1, CutNothing
  <1>4. Cut(t, 0, Len(t)) = t
    BY <1>2, CutWhole
  <1>5. Glue(h, <<>>) = h
    BY <1>2, Glued
  <1>6. Beginning(a, 0) = HeadBytes(a.head)
    BY <1>1, <1>3, <1>5, Zenon DEF Beginning
  <1>7. Beginning(a, a.content) = Whole(a)
    BY <1>1, <1>2, <1>4, Zenon DEF Beginning, Whole
  <1> QED  BY <1>6, <1>7

\* The object of a response that is not in chunks, on its way.
LEMMA PlainFills ==
    ASSUME Room, NEW o \in Object, o.of.kind \in {"sized", "unsized"}, o.writtenLength = Len(wire),
           o.state = "CONTENT", o.from <= o.of.content, o.sentLength = o.from,
           o.contentLength = LengthOf(o.of), Glue(wire, o.head) = Beginning(o.of, o.from),
           NEW space \in Nat, Len(o.head) + space <= Space, Plain(o, space)
    PROVE  Answered(o)
  <1>1. PICK left : left = o.contentLength - o.sentLength
    OBVIOUS
  <1>2. PICK outLen : outLen = IF o.of.kind = "unsized" \/ left > space THEN space ELSE left
    OBVIOUS
  <1>3. \/ outLen = 0 /\ o.head = <<>> /\ WritesNothing(o)
        \/ TryAgain(o)
        \/ /\ outLen > 0 \/ o.head # <<>>
           /\ \E n \in Fills(o, outLen) :
                 Writes([o EXCEPT !.head = <<>>, !.from = @ + n, !.sentLength = @ + n,
                                 !.lapse = IF o.of.kind = "unsized" /\ space = 0 THEN "late" ELSE @,
                                 !.state = IF \/ o.sentLength + n = o.contentLength
                                              \/ o.of.kind = "unsized" /\ o.head = <<>> /\ n = 0
                                           THEN "WAIT_ACK" ELSE @],
                        o.head \o Filled(o, n))
    BY <1>1, <1>2, Zenon DEF Plain
  <1>4. /\ o.of \in Responses /\ o.of.content \in Nat /\ o.from \in Nat /\ o.head \in Seq(Bytes)
        /\ o.contentLength \in Nat /\ o.sentLength \in Nat /\ wire \in Seq(Bytes) /\ Space \in Nat
        /\ "CONTENT" \in States /\ "WAIT_ACK" \in States /\ o.tries \in Nat
    BY SpaceIs, ResponseIs DEF Object, States
  <1>5. PICK f \in Nat, c \in Nat, cl \in Nat, sl \in Nat, h \in Seq(Bytes) :
           f = o.from /\ c = o.of.content /\ cl = o.contentLength /\ sl = o.sentLength /\ h = o.head
    BY <1>4, Zenon
  <1>6. /\ f <= c /\ sl = f /\ Glue(wire, h) = Beginning(o.of, f) /\ Len(h) + space <= Space
        /\ cl = IF o.of.kind = "sized" THEN c ELSE 0
    <2>1. LengthOf(o.of) = IF o.of.kind = "sized" THEN c ELSE 0
      BY <1>5 DEF LengthOf
    <2> QED  BY <1>5, <2>1, Zenon
  <1>0. ASSUME o.head = <<>>  PROVE Shape(o, wire)
    <2>1. PlainShape(o.of, o.state, o.head, o.from, o.contentLength, o.sentLength, wire)
      BY <1>0 DEF PlainShape
    <2> QED  BY <2>1 DEF Shape
  <1>7. CASE TryAgain(o)
    BY <1>0, <1>7, NothingFilled
  <1>9. CASE outLen = 0 /\ o.head = <<>> /\ WritesNothing(o)
    <2>1. Shape(o, wire) /\ o.state # "END"
      BY <1>0, <1>9
    <2> QED  BY <1>9, <2>1, SendsNothing
  <1>8. ASSUME NEW n \in Fills(o, outLen), outLen > 0 \/ o.head # <<>>,
               Writes([o EXCEPT !.head = <<>>, !.from = @ + n, !.sentLength = @ + n,
                               !.lapse = IF o.of.kind = "unsized" /\ space = 0 THEN "late" ELSE @,
                               !.state = IF \/ o.sentLength + n = o.contentLength
                                            \/ o.of.kind = "unsized" /\ o.head = <<>> /\ n = 0
                                         THEN "WAIT_ACK" ELSE @],
                      o.head \o Filled(o, n))
        PROVE  Answered(o)
    <2>1. outLen \in Nat /\ outLen <= space
      <3>1. o.of.kind = "sized" => left = c - f
        BY <1>1, <1>5, <1>6
      <3> QED  BY <1>2, <1>6, <3>1
    <2>2. n \in Nat /\ n <= outLen /\ o.from + n <= o.of.content /\ (n = 0 /\ outLen > 0 => o.from = o.of.content)
      BY <2>1, FillsIs
    <2>3. PICK to \in Nat, sent \in Nat : to = f + n /\ sent = sl + n
      BY <2>2
    <2>4. n <= space /\ f <= to /\ to <= c /\ to - f = n /\ sent = to
      <3>1. f + n <= c /\ n \in Nat
        BY <1>5, <2>2, Zenon
      <3>2. n <= space
        BY <2>1, <2>2
      <3> QED  BY <1>6, <2>3, <3>1, <3>2
    <2>5. PICK part : part = Cut(Content(c), f, to)
      OBVIOUS
    <2>6. part \in Seq(Bytes) /\ Len(part) = to - f /\ Glue(Beginning(o.of, f), part) = Beginning(o.of, to)
      BY <1>4, <1>5, <2>4, <2>5, BeginsMore
    <2>7. Filled(o, n) = part
      BY <1>5, <2>3, <2>5, Zenon DEF Filled, Cut
    <2>8. PICK bytes : bytes = Glue(h, part)
      OBVIOUS
    <2>9. bytes \in Seq(Bytes) /\ Len(bytes) <= Space /\ Glue(wire, bytes) = Beginning(o.of, to)
      <3>1. bytes \in Seq(Bytes) /\ Len(bytes) = Len(h) + Len(part)
        BY <2>6, <2>8, Glued
      <3>2. Len(bytes) <= Space
        BY <1>4, <1>6, <2>4, <2>6, <3>1
      <3>3. Glue(Glue(wire, h), part) = Glue(wire, Glue(h, part))
        BY <1>4, <2>6, Reglued
      <3> QED  BY <1>6, <2>6, <2>8, <3>1, <3>2, <3>3, Zenon
    <2>10. PICK st \in States : st = IF sent = cl \/ (o.of.kind = "unsized" /\ h = <<>> /\ n = 0)
                                     THEN "WAIT_ACK" ELSE "CONTENT"
      BY <1>4
    <2>11. PICK o2 : o2 = [o EXCEPT !.head = <<>>, !.from = @ + n, !.sentLength = @ + n,
                                       !.lapse = IF o.of.kind = "unsized" /\ space = 0 THEN "late" ELSE @,
                                       !.state = IF \/ o.sentLength + n = o.contentLength
                                                    \/ o.of.kind = "unsized" /\ o.head = <<>> /\ n = 0
                                                 THEN "WAIT_ACK" ELSE @]
      OBVIOUS
    <2>19. Writes(o2, bytes)
      BY <1>5, <1>8, <2>7, <2>8, <2>11, Zenon DEF Glue
    <2>20. CASE o.of.kind = "unsized" /\ space = 0
      <3>1. {"state", "lapse"} \subseteq DOMAIN o2 /\ o2.state # "SETUP" /\ o2.lapse = "late"
        BY <2>11, <2>20 DEF Object
      <3>2. {"state", "lapse"} \subseteq DOMAIN s' /\ s'.state = o2.state /\ s'.lapse = o2.lapse
        BY <2>19, <3>1 DEF Writes
      <3> QED  BY <3>1, <3>2 DEF Lapsed, Answered
    <2>21. CASE ~(o.of.kind = "unsized" /\ space = 0)
      <3>12. o2 = [o EXCEPT !.head = <<>>, !.from = to, !.sentLength = sent, !.state = st]
        <4>1. o.lapse = "none" /\ o.state = "CONTENT"
          BY DEF Object
        <4>2. (\/ o.sentLength + n = o.contentLength
               \/ o.of.kind = "unsized" /\ o.head = <<>> /\ n = 0)
              <=> (sent = cl \/ (o.of.kind = "unsized" /\ h = <<>> /\ n = 0))
          BY <1>5, <2>3, Zenon
        <4>3. o2 = [o EXCEPT !.head = <<>>, !.from = @ + n, !.sentLength = @ + n, !.lapse = "none", !.state = st]
          BY <2>10, <2>11, <2>21, <4>1, <4>2, Zenon
        <4>4. o2 = [o EXCEPT !.head = <<>>, !.from = to, !.sentLength = sent, !.lapse = "none", !.state = st]
          BY <1>5, <2>3, <4>3, Zenon
        <4> QED  BY <4>1, <4>4 DEF Object
      <3>13. Becomes(o, o2, st, <<>>, o.content, o.contentLength, sent, to)
        BY <3>12, NoBytes, BecomesFilled
      <3>14. /\ o2 \in Object /\ o2.of = o.of /\ o2.ackedLength = o.ackedLength /\ o2.writtenLength = Len(wire)
             /\ o2.state = st /\ o2.head = <<>> /\ o2.from = to /\ o2.contentLength = cl /\ o2.sentLength = sent
        BY <1>5, <3>13, Zenon DEF Becomes
      <3>15. st # "HEADERS" /\ st # "END" /\ st # "FAILED" /\ (st = "WAIT_ACK" => to = c)
        <4>1. st \in {"CONTENT", "WAIT_ACK"}
          BY <2>10
        <4>2. ASSUME st = "WAIT_ACK"  PROVE to = c
          <5>1. CASE o.of.kind = "sized"
            BY <1>6, <2>4, <2>10, <4>2, <5>1
          <5>2. CASE o.of.kind = "unsized"
            <6>1. space > 0
              BY <2>21, <5>2
            <6>2. outLen > 0
              BY <1>2, <5>2, <6>1
            <6>3. n = 0
              BY <1>6, <2>2, <2>4, <2>10, <4>2, <5>2
            <6> QED  BY <1>5, <2>2, <2>3, <6>2, <6>3
          <5> QED  BY <5>1, <5>2
        <4> QED  BY <4>1, <4>2
      <3>16. Glue(Glue(wire, bytes), <<>>) = Beginning(o.of, to)
        <4>1. Glue(wire, bytes) \in Seq(Bytes)
          BY <1>4, <2>9, Glued
        <4>2. Glue(Glue(wire, bytes), <<>>) = Glue(wire, bytes)
          BY <4>1, Glued
        <4> QED  BY <2>9, <4>2, Zenon
      <3>17. PlainShape(o2.of, o2.state, o2.head, o2.from, o2.contentLength, o2.sentLength, Glue(wire, bytes))
        BY <1>5, <2>4, <3>14, <3>15, <3>16 DEF PlainShape
      <3>18. Shape(o2, Glue(wire, bytes))
        BY <3>14, <3>17 DEF Shape
      <3> QED  BY <2>9, <2>19, <3>14, <3>15, <3>18, Sends
    <2> QED  BY <2>20, <2>21, Zenon
  <1> QED  BY <1>3, <1>7, <1>8, <1>9, Zenon

-----------------------------------------------------------------------------
(* A response in chunks                                                     *)

\* A response in chunks gets a chunk from its filler, an empty one, or none.
LEMMA ChunkedFills ==
    ASSUME Room, NEW o \in Object, o.of.kind = "chunked", o.writtenLength = Len(wire), o.state = "CONTENT",
           o.from <= o.of.content, NEW body \in Seq(Bytes), Framed(body, o.of.content, o.from),
           Glue(wire, o.head) = Glue(HeadBytes(o.of.head), body),
           NEW space \in Nat, Len(o.head) + space <= Space, Chunked(o, space)
    PROVE  Answered(o)
  <1>1. \/ space <= 8 /\ WithoutFill(o)
        \/ TryAgain(o)
        \/ space > 8 /\ \E n \in Fills(o, space - 8) :
              Writes([o EXCEPT !.head = <<>>, !.from = @ + n, !.sentLength = @ + n,
                               !.state = IF n = 0 THEN "WAIT_ACK" ELSE @],
                     o.head \o Chunk(Filled(o, n)))
    BY Zenon DEF Chunked
  <1>2. /\ o.of \in Responses /\ o.of.content \in Nat /\ o.from \in Nat /\ o.head \in Seq(Bytes)
        /\ o.sentLength \in Nat /\ wire \in Seq(Bytes) /\ Space \in Nat
        /\ HeadBytes(o.of.head) \in Seq(Bytes)
        /\ "CONTENT" \in States /\ "WAIT_ACK" \in States /\ o.tries \in Nat
    BY SpaceIs, ResponseIs DEF Object, States
  <1>3. PICK f \in Nat, c \in Nat, sl \in Nat, h \in Seq(Bytes) :
           f = o.from /\ c = o.of.content /\ sl = o.sentLength /\ h = o.head
    BY <1>2, Zenon
  <1>4. f <= c /\ Framed(body, c, f) /\ Glue(wire, h) = Glue(HeadBytes(o.of.head), body) /\ Len(h) + space <= Space
    BY <1>3, Zenon
  <1>5. h = <<>> => Chunks(o.of, f, wire)
    <2>1. SUFFICES ASSUME h = <<>>  PROVE Chunks(o.of, f, wire)
      OBVIOUS
    <2>2. Glue(wire, <<>>) = wire
      BY <1>2, Glued
    <2>3. wire = Glue(HeadBytes(o.of.head), body)
      BY <1>4, <2>1, <2>2, Zenon
    <2> QED  BY <1>3, <1>4, <2>3, Zenon DEF Chunks
  <1>6. ASSUME o.head = <<>>  PROVE Shape(o, wire)
    <2>1. ChunkedShape(o.of, o.state, o.head, o.from, wire)
      BY <1>3, <1>5, <1>6 DEF ChunkedShape
    <2> QED  BY <2>1 DEF Shape
  <1>7. CASE space <= 8 /\ WithoutFill(o)
    BY <1>6, <1>7, NothingFilled
  <1>8. CASE TryAgain(o)
    BY <1>6, <1>8, NothingFilled
  <1>9. ASSUME NEW n \in Fills(o, space - 8), space > 8,
               Writes([o EXCEPT !.head = <<>>, !.from = @ + n, !.sentLength = @ + n,
                                !.state = IF n = 0 THEN "WAIT_ACK" ELSE @],
                      o.head \o Chunk(Filled(o, n)))
        PROVE  Answered(o)
    <2>1. PICK room \in Nat : room = space - 8 /\ room > 0
      <3>1. space - 8 \in Nat /\ space - 8 > 0
        BY <1>9
      <3> QED  BY <3>1, Zenon
    <2>2. n \in Nat /\ n <= room /\ o.from + n <= o.of.content /\ (n = 0 => o.from = o.of.content)
      <3>1. n \in Fills(o, room)
        BY <2>1, Zenon
      <3> QED  BY <2>1, <3>1, FillsIs
    <2>3. PICK to \in Nat, sent \in Nat : to = f + n /\ sent = sl + n
      BY <2>2
    <2>4. f <= to /\ to <= c /\ to - f = n /\ (n = 0 => f = c /\ to = c) /\ (n # 0 => f < to)
      <3>1. f + n <= c /\ n \in Nat /\ (n = 0 => f = c)
        BY <1>3, <2>2, Zenon
      <3> QED  BY <2>3, <3>1
    <2>5. PICK part : part = Cut(Content(c), f, to)
      OBVIOUS
    <2>6. part \in Seq(Bytes) /\ Len(part) = n
      <3>1. part \in Seq(Bytes) /\ Len(part) = to - f
        BY <1>2, <1>3, <2>4, <2>5, BeginsMore
      <3> QED  BY <2>4, <3>1, Zenon
    <2>7. Filled(o, n) = part
      BY <1>3, <2>3, <2>5, Zenon DEF Filled, Cut
    <2>8. PICK chunk, bytes : chunk = Chunk(part) /\ bytes = Glue(h, chunk)
      OBVIOUS
    <2>9. chunk \in Seq(Bytes) /\ Len(chunk) = n + 8
      BY <2>6, <2>8, ChunkIs
    <2>10. bytes \in Seq(Bytes) /\ Len(bytes) = Len(h) + Len(chunk)
      BY <2>8, <2>9, Glued
    <2>11. Len(bytes) <= Space
      BY <1>2, <1>4, <2>1, <2>2, <2>9, <2>10
    <2>12. Glue(wire, bytes) = Glue(HeadBytes(o.of.head), Glue(body, chunk))
      <3>1. Glue(Glue(wire, h), chunk) = Glue(wire, Glue(h, chunk))
        BY <1>2, <2>9, Reglued
      <3>2. Glue(Glue(HeadBytes(o.of.head), body), chunk) = Glue(HeadBytes(o.of.head), Glue(body, chunk))
        BY <1>2, <2>9, Reglued
      <3> QED  BY <1>4, <2>8, <3>1, <3>2, Zenon
    <2>13. PICK st \in States : st = IF n = 0 THEN "WAIT_ACK" ELSE "CONTENT"
      BY <1>2
    <2>14. PICK o2 : o2 = [o EXCEPT !.head = <<>>, !.from = @ + n, !.sentLength = @ + n,
                                    !.state = IF n = 0 THEN "WAIT_ACK" ELSE @]
      OBVIOUS
    <2>15. o2 = [o EXCEPT !.head = <<>>, !.from = to, !.sentLength = sent, !.state = st]
      BY <1>3, <2>3, <2>13, <2>14, Zenon
    <2>16. Becomes(o, o2, st, <<>>, o.content, o.contentLength, sent, to)
      BY <2>15, NoBytes, BecomesFilled
    <2>17. /\ o2 \in Object /\ o2.of = o.of /\ o2.ackedLength = o.ackedLength /\ o2.writtenLength = Len(wire)
           /\ o2.state = st /\ o2.head = <<>> /\ o2.from = to
      BY <2>16, Zenon DEF Becomes
    <2>18. ChunkedShape(o.of, st, <<>>, to, Glue(wire, bytes))
      <3>1. st \in {"CONTENT", "WAIT_ACK"} /\ to <= o.of.content
        BY <1>3, <2>4, <2>13
      <3>2. CASE n = 0
        <4>1. part = <<>>
          BY <2>4, <2>5, <3>2, CutNothing
        <4>2. Framed(body, o.of.content, o.of.content)
          BY <1>3, <1>4, <2>4, <3>2, Zenon
        <4>3. Glue(wire, bytes) = Glue(HeadBytes(o.of.head), Glue(body, Chunk(<<>>)))
          BY <2>8, <2>12, <4>1, Zenon
        <4>4. ChunksEnd(o.of, Glue(wire, bytes))
          BY <4>2, <4>3, Zenon DEF ChunksEnd
        <4>5. st = "WAIT_ACK"
          BY <2>13, <3>2
        <4> QED  BY <3>1, <4>4, <4>5 DEF ChunkedShape
      <3>3. CASE n # 0
        <4>1. Glue(body, chunk) \in Seq(Bytes) /\ Framed(Glue(body, chunk), c, to)
          BY <1>4, <2>4, <2>5, <2>8, <3>3, FramedMore
        <4>2. Chunks(o.of, to, Glue(wire, bytes))
          BY <1>3, <2>12, <4>1, Zenon DEF Chunks
        <4>3. st = "CONTENT"
          BY <2>13, <3>3
        <4> QED  BY <3>1, <4>2, <4>3 DEF ChunkedShape
      <3> QED  BY <3>2, <3>3, Zenon
    <2>19. Shape(o2, Glue(wire, bytes))
      <3>1. ChunkedShape(o2.of, o2.state, o2.head, o2.from, Glue(wire, bytes))
        BY <2>17, <2>18, Zenon
      <3> QED  BY <2>17, <3>1 DEF Shape
    <2>20. Writes(o2, bytes)
      BY <1>3, <1>9, <2>7, <2>8, <2>14, Zenon DEF Glue
    <2>21. o2.state # "END"
      BY <2>13, <2>17
    <2> QED  BY <2>10, <2>11, <2>17, <2>19, <2>20, <2>21, Sends
  <1> QED  BY <1>1, <1>7, <1>8, <1>9, Zenon

-----------------------------------------------------------------------------
(* What any response does when it is asked to go on                         *)

\* Only the identity of the response and what has been acknowledged count.
LEMMA AnsweredAs ==
    ASSUME NEW o, NEW o1, o1.of = o.of, o1.ackedLength = o.ackedLength, Answered(o1)
    PROVE  Answered(o)
  BY Zenon DEF Answered, Goes

\* Where an AsyncAbstractResponse is in its response.
LEMMA AbstractAcks ==
    ASSUME NEW o, AbstractAck(o)
    PROVE  \/ /\ o.state = "HEADERS" /\ Space < Len(o.head)
              /\ Writes([o EXCEPT !.head = SubSeq(o.head, Space + 1, Len(o.head))],
                        SubSeq(o.head, 1, Space))
           \/ /\ o.state = "HEADERS" /\ Space >= Len(o.head)
              /\ FillAndSend([o EXCEPT !.state = "CONTENT"], Space - Len(o.head))
           \/ o.state = "CONTENT" /\ FillAndSend(o, Space)
           \/ /\ o.state = "WAIT_ACK"
              /\ WritesNothing([o EXCEPT !.state =
                    IF o.of.kind # "sized" \/ o.ackedLength >= o.writtenLength THEN "END" ELSE @])
  BY Zenon DEF AbstractAck

\* The head goes out in part.  What follows from it is left to the response.
LEMMA HeadInPart ==
    ASSUME Room, NEW o \in Object, o.writtenLength = Len(wire), o.state = "HEADERS", Space < Len(o.head),
           Writes([o EXCEPT !.head = SubSeq(o.head, Space + 1, Len(o.head))], SubSeq(o.head, 1, Space)),
           NEW whole, Glue(wire, o.head) = whole,
           \A o2 \in Object, b \in Seq(Bytes) :
              Becomes(o, o2, "HEADERS", o2.head, o.content, o.contentLength, o.sentLength, o.from)
                /\ Glue(Glue(wire, b), o2.head) = whole => Shape(o2, Glue(wire, b))
    PROVE  Answered(o)
  <1>1. PICK h \in Seq(Bytes), k \in Nat, sp \in Nat : h = o.head /\ k = Len(h) /\ sp = Space
    <2>1. o.head \in Seq(Bytes) /\ Len(o.head) \in Nat /\ Space \in Nat
      BY SpaceIs DEF Object
    <2> QED  BY <2>1, Zenon
  <1>2. PICK b, z : b = Cut(h, 0, sp) /\ z = Cut(h, sp, k)
    OBVIOUS
  <1>3. b \in Seq(Bytes) /\ Len(b) = sp /\ z \in Seq(Bytes) /\ Glue(b, z) = h
    <2>1. sp <= Len(h)
      BY <1>1
    <2>2. /\ Cut(h, 0, sp) \in Seq(Bytes) /\ Len(Cut(h, 0, sp)) = sp
          /\ Cut(h, sp, Len(h)) \in Seq(Bytes) /\ Glue(Cut(h, 0, sp), Cut(h, sp, Len(h))) = h
      BY <2>1, Split
    <2> QED  BY <1>1, <1>2, <2>2, Zenon
  <1>4. PICK o2 : o2 = [o EXCEPT !.head = SubSeq(o.head, Space + 1, Len(o.head))]
    OBVIOUS
  <1>5. o2 = [o EXCEPT !.head = z]
    <2>1. SubSeq(o.head, Space + 1, Len(o.head)) = z
      BY <1>1, <1>2, Zenon DEF Cut
    <2> QED  BY <1>4, <2>1, Zenon
  <1>6. Becomes(o, o2, "HEADERS", z, o.content, o.contentLength, o.sentLength, o.from)
    BY <1>3, <1>5, BecomesOut
  <1>7. /\ o2 \in Object /\ o2.of = o.of /\ o2.ackedLength = o.ackedLength /\ o2.writtenLength = Len(wire)
        /\ o2.state = "HEADERS" /\ o2.head = z
    BY <1>6, Zenon DEF Becomes
  <1>8. Writes(o2, b)
    <2>1. b = SubSeq(o.head, 1, Space)
      BY <1>1, <1>2 DEF Cut
    <2> QED  BY <1>4, <2>1, Zenon
  <1>9. Glue(Glue(wire, b), z) = whole
    <2>1. wire \in Seq(Bytes)
      BY SpaceIs
    <2>2. Glue(Glue(wire, b), z) = Glue(wire, Glue(b, z))
      BY <1>3, <2>1, Reglued
    <2> QED  BY <1>1, <1>3, <2>2, Zenon
  <1>10. Shape(o2, Glue(wire, b))
    BY <1>3, <1>6, <1>7, <1>9, Zenon
  <1>11. Len(b) <= Space /\ o2.state # "END"
    BY <1>1, <1>3, <1>7
  <1> QED  BY <1>3, <1>7, <1>8, <1>10, <1>11, Sends

\* A response that is not in chunks goes on, from any state.
LEMMA PlainGoesOn ==
    ASSUME Room, NEW o \in Object, o.of.kind \in {"sized", "unsized"}, o.writtenLength = Len(wire), Shape(o, wire),
           AbstractAck(o)
    PROVE  Answered(o)
  <1>1. PlainShape(o.of, o.state, o.head, o.from, o.contentLength, o.sentLength, wire)
    BY Zenon DEF Shape
  <1>2. /\ o.of \in Responses /\ o.head \in Seq(Bytes) /\ Len(o.head) \in Nat /\ Space \in Nat /\ wire \in Seq(Bytes)
        /\ Len(wire) \in Nat /\ o.ackedLength \in Nat
        /\ "CONTENT" \in States /\ "WAIT_ACK" \in States /\ "END" \in States
    BY SpaceIs DEF Object, States
  <1>3. PICK h \in Seq(Bytes), k \in Nat, sp \in Nat : h = o.head /\ k = Len(h) /\ sp = Space
    BY <1>2, Zenon
  <1>4. /\ o.from <= o.of.content /\ o.sentLength = o.from /\ o.contentLength = LengthOf(o.of)
        /\ Glue(wire, h) = Beginning(o.of, o.from)
        /\ (o.state \notin {"HEADERS", "FAILED"} => h = <<>>)
        /\ (o.state \in {"WAIT_ACK", "END"} => o.from = o.of.content)
    BY <1>1, <1>3, Zenon DEF PlainShape
  <1>5. CASE /\ o.state = "HEADERS" /\ Space < Len(o.head)
             /\ Writes([o EXCEPT !.head = SubSeq(o.head, Space + 1, Len(o.head))],
                       SubSeq(o.head, 1, Space))
    <2>1. ASSUME NEW o2 \in Object, NEW b \in Seq(Bytes), Becomes(o, o2, "HEADERS", o2.head, o.content,
                 o.contentLength, o.sentLength, o.from), Glue(Glue(wire, b), o2.head) = Beginning(o.of, o.from)
          PROVE  Shape(o2, Glue(wire, b))
      <3>1. PlainShape(o2.of, o2.state, o2.head, o2.from, o2.contentLength, o2.sentLength, Glue(wire, b))
        BY <1>4, <2>1 DEF PlainShape, Becomes
      <3> QED  BY <2>1, <3>1 DEF Shape, Becomes
    <2>2. Glue(wire, o.head) = Beginning(o.of, o.from)
      BY <1>3, <1>4, Zenon
    <2> QED  BY <1>5, <2>1, <2>2, HeadInPart
  <1>6. CASE /\ o.state = "HEADERS" /\ Space >= Len(o.head)
             /\ FillAndSend([o EXCEPT !.state = "CONTENT"], Space - Len(o.head))
    <2>1. PICK o1 : o1 = [o EXCEPT !.state = "CONTENT"]
      OBVIOUS
    <2>2. Becomes(o, o1, "CONTENT", o.head, o.content, o.contentLength, o.sentLength, o.from)
      BY <1>2, <2>1, BecomesState
    <2>3. /\ o1 \in Object /\ o1.of = o.of /\ o1.ackedLength = o.ackedLength /\ o1.writtenLength = Len(wire)
          /\ o1.state = "CONTENT" /\ o1.head = h /\ o1.from = o.from
          /\ o1.contentLength = o.contentLength /\ o1.sentLength = o.sentLength
      BY <1>3, <2>2, Zenon DEF Becomes
    <2>4. PICK space \in Nat : space = Space - Len(o.head)
      BY <1>2, <1>6
    <2>5. Len(h) + space <= Space
      BY <1>3, <2>4
    <2>6. o1.of.kind \in {"sized", "unsized"}
      BY <2>3, Zenon
    <2>7. Plain(o1, space)
      <3>1. FillAndSend(o1, space)
        BY <1>6, <2>1, <2>4, Zenon
      <3> QED  BY <2>6, <3>1 DEF FillAndSend
    <2>8. /\ o1.from <= o1.of.content /\ o1.sentLength = o1.from /\ o1.contentLength = LengthOf(o1.of)
          /\ Glue(wire, o1.head) = Beginning(o1.of, o1.from) /\ Len(o1.head) + space <= Space
      BY <1>4, <2>3, <2>5, Zenon
    <2>9. Answered(o1)
      BY <2>3, <2>6, <2>7, <2>8, PlainFills
    <2> QED  BY <2>3, <2>9, AnsweredAs
  <1>7. CASE o.state = "CONTENT" /\ FillAndSend(o, Space)
    <2>1. Len(o.head) + Space <= Space
      BY <1>2, <1>3, <1>4, <1>7, NoBytes
    <2>2. Plain(o, Space)
      BY <1>7 DEF FillAndSend
    <2>3. Glue(wire, o.head) = Beginning(o.of, o.from)
      BY <1>3, <1>4, Zenon
    <2> QED  BY <1>2, <1>4, <1>7, <2>1, <2>2, <2>3, PlainFills
  <1>8. CASE /\ o.state = "WAIT_ACK"
             /\ WritesNothing([o EXCEPT !.state =
                   IF o.of.kind # "sized" \/ o.ackedLength >= o.writtenLength THEN "END" ELSE @])
    <2>1. PICK st \in States : st = IF o.of.kind # "sized" \/ o.ackedLength >= o.writtenLength THEN "END" ELSE o.state
      BY <1>2, <1>8
    <2>2. PICK o2 : o2 = [o EXCEPT !.state =
                IF o.of.kind # "sized" \/ o.ackedLength >= o.writtenLength THEN "END" ELSE @]
      OBVIOUS
    <2>3. o2 = [o EXCEPT !.state = st]
      BY <2>1, <2>2, Zenon
    <2>4. Becomes(o, o2, st, o.head, o.content, o.contentLength, o.sentLength, o.from)
      BY <2>3, BecomesState
    <2>5. /\ o2 \in Object /\ o2.of = o.of /\ o2.ackedLength = o.ackedLength
          /\ o2.writtenLength = Len(wire) /\ o2.state = st /\ o2.head = h /\ o2.from = o.from
          /\ o2.contentLength = o.contentLength /\ o2.sentLength = o.sentLength
      BY <1>3, <2>4, Zenon DEF Becomes
    <2>6. st \in {"WAIT_ACK", "END"} /\ (st = "END" /\ Waits(o.of) => Len(wire) <= o.ackedLength)
      BY <1>2, <1>8, <2>1 DEF Waits
    <2>7. PlainShape(o2.of, o2.state, o2.head, o2.from, o2.contentLength, o2.sentLength, wire)
      BY <1>4, <1>8, <2>5, <2>6 DEF PlainShape
    <2>8. Shape(o2, wire)
      BY <2>5, <2>7 DEF Shape
    <2>9. WritesNothing(o2)
      BY <1>8, <2>2, Zenon
    <2> QED  BY <2>5, <2>6, <2>8, <2>9, SendsNothing
  <1> QED  BY <1>5, <1>6, <1>7, <1>8, AbstractAcks, Zenon

\* A response in chunks goes on, from any state.
LEMMA ChunkedGoesOn ==
    ASSUME Room, NEW o \in Object, o.of.kind = "chunked", o.writtenLength = Len(wire), Shape(o, wire), AbstractAck(o)
    PROVE  Answered(o)
  <1>1. ChunkedShape(o.of, o.state, o.head, o.from, wire)
    BY Zenon DEF Shape
  <1>2. /\ o.from <= o.of.content
        /\ (o.state = "HEADERS" => Glue(wire, o.head) = HeadBytes(o.of.head) /\ o.from = 0)
        /\ (o.state \notin {"HEADERS", "FAILED"} => o.head = <<>>)
        /\ (o.state = "CONTENT" => Chunks(o.of, o.from, wire))
        /\ (o.state \in {"WAIT_ACK", "END"} => ChunksEnd(o.of, wire))
    BY <1>1, Zenon DEF ChunkedShape
  <1>3. /\ Space \in Nat /\ wire \in Seq(Bytes) /\ "CONTENT" \in States /\ "END" \in States
        /\ o.of \in Responses /\ o.head \in Seq(Bytes) /\ HeadBytes(o.of.head) \in Seq(Bytes)
        /\ o.of.content \in Nat
    BY SpaceIs, ResponseIs DEF States, Object
  <1>4. CASE /\ o.state = "HEADERS" /\ Space < Len(o.head)
             /\ Writes([o EXCEPT !.head = SubSeq(o.head, Space + 1, Len(o.head))],
                       SubSeq(o.head, 1, Space))
    <2>1. ASSUME NEW o2 \in Object, NEW b \in Seq(Bytes), Becomes(o, o2, "HEADERS", o2.head, o.content,
                 o.contentLength, o.sentLength, o.from), Glue(Glue(wire, b), o2.head) = HeadBytes(o.of.head)
          PROVE  Shape(o2, Glue(wire, b))
      <3>1. ChunkedShape(o2.of, o2.state, o2.head, o2.from, Glue(wire, b))
        BY <1>2, <1>4, <2>1 DEF ChunkedShape, Becomes
      <3> QED  BY <2>1, <3>1 DEF Shape, Becomes
    <2>2. Glue(wire, o.head) = HeadBytes(o.of.head)
      BY <1>2, <1>4
    <2> QED  BY <1>4, <2>1, <2>2, HeadInPart
  <1>5. CASE /\ o.state = "HEADERS" /\ Space >= Len(o.head)
             /\ FillAndSend([o EXCEPT !.state = "CONTENT"], Space - Len(o.head))
    <2>1. PICK o1 : o1 = [o EXCEPT !.state = "CONTENT"]
      OBVIOUS
    <2>2. Becomes(o, o1, "CONTENT", o.head, o.content, o.contentLength, o.sentLength, o.from)
      BY <1>3, <2>1, BecomesState
    <2>3. /\ o1 \in Object /\ o1.of = o.of /\ o1.ackedLength = o.ackedLength /\ o1.writtenLength = Len(wire)
          /\ o1.state = "CONTENT" /\ o1.head = o.head /\ o1.from = 0
      BY <1>2, <1>5, <2>2, Zenon DEF Becomes
    <2>4. PICK space \in Nat : space = Space - Len(o.head) /\ Len(o.head) + space <= Space
      <3>1. Space - Len(o.head) \in Nat /\ Len(o.head) + (Space - Len(o.head)) <= Space
        BY <1>3, <1>5
      <3> QED  BY <3>1, Zenon
    <2>5. o1.of.kind = "chunked"
      BY <2>3, Zenon
    <2>6. Chunked(o1, space)
      <3>1. FillAndSend(o1, space)
        BY <1>5, <2>1, <2>4, Zenon
      <3> QED  BY <2>5, <3>1 DEF FillAndSend
    <2>7. PICK body \in Seq(Bytes) : body = <<>>
      BY NoBytes, Zenon
    <2>8. Framed(body, o1.of.content, o1.from) /\ o1.from <= o1.of.content
      <3>1. Framed(<<>>, o.of.content, 0)
        BY <1>3, FramedNone
      <3>2. o1.from <= o1.of.content
        BY <1>3, <2>3
      <3> QED  BY <2>3, <2>7, <3>1, <3>2, Zenon
    <2>9. Glue(wire, o1.head) = Glue(HeadBytes(o1.of.head), body)
      <3>1. PICK h \in Seq(Bytes) : h = HeadBytes(o.of.head)
        BY <1>3
      <3>2. Glue(h, <<>>) = h
        BY Glued
      <3> QED  BY <1>2, <1>5, <2>3, <2>7, <3>1, <3>2, Zenon
    <2>10. Len(o1.head) + space <= Space
      BY <2>3, <2>4, Zenon
    <2>11. Answered(o1)
      BY <2>3, <2>5, <2>6, <2>8, <2>9, <2>10, ChunkedFills
    <2> QED  BY <2>3, <2>11, AnsweredAs
  <1>6. CASE o.state = "CONTENT" /\ FillAndSend(o, Space)
    <2>1. PICK body \in Seq(Bytes) : Framed(body, o.of.content, o.from) /\ wire = Glue(HeadBytes(o.of.head), body)
      BY <1>2, <1>6 DEF Chunks
    <2>2. Glue(wire, o.head) = Glue(HeadBytes(o.of.head), body)
      <3>1. Glue(wire, <<>>) = wire
        BY <1>3, Glued
      <3>2. o.head = <<>>
        BY <1>2, <1>6
      <3> QED  BY <2>1, <3>1, <3>2, Zenon
    <2>3. Len(o.head) + Space <= Space
      BY <1>2, <1>3, <1>6, NoBytes
    <2>4. Chunked(o, Space)
      BY <1>6 DEF FillAndSend
    <2> QED  BY <1>2, <1>3, <1>6, <2>1, <2>2, <2>3, <2>4, ChunkedFills
  <1>7. CASE /\ o.state = "WAIT_ACK"
             /\ WritesNothing([o EXCEPT !.state =
                   IF o.of.kind # "sized" \/ o.ackedLength >= o.writtenLength THEN "END" ELSE @])
    <2>1. PICK o2 : o2 = [o EXCEPT !.state =
                IF o.of.kind # "sized" \/ o.ackedLength >= o.writtenLength THEN "END" ELSE @]
      OBVIOUS
    <2>2. o2 = [o EXCEPT !.state = "END"]
      BY <2>1, Zenon
    <2>3. Becomes(o, o2, "END", o.head, o.content, o.contentLength, o.sentLength, o.from)
      BY <1>3, <2>2, BecomesState
    <2>4. /\ o2 \in Object /\ o2.of = o.of /\ o2.ackedLength = o.ackedLength /\ o2.writtenLength = Len(wire)
          /\ o2.state = "END" /\ o2.head = <<>> /\ o2.from = o.from
      BY <1>2, <1>7, <2>3 DEF Becomes
    <2>5. ChunkedShape(o2.of, o2.state, o2.head, o2.from, wire)
      BY <1>2, <1>7, <2>4 DEF ChunkedShape
    <2>6. Shape(o2, wire)
      BY <2>4, <2>5 DEF Shape
    <2>7. WritesNothing(o2) /\ ~Waits(o2.of)
      BY <1>7, <2>1, <2>4 DEF Waits
    <2> QED  BY <2>4, <2>6, <2>7, SendsNothing
  <1> QED  BY <1>4, <1>5, <1>6, <1>7, AbstractAcks, Zenon

-----------------------------------------------------------------------------
(* What the peer has                                                        *)

\* Where two joined sequences are the same, their fronts agree,
LEMMA FrontAgrees ==
    ASSUME NEW w \in Seq(Bytes), NEW x \in Seq(Bytes), NEW h \in Seq(Bytes), NEW t \in Seq(Bytes),
           Glue(w, x) = Glue(h, t)
    PROVE  \A i \in DOMAIN w : i <= Len(h) => w[i] = h[i]
  <1>1. PICK a : a = Glue(w, x)
    OBVIOUS
  <1>2. \A i \in 1 .. Len(w) : a[i] = w[i]
    <2>1. Agrees(w, a)
      BY <1>1, Begins
    <2> QED  BY <2>1 DEF Agrees
  <1>3. \A i \in 1 .. Len(h) : a[i] = h[i]
    <2>1. Agrees(h, Glue(h, t))
      BY Begins
    <2>2. Agrees(h, a)
      BY <1>1, <2>1, Zenon
    <2> QED  BY <2>2 DEF Agrees
  <1>4. DOMAIN w = 1 .. Len(w) /\ Len(w) \in Nat /\ Len(h) \in Nat
    OBVIOUS
  <1> QED  BY <1>2, <1>3, <1>4

\* and what of the one is behind the front of the other begins its back.
LEMMA BackBegins ==
    ASSUME NEW w \in Seq(Bytes), NEW x \in Seq(Bytes), NEW h \in Seq(Bytes), NEW t \in Seq(Bytes),
           Glue(w, x) = Glue(h, t)
    PROVE  IsPrefix(SubSeq(w, Len(h) + 1, Len(w)), t)
  <1>1. PICK m \in Nat, n \in Nat, l \in Nat, k \in Nat : m = Len(h) /\ n = Len(w) /\ l = Len(t) /\ k = Len(x)
    <2>1. Len(h) \in Nat /\ Len(w) \in Nat /\ Len(t) \in Nat /\ Len(x) \in Nat
      OBVIOUS
    <2> QED  BY <2>1, Zenon
  <1>2. PICK a : a = Glue(w, x)
    OBVIOUS
  <1>3. PICK y : y = SubSeq(w, m + 1, n)
    OBVIOUS
  <1>4. y \in Seq(Bytes) /\ Len(y) <= l /\ \A i \in 1 .. Len(y) : y[i] = t[i]
    <2>1. CASE n <= m
      <3>1. y = <<>>
        BY <1>1, <1>3, <2>1
      <3>2. y \in Seq(Bytes) /\ Len(y) = 0
        BY <3>1, NoBytes
      <3> QED  BY <3>2
    <2>2. CASE ~(n <= m)
      <3>1. PICK d \in Nat : d = n - m /\ m <= n /\ n <= Len(w)
        <4>1. n - m \in Nat /\ m <= n /\ n <= Len(w)
          BY <1>1, <2>2
        <4> QED  BY <4>1, Zenon
      <3>2. y = Cut(w, m, n)
        BY <1>3 DEF Cut
      <3>3. y \in Seq(Bytes) /\ Len(y) = n - m /\ \A i \in 1 .. n - m : y[i] = w[m + i]
        BY <3>1, <3>2, CutIs
      <3>4. Len(a) = n + k /\ \A i \in 1 .. n : a[i] = w[i]
        <4>1. a = w \o x
          BY <1>2 DEF Glue
        <4>2. Len(a) = Len(w) + Len(x) /\ \A i \in 1 .. Len(w) : a[i] = w[i]
          BY <4>1, Joined
        <4> QED  BY <1>1, <4>2
      <3>5. Len(a) = m + l /\ \A i \in 1 .. l : a[m + i] = t[i]
        <4>1. a = h \o t
          BY <1>2 DEF Glue
        <4>2. Len(a) = Len(h) + Len(t) /\ \A i \in 1 .. Len(t) : a[Len(h) + i] = t[i]
          BY <4>1, Joined
        <4> QED  BY <1>1, <4>2
      <3>6. d <= l
        BY <3>1, <3>4, <3>5
      <3>7. ASSUME NEW i \in 1 .. d  PROVE y[i] = t[i]
        <4>1. i \in 1 .. n - m /\ m + i \in 1 .. n /\ i \in 1 .. l
          BY <3>1, <3>6
        <4> QED  BY <3>3, <3>4, <3>5, <4>1
      <3> QED  BY <3>1, <3>3, <3>6, <3>7
    <2> QED  BY <2>1, <2>2, Zenon
  <1>5. IsPrefix(y, t)
    <2>1. SubSeq(y, 1, Len(y)) \in Seq(Bytes) /\ SubSeq(t, 1, Len(y)) \in Seq(Bytes)
      BY <1>1, <1>4
    <2>2. SubSeq(y, 1, Len(y)) = SubSeq(t, 1, Len(y))
      BY <1>1, <1>4
    <2> QED  BY <1>1, <1>4, <2>2 DEF IsPrefix
  <1> QED  BY <1>1, <1>3, <1>5

\* Behind its front is its back.
LEMMA BackIs ==
    ASSUME NEW h \in Seq(Bytes), NEW t \in Seq(Bytes), NEW w, w = Glue(h, t)
    PROVE  SubSeq(w, Len(h) + 1, Len(w)) = t
  <1>1. PICK m \in Nat, l \in Nat : m = Len(h) /\ l = Len(t)
    <2>1. Len(h) \in Nat /\ Len(t) \in Nat
      OBVIOUS
    <2> QED  BY <2>1, Zenon
  <1>2. /\ w \in Seq(Bytes) /\ Len(w) = m + l /\ \A i \in 1 .. l : w[m + i] = t[i]
    <2>1. w = h \o t
      BY DEF Glue
    <2>2. w \in Seq(Bytes) /\ Len(w) = Len(h) + Len(t) /\ \A i \in 1 .. Len(t) : w[Len(h) + i] = t[i]
      BY <2>1, Joined
    <2> QED  BY <1>1, <2>2
  <1>3. PICK n \in Nat : n = m + l
    OBVIOUS
  <1>4. PICK y : y = Cut(w, m, n)
    OBVIOUS
  <1>5. y \in Seq(Bytes) /\ Len(y) = n - m /\ \A i \in 1 .. n - m : y[i] = w[m + i]
    <2>1. m <= n /\ n <= Len(w)
      BY <1>2, <1>3
    <2> QED  BY <1>2, <1>4, <2>1, CutIs
  <1>6. Len(y) = l /\ \A i \in 1 .. l : y[i] = t[i]
    BY <1>2, <1>3, <1>5
  <1>7. y = t
    BY <1>1, <1>5, <1>6, Same
  <1> QED  BY <1>1, <1>2, <1>3, <1>4, <1>7 DEF Cut

\* What is on the wire of a response that is not in chunks.
LEMMA PlainOnTheWire ==
    ASSUME NEW o \in Object, NEW w \in Seq(Bytes), o.of.kind # "chunked", Shape(o, w)
    PROVE  /\ \E x \in Seq(Bytes) : Glue(w, x) = Whole(o.of)
           /\ o.state \in {"WAIT_ACK", "END"} => w = Whole(o.of)
  <1>1. /\ o.of \in Responses /\ o.of.kind \in {"basic", "sized", "unsized"} /\ o.content \in Seq(Bytes)
        /\ o.head \in Seq(Bytes) /\ o.from \in Nat /\ o.of.content \in Nat
    BY ResponseIs DEF Object
  <1>2. Glue(w, <<>>) = w
    BY Glued
  <1>3. CASE o.of.kind = "basic"
    <2>1. BasicShape(o.of, o.state, o.content, o.contentLength - o.sentLength, w)
      BY <1>3, Zenon DEF Shape
    <2>2. CASE o.state = "CONTENT"
      <3>1. Glue(w, o.content) = Whole(o.of)
        BY <2>1, <2>2, Zenon DEF BasicShape
      <3> QED  BY <1>1, <2>2, <3>1
    <2>3. CASE o.state # "CONTENT"
      <3>1. w = Whole(o.of)
        BY <2>1, <2>3, Zenon DEF BasicShape
      <3> QED  BY <1>2, <3>1, NoBytes, Zenon
    <2> QED  BY <2>2, <2>3, Zenon
  <1>4. CASE o.of.kind \in {"sized", "unsized"}
    <2>1. PlainShape(o.of, o.state, o.head, o.from, o.contentLength, o.sentLength, w)
      BY <1>4, Zenon DEF Shape
    <2>2. /\ o.from <= o.of.content /\ Glue(w, o.head) = Beginning(o.of, o.from)
          /\ (o.state \in {"WAIT_ACK", "END"} => o.from = o.of.content /\ o.head = <<>>)
      <3>1. o.state \in {"WAIT_ACK", "END"} => o.state \notin {"HEADERS", "FAILED"}
        OBVIOUS
      <3> QED  BY <2>1, <3>1, Zenon DEF PlainShape
    <2>3. PICK part : part = Cut(Content(o.of.content), o.from, o.of.content)
      OBVIOUS
    <2>4. part \in Seq(Bytes) /\ Glue(Beginning(o.of, o.from), part) = Beginning(o.of, o.of.content)
      <3>1. o.of.content <= o.of.content
        BY <1>1
      <3> QED  BY <1>1, <2>2, <2>3, <3>1, BeginsMore
    <2>5. Beginning(o.of, o.of.content) = Whole(o.of)
      BY <1>1, BeginningIs
    <2>6. Glue(Glue(w, o.head), part) = Glue(w, Glue(o.head, part))
      BY <1>1, <2>4, Reglued
    <2>7. Glue(o.head, part) \in Seq(Bytes) /\ Glue(w, Glue(o.head, part)) = Whole(o.of)
      <3>1. Glue(o.head, part) \in Seq(Bytes)
        BY <1>1, <2>4, Glued
      <3> QED  BY <2>2, <2>4, <2>5, <2>6, <3>1, Zenon
    <2>8. o.state \in {"WAIT_ACK", "END"} => w = Whole(o.of)
      BY <1>2, <2>2, <2>5, Zenon
    <2> QED  BY <2>7, <2>8, Zenon
  <1> QED  BY <1>1, <1>3, <1>4

\* What is on the wire, by its shape, is what the peer is to get.
LEMMA ShapeIsWhole ==
    ASSUME s \in Object, wire \in Seq(Bytes), Shape(s, wire),
           s.state = "END" /\ Waits(s.of) => acked = Len(wire)
    PROVE  ResponseIsWhole
  <1>1. PICK a \in Responses : a = s.of
    BY DEF Object
  <1>2. PICK n \in Nat, c \in Nat : n = a.head /\ c = a.content
    BY ResponseIs
  <1>3. PICK h \in Seq(Bytes), t \in Seq(Bytes) :
           h = HeadBytes(n) /\ t = Content(c) /\ Len(h) = n /\ Len(t) = c
    BY <1>2, ResponseIs
  <1>4. PICK behind : behind = SubSeq(wire, n + 1, Len(wire))
    OBVIOUS
  <1>5. SUFFICES /\ \A i \in DOMAIN wire : i <= n => wire[i] = h[i]
                 /\ IF a.kind = "chunked" THEN IsPrefix(Unchunked(behind).read, t)
                                          ELSE IsPrefix(behind, t)
                 /\ s.state \in {"WAIT_ACK", "END"} =>
                      IF a.kind = "chunked" THEN Unchunked(behind) = [read |-> t, last |-> TRUE]
                                            ELSE behind = t
    BY <1>1, <1>2, <1>3, <1>4, Zenon DEF ResponseIsWhole, Waits
  <1>6. CASE a.kind # "chunked"
    <2>1. PICK x \in Seq(Bytes) : Glue(wire, x) = Whole(a)
      BY <1>1, <1>6, PlainOnTheWire
    <2>2. s.state \in {"WAIT_ACK", "END"} => wire = Whole(a)
      BY <1>1, <1>6, PlainOnTheWire
    <2>3. Whole(a) = Glue(h, t)
      BY <1>2, <1>3, Zenon DEF Whole
    <2>4. Glue(wire, x) = Glue(h, t)
      BY <2>1, <2>3, Zenon
    <2>5. \A i \in DOMAIN wire : i <= n => wire[i] = h[i]
      <3>1. \A i \in DOMAIN wire : i <= Len(h) => wire[i] = h[i]
        BY <2>4, FrontAgrees
      <3> QED  BY <1>3, <3>1, Zenon
    <2>6. IsPrefix(behind, t)
      <3>1. IsPrefix(SubSeq(wire, Len(h) + 1, Len(wire)), t)
        BY <2>4, BackBegins
      <3> QED  BY <1>3, <1>4, <3>1, Zenon
    <2>7. ASSUME s.state \in {"WAIT_ACK", "END"}  PROVE behind = t
      <3>1. wire = Glue(h, t)
        BY <2>2, <2>3, <2>7, Zenon
      <3>2. SubSeq(wire, Len(h) + 1, Len(wire)) = t
        BY <3>1, BackIs
      <3> QED  BY <1>3, <1>4, <3>2, Zenon
    <2> QED  BY <1>6, <2>5, <2>6, <2>7, Zenon
  <1>7. CASE a.kind = "chunked"
    <2>1. ChunkedShape(a, s.state, s.head, s.from, wire)
      BY <1>1, <1>7, Zenon DEF Shape
    <2>2. PICK f \in Nat : f = s.from
      BY DEF Object
    <2>3. /\ f <= c
          /\ \/ Glue(wire, s.head) = h /\ s.state \notin {"WAIT_ACK", "END"}
             \/ Chunks(a, f, wire) /\ s.state \notin {"WAIT_ACK", "END"}
             \/ ChunksEnd(a, wire)
      <3>1. s.state \in {"HEADERS", "CONTENT", "WAIT_ACK", "END", "FAILED"}
        BY DEF Object
      <3> QED  BY <1>2, <1>3, <2>1, <2>2, <3>1 DEF ChunkedShape
    <2>4. c <= c
      OBVIOUS
    <2>5. ASSUME NEW rest \in Seq(Bytes), wire = Glue(h, rest)
          PROVE  (\A i \in DOMAIN wire : i <= n => wire[i] = h[i]) /\ behind = rest
      <3>1. Glue(wire, <<>>) = Glue(h, rest)
        <4>1. Glue(wire, <<>>) = wire
          BY Glued
        <4> QED  BY <2>5, <4>1, Zenon
      <3>2. \A i \in DOMAIN wire : i <= Len(h) => wire[i] = h[i]
        BY <3>1, NoBytes, FrontAgrees
      <3>3. SubSeq(wire, Len(h) + 1, Len(wire)) = rest
        BY <2>5, BackIs
      <3> QED  BY <1>3, <1>4, <3>2, <3>3, Zenon
    <2>8. CASE Glue(wire, s.head) = h /\ s.state \notin {"WAIT_ACK", "END"}
      <3>1. s.head \in Seq(Bytes) /\ Glue(wire, s.head) = Glue(h, <<>>)
        <4>1. s.head \in Seq(Bytes)
          BY DEF Object
        <4>2. Glue(h, <<>>) = h
          BY Glued
        <4> QED  BY <2>8, <4>1, <4>2, Zenon
      <3>2. \A i \in DOMAIN wire : i <= n => wire[i] = h[i]
        <4>1. \A i \in DOMAIN wire : i <= Len(h) => wire[i] = h[i]
          BY <3>1, NoBytes, FrontAgrees
        <4> QED  BY <1>3, <4>1, Zenon
      <3>3. behind = <<>>
        <4>1. Len(wire) + Len(s.head) = n
          <5>1. Len(Glue(wire, s.head)) = Len(wire) + Len(s.head)
            BY <3>1, Glued
          <5> QED  BY <1>3, <2>8, <5>1, Zenon
        <4>2. Len(wire) \in Nat /\ Len(s.head) \in Nat
          BY <3>1
        <4>3. Len(wire) < n + 1
          BY <4>1, <4>2
        <4> QED  BY <1>4, <4>3
      <3>4. Unchunked(behind) = Read(Cut(Content(c), 0, 0), FALSE)
        <4>1. Framed(<<>>, c, 0) /\ 0 \in Nat /\ 0 <= c
          BY FramedNone
        <4>2. Unchunked(<<>>) = Read(Cut(Content(c), 0, 0), FALSE)
          BY <4>1, NoBytes, FramedReads
        <4> QED  BY <3>3, <4>2, Zenon
      <3>5. Unchunked(behind).read = <<>>
        <4>1. Cut(Content(c), 0, 0) = <<>>
          BY CutNothing
        <4> QED  BY <3>4, <4>1 DEF Read
      <3>6. IsPrefix(<<>>, t)
        BY DEF IsPrefix
      <3> QED  BY <1>7, <2>8, <3>2, <3>5, <3>6, Zenon
    <2>6. CASE Chunks(a, f, wire) /\ s.state \notin {"WAIT_ACK", "END"}
      <3>1. PICK body \in Seq(Bytes) : Framed(body, c, f) /\ wire = Glue(h, body)
        BY <1>2, <1>3, <2>3, <2>6, Zenon DEF Chunks
      <3>2. (\A i \in DOMAIN wire : i <= n => wire[i] = h[i]) /\ behind = body
        BY <2>5, <3>1
      <3>3. Unchunked(body) = Read(Cut(t, 0, f), FALSE)
        <4>1. Unchunked(body) = Read(Cut(Content(c), 0, f), FALSE)
          BY <2>3, <3>1, FramedReads
        <4> QED  BY <1>3, <4>1, Zenon
      <3>4. Unchunked(behind).read = Cut(t, 0, f)
        BY <3>2, <3>3 DEF Read
      <3>5. IsPrefix(Cut(t, 0, f), t)
        <4>1. /\ Cut(t, 0, f) \in Seq(Bytes) /\ Cut(t, f, Len(t)) \in Seq(Bytes)
              /\ Glue(Cut(t, 0, f), Cut(t, f, Len(t))) = t
          BY <1>3, <2>3, Split
        <4>2. PICK y, z : y = Cut(t, 0, f) /\ z = Cut(t, f, Len(t))
          OBVIOUS
        <4>3. y \in Seq(Bytes) /\ z \in Seq(Bytes) /\ Glue(y, z) = Glue(<<>>, t)
          <5>1. Glue(<<>>, t) = t
            BY Glued
          <5> QED  BY <4>1, <4>2, <5>1, Zenon
        <4>4. IsPrefix(SubSeq(y, Len(<<>>) + 1, Len(y)), t)
          BY <4>3, NoBytes, BackBegins
        <4>5. SubSeq(y, Len(<<>>) + 1, Len(y)) = y
          <5>1. y = Glue(<<>>, y)
            BY <4>3, Glued
          <5> QED  BY <4>3, <5>1, NoBytes, BackIs
        <4> QED  BY <4>2, <4>4, <4>5, Zenon
      <3> QED  BY <1>7, <2>6, <3>2, <3>4, <3>5
    <2>7. CASE ChunksEnd(a, wire)
      <3>1. PICK body \in Seq(Bytes) : Framed(body, c, c) /\ wire = Glue(h, Glue(body, Chunk(<<>>)))
        BY <1>2, <1>3, <2>3, <2>7, Zenon DEF ChunksEnd
      <3>2. PICK rest : rest = Glue(body, Chunk(<<>>))
        OBVIOUS
      <3>3. rest \in Seq(Bytes)
        BY <3>2, NoBytes, ChunkBehind
      <3>4. (\A i \in DOMAIN wire : i <= n => wire[i] = h[i]) /\ behind = rest
        BY <2>5, <3>1, <3>2, <3>3, Zenon
      <3>5. Unchunked(rest) = Read(Cut(Content(c), 0, c), TRUE)
        BY <2>4, <3>1, <3>2, FramedEnds
      <3>6. Cut(Content(c), 0, c) = t
        BY <1>3, CutWhole, Zenon
      <3>7. Unchunked(behind) = [read |-> t, last |-> TRUE]
        BY <3>4, <3>5, <3>6, Zenon DEF Read
      <3>8. IsPrefix(Unchunked(behind).read, t)
        <4>1. Unchunked(behind).read = t
          BY <3>7
        <4>2. IsPrefix(t, t)
          BY DEF IsPrefix
        <4> QED  BY <4>1, <4>2, Zenon
      <3> QED  BY <1>7, <3>4, <3>7, <3>8, Zenon
    <2> QED  BY <2>3, <2>6, <2>7, <2>8, Zenon
  <1> QED  BY <1>6, <1>7, Zenon

-----------------------------------------------------------------------------
(* The invariant                                                            *)

NotYet == s = NoResponse /\ wire = <<>> /\ acked = 0 /\ reports = <<>>

OnItsWay ==
    /\ s \in Object /\ s.writtenLength = Len(wire) /\ Shape(s, wire)
    /\ Reported(s.ackedLength, reports, acked)
    /\ s.state = "END" /\ Waits(s.of) => Len(wire) <= acked

RInv ==
    /\ request \in Requests
    /\ r.handled = 0 => ~Started
    /\ \/ Lapsed(s)
       \/ Room /\ (~Started => NotYet) /\ (Started => OnItsWay)

\* The handler has not been called before the request is there.
HandledOnce == incoming # <<>> => r.handled = 0

\* An answer that stays within the room keeps the room.
LEMMA RoomAfter ==
    ASSUME Room, wire' \in Seq(Bytes), Len(wire) <= Len(wire'), Len(wire') <= Len(wire) + Space, acked' = acked
    PROVE  Room'
  <1>1. Space = SendBuffer - (Len(wire) - acked) /\ Space \in Nat
    BY SpaceIs
  <1>2. PICK m \in Nat, n \in Nat : m = Len(wire) /\ n = Len(wire')
    <2>1. Len(wire) \in Nat /\ Len(wire') \in Nat
      BY DEF Room
    <2> QED  BY <2>1, Zenon
  <1>3. acked \in Nat /\ acked <= m /\ m - acked <= SendBuffer /\ SendBuffer \in Nat
    BY <1>2, ResponseAssumption DEF Room
  <1>4. m <= n /\ n <= m + (SendBuffer - (m - acked))
    BY <1>1, <1>2
  <1>5. acked <= n /\ n - acked <= SendBuffer
    BY <1>3, <1>4
  <1> QED  BY <1>2, <1>3, <1>5 DEF Room

\* A failed response has sent what it had sent.
LEMMA ShapeOfFailed ==
    ASSUME NEW o \in Object, NEW w, Shape(o, w), o.of.kind # "basic", o.state \notin {"END", "FAILED"}, NEW o1,
           Becomes(o, o1, "FAILED", o.head, o.content, o.contentLength, o.sentLength, o.from)
    PROVE  Shape(o1, w)
  <1>1. /\ o1.of = o.of /\ o1.state = "FAILED" /\ o1.head = o.head /\ o1.from = o.from
        /\ o1.contentLength = o.contentLength /\ o1.sentLength = o.sentLength
    BY Zenon DEF Becomes
  <1>2. ASSUME o.of.kind \in {"sized", "unsized"}
        PROVE  PlainShape(o1.of, o1.state, o1.head, o1.from, o1.contentLength, o1.sentLength, w)
    <2>1. PlainShape(o.of, o.state, o.head, o.from, o.contentLength, o.sentLength, w)
      BY <1>2 DEF Shape
    <2> QED  BY <1>1, <2>1 DEF PlainShape
  <1>3. ASSUME o.of.kind = "chunked"  PROVE ChunkedShape(o1.of, o1.state, o1.head, o1.from, w)
    <2>1. ChunkedShape(o.of, o.state, o.head, o.from, w)
      BY <1>3 DEF Shape
    <2>2. o.state \in {"HEADERS", "CONTENT", "WAIT_ACK"}
      BY DEF Object
    <2> QED  BY <1>1, <2>1, <2>2 DEF ChunkedShape
  <1> QED  BY <1>1, <1>2, <1>3 DEF Shape

\* The response goes on after the acknowledgement of n bytes, or of none.
GoneOn(n) ==
    /\ s' \in Object /\ s'.writtenLength = Len(wire')
    /\ s'.ackedLength \in Nat /\ s'.ackedLength <= s.ackedLength + n
    /\ wire' \in Seq(Bytes) /\ Len(wire) <= Len(wire') /\ Len(wire') <= Len(wire) + Space
    /\ Shape(s', wire')
    /\ s'.state = "END" /\ Waits(s'.of) => Len(wire') <= s'.ackedLength

LEMMA AckAnswers ==
    ASSUME Room, OnItsWay, ~Finished, NEW n \in Nat, _ack(n)
    PROVE  Lapsed(s') \/ GoneOn(n)
  <1>1. PICK o : o = [s EXCEPT !.ackedLength = @ + n]
    OBVIOUS
  <1>2. IF o.of.kind = "basic" THEN BasicAck(o) ELSE SourceFails \/ AbstractAck(o)
    BY <1>1, Zenon DEF _ack
  <1>3. s \in Object /\ s.writtenLength = Len(wire) /\ Shape(s, wire)
    BY DEF OnItsWay
  <1>4. PICK k \in Nat : k = s.ackedLength + n
    BY <1>3 DEF Object
  <1>5. o = [s EXCEPT !.ackedLength = k]
    BY <1>1, <1>4, Zenon
  <1>6. /\ o \in Object /\ o.of = s.of /\ o.ackedLength = k /\ o.writtenLength = Len(wire)
        /\ o.state = s.state /\ o.head = s.head /\ o.content = s.content
        /\ o.contentLength = s.contentLength /\ o.sentLength = s.sentLength /\ o.from = s.from
    BY <1>3, <1>5, BecomesAcked
  <1>7. Shape(o, wire)
    BY <1>3, <1>6, Zenon DEF Shape
  <1>8. o.of.kind \in {"basic", "sized", "unsized", "chunked"}
    BY <1>6, ResponseIs DEF Object
  <1>9. ASSUME Answered(o)  PROVE Lapsed(s') \/ GoneOn(n)
    <2>1. CASE Lapsed(s')
      BY <2>1
    <2>2. CASE Goes(o)
      <3>1. s'.ackedLength = k /\ k \in Nat /\ k <= s.ackedLength + n
        BY <1>4, <1>6, <2>2 DEF Goes
      <3> QED  BY <1>6, <2>2, <3>1 DEF Goes, GoneOn
    <2> QED  BY <1>9, <2>1, <2>2 DEF Answered
  <1>10. CASE o.of.kind = "basic"
    <2>1. BasicAck(o)
      BY <1>2, <1>10
    <2> QED  BY <1>6, <1>7, <1>9, <1>10, <2>1, BasicGoesOn
  <1>11. CASE o.of.kind # "basic" /\ SourceFails
    <2>1. s.of.kind # "basic" /\ WritesNothing([s EXCEPT !.state = "FAILED"])
      BY <1>6, <1>11 DEF SourceFails
    <2>2. PICK o1 : o1 = [s EXCEPT !.state = "FAILED"]
      OBVIOUS
    <2>3. Becomes(s, o1, "FAILED", s.head, s.content, s.contentLength, s.sentLength, s.from)
      BY <1>3, <2>2, BecomesState DEF States
    <2>4. /\ o1 \in Object /\ o1.of = s.of /\ o1.ackedLength = s.ackedLength
          /\ o1.writtenLength = Len(wire) /\ o1.state = "FAILED"
      BY <1>3, <2>3, Zenon DEF Becomes
    <2>5. Shape(o1, wire)
      BY <1>3, <2>1, <2>3, ShapeOfFailed DEF Finished
    <2>6. s' = o1 /\ wire' = wire
      BY <2>1, <2>2, Zenon DEF WritesNothing
    <2>7. Len(wire) <= Len(wire) + Space /\ wire \in Seq(Bytes) /\ Len(wire) <= Len(wire)
      BY SpaceIs
    <2>8. s.ackedLength \in Nat /\ s.ackedLength <= s.ackedLength + n
      BY <1>3 DEF Object
    <2>9. s'.ackedLength = s.ackedLength /\ s' \in Object /\ s'.state = "FAILED" /\ s'.writtenLength = Len(wire')
      BY <2>4, <2>6, Zenon
    <2>10. Shape(s', wire') /\ wire' \in Seq(Bytes) /\ Len(wire) <= Len(wire') /\ Len(wire') <= Len(wire) + Space
      BY <2>5, <2>6, <2>7, Zenon
    <2> QED  BY <2>8, <2>9, <2>10 DEF GoneOn
  <1>12. CASE o.of.kind \in {"sized", "unsized"} /\ AbstractAck(o)
    BY <1>6, <1>7, <1>9, <1>12, PlainGoesOn
  <1>13. CASE o.of.kind = "chunked" /\ AbstractAck(o)
    BY <1>6, <1>7, <1>9, <1>13, ChunkedGoesOn
  <1> QED  BY <1>2, <1>8, <1>10, <1>11, <1>12, <1>13

\* The answer of the handler.
LEMMA HandlerAnswers ==
    ASSUME Room, NotYet, NEW d \in Responses, Respond(d)
    PROVE  \/ Lapsed(s')
           \/ /\ s' \in Object /\ s'.ackedLength = 0 /\ s'.writtenLength = Len(wire')
              /\ wire' \in Seq(Bytes) /\ Len(wire) <= Len(wire') /\ Len(wire') <= Len(wire) + Space
              /\ Shape(s', wire')
              /\ s'.state = "END" /\ Waits(s'.of) => Len(wire') <= 0
  <1>0. PICK a \in Responses : a = Answer(d)
    BY ResponseAssumption DEF Answer
  <1>1. PICK o : o = NewResponse(a)
    OBVIOUS
  <1>2. IF a.kind = "basic" THEN BasicRespond(o) ELSE AbstractAck(o)
    BY <1>0, <1>1, Zenon DEF Respond
  <1>3. /\ a.kind \in {"basic", "sized", "unsized", "chunked"} /\ a.head \in Nat /\ a.content \in Nat
        /\ HeadBytes(a.head) \in Seq(Bytes) /\ LengthOf(a) \in Nat
    BY ResponseIs
  <1>4. /\ o \in Object /\ o.of = a /\ o.state = "HEADERS" /\ o.head = HeadBytes(a.head)
        /\ o.contentLength = LengthOf(a) /\ o.sentLength = 0 /\ o.ackedLength = 0 /\ o.writtenLength = 0 /\ o.from = 0
    <2>1. PICK h \in Seq(Bytes), none \in Seq(Bytes), m \in Nat :
             h = HeadBytes(a.head) /\ none = <<>> /\ m = LengthOf(a)
      BY <1>3, NoBytes, Zenon
    <2>2. o = [of |-> a, state |-> "HEADERS", head |-> h, content |-> none,
               contentLength |-> m, sentLength |-> 0, ackedLength |-> 0, writtenLength |-> 0,
               from |-> 0, tries |-> 0, lapse |-> "none"]
      BY <1>1, <2>1, Zenon DEF NewResponse
    <2>3. o \in Object
      BY <1>3, <2>2 DEF Object
    <2> QED  BY <2>1, <2>2, <2>3
  <1>5. wire = <<>> /\ acked = 0 /\ Len(wire) = 0
    BY NoBytes DEF NotYet
  <1>6. o.writtenLength = Len(wire) /\ o.head = HeadBytes(o.of.head)
    BY <1>4, <1>5, Zenon
  <1>8. Glue(wire, o.head) = HeadBytes(a.head)
    <2>1. PICK h \in Seq(Bytes) : h = HeadBytes(a.head)
      BY <1>3
    <2>2. Glue(<<>>, h) = h
      BY Glued
    <2> QED  BY <1>4, <1>5, <2>1, <2>2, Zenon
  <1>7. Answered(o)
    <2>1. CASE a.kind = "basic"
      <3>1. BasicRespond(o)
        BY <1>2, <2>1
      <3>2. o.of.kind = "basic" /\ o.contentLength = o.of.content /\ o.sentLength = 0
        BY <1>4, <2>1 DEF LengthOf
      <3> QED  BY <1>4, <1>5, <1>6, <3>1, <3>2, BasicAnswers
    <2>2. CASE a.kind \in {"sized", "unsized"}
      <3>1. AbstractAck(o) /\ o.of.kind \in {"sized", "unsized"}
        BY <1>2, <1>4, <2>2
      <3>2. Glue(wire, o.head) = Beginning(o.of, o.from)
        BY <1>4, <1>8, BeginningIs
      <3>3. PlainShape(o.of, o.state, o.head, o.from, o.contentLength, o.sentLength, wire)
        <4>1. o.from <= o.of.content /\ o.sentLength = o.from /\ o.contentLength = LengthOf(o.of)
          BY <1>3, <1>4
        <4> QED  BY <1>4, <3>2, <4>1 DEF PlainShape
      <3>4. Shape(o, wire)
        BY <3>1, <3>3 DEF Shape
      <3> QED  BY <1>4, <1>6, <3>1, <3>4, PlainGoesOn
    <2>3. CASE a.kind = "chunked"
      <3>1. AbstractAck(o) /\ o.of.kind = "chunked"
        BY <1>2, <1>4, <2>3
      <3>2. ChunkedShape(o.of, o.state, o.head, o.from, wire)
        BY <1>3, <1>4, <1>8 DEF ChunkedShape
      <3>3. Shape(o, wire)
        BY <3>1, <3>2 DEF Shape
      <3> QED  BY <1>4, <1>6, <3>1, <3>3, ChunkedGoesOn
    <2> QED  BY <1>3, <2>1, <2>2, <2>3
  <1> QED  BY <1>4, <1>7 DEF Answered, Goes

-----------------------------------------------------------------------------
(* A response that has lapsed                                               *)

\* It goes on, and is one that has lapsed.
LEMMA LapsedWrites ==
    ASSUME NEW o, Lapsed(o), NEW bytes, Writes(o, bytes)
    PROVE  Lapsed(s')
  <1>1. PICK k : s' = [o EXCEPT !.writtenLength = k]
    BY DEF Writes
  <1> QED  BY <1>1 DEF Lapsed

LEMMA LapsedWritesNothing ==
    ASSUME NEW o, Lapsed(o), WritesNothing(o)
    PROVE  Lapsed(s')
  BY DEF WritesNothing

LEMMA LapsedBasic ==
    ASSUME NEW o, Lapsed(o), BasicAck(o)
    PROVE  Lapsed(s')
  <1>1. Lapsed([o EXCEPT !.state = "WAIT_ACK", !.content = <<>>])
    BY DEF Lapsed
  <1>2. ASSUME NEW k, NEW c  PROVE Lapsed([o EXCEPT !.sentLength = k, !.content = c])
    BY DEF Lapsed
  <1>3. Lapsed([o EXCEPT !.state = IF o.ackedLength >= o.writtenLength THEN "END" ELSE @])
    BY DEF Lapsed
  <1> QED  BY <1>1, <1>2, <1>3, LapsedWrites, LapsedWritesNothing DEF BasicAck

LEMMA LapsedFills ==
    ASSUME NEW o, Lapsed(o), NEW space, FillAndSend(o, space)
    PROVE  Lapsed(s')
  <1>1. ASSUME NEW p, Lapsed(p), WithoutFill(p)  PROVE Lapsed(s')
    <2>1. Lapsed([p EXCEPT !.lapse = IF p.head = <<>> THEN @ ELSE "kept"])
      BY <1>1 DEF Lapsed
    <2> QED  BY <1>1, <2>1, LapsedWritesNothing DEF WithoutFill
  <1>2. ASSUME TryAgain(o)  PROVE Lapsed(s')
    <2>1. PICK k : WithoutFill([o EXCEPT !.tries = k])
      BY <1>2 DEF TryAgain
    <2>2. Lapsed([o EXCEPT !.tries = k])
      BY DEF Lapsed
    <2> QED  BY <1>1, <2>1, <2>2
  <1>3. CASE Chunked(o, space)
    <2>1. ASSUME NEW n, NEW bytes,
                 Writes([o EXCEPT !.head = <<>>, !.from = @ + n, !.sentLength = @ + n,
                                  !.state = IF n = 0 THEN "WAIT_ACK" ELSE @], bytes)
          PROVE  Lapsed(s')
      <3>1. PICK f, l, st : st = (IF n = 0 THEN "WAIT_ACK" ELSE o.state)
               /\ Writes([o EXCEPT !.head = <<>>, !.from = f, !.sentLength = l, !.state = st], bytes)
        BY <2>1, Zenon
      <3>2. Lapsed([o EXCEPT !.head = <<>>, !.from = f, !.sentLength = l, !.state = st])
        BY <3>1 DEF Lapsed
      <3> QED  BY <3>1, <3>2, LapsedWrites
    <2> QED  BY <1>1, <1>2, <1>3, <2>1, Zenon DEF Chunked
  <1>4. CASE Plain(o, space)
    <2>1. ASSUME NEW n, NEW bytes,
                 Writes([o EXCEPT !.head = <<>>, !.from = @ + n, !.sentLength = @ + n,
                                 !.lapse = IF o.of.kind = "unsized" /\ space = 0 THEN "late" ELSE @,
                                 !.state = IF \/ o.sentLength + n = o.contentLength
                                              \/ o.of.kind = "unsized" /\ o.head = <<>> /\ n = 0
                                           THEN "WAIT_ACK" ELSE @], bytes)
          PROVE  Lapsed(s')
      <3>1. PICK f, l, k, st :
               /\ k = (IF o.of.kind = "unsized" /\ space = 0 THEN "late" ELSE o.lapse)
               /\ st = (IF \/ o.sentLength + n = o.contentLength
                           \/ o.of.kind = "unsized" /\ o.head = <<>> /\ n = 0
                        THEN "WAIT_ACK" ELSE o.state)
               /\ Writes([o EXCEPT !.head = <<>>, !.from = f, !.sentLength = l, !.lapse = k, !.state = st], bytes)
        BY <2>1, Zenon
      <3>2. k # "none" /\ st # "SETUP"
        BY <3>1 DEF Lapsed
      <3>3. Lapsed([o EXCEPT !.head = <<>>, !.from = f, !.sentLength = l, !.lapse = k, !.state = st])
        BY <3>2 DEF Lapsed
      <3> QED  BY <3>1, <3>3, LapsedWrites
    <2> QED  BY <1>2, <1>4, <2>1, LapsedWritesNothing, Zenon DEF Plain
  <1> QED  BY <1>3, <1>4, Zenon DEF FillAndSend

LEMMA LapsedGoesOn ==
    ASSUME Lapsed(s), NEW n, _ack(n)
    PROVE  Lapsed(s')
  <1>1. PICK o : o = [s EXCEPT !.ackedLength = @ + n]
    OBVIOUS
  <1>2. BasicAck(o) \/ SourceFails \/ AbstractAck(o)
    BY <1>1, Zenon DEF _ack
  <1>3. Lapsed(o)
    BY <1>1 DEF Lapsed
  <1>4. CASE BasicAck(o)
    BY <1>3, <1>4, LapsedBasic
  <1>5. CASE SourceFails
    <2>1. Lapsed([s EXCEPT !.state = "FAILED"])
      BY DEF Lapsed
    <2> QED  BY <1>5, <2>1, LapsedWritesNothing DEF SourceFails
  <1>6. CASE AbstractAck(o)
    <2>1. Lapsed([o EXCEPT !.head = SubSeq(o.head, Space + 1, Len(o.head))])
      BY <1>3 DEF Lapsed
    <2>2. Lapsed([o EXCEPT !.state = "CONTENT"])
      BY <1>3 DEF Lapsed
    <2>3. Lapsed([o EXCEPT !.state = IF o.of.kind # "sized" \/ o.ackedLength >= o.writtenLength THEN "END" ELSE @])
      BY <1>3 DEF Lapsed
    <2> QED  BY <1>3, <1>6, <2>1, <2>2, <2>3, AbstractAcks, LapsedWrites, LapsedFills, LapsedWritesNothing, Zenon
  <1> QED  BY <1>2, <1>4, <1>5, <1>6

\* Nor does any other step change that.
LEMMA LapsedStays ==
    ASSUME Lapsed(s), RInv, HandledOnce, [Next]_vars
    PROVE  RInv'
  <1>1. r.handled # 0 /\ request \in Requests
    BY DEF RInv, Started, Lapsed
  <1>2. r'.handled = r.handled /\ request' = request
    <2>1. incoming = <<>>
      BY <1>1 DEF HandledOnce
    <2> QED  BY <2>1 DEF Next, vars, OnData, Receive, requestVars
  <1>3. Lapsed(s')
    <2>1. CASE UNCHANGED s
      BY <2>1
    <2>3. CASE ResponseNext
      BY <2>1, <2>3, LapsedGoesOn DEF ResponseNext, OnAck, OnPoll, Acknowledged
    <2>4. ~OnData
      BY <1>1 DEF HandledOnce, OnData, Receive
    <2> QED  BY <2>1, <2>3, <2>4 DEF Next, vars
  <1> QED  BY <1>1, <1>2, <1>3 DEF RInv

\* The invariant holds at first, is kept by every step, and implies the property.
LEMMA RInvInit ==
    ASSUME Init
    PROVE  RInv
  <1>1. NotYet /\ request \in Requests /\ ~Started
    BY DEF Init, ResponseInit, RequestInit, NotYet, Started, NoResponse
  <1>2. Room
    <2>1. wire = <<>> /\ acked = 0
      BY <1>1 DEF NotYet
    <2>2. <<>> \in Seq(Bytes) /\ 0 <= Len(<<>>) /\ Len(<<>>) - 0 <= SendBuffer
      BY NoBytes, ResponseAssumption
    <2> QED  BY <2>1, <2>2 DEF Room
  <1> QED  BY <1>1, <1>2 DEF RInv

LEMMA RInvNext ==
    ASSUME RInv, HandledOnce, [Next]_vars
    PROVE  RInv'
  <1>5. CASE Lapsed(s)
    BY <1>5, LapsedStays
  <1>6. SUFFICES ASSUME ~Lapsed(s)  PROVE RInv'
    BY <1>5
  <1>1. Room /\ request \in Requests /\ (~Started => NotYet) /\ (Started => OnItsWay) /\ (r.handled = 0 => ~Started)
    BY <1>6 DEF RInv
  <1>2. ASSUME UNCHANGED responseVars, UNCHANGED requestVars  PROVE RInv'
    BY <1>1, <1>2 DEF responseVars, requestVars, RInv, Room, NotYet, OnItsWay, Started
  <1>3. CASE OnData
    <2>1. incoming # <<>> /\ request' = request
      BY <1>3 DEF OnData, Receive
    <2>2. r.handled = 0 /\ ~Started /\ NotYet
      BY <1>1, <2>1 DEF HandledOnce
    <2>3. CASE r'.handled > r.handled
      <3>1. PICK a \in request.responses : Respond(a)
        BY <1>3, <2>3 DEF OnData
      <3>2. a \in Responses
        BY <1>1, <3>1, ConnectionAssumption
      <3>3. r'.handled # 0
        BY <2>2, <2>3
      <3>4. CASE Lapsed(s')
        BY <1>1, <2>1, <3>3, <3>4 DEF RInv
      <3>5. CASE /\ s' \in Object /\ s'.ackedLength = 0 /\ s'.writtenLength = Len(wire')
                 /\ wire' \in Seq(Bytes) /\ Len(wire) <= Len(wire') /\ Len(wire') <= Len(wire) + Space
                 /\ Shape(s', wire')
                 /\ s'.state = "END" /\ Waits(s'.of) => Len(wire') <= 0
        <4>1. acked' = 0 /\ reports' = <<>> /\ acked' = acked
          BY <2>2, <3>1 DEF Respond, NotYet
        <4>2. Room'
          BY <1>1, <3>5, <4>1, RoomAfter
        <4>3. Reported(0, <<>>, 0)
          BY NothingReported
        <4>4. OnItsWay'
          BY <3>5, <4>1, <4>3, Zenon DEF OnItsWay
        <4>5. Started'
          BY <3>5 DEF Started, Object
        <4> QED  BY <1>1, <2>1, <3>3, <4>2, <4>4, <4>5 DEF RInv
      <3> QED  BY <1>1, <2>2, <3>1, <3>2, <3>4, <3>5, HandlerAnswers
    <2>4. CASE ~(r'.handled > r.handled)
      <3>1. UNCHANGED responseVars
        BY <1>3, <2>4 DEF OnData
      <3> QED  BY <1>1, <2>1, <2>2, <3>1 DEF responseVars, RInv, Room, NotYet, Started
    <2> QED  BY <2>3, <2>4, Zenon
  <1>4. ASSUME ResponseNext, UNCHANGED requestVars  PROVE RInv'
    <2>1. request' = request /\ r' = r
      BY <1>4 DEF requestVars
    <2>2. ASSUME NEW n \in Nat, _ack(n), Started, ~Finished, acked' = acked,
                 Reported(s.ackedLength + n, reports', acked)
          PROVE  RInv'
      <3>1. OnItsWay
        BY <1>1, <2>2
      <3>2. r'.handled # 0
        BY <1>1, <2>1, <2>2
      <3>3. CASE Lapsed(s')
        BY <1>1, <2>1, <3>2, <3>3 DEF RInv
      <3>4. CASE GoneOn(n)
        <4>1. /\ s' \in Object /\ s'.writtenLength = Len(wire') /\ s'.ackedLength \in Nat
              /\ s'.ackedLength <= s.ackedLength + n
              /\ wire' \in Seq(Bytes) /\ Len(wire) <= Len(wire') /\ Len(wire') <= Len(wire) + Space
              /\ Shape(s', wire')
              /\ (s'.state = "END" /\ Waits(s'.of) => Len(wire') <= s'.ackedLength)
          BY <3>4, Zenon DEF GoneOn
        <4>2. Room'
          BY <1>1, <2>2, <4>1, RoomAfter
        <4>3. Reported(s'.ackedLength, reports', acked')
          <5>1. Reported(s'.ackedLength, reports', acked)
            BY <2>2, <4>1, ReportedFewer
          <5> QED  BY <2>2, <5>1, Zenon
        <4>4. s'.state = "END" /\ Waits(s'.of) => Len(wire') <= acked'
          <5>1. s'.ackedLength \in Nat /\ s'.ackedLength <= acked'
            BY <4>3, ReportedBound
          <5>2. Len(wire') \in Nat /\ acked' \in Nat
            BY <4>2 DEF Room
          <5> QED  BY <4>1, <5>1, <5>2
        <4>5. OnItsWay'
          BY <4>1, <4>3, <4>4, Zenon DEF OnItsWay
        <4>6. Started'
          BY <4>1 DEF Started, Object
        <4> QED  BY <1>1, <2>1, <3>2, <4>2, <4>5, <4>6 DEF RInv
      <3> QED  BY <1>1, <2>2, <3>1, <3>3, <3>4, AckAnswers
    <2>3. CASE OnAck
      <3>1. reports # <<>> /\ reports' = Tail(reports) /\ acked' = acked
        BY <2>3 DEF OnAck
      <3>2. Started /\ OnItsWay
        BY <1>1, <3>1 DEF NotYet
      <3>3. Reported(s.ackedLength, reports, acked)
        BY <3>2 DEF OnItsWay
      <3>4. /\ Head(reports) \in Nat /\ s.ackedLength + Head(reports) \in Nat
            /\ Reported(s.ackedLength + Head(reports), reports', acked)
        <4>1. /\ Head(reports) \in Nat /\ s.ackedLength + Head(reports) \in Nat
              /\ Reported(s.ackedLength + Head(reports), Tail(reports), acked)
          BY <3>1, <3>3, ReportedNext
        <4> QED  BY <3>1, <4>1, Zenon
      <3>5. CASE ~Finished
        <4>1. _ack(Head(reports))
          BY <2>3, <3>2, <3>5 DEF OnAck
        <4> QED  BY <2>2, <3>1, <3>2, <3>4, <3>5, <4>1
      <3>6. CASE Finished
        <4>1. s' = s /\ wire' = wire
          BY <2>3, <3>6 DEF OnAck
        <4>2. Reported(s.ackedLength, reports', acked)
          <5>1. s.ackedLength \in Nat
            BY <3>3, ReportedBound
          <5>2. PICK k \in Nat, l \in Nat : k = s.ackedLength /\ l = s.ackedLength + Head(reports) /\ k <= l
            BY <3>4, <5>1
          <5>3. Reported(l, reports', acked)
            BY <3>4, <5>2, Zenon
          <5>4. Reported(k, reports', acked)
            BY <5>2, <5>3, ReportedFewer
          <5> QED  BY <5>2, <5>4, Zenon
        <4>3. OnItsWay'
          BY <3>1, <3>2, <4>1, <4>2 DEF OnItsWay
        <4>4. Room'
          BY <1>1, <3>1, <4>1 DEF Room
        <4>5. Started' /\ r'.handled # 0
          BY <1>1, <2>1, <3>2, <4>1 DEF Started
        <4> QED  BY <1>1, <2>1, <4>3, <4>4, <4>5 DEF RInv
      <3> QED  BY <3>5, <3>6, Zenon
    <2>4. CASE OnPoll
      <3>1. Started /\ ~Finished /\ _ack(0) /\ acked' = acked /\ reports' = reports
        BY <2>4 DEF OnPoll
      <3>2. Reported(s.ackedLength, reports, acked)
        BY <1>1, <3>1 DEF OnItsWay
      <3>3. s.ackedLength \in Nat
        BY <3>2, ReportedBound
      <3>4. s.ackedLength + 0 = s.ackedLength /\ 0 \in Nat
        BY <3>3
      <3>5. Reported(s.ackedLength + 0, reports', acked)
        BY <3>1, <3>2, <3>4, Zenon
      <3> QED  BY <2>2, <3>1, <3>4, <3>5
    <2>5. CASE Acknowledged
      <3>1. PICK n \in Acks \cup {Len(wire) - acked} :
               /\ 0 < n /\ n <= Len(wire) - acked
               /\ acked' = acked + n /\ reports' = Append(reports, n)
        BY <2>5 DEF Acknowledged
      <3>2. s' = s /\ wire' = wire
        BY <2>5 DEF Acknowledged
      <3>3. /\ wire \in Seq(Bytes) /\ Len(wire) \in Nat /\ acked \in Nat /\ acked <= Len(wire)
            /\ Len(wire) - acked <= SendBuffer
        BY <1>1 DEF Room
      <3>4. n \in Nat /\ acked + n \in Nat /\ acked + n <= Len(wire) /\ Len(wire) - (acked + n) <= SendBuffer
        BY <3>1, <3>3, ResponseAssumption
      <3>5. Room'
        BY <3>1, <3>2, <3>3, <3>4 DEF Room
      <3>6. Started
        <4>1. ASSUME ~Started  PROVE FALSE
          <5>1. wire = <<>> /\ acked = 0 /\ Len(wire) = 0
            BY <1>1, <4>1, NoBytes DEF NotYet
          <5> QED  BY <3>1, <3>4, <5>1
        <4> QED  BY <4>1
      <3>7. OnItsWay
        BY <1>1, <3>6
      <3>8. Reported(s.ackedLength, reports', acked')
        <4>1. Reported(s.ackedLength, reports, acked)
          BY <3>7 DEF OnItsWay
        <4>2. Reported(s.ackedLength, Append(reports, n), acked + n)
          BY <3>4, <4>1, ReportedMore
        <4> QED  BY <3>1, <4>2, Zenon
      <3>9. s'.state = "END" /\ Waits(s'.of) => Len(wire') <= acked'
        <4>1. s.state = "END" /\ Waits(s.of) => Len(wire) <= acked
          BY <3>7 DEF OnItsWay
        <4> QED  BY <3>1, <3>2, <3>3, <3>4, <4>1
      <3>10. OnItsWay'
        BY <3>2, <3>7, <3>8, <3>9 DEF OnItsWay
      <3>11. Started' /\ r'.handled # 0
        BY <1>1, <2>1, <3>2, <3>6 DEF Started
      <3> QED  BY <1>1, <2>1, <3>5, <3>10, <3>11 DEF RInv
    <2> QED  BY <1>4, <2>3, <2>4, <2>5 DEF ResponseNext
  <1> QED  BY <1>2, <1>3, <1>4 DEF Next, vars, responseVars, requestVars

LEMMA RInvIsWhole ==
    ASSUME RInv
    PROVE  ResponseIsWhole
  <1>1. CASE ~Started \/ Lapsed(s)
    BY <1>1 DEF ResponseIsWhole, Lapsed
  <1>2. CASE Started /\ ~Lapsed(s)
    <2>1. OnItsWay /\ Room
      BY <1>2 DEF RInv
    <2>2. wire \in Seq(Bytes) /\ acked \in Nat /\ acked <= Len(wire)
      BY <2>1 DEF Room
    <2>3. s.state = "END" /\ Waits(s.of) => acked = Len(wire)
      BY <2>1, <2>2 DEF OnItsWay
    <2> QED  BY <2>1, <2>2, <2>3, ShapeIsWhole DEF OnItsWay
  <1> QED  BY <1>1, <1>2, Zenon

\* ResponseIsWhole of the responses of ESPAsyncWebServer (WebResponses.cpp): of
\* strings, of content with a length or without and of chunks, for any heads and
\* contents, any room in the send buffer and acknowledgements of any sizes, with
\* fillers that try again at any time and sources that fail: what is on the wire
\* is always a beginning of the response, and all of it once the server takes it
\* for sent, unless the head was kept after the first fill or left a response
\* without a length no room.  That the handler is called once, when the request
\* is there, is HandledAsSent, which is model-checked.
THEOREM ResponsesAreWhole == Spec /\ []HandledAsSent => []ResponseIsWhole
  <1>1. HandledAsSent => HandledOnce
    BY DEF HandledAsSent, HandledOnce
  <1>2. Init => RInv
    BY RInvInit
  <1>3. RInv /\ HandledAsSent /\ [Next]_vars => RInv'
    BY <1>1, RInvNext
  <1>4. RInv => ResponseIsWhole
    BY RInvIsWhole
  <1> QED  BY <1>2, <1>3, <1>4, PTL DEF Spec
=============================================================================
