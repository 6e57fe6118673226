----------------------------- MODULE BodyProofs -----------------------------
(***************************************************************************)
(* Typed bodies, for bodies, chunks and images of every length: what       *)
(* decodes is canonical, an image is read whole or refused, and text is    *)
(* the concatenation of what its author sent.                              *)
(***************************************************************************)
EXTENDS ContentBodies, SequenceTheorems, WellFoundedInduction, TLAPS

Octets == Seq(Nat)
Images == [uri: Octets, width: Nat]

(***************************************************************************)
(* The encoding of a struct.                                               *)
(***************************************************************************)

LEMMA OctetsConcat ==
    ASSUME NEW a \in Octets, NEW b \in Octets
    PROVE  /\ a \o b \in Octets /\ Len(a \o b) = Len(a) + Len(b)
           /\ \A i \in 1..Len(a) : (a \o b)[i] = a[i]
           /\ \A i \in 1..Len(b) : (a \o b)[Len(a) + i] = b[i]
  BY DEF Octets

LEMMA OctetsEqual ==
    ASSUME NEW a \in Octets, NEW b \in Octets, Len(a) = Len(b),
           \A i \in 1..Len(a) : a[i] = b[i]
    PROVE  a = b
  BY DEF Octets

\* The bytes after the first.
LEMMA Slice ==
    ASSUME NEW b \in Octets, NEW n \in Nat, Len(b) >= n + 1
    PROVE  \E u \in Octets : /\ u = SubSeq(b, 2, n + 1) /\ Len(u) = n
                            /\ \A i \in 1..n : u[i] = b[i + 1]
  <1> DEFINE u == SubSeq(b, 2, n + 1)
  <1>1. \A i \in 2..(n + 1) : b[i] \in Nat
    BY DEF Octets
  <1>2. /\ u \in Seq(Nat) /\ Len(u) = IF 2 <= n + 1 THEN n + 1 - 2 + 1 ELSE 0
        /\ \A i \in 1..(n + 1 - 2 + 1) : u[i] = b[2 + i - 1]
    BY <1>1, SubSeqProperties
  <1> HIDE DEF u
  <1>3. Len(u) = n /\ \A i \in 1..n : u[i] = b[i + 1]
    BY <1>2
  <1> QED
    BY <1>2, <1>3 DEF Octets, u

\* Length and bytes of an encoded image.
LEMMA Encoded ==
    ASSUME NEW image \in Images
    PROVE  /\ to_vec(image) \in Octets
           /\ Len(to_vec(image)) = Len(image.uri) + 2
           /\ to_vec(image)[1] = Len(image.uri)
           /\ \A i \in 1..Len(image.uri) : to_vec(image)[i + 1] = image.uri[i]
           /\ to_vec(image)[Len(image.uri) + 2] = image.width
  <1>1. /\ image.uri \in Octets /\ image.width \in Nat /\ Len(image.uri) \in Nat
        /\ <<Len(image.uri)>> \in Octets /\ <<image.width>> \in Octets
        /\ Len(<<Len(image.uri)>>) = 1 /\ Len(<<image.width>>) = 1
    BY DEF Images, Octets
  <1> DEFINE head == <<Len(image.uri)>> \o image.uri
  <1>2. /\ head \in Octets /\ Len(head) = Len(image.uri) + 1 /\ head[1] = Len(image.uri)
        /\ \A i \in 1..Len(image.uri) : head[1 + i] = image.uri[i]
    BY <1>1, OctetsConcat
  <1>3. to_vec(image) = head \o <<image.width>>
    BY DEF to_vec
  <1> HIDE DEF head
  <1>4. /\ head \o <<image.width>> \in Octets
        /\ Len(head \o <<image.width>>) = Len(head) + 1
        /\ \A i \in 1..Len(head) : (head \o <<image.width>>)[i] = head[i]
        /\ (head \o <<image.width>>)[Len(head) + 1] = image.width
    BY <1>1, <1>2, OctetsConcat
  <1>5. \A i \in 1..Len(image.uri) : i + 1 \in 1..Len(head) /\ 1 + i = i + 1
    BY <1>1, <1>2
  <1> QED
    BY <1>1, <1>2, <1>3, <1>4, <1>5

\* Whatever try_from_slice accepts is the encoding of what it returns.
LEMMA DecodedIsEncoding ==
    ASSUME NEW b \in Octets, NEW image \in try_from_slice(b)
    PROVE  image \in Images /\ b = to_vec(image)
  <1>1. /\ b # <<>> /\ Len(b) = b[1] + 2 /\ image = read_image(b)
    BY DEF try_from_slice
  <1>2. Len(b) \in Nat /\ Len(b) > 0 /\ b[1] \in Nat /\ \A i \in 1..Len(b) : b[i] \in Nat
    BY <1>1 DEF Octets
  <1>3. PICK u \in Octets : /\ u = SubSeq(b, 2, b[1] + 1) /\ Len(u) = b[1]
                            /\ \A i \in 1..b[1] : u[i] = b[i + 1]
    <2>1. b[1] \in Nat /\ Len(b) >= b[1] + 1
      BY <1>1, <1>2
    <2> QED
      BY <2>1, Slice, Zenon
  <1>4. image.uri = u /\ image.width = b[b[1] + 2] /\ image \in Images
    BY <1>1, <1>2, <1>3 DEF read_image, Images
  <1>5. /\ to_vec(image) \in Octets /\ Len(to_vec(image)) = Len(b)
        /\ to_vec(image)[1] = b[1]
        /\ \A i \in 1..b[1] : to_vec(image)[i + 1] = b[i + 1]
        /\ to_vec(image)[b[1] + 2] = b[b[1] + 2]
    <2>1. /\ to_vec(image) \in Octets /\ Len(to_vec(image)) = Len(u) + 2
          /\ to_vec(image)[1] = Len(u)
          /\ \A i \in 1..Len(u) : to_vec(image)[i + 1] = u[i]
          /\ to_vec(image)[Len(u) + 2] = image.width
      BY <1>4, Encoded
    <2> QED
      BY <1>1, <1>2, <1>3, <1>4, <2>1
  <1>6. ASSUME NEW i \in 1..Len(b) PROVE to_vec(image)[i] = b[i]
    <2>1. CASE i = 1 \/ i = Len(b)
      BY <1>1, <1>5, <2>1
    <2>2. CASE i # 1 /\ i # Len(b)
      <3>1. i - 1 \in 1..b[1] /\ (i - 1) + 1 = i
        BY <1>1, <1>2, <2>2
      <3> QED
        BY <1>5, <3>1
    <2> QED
      BY <2>1, <2>2
  <1> QED
    BY <1>4, <1>5, <1>6, OctetsEqual

\* An encoded image, with more bytes behind it or none.
LEMMA DecodeEncoded ==
    ASSUME NEW image \in Images, NEW rest \in Octets
    PROVE  try_from_slice(to_vec(image) \o rest) = IF rest = <<>> THEN {image} ELSE {}
  <1> DEFINE b == to_vec(image) \o rest
  <1>1. /\ to_vec(image) \in Octets /\ Len(to_vec(image)) = Len(image.uri) + 2
        /\ to_vec(image)[1] = Len(image.uri)
        /\ \A i \in 1..Len(image.uri) : to_vec(image)[i + 1] = image.uri[i]
        /\ to_vec(image)[Len(image.uri) + 2] = image.width
    BY Encoded
  <1>2. image.uri \in Octets /\ Len(image.uri) \in Nat /\ Len(rest) \in Nat
    BY DEF Images, Octets
  <1>3. /\ b \in Octets /\ Len(b) = Len(image.uri) + 2 + Len(rest) /\ b[1] = Len(image.uri)
        /\ \A i \in 1..(Len(image.uri) + 2) : b[i] = to_vec(image)[i]
    <2>1. /\ b \in Octets /\ Len(b) = Len(to_vec(image)) + Len(rest)
          /\ \A i \in 1..Len(to_vec(image)) : b[i] = to_vec(image)[i]
      BY <1>1, OctetsConcat
    <2> HIDE DEF b
    <2>2. 1 \in 1..Len(to_vec(image))
      BY <1>1, <1>2
    <2> QED
      BY <1>1, <1>2, <2>1, <2>2
  <1>4. b # <<>>
    BY <1>2, <1>3 DEF Octets
  <1> HIDE DEF b
  <1>5. CASE rest # <<>>
    <2>1. Len(rest) > 0
      BY <1>5 DEF Octets
    <2> QED
      BY <1>2, <1>3, <1>5, <2>1 DEF try_from_slice, b
  <1>6. CASE rest = <<>>
    <2>1. Len(b) = b[1] + 2
      BY <1>2, <1>3, <1>6
    <2>2. try_from_slice(b) = {read_image(b)}
      BY <1>4, <2>1 DEF try_from_slice
    <2>3. PICK u \in Octets : /\ u = SubSeq(b, 2, b[1] + 1) /\ Len(u) = b[1]
                              /\ \A i \in 1..b[1] : u[i] = b[i + 1]
      <3>1. b[1] \in Nat /\ Len(b) >= b[1] + 1
        BY <1>2, <1>3, <2>1
      <3> QED
        BY <1>3, <3>1, Slice, Zenon
    <2>4. ASSUME NEW i \in 1..Len(image.uri) PROVE u[i] = image.uri[i]
      <3>1. i + 1 \in 1..(Len(image.uri) + 2)
        BY <1>2
      <3> QED
        BY <1>1, <1>3, <2>3, <3>1
    <2>5. u = image.uri
      <3>1. Len(u) = Len(image.uri)
        BY <1>3, <2>3
      <3> QED
        BY <1>2, <2>4, <3>1, OctetsEqual
    <2>6. b[b[1] + 2] = image.width
      BY <1>1, <1>2, <1>3
    <2>7. image = [uri |-> image.uri, width |-> image.width]
      BY DEF Images
    <2> QED
      BY <1>6, <2>2, <2>3, <2>5, <2>6, <2>7 DEF read_image, b
  <1> QED
    BY <1>5, <1>6

(***************************************************************************)
(* The pieces of a message, one after the other.                           *)
(***************************************************************************)

\* Induction over the pieces of a message.
LEMMA PieceInduction ==
    ASSUME NEW S, 0 \in S, \A n \in Nat : n \in S => n + 1 \in S
    PROVE  Nat \subseteq S
  <1> SUFFICES ASSUME Nat \ S # {} PROVE FALSE
    OBVIOUS
  <1> DEFINE less == OpToRel(<, Nat)
  <1>1. IsWellFoundedOn(less, Nat)
    BY NatLessThanWellFounded
  <1>2. less = {p \in Nat \X Nat : p[1] < p[2]}
    BY DEF OpToRel
  <1> HIDE DEF less
  <1>3. PICK m \in Nat \ S : \A y \in Nat \ S : ~(<<y, m>> \in less)
    BY <1>1, WFMin
  <1>4. m # 0 /\ m - 1 \in Nat /\ m - 1 < m /\ (m - 1) + 1 = m
    BY <1>3
  <1>5. <<m - 1, m>> \in less
    BY <1>2, <1>3, <1>4
  <1>6. m - 1 \in S
    BY <1>3, <1>4, <1>5
  <1> QED
    BY <1>3, <1>4, <1>6

\* f[i] is the concatenation of the first i sequences of seqs, for i up to n.
Joined(f, n, seqs) ==
    f = [i \in 1..n |-> IF i = 1 THEN seqs[i] ELSE f[i - 1] \o seqs[i]]

LEMMA JoinedStep ==
    ASSUME NEW f, NEW n \in Nat, NEW seqs, Joined(f, n, seqs)
    PROVE  \A i \in 1..n : f[i] = IF i = 1 THEN seqs[i] ELSE f[i - 1] \o seqs[i]
  BY DEF Joined

LEMMA JoinedExists ==
    ASSUME NEW seqs
    PROVE  \A n \in Nat : \E f : Joined(f, n, seqs)
  <1> DEFINE S == {n \in Nat : \E f : Joined(f, n, seqs)}
  <1>1. 0 \in S
    <2> DEFINE f == [i \in 1..0 |-> <<>>]
    <2>1. Joined(f, 0, seqs)
      BY DEF Joined
    <2> QED
      BY <2>1
  <1>2. ASSUME NEW n \in Nat, n \in S PROVE n + 1 \in S
    <2>1. PICK g : Joined(g, n, seqs)
      BY <1>2
    <2> DEFINE next == IF n = 0 THEN seqs[1] ELSE g[n] \o seqs[n + 1]
               f    == [i \in 1..(n + 1) |-> IF i = n + 1 THEN next ELSE g[i]]
               h    == [i \in 1..(n + 1) |-> IF i = 1 THEN seqs[i] ELSE f[i - 1] \o seqs[i]]
    <2>2. \A i \in 1..n : g[i] = IF i = 1 THEN seqs[i] ELSE g[i - 1] \o seqs[i]
      BY <2>1, JoinedStep
    <2>3. ASSUME NEW i \in 1..(n + 1)
          PROVE  f[i] = IF i = 1 THEN seqs[i] ELSE f[i - 1] \o seqs[i]
      <3>1. CASE i = n + 1 /\ n # 0
        <4>1. i - 1 \in 1..(n + 1) /\ i - 1 # n + 1 /\ i - 1 = n /\ i # 1
          BY <3>1
        <4>2. f[i - 1] = g[n] /\ f[i] = next
          BY <3>1, <4>1
        <4> QED
          BY <3>1, <4>1, <4>2
      <3>2. CASE i # n + 1 /\ i # 1
        <4>1. i \in 1..n /\ i - 1 \in 1..(n + 1) /\ i - 1 # n + 1
          BY <3>2
        <4>2. f[i] = g[i] /\ f[i - 1] = g[i - 1]
          BY <3>2, <4>1
        <4> QED
          BY <2>2, <3>2, <4>1, <4>2
      <3>3. CASE i # n + 1 /\ i = 1
        BY <2>2, <3>3
      <3>4. CASE i = n + 1 /\ n = 0
        BY <3>4
      <3> QED
        BY <3>1, <3>2, <3>3, <3>4
    <2>4. f = h
      BY <2>3
    <2>5. Joined(f, n + 1, seqs)
      BY <2>4 DEF Joined
    <2> QED
      BY <2>5
  <1>3. Nat \subseteq S
    BY <1>1, <1>2, PieceInduction
  <1> QED
    BY <1>3

LEMMA FlattenUnfolds ==
    ASSUME NEW seqs, Len(seqs) \in Nat \ {0}
    PROVE  \E f : Joined(f, Len(seqs), seqs) /\ FlattenSeq(seqs) = f[Len(seqs)]
  <1> DEFINE f == CHOOSE g : Joined(g, Len(seqs), seqs)
  <1>1. Joined(f, Len(seqs), seqs)
    BY JoinedExists, Zenon
  <1>2. FlattenSeq(seqs) = f[Len(seqs)]
    <2>1. Len(seqs) # 0
      OBVIOUS
    <2> QED
      BY <2>1, Zenon DEF FlattenSeq, Joined
  <1> QED
    BY <1>1, <1>2

\* Of one piece.
LEMMA FlattenOne ==
    ASSUME NEW b
    PROVE  FlattenSeq(<<b>>) = b
  <1> DEFINE one == <<b>>
  <1>1. Len(one) = 1 /\ Len(one) \in Nat \ {0} /\ one[1] = b
    OBVIOUS
  <1> HIDE DEF one
  <1>2. PICK f : Joined(f, Len(one), one) /\ FlattenSeq(one) = f[Len(one)]
    BY <1>1, FlattenUnfolds
  <1>3. f[1] = one[1]
    BY <1>1, <1>2, JoinedStep
  <1> QED
    BY <1>1, <1>2, <1>3 DEF one

\* Of one piece more.
LEMMA FlattenAppend ==
    ASSUME NEW S, NEW seqs \in Seq(S), Len(seqs) # 0, NEW x \in S
    PROVE  FlattenSeq(Append(seqs, x)) = FlattenSeq(seqs) \o x
  <1> DEFINE n    == Len(seqs)
             more == Append(seqs, x)
  <1>1. /\ n \in Nat \ {0} /\ Len(more) = n + 1 /\ more[n + 1] = x
        /\ \A i \in 1..n : more[i] = seqs[i]
    BY AppendProperties, LenProperties
  <1> HIDE DEF n, more
  <1>2. PICK f : Joined(f, n, seqs) /\ FlattenSeq(seqs) = f[n]
    BY <1>1, FlattenUnfolds DEF n
  <1>3. PICK g : Joined(g, n + 1, more) /\ FlattenSeq(more) = g[n + 1]
    BY <1>1, FlattenUnfolds
  <1>4. \A i \in 1..n : f[i] = IF i = 1 THEN seqs[i] ELSE f[i - 1] \o seqs[i]
    BY <1>1, <1>2, JoinedStep
  <1>5. \A i \in 1..(n + 1) : g[i] = IF i = 1 THEN more[i] ELSE g[i - 1] \o more[i]
    <2>1. n + 1 \in Nat
      BY <1>1
    <2> QED
      BY <1>3, <2>1, JoinedStep
  <1> DEFINE Same == {i \in Nat : i \in 1..n => f[i] = g[i]}
  <1>6. 0 \in Same
    OBVIOUS
  <1>7. ASSUME NEW i \in Nat, i \in Same PROVE i + 1 \in Same
    <2> SUFFICES ASSUME i + 1 \in 1..n PROVE f[i + 1] = g[i + 1]
      OBVIOUS
    <2>1. CASE i = 0
      BY <1>1, <1>4, <1>5, <2>1
    <2>2. CASE i # 0
      <3>1. i \in 1..n /\ i + 1 \in 1..(n + 1) /\ i + 1 # 1 /\ (i + 1) - 1 = i
        BY <1>1, <2>2
      <3>2. f[i + 1] = f[i] \o seqs[i + 1]
        BY <1>4, <3>1
      <3>3. g[i + 1] = g[i] \o more[i + 1]
        BY <1>5, <3>1
      <3> QED
        BY <1>1, <1>7, <3>1, <3>2, <3>3
    <2> QED
      BY <2>1, <2>2
  <1>8. Nat \subseteq Same
    BY <1>6, <1>7, PieceInduction
  <1>9. f[n] = g[n]
    BY <1>1, <1>8
  <1>10. g[n + 1] = g[n] \o x
    <2>1. n + 1 \in 1..(n + 1) /\ n + 1 # 1 /\ (n + 1) - 1 = n
      BY <1>1
    <2> QED
      BY <1>1, <1>5, <2>1
  <1> QED
    BY <1>2, <1>3, <1>9, <1>10 DEF more

(***************************************************************************)
(* The inductive invariant: a message is its pieces, and one that was      *)
(* posted as an image still starts with the image.                         *)
(***************************************************************************)

BodyIsPieces ==
    node # NULL =>
        /\ node \in [kind: Nat, body: Octets]
        /\ pieces \in Seq(Octets) /\ Len(pieces) # 0
        /\ node.body = FlattenSeq(pieces)

NothingAdded(list) == \A i \in 2..Len(list) : list[i] = <<>>

ImageFirst ==
    composed # NULL =>
        /\ composed \in Images
        /\ \E rest \in Octets :
             /\ node = [kind |-> KIND_IMAGE, body |-> to_vec(composed) \o rest]
             /\ rest = <<>> <=> NothingAdded(pieces)

BodyInv == BodyIsPieces /\ ImageFirst

\* What clients send.
LEMMA InputTypes ==
    /\ KindInputs \subseteq Nat /\ KIND_IMAGE \in Nat
    /\ BodyInputs \subseteq Octets
    /\ ImageInputs \subseteq Images
  <1>1. 0..255 \subseteq Nat
    OBVIOUS
  <1>2. ASSUME NEW s \in Seq(0..255) PROVE s \in Octets
    BY <1>1, SeqMonotonic DEF Octets
  <1>3. ASSUME NEW image \in [uri: Seq(0..255), width: 0..255] PROVE image \in Images
    <2>1. image.uri \in Seq(0..255) /\ image.width \in 0..255
      OBVIOUS
    <2>2. image.uri \in Octets /\ image.width \in Nat
      BY <1>1, <1>2, <2>1
    <2>3. image = [uri |-> image.uri, width |-> image.width]
      OBVIOUS
    <2> QED
      BY <2>2, <2>3 DEF Images
  <1> QED
    BY <1>2, <1>3, BodiesAssumption

\* fill_slot starts a message with its first piece.
LEMMA FillBody ==
    ASSUME NEW kind \in Nat, NEW body \in Octets, fill_slot(kind, body)
    PROVE  /\ BodyIsPieces'
           /\ node' = [kind |-> kind, body |-> body] /\ pieces' = <<body>>
  <1>1. node' = [kind |-> kind, body |-> body] /\ pieces' = <<body>>
    BY DEF fill_slot
  <1>2. <<body>> \in Seq(Octets) /\ Len(<<body>>) # 0
    OBVIOUS
  <1>3. FlattenSeq(<<body>>) = body
    BY FlattenOne
  <1> QED
    BY <1>1, <1>2, <1>3 DEF BodyIsPieces

LEMMA PostImageBody ==
    ASSUME NEW image \in ImageInputs, PostImage(image)
    PROVE  BodyInv'
  <1>1. image \in Images /\ KIND_IMAGE \in Nat
    BY InputTypes
  <1>2. to_vec(image) \in Octets /\ <<>> \in Octets /\ to_vec(image) \o <<>> = to_vec(image)
    BY <1>1, Encoded DEF Octets
  <1>3. /\ BodyIsPieces' /\ composed' = image
        /\ node' = [kind |-> KIND_IMAGE, body |-> to_vec(image)] /\ pieces' = <<to_vec(image)>>
    BY <1>1, <1>2, FillBody DEF PostImage, Image_to_body
  <1>4. NothingAdded(<<to_vec(image)>>)
    BY DEF NothingAdded
  <1>5. ImageFirst'
    BY <1>1, <1>2, <1>3, <1>4 DEF ImageFirst
  <1> QED
    BY <1>3, <1>5 DEF BodyInv

LEMMA AppendBody ==
    ASSUME BodyInv, NEW chunk \in BodyInputs, AppendChunk(chunk)
    PROVE  BodyInv'
  <1>1. /\ chunk \in Octets /\ node # NULL /\ composed' = composed
        /\ node' = [node EXCEPT !.body = @ \o chunk]
        /\ pieces' = Append(pieces, chunk)
    BY InputTypes DEF AppendChunk
  <1>2. /\ node \in [kind: Nat, body: Octets] /\ pieces \in Seq(Octets) /\ Len(pieces) # 0
        /\ node.body = FlattenSeq(pieces)
    BY <1>1 DEF BodyInv, BodyIsPieces
  <1>3. /\ pieces' \in Seq(Octets) /\ Len(pieces') = Len(pieces) + 1
        /\ Len(pieces) \in Nat /\ pieces'[Len(pieces) + 1] = chunk
        /\ \A i \in 1..Len(pieces) : pieces'[i] = pieces[i]
    BY <1>1, <1>2, AppendProperties, LenProperties
  <1>4. FlattenSeq(pieces') = node.body \o chunk
    BY <1>1, <1>2, FlattenAppend
  <1>5. node.body \o chunk \in Octets
    BY <1>1, <1>2, OctetsConcat
  <1>6. /\ node' \in [kind: Nat, body: Octets] /\ node'.body = node.body \o chunk
        /\ node' = [kind |-> node.kind, body |-> node.body \o chunk]
    BY <1>1, <1>2, <1>5
  <1>7. BodyIsPieces'
    BY <1>2, <1>3, <1>4, <1>6 DEF BodyIsPieces
  <1>8. ASSUME composed # NULL PROVE ImageFirst'
    <2>1. PICK rest \in Octets :
             /\ node = [kind |-> KIND_IMAGE, body |-> to_vec(composed) \o rest]
             /\ rest = <<>> <=> NothingAdded(pieces)
      BY <1>8 DEF BodyInv, ImageFirst
    <2>2. composed \in Images /\ to_vec(composed) \in Octets
      BY <1>8, Encoded DEF BodyInv, ImageFirst
    <2>3. rest \o chunk \in Octets /\ Len(rest \o chunk) = Len(rest) + Len(chunk)
      BY <1>1, OctetsConcat
    <2>4. (to_vec(composed) \o rest) \o chunk = to_vec(composed) \o (rest \o chunk)
      BY <1>1, <2>2, ConcatAssociative DEF Octets
    <2>5. node' = [kind |-> KIND_IMAGE, body |-> to_vec(composed) \o (rest \o chunk)]
      BY <1>6, <2>1, <2>4
    <2>6. rest \o chunk = <<>> <=> rest = <<>> /\ chunk = <<>>
      BY <1>1, <2>3 DEF Octets
    <2>7. NothingAdded(pieces') <=> NothingAdded(pieces) /\ chunk = <<>>
      <3>1. \A i : i \in 2..Len(pieces') <=> i \in 2..Len(pieces) \/ i = Len(pieces) + 1
        BY <1>2, <1>3
      <3>2. \A i \in 2..Len(pieces) : i \in 1..Len(pieces)
        BY <1>3
      <3> QED
        BY <1>3, <3>1, <3>2 DEF NothingAdded
    <2> QED
      BY <1>1, <2>1, <2>2, <2>3, <2>5, <2>6, <2>7 DEF ImageFirst
  <1>9. CASE composed = NULL
    BY <1>1, <1>7, <1>9 DEF BodyInv, ImageFirst
  <1> QED
    BY <1>7, <1>8, <1>9 DEF BodyInv

\* Every message is its pieces, in the order the chain accepted them.
THEOREM BodyInvariant == BodiesSpec => []BodyInv
  <1>1. Init => BodyInv
    BY DEF Init, BodyInv, BodyIsPieces, ImageFirst
  <1>2. BodyInv /\ [Next]_bodyVars => BodyInv'
    <2> SUFFICES ASSUME BodyInv, [Next]_bodyVars PROVE BodyInv'
      OBVIOUS
    <2>1. ASSUME NEW kind \in KindInputs, NEW body \in BodyInputs, PostRaw(kind, body)
          PROVE  BodyInv'
      <3>1. kind \in Nat /\ body \in Octets
        BY InputTypes
      <3>2. BodyIsPieces' /\ composed' = NULL
        BY <2>1, <3>1, FillBody DEF PostRaw
      <3> QED
        BY <3>2 DEF BodyInv, ImageFirst
    <2>2. ASSUME NEW image \in ImageInputs, PostImage(image) PROVE BodyInv'
      BY <2>2, PostImageBody
    <2>3. ASSUME NEW chunk \in BodyInputs, AppendChunk(chunk) PROVE BodyInv'
      BY <2>3, AppendBody
    <2>4. CASE CloseNode
      BY <2>4 DEF CloseNode, BodyInv, BodyIsPieces, ImageFirst
    <2>5. CASE UNCHANGED bodyVars
      BY <2>5 DEF bodyVars, BodyInv, BodyIsPieces, ImageFirst
    <2> QED
      BY <2>1, <2>2, <2>3, <2>4, <2>5 DEF Next
  <1> QED
    BY <1>1, <1>2, PTL DEF BodiesSpec

(***************************************************************************)
(* What readers see.                                                       *)
(***************************************************************************)

LEMMA CanonicalStep == BodyInv => DecodeCanonical
  <1> SUFFICES ASSUME BodyInv, node # NULL
               PROVE  /\ \A image \in decode_image(node) :
                           node = [kind |-> KIND_IMAGE, body |-> to_vec(image)]
                      /\ \A text \in decode_text(node) :
                           node = [kind |-> KIND_TEXT, body |-> Text_to_body(text)]
    BY DEF DecodeCanonical
  <1>1. node.body \in Octets /\ node = [kind |-> node.kind, body |-> node.body]
    BY DEF BodyInv, BodyIsPieces
  <1>2. ASSUME NEW image \in decode_image(node)
        PROVE  node = [kind |-> KIND_IMAGE, body |-> to_vec(image)]
    <2>1. node.kind = KIND_IMAGE /\ image \in try_from_slice(node.body)
      BY <1>2 DEF decode_image, Image_from_body
    <2>2. node.body = to_vec(image)
      BY <1>1, <2>1, DecodedIsEncoding
    <2> QED
      BY <1>1, <2>1, <2>2
  <1>3. ASSUME NEW text \in decode_text(node)
        PROVE  node = [kind |-> KIND_TEXT, body |-> Text_to_body(text)]
    <2>1. node.kind = KIND_TEXT /\ text = node.body
      BY <1>3 DEF decode_text, Text_from_body
    <2> QED
      BY <1>1, <2>1 DEF Text_to_body
  <1> QED
    BY <1>2, <1>3

\* Every body that decodes is the encoding of what it decodes to (DecodeCanonical
\* of the bodies run): decode_body never reads a struct out of a prefix of the
\* bytes, or out of bytes that a chunk is still missing from.
THEOREM CanonicalCorrect == BodiesSpec => []DecodeCanonical
  BY BodyInvariant, CanonicalStep, PTL

LEMMA ImageStep == BodyInv => ImageIntactOrRefused
  <1> SUFFICES ASSUME BodyInv, composed # NULL
               PROVE  decode_image(node) = IF NothingAdded(pieces) THEN {composed} ELSE {}
    BY DEF ImageIntactOrRefused, NothingAdded
  <1>1. composed \in Images
    BY DEF BodyInv, ImageFirst
  <1>2. PICK rest \in Octets :
             /\ node = [kind |-> KIND_IMAGE, body |-> to_vec(composed) \o rest]
             /\ rest = <<>> <=> NothingAdded(pieces)
    BY DEF BodyInv, ImageFirst
  <1>3. node.kind = KIND_IMAGE /\ node.body = to_vec(composed) \o rest
    BY <1>2
  <1>4. decode_image(node) = try_from_slice(to_vec(composed) \o rest)
    BY <1>3 DEF decode_image, Image_from_body
  <1>5. try_from_slice(to_vec(composed) \o rest) = IF rest = <<>> THEN {composed} ELSE {}
    BY <1>1, DecodeEncoded
  <1> QED
    BY <1>2, <1>4, <1>5

\* An image reads as it was composed until its author appends a byte to it, and
\* as nothing from then on (ImageIntactOrRefused of the bodies run): an append,
\* which looks at no type, can spoil a struct but never change what it says.
THEOREM ImageCorrect == BodiesSpec => []ImageIntactOrRefused
  BY BodyInvariant, ImageStep, PTL

LEMMA ReadersStep == BodyInv => ReadersAgree
  <1> SUFFICES ASSUME BodyInv, node # NULL
               PROVE  /\ to_u16(content_kind(node)) = node.kind
                      /\ decode_text(node) = IF is_known(content_kind(node))
                                             THEN {FlattenSeq(pieces)} ELSE {}
    BY DEF ReadersAgree
  <1>1. node.body = FlattenSeq(pieces)
    BY DEF BodyInv, BodyIsPieces
  <1>2. CASE node.kind = KIND_TEXT
    <2>1. content_kind(node) = <<"Text">>
      BY <1>2 DEF content_kind, from_u16
    <2>2. <<"Text">>[1] # "Unknown"
      OBVIOUS
    <2> QED
      BY <1>1, <1>2, <2>1, <2>2 DEF to_u16, is_known, decode_text, Text_from_body
  <1>3. CASE node.kind # KIND_TEXT
    <2>1. content_kind(node) = <<"Unknown", node.kind>>
      BY <1>3 DEF content_kind, from_u16
    <2>2. /\ <<"Unknown", node.kind>>[1] = "Unknown" /\ <<"Unknown", node.kind>>[2] = node.kind
          /\ <<"Unknown", node.kind>> # <<"Text">>
      OBVIOUS
    <2> QED
      BY <1>3, <2>1, <2>2 DEF to_u16, is_known, decode_text
  <1> QED
    BY <1>2, <1>3

\* A message is text exactly if its kind says so, and then reads as the pieces
\* its author sent, in order (ReadersAgree of the bodies run).
THEOREM ReadersCorrect == BodiesSpec => []ReadersAgree
  BY BodyInvariant, ReadersStep, PTL
=============================================================================
