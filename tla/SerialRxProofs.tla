----------------------------- MODULE SerialRxProofs -----------------------------
(***************************************************************************)
(* The receiver of SerialRx is in step with the console for every set of   *)
(* requests, every buffer and queue, and any number of lost and damaged    *)
(* bytes.                                                                  *)
(***************************************************************************)
EXTENDS SerialRx, SequenceTheorems, WellFoundedInduction, TLAPS

----------------------------------------------------------------------------
(* Induction over data.  A set that contains 0 and the successor of each of  *)
(* its members contains every natural number: the induction theorem of the   *)
(* library takes an operator, which the provers cannot instantiate; a set    *)
(* they can, and the least element outside it contradicts WFMin.             *)

\* Induction, over the members of a set.
LEMMA Induction ==
    ASSUME NEW T, 0 \in T, \A n \in Nat : n \in T => n + 1 \in T
    PROVE  \A n \in Nat : n \in T
<1> DEFINE R == OpToRel(<, Nat)
<1> DEFINE U == Nat \ T
<1>1. IsWellFoundedOn(R, Nat)
  BY NatLessThanWellFounded
<1>2. \A m, n \in Nat : m < n => <<m, n>> \in R
  BY DEF OpToRel
<1>3. SUFFICES ASSUME U # {} PROVE FALSE
  OBVIOUS
<1>4. U \subseteq Nat
  OBVIOUS
<1> HIDE DEF R, U
<1>5. PICK m \in U : \A n \in U : ~(<<n, m>> \in R)
  BY <1>1, <1>3, <1>4, WFMin
<1>6. m \in Nat /\ m # 0
  BY DEF U
<1>7. m - 1 \in Nat /\ m - 1 < m /\ (m - 1) + 1 = m
  BY <1>6
<1>8. m - 1 \notin U
  BY <1>2, <1>5, <1>6, <1>7
<1>9. m - 1 \in T
  BY <1>7, <1>8 DEF U
<1>10. m \in T
  BY <1>7, <1>9
<1> QED
  BY <1>5, <1>10 DEF U

\* FlattenSeq concatenates its arguments from the first to the last.
LEMMA Flattened ==
    ASSUME NEW E, NEW seqs \in Seq(Seq(E))
    PROVE  \E g \in [0..Len(seqs) -> Seq(E)] :
              /\ g[0] = <<>> /\ g[Len(seqs)] = FlattenSeq(seqs)
              /\ \A i \in 1..Len(seqs) : g[i] = g[i - 1] \o seqs[i]
<1> DEFINE n == Len(seqs)
<1>0. n \in Nat /\ \A i \in 1..n : seqs[i] \in Seq(E)
  OBVIOUS
<1>1. CASE n = 0
  <2>1. FlattenSeq(seqs) = <<>>
    BY <1>1 DEF FlattenSeq
  <2>2. [i \in 0..0 |-> <<>>] \in [0..n -> Seq(E)]
    BY <1>1
  <2> DEFINE g == [i \in 0..0 |-> <<>>]
  <2>3. g[0] = <<>> /\ g[n] = FlattenSeq(seqs) /\ \A i \in 1..n : FALSE
    BY <1>1, <2>1
  <2> QED
    BY <2>2, <2>3
<1>2. CASE n # 0
  <2> DEFINE Flat(f, k) == f = [i \in 1..k |-> IF i = 1 THEN seqs[i] ELSE f[i - 1] \o seqs[i]]
             T == {k \in Nat : \E f : Flat(f, k)}
             flatten == CHOOSE f : Flat(f, n)
  <2>1. 0 \in T
    <3>1. Flat([i \in 1..0 |-> <<>>], 0)
      OBVIOUS
    <3> QED
      BY <3>1
  <2>2. ASSUME NEW k \in Nat, k \in T PROVE k + 1 \in T
    <3>1. PICK f : Flat(f, k)
      BY <2>2
    <3> DEFINE h == [i \in 1..(k + 1) |-> IF i = 1 THEN seqs[i]
                                          ELSE (IF i = k + 1 THEN f[k] ELSE f[i - 1]) \o seqs[i]]
    <3>2. \A i \in 1..k : f[i] = IF i = 1 THEN seqs[i] ELSE f[i - 1] \o seqs[i]
      <4>1. f = [i \in 1..k |-> IF i = 1 THEN seqs[i] ELSE f[i - 1] \o seqs[i]]
        BY <3>1
      <4> QED
        BY <4>1
    <3>3. ASSUME NEW i \in 1..k PROVE h[i] = f[i]
      <4>1. i \in 1..(k + 1) /\ i # k + 1
        OBVIOUS
      <4> QED
        BY <3>2, <4>1
    <3>4. ASSUME NEW i \in 1..(k + 1), i # 1 PROVE h[i] = h[i - 1] \o seqs[i]
      <4>0. i - 1 \in 1..k
        BY <3>4
      <4>1. h[i - 1] = f[i - 1]
        BY <3>3, <4>0
      <4>2. h[i] = (IF i = k + 1 THEN f[k] ELSE f[i - 1]) \o seqs[i]
        BY <3>4
      <4>3. i = k + 1 => k = i - 1
        OBVIOUS
      <4> QED
        BY <4>1, <4>2, <4>3
    <3>5. h[1] = seqs[1] /\ h = [i \in 1..(k + 1) |-> h[i]]
      OBVIOUS
    <3>6. Flat(h, k + 1)
      <4> HIDE DEF h
      <4>1. \A i \in 1..(k + 1) : h[i] = IF i = 1 THEN seqs[i] ELSE h[i - 1] \o seqs[i]
        BY <3>4, <3>5
      <4> QED
        BY <3>5, <4>1
    <3> HIDE DEF Flat
    <3> QED
      BY <3>6
  <2>3. \E f : Flat(f, n)
    <3> HIDE DEF Flat
    <3>1. \A k \in Nat : k \in T
      <4> HIDE DEF T
      <4> QED
        BY <2>1, <2>2, Induction
    <3> QED
      BY <1>0, <3>1
  <2>4. Flat(flatten, n)
    <3> HIDE DEF Flat
    <3> QED
      BY <2>3
  <2>5. FlattenSeq(seqs) = flatten[n]
    BY <1>2 DEF FlattenSeq
  <2>6. \A i \in 1..n : flatten[i] = IF i = 1 THEN seqs[i] ELSE flatten[i - 1] \o seqs[i]
    <3> HIDE DEF flatten
    <3> QED
      BY <2>4
  <2> HIDE DEF flatten, Flat
  <2> DEFINE U == {k \in Nat : k < n => flatten[k + 1] \in Seq(E)}
  <2>7. \A k \in Nat : k \in U
    <3>1. 0 \in U
      BY <1>0, <1>2, <2>6
    <3>2. ASSUME NEW k \in Nat, k \in U PROVE k + 1 \in U
      <4> SUFFICES ASSUME k + 1 < n PROVE flatten[k + 2] \in Seq(E)
        OBVIOUS
      <4>1. flatten[k + 1] \in Seq(E) /\ k + 2 \in 1..n /\ k + 2 # 1 /\ (k + 2) - 1 = k + 1
        BY <1>0, <3>2
      <4>2. seqs[k + 2] \in Seq(E) /\ flatten[k + 2] = flatten[k + 1] \o seqs[k + 2]
        BY <1>0, <2>6, <4>1
      <4> QED
        BY <4>1, <4>2
    <3> HIDE DEF U
    <3> QED
      BY <3>1, <3>2, Induction
  <2> DEFINE g == [i \in 0..n |-> IF i = 0 THEN <<>> ELSE flatten[i]]
  <2>8. \A i \in 1..n : flatten[i] \in Seq(E)
    <3> SUFFICES ASSUME NEW i \in 1..n PROVE flatten[i] \in Seq(E)
      OBVIOUS
    <3>1. i - 1 \in Nat /\ i - 1 < n /\ (i - 1) + 1 = i
      BY <1>0
    <3> QED
      BY <2>7, <3>1
  <2>9. g \in [0..n -> Seq(E)] /\ g[0] = <<>> /\ g[n] = FlattenSeq(seqs)
    BY <1>0, <1>2, <2>5, <2>8
  <2>10. ASSUME NEW i \in 1..n PROVE g[i] = g[i - 1] \o seqs[i]
    <3>1. CASE i = 1
      <4>1. g[i] = seqs[i] /\ g[i - 1] = <<>> /\ seqs[i] \in Seq(E)
        BY <1>0, <2>6, <3>1
      <4> QED
        BY <1>0, <4>1
    <3>2. CASE i # 1
      <4>1. i - 1 \in 0..n /\ i - 1 # 0 /\ i \in 0..n /\ i # 0
        BY <1>0, <3>2
      <4>2. g[i - 1] = flatten[i - 1] /\ g[i] = flatten[i]
        BY <4>1
      <4> QED
        BY <2>6, <3>2, <4>2
    <3> QED
      BY <3>1, <3>2
  <2> HIDE DEF g
  <2> QED
    BY <2>9, <2>10
<1> QED
  BY <1>1, <1>2

\* FoldLeft applies Decoded to the bytes from the first to the last.
LEMMA Folded ==
    ASSUME NEW data, NEW n \in Nat, DOMAIN data = 1..n, NEW base
    PROVE  \E f : /\ f[0] = base /\ f[n] = FoldLeft(Decoded, base, data)
                  /\ \A i \in 1..n : f[i] = Decoded(f[i - 1], data[i])
<1> DEFINE Fold(f, k) ==
        f = [s \in SUBSET (1..k) |->
                IF s = {} THEN base ELSE Decoded(f[s \ {Max(s)}], data[Max(s)])]
           T == {k \in Nat : \E f : Fold(f, k)}
           iter == CHOOSE f : Fold(f, n)
<1>1. ASSUME NEW k \in Nat, NEW s \in SUBSET (1..k), k \in s PROVE Max(s) = k
  <2>1. k \in s /\ \A y \in s : k >= y
    BY <1>1
  <2>2. \A x \in s : (\A y \in s : x >= y) => x = k
    BY <1>1
  <2> QED
    BY <2>1, <2>2 DEF Max
<1>2. 0 \in T
  <2>1. \A s \in SUBSET (1..0) : s = {}
    OBVIOUS
  <2>2. Fold([s \in SUBSET (1..0) |-> base], 0)
    BY <2>1
  <2> QED
    BY <2>2
<1>3. ASSUME NEW k \in Nat, k \in T PROVE k + 1 \in T
  <2>1. PICK f : Fold(f, k)
    BY <1>3
  <2>2. \A s \in SUBSET (1..k) :
            f[s] = IF s = {} THEN base ELSE Decoded(f[s \ {Max(s)}], data[Max(s)])
    <3>1. f = [s \in SUBSET (1..k) |->
                IF s = {} THEN base ELSE Decoded(f[s \ {Max(s)}], data[Max(s)])]
      BY <2>1
    <3> QED
      BY <3>1
  <2> DEFINE h == [s \in SUBSET (1..(k + 1)) |->
                      IF k + 1 \in s THEN Decoded(f[s \ {k + 1}], data[k + 1]) ELSE f[s]]
  <2>3. ASSUME NEW s \in SUBSET (1..k) PROVE h[s] = f[s]
    <3>1. s \in SUBSET (1..(k + 1)) /\ k + 1 \notin s
      OBVIOUS
    <3> QED
      BY <3>1
  <2>4. ASSUME NEW s \in SUBSET (1..(k + 1))
        PROVE  h[s] = IF s = {} THEN base ELSE Decoded(h[s \ {Max(s)}], data[Max(s)])
    <3>1. CASE k + 1 \in s
      <4>1. Max(s) = k + 1
        BY <1>1, <3>1
      <4>2. s \ {k + 1} \in SUBSET (1..k)
        OBVIOUS
      <4>3. h[s \ {k + 1}] = f[s \ {k + 1}]
        BY <2>3, <4>2
      <4>4. h[s] = Decoded(f[s \ {k + 1}], data[k + 1])
        BY <3>1
      <4> HIDE DEF h
      <4> QED
        BY <3>1, <4>1, <4>3, <4>4
    <3>2. CASE k + 1 \notin s
      <4>1. s \in SUBSET (1..k)
        BY <3>2
      <4>2. s \ {Max(s)} \in SUBSET (1..k)
        BY <4>1
      <4>3. h[s] = f[s] /\ h[s \ {Max(s)}] = f[s \ {Max(s)}]
        BY <2>3, <4>1, <4>2
      <4> HIDE DEF h
      <4> QED
        BY <2>2, <4>1, <4>3
    <3> QED
      BY <3>1, <3>2
  <2>5. h = [s \in SUBSET (1..(k + 1)) |-> h[s]]
    OBVIOUS
  <2>6. Fold(h, k + 1)
    <3> HIDE DEF h
    <3> QED
      BY <2>4, <2>5
  <2> HIDE DEF Fold
  <2> QED
    BY <2>6
<1>4. Fold(iter, n)
  <2> HIDE DEF Fold
  <2>1. \A k \in Nat : k \in T
    <3> HIDE DEF T
    <3> QED
      BY <1>2, <1>3, Induction
  <2>2. \E f : Fold(f, n)
    BY <2>1
  <2> QED
    BY <2>2
<1>5. FoldLeft(Decoded, base, data) = iter[1..n]
  BY DEF FoldLeft, MapThenFoldSet
<1>6. \A s \in SUBSET (1..n) :
          iter[s] = IF s = {} THEN base ELSE Decoded(iter[s \ {Max(s)}], data[Max(s)])
  <2> HIDE DEF iter
  <2> QED
    BY <1>4
<1> HIDE DEF iter, Fold
<1> DEFINE g == [i \in 0..n |-> iter[1..i]]
<1>7. g[0] = base
  <2>1. 1..0 = {} /\ {} \in SUBSET (1..n) /\ g[0] = iter[1..0]
    OBVIOUS
  <2> QED
    BY <1>6, <2>1
<1>8. ASSUME NEW i \in 1..n PROVE g[i] = Decoded(g[i - 1], data[i])
  <2>1. 1..i \in SUBSET (1..n) /\ 1..i # {} /\ i \in 1..i /\ i \in Nat
    OBVIOUS
  <2>2. Max(1..i) = i
    BY <1>1, <2>1
  <2>3. (1..i) \ {i} = 1..(i - 1)
    OBVIOUS
  <2>4. iter[1..i] = Decoded(iter[1..(i - 1)], data[i])
    BY <1>6, <2>1, <2>2, <2>3
  <2>5. g[i] = iter[1..i] /\ g[i - 1] = iter[1..(i - 1)]
    OBVIOUS
  <2> HIDE DEF g
  <2> QED
    BY <2>4, <2>5
<1>9. g[n] = FoldLeft(Decoded, base, data)
  BY <1>5
<1> HIDE DEF g
<1> QED
  BY <1>7, <1>8, <1>9

----------------------------------------------------------------------------
(* The stuffing *)

\* The codes of the escaped bytes are what the decoder looks up.
LEMMA Codes ==
    /\ DOMAIN Unescaped = {176, 181, 182, 186, 59}
    /\ Unescaped[176] = START_BYTE /\ Unescaped[181] = STOP_BYTE
    /\ Unescaped[182] = HANDSHAKE_BYTE /\ Unescaped[186] = DATA_ESCAPE_BYTE
    /\ Unescaped[59] = ASCII_ESC_BYTE
<1>1. /\ Unescaped[176] = START_BYTE /\ Unescaped[181] = STOP_BYTE
      /\ Unescaped[182] = HANDSHAKE_BYTE /\ Unescaped[186] = DATA_ESCAPE_BYTE
      /\ Unescaped[59] = ASCII_ESC_BYTE
  BY DEF Unescaped
<1> QED
  BY <1>1 DEF Unescaped

\* A byte is sent as itself or as an escape and a code, none of them a delimiter.
LEMMA StuffedByte ==
    ASSUME NEW b \in Byte
    PROVE  /\ Stuffed(b) \in Seq(Byte \ Delimiters)
           /\ \/ Stuffed(b) = <<b>> /\ b # DATA_ESCAPE_BYTE
              \/ \E c \in DOMAIN Unescaped : Stuffed(b) = <<DATA_ESCAPE_BYTE, c>> /\ Unescaped[c] = b
<1> USE DEF START_BYTE, STOP_BYTE, HANDSHAKE_BYTE, DATA_ESCAPE_BYTE, ASCII_ESC_BYTE
<1>1. CASE b \in {160, 165, 166, 170, 27}
  <2>1. PICK c \in DOMAIN Unescaped : Stuffed(b) = <<DATA_ESCAPE_BYTE, c>> /\ Unescaped[c] = b
    <3>1. b = 160 => Stuffed(b) = <<170, 176>>
      BY DEF Stuffed
    <3>2. b = 165 => Stuffed(b) = <<170, 181>>
      BY DEF Stuffed
    <3>3. b = 166 => Stuffed(b) = <<170, 182>>
      BY DEF Stuffed
    <3>4. b = 170 => Stuffed(b) = <<170, 186>>
      BY DEF Stuffed
    <3>5. b = 27 => Stuffed(b) = <<170, 59>>
      BY DEF Stuffed
    <3> QED
      BY <1>1, <3>1, <3>2, <3>3, <3>4, <3>5, Codes
  <2>2. c \in Byte \ Delimiters /\ DATA_ESCAPE_BYTE \in Byte \ Delimiters
    BY Codes DEF Byte, Delimiters
  <2> QED
    BY <2>1, <2>2
<1>2. CASE b \notin {160, 165, 166, 170, 27}
  <2>1. Stuffed(b) = <<b>> /\ b \notin Delimiters
    BY <1>2 DEF Stuffed, Delimiters
  <2> QED
    BY <1>2, <2>1
<1> QED
  BY <1>1, <1>2

\* A concatenation, byte by byte.
LEMMA Joined ==
    ASSUME NEW E, NEW s \in Seq(E), NEW t \in Seq(E)
    PROVE  /\ Len(s) \in Nat /\ Len(t) \in Nat /\ Len(s \o t) = Len(s) + Len(t)
           /\ \A j \in 1..Len(s) : (s \o t)[j] = s[j]
           /\ \A j \in 1..Len(t) : (s \o t)[Len(s) + j] = t[j]
OBVIOUS

\* What DecodeSerialPkt makes of one byte, outside and inside of an escape.
LEMMA DecodedByte ==
    ASSUME NEW t, NEW b
    PROVE  /\ b # DATA_ESCAPE_BYTE =>
                Decoded([text |-> t, escaped |-> FALSE, valid |-> TRUE], b)
                    = [text |-> Append(t, b), escaped |-> FALSE, valid |-> TRUE]
           /\ b = DATA_ESCAPE_BYTE =>
                Decoded([text |-> t, escaped |-> FALSE, valid |-> TRUE], b)
                    = [text |-> t, escaped |-> TRUE, valid |-> TRUE]
           /\ b \in DOMAIN Unescaped =>
                Decoded([text |-> t, escaped |-> TRUE, valid |-> TRUE], b)
                    = [text |-> Append(t, Unescaped[b]), escaped |-> FALSE, valid |-> TRUE]
BY DEF Decoded

\* The stuffing has no delimiter in it, and DecodeSerialPkt undoes it, whatever
\* the request.
THEOREM StuffingUndone ==
    ASSUME NEW p \in Seq(Byte)
    PROVE  Body(p) \in Seq(Byte \ Delimiters) /\ DecodeSerialPkt(Body(p)) = p
<1> DEFINE n == Len(p)
           seqs == [i \in DOMAIN p |-> Stuffed(p[i])]
           E == Byte \ Delimiters
           data == Body(p)
           d0 == [text |-> <<>>, escaped |-> FALSE, valid |-> TRUE]
<1>1. n \in Nat /\ DOMAIN p = 1..n /\ \A i \in 1..n : p[i] \in Byte
  OBVIOUS
<1>2. seqs \in Seq(Seq(E)) /\ Len(seqs) = n /\ \A i \in 1..n : seqs[i] = Stuffed(p[i])
  <2>1. \A i \in 1..n : Stuffed(p[i]) \in Seq(E)
    BY <1>1, StuffedByte
  <2>2. seqs \in [1..n -> Seq(E)]
    BY <1>1, <2>1
  <2> QED
    BY <1>1, <2>2
<1> HIDE DEF seqs
<1>3. PICK g \in [0..n -> Seq(E)] :
          /\ g[0] = <<>> /\ g[n] = FlattenSeq(seqs)
          /\ \A i \in 1..n : g[i] = g[i - 1] \o seqs[i]
  <2> HIDE DEF E
  <2>1. \E g \in [0..Len(seqs) -> Seq(E)] :
          /\ g[0] = <<>> /\ g[Len(seqs)] = FlattenSeq(seqs)
          /\ \A i \in 1..Len(seqs) : g[i] = g[i - 1] \o seqs[i]
    BY <1>2, Flattened
  <2> QED
    BY <1>2, <2>1
<1> HIDE DEF E
<1>4. data = g[n] /\ data \in Seq(E)
  <2>1. Body(p) = FlattenSeq(seqs)
    BY DEF Body, seqs
  <2> QED
    BY <1>1, <1>3, <2>1
<1> HIDE DEF data
<1> DEFINE N == Len(data)
<1>5. N \in Nat /\ DOMAIN data = 1..N
  BY <1>4
<1>6. PICK f : /\ f[0] = d0 /\ f[N] = FoldLeft(Decoded, d0, data)
               /\ \A i \in 1..N : f[i] = Decoded(f[i - 1], data[i])
  <2> HIDE DEF d0, N
  <2> QED
    BY <1>5, Folded
<1>7. ASSUME NEW k \in 0..n
      PROVE  Len(g[k]) <= N /\ \A j \in 1..Len(g[k]) : data[j] = g[k][j]
  <2> DEFINE Begins(i) == Len(g[i]) <= N /\ \A j \in 1..Len(g[i]) : data[j] = g[i][j]
             T == {m \in Nat : m <= n => Begins(n - m)}
  <2>1. 0 \in T
    BY <1>1, <1>4
  <2>a. ASSUME NEW i \in Nat, i + 1 <= n, Begins(i + 1) PROVE Begins(i)
    <3>1. i + 1 \in 1..n /\ i \in 0..n /\ (i + 1) - 1 = i
      BY <1>1, <2>a
    <3>2. g[i + 1] = g[i] \o seqs[i + 1]
      BY <1>3, <3>1
    <3>3. seqs[i + 1] \in Seq(E)
      <4>1. i + 1 \in DOMAIN seqs
        BY <1>2, <3>1
      <4> QED
        BY <1>2, <4>1
    <3>4. g[i] \in Seq(E)
      BY <1>3, <3>1
    <3> DEFINE s == g[i]
               t == seqs[i + 1]
               r == g[i + 1]
    <3>5. s \in Seq(E) /\ t \in Seq(E) /\ r = s \o t
      BY <3>2, <3>3, <3>4
    <3>6. Len(r) <= N /\ \A j \in 1..Len(r) : data[j] = r[j]
      BY <2>a
    <3> SUFFICES Len(s) <= N /\ \A j \in 1..Len(s) : data[j] = s[j]
      OBVIOUS
    <3> HIDE DEF s, t, r, N
    <3>7. /\ Len(r) = Len(s) + Len(t) /\ Len(s) \in Nat /\ Len(t) \in Nat
          /\ \A j \in 1..Len(s) : r[j] = s[j]
      BY <3>5, Joined
    <3>8. Len(s) <= N /\ \A j \in 1..Len(s) : j \in 1..Len(r)
      BY <1>5, <3>6, <3>7
    <3> QED
      BY <3>6, <3>7, <3>8
  <2>2. ASSUME NEW m \in Nat, m \in T PROVE m + 1 \in T
    <3> SUFFICES ASSUME m + 1 <= n PROVE Begins(n - (m + 1))
      OBVIOUS
    <3> HIDE DEF Begins
    <3>1. n - (m + 1) \in Nat /\ (n - (m + 1)) + 1 <= n /\ (n - (m + 1)) + 1 = n - m
      BY <1>1
    <3>2. Begins(n - m)
      BY <1>1, <2>2
    <3> QED
      BY <2>a, <3>1, <3>2
  <2>3. \A m \in Nat : m \in T
    <3> HIDE DEF T
    <3> QED
      BY <2>1, <2>2, Induction
  <2>4. n - k \in Nat /\ n - k <= n /\ n - (n - k) = k
    BY <1>1
  <2>5. Begins(n - (n - k))
    BY <2>3, <2>4
  <2> QED
    BY <2>4, <2>5
<1>8. ASSUME NEW k \in 0..n
      PROVE  f[Len(g[k])] = [text |-> SubSeq(p, 1, k), escaped |-> FALSE, valid |-> TRUE]
  <2> DEFINE Read(i) == f[Len(g[i])] = [text |-> SubSeq(p, 1, i), escaped |-> FALSE, valid |-> TRUE]
             T == {m \in Nat : m <= n => Read(m)}
  <2>1. 0 \in T
    <3>1. SubSeq(p, 1, 0) = <<>> /\ Len(g[0]) = 0
      BY <1>3
    <3> QED
      BY <1>6, <3>1
  <2>2. ASSUME NEW m \in Nat, m \in T PROVE m + 1 \in T
    <3> SUFFICES ASSUME m + 1 <= n PROVE Read(m + 1)
      OBVIOUS
    <3> DEFINE b == p[m + 1]
               L == Len(g[m])
               t == SubSeq(p, 1, m)
    <3>1. m \in 0..n /\ m + 1 \in 1..n /\ m + 1 \in 0..n /\ (m + 1) - 1 = m /\ b \in Byte
      BY <1>1
    <3>2. f[L] = [text |-> t, escaped |-> FALSE, valid |-> TRUE]
      BY <2>2
    <3>3. SubSeq(p, 1, m + 1) = Append(t, b)
      BY <3>1
    <3>a. g[m + 1] = g[m] \o seqs[m + 1] /\ seqs[m + 1] = Stuffed(b)
      BY <1>2, <1>3, <3>1
    <3>4. g[m + 1] = g[m] \o Stuffed(b) /\ g[m] \in Seq(E) /\ Stuffed(b) \in Seq(E)
      BY <1>3, <3>1, <3>a, StuffedByte DEF E
    <3>5. /\ L \in Nat /\ Len(Stuffed(b)) \in Nat
          /\ Len(g[m + 1]) = L + Len(Stuffed(b))
          /\ \A j \in 1..Len(Stuffed(b)) : g[m + 1][L + j] = Stuffed(b)[j]
      <4> HIDE DEF b
      <4> QED
        BY <3>4, Joined
    <3>6. ASSUME NEW j \in 1..Len(Stuffed(b))
          PROVE  f[L + j] = Decoded(f[L + (j - 1)], Stuffed(b)[j])
      <4>1. L + j \in 1..Len(g[m + 1]) /\ Len(g[m + 1]) <= N
        BY <1>7, <3>1, <3>5
      <4>2. data[L + j] = Stuffed(b)[j]
        BY <1>7, <3>1, <3>5, <4>1
      <4>3. L + j \in 1..N /\ (L + j) - 1 = L + (j - 1)
        <5> HIDE DEF L, N
        <5> QED
          BY <1>5, <3>5, <4>1
      <4> QED
        BY <1>6, <4>2, <4>3
    <3> HIDE DEF L, t, b
    <3>7. CASE Stuffed(b) = <<b>> /\ b # DATA_ESCAPE_BYTE
      <4>1. Len(Stuffed(b)) = 1 /\ Stuffed(b)[1] = b
        BY <3>7
      <4>2. f[L + 1] = Decoded(f[L], b)
        BY <3>5, <3>6, <4>1
      <4>3. Decoded(f[L], b) = [text |-> Append(t, b), escaped |-> FALSE, valid |-> TRUE]
        BY <3>2, <3>7, DecodedByte
      <4> QED
        BY <3>3, <3>5, <4>1, <4>2, <4>3
    <3>8. ASSUME NEW c \in DOMAIN Unescaped, Stuffed(b) = <<DATA_ESCAPE_BYTE, c>>, Unescaped[c] = b
          PROVE  Read(m + 1)
      <4>1. /\ Len(Stuffed(b)) = 2
            /\ Stuffed(b)[1] = DATA_ESCAPE_BYTE /\ Stuffed(b)[2] = c
        BY <3>8
      <4>2. f[L + 1] = Decoded(f[L], DATA_ESCAPE_BYTE) /\ f[L + 2] = Decoded(f[L + 1], c)
        BY <3>5, <3>6, <4>1
      <4>3. f[L + 1] = [text |-> t, escaped |-> TRUE, valid |-> TRUE]
        BY <3>2, <4>2, DecodedByte
      <4>4. f[L + 2] = [text |-> Append(t, b), escaped |-> FALSE, valid |-> TRUE]
        BY <3>8, <4>2, <4>3, DecodedByte
      <4> QED
        BY <3>3, <3>5, <4>1, <4>4
    <3> QED
      BY <3>1, <3>7, <3>8, StuffedByte
  <2>3. \A m \in Nat : m \in T
    <3> HIDE DEF T
    <3> QED
      BY <2>1, <2>2, Induction
  <2>4. k \in Nat /\ k <= n
    BY <1>1
  <2> QED
    BY <2>3, <2>4
<1>9. f[N] = [text |-> p, escaped |-> FALSE, valid |-> TRUE]
  <2>1. f[Len(g[n])] = [text |-> SubSeq(p, 1, n), escaped |-> FALSE, valid |-> TRUE]
    BY <1>1, <1>8
  <2>2. SubSeq(p, 1, n) = p
    BY <1>1
  <2> QED
    BY <1>4, <2>1, <2>2
<1>10. DecodeSerialPkt(data) = p
  <2> DEFINE d == FoldLeft(Decoded, d0, data)
  <2>1. d = [text |-> p, escaped |-> FALSE, valid |-> TRUE]
    BY <1>6, <1>9
  <2>2. DecodeSerialPkt(data) = IF d.valid THEN d.text ELSE <<>>
    BY DEF DecodeSerialPkt
  <2> HIDE DEF d
  <2> QED
    BY <2>1, <2>2
<1> QED
  BY <1>4, <1>10 DEF data, E

----------------------------------------------------------------------------
(* The receiver *)

\* A frame is its body between the delimiters.
LEMMA FrameShape ==
    ASSUME NEW p \in Payloads \union {NoPayload}
    PROVE  /\ Frame(p) \in Seq(Byte)
           /\ Frame(p) # <<>> =>
                /\ Body(p) \in Seq(Byte \ Delimiters)
                /\ Len(Frame(p)) = Len(Body(p)) + 2
                /\ Frame(p)[1] = START_BYTE
                /\ Frame(p)[Len(Body(p)) + 2] = STOP_BYTE
                /\ \A i \in 1..Len(Body(p)) : Frame(p)[i + 1] = Body(p)[i]
<1>1. CASE p = NoPayload
  BY <1>1 DEF Frame
<1>2. CASE p \in Payloads
  <2>1. Body(p) \in Seq(Byte \ Delimiters) /\ p # NoPayload
    BY <1>2, SerialConstants, StuffingUndone
  <2>2. START_BYTE \in Byte /\ STOP_BYTE \in Byte
    BY DEF START_BYTE, STOP_BYTE, Byte
  <2> DEFINE f == <<START_BYTE>> \o Body(p) \o <<STOP_BYTE>>
  <2>3. Body(p) \in Seq(Byte)
    BY <2>1
  <2>4. /\ f \in Seq(Byte) /\ Len(f) = Len(Body(p)) + 2
        /\ f[1] = START_BYTE /\ f[Len(Body(p)) + 2] = STOP_BYTE
        /\ \A i \in 1..Len(Body(p)) : f[i + 1] = Body(p)[i]
    BY <2>2, <2>3
  <2>5. Frame(p) = <<>> \/ Frame(p) = f
    BY <2>1 DEF Frame, EncodeSerialPkt
  <2>6. CASE Frame(p) = <<>>
    BY <2>6
  <2>7. CASE Frame(p) = f
    <3> HIDE DEF f
    <3> QED
      BY <2>1, <2>4, <2>7
  <2> QED
    BY <2>5, <2>6, <2>7
<1> QED
  BY <1>1, <1>2

\* The bytes of a frame before its last are no stop bytes and, but for the first,
\* no start bytes.
LEMMA InsideFrame ==
    ASSUME NEW p \in Payloads \union {NoPayload}, NEW n \in 1..(Len(Frame(p)) - 2)
    PROVE  /\ Frame(p)[n + 1] \notin Delimiters
           /\ SubSeq(Frame(p), 2, n + 1) = Append(SubSeq(Frame(p), 2, n), Frame(p)[n + 1])
<1>1. Frame(p) \in Seq(Byte) /\ Frame(p) # <<>>
  BY FrameShape
<1>2. Body(p) \in Seq(Byte \ Delimiters) /\ n \in 1..Len(Body(p)) /\ Frame(p)[n + 1] = Body(p)[n]
  BY <1>1, FrameShape
<1>3. Frame(p)[n + 1] \notin Delimiters
  BY <1>2
<1>4. SubSeq(Frame(p), 2, n + 1) = Append(SubSeq(Frame(p), 2, n), Frame(p)[n + 1])
  BY <1>1
<1> QED
  BY <1>3, <1>4

\* What is between the delimiters of a frame is its body.
LEMMA WholeBody ==
    ASSUME NEW p \in Payloads \union {NoPayload}, Frame(p) # <<>>
    PROVE  SubSeq(Frame(p), 2, Len(Frame(p)) - 1) = Body(p)
<1>1. /\ Frame(p) \in Seq(Byte) /\ Body(p) \in Seq(Byte) /\ Len(Frame(p)) = Len(Body(p)) + 2
      /\ \A i \in 1..Len(Body(p)) : Frame(p)[i + 1] = Body(p)[i]
  BY FrameShape
<1> DEFINE s == SubSeq(Frame(p), 2, Len(Frame(p)) - 1)
<1>2. s \in Seq(Byte) /\ Len(s) = Len(Body(p)) /\ \A i \in 1..Len(s) : s[i] = Frame(p)[i + 1]
  BY <1>1
<1> QED
  BY <1>1, <1>2, SeqEqual

----------------------------------------------------------------------------

\* What the interrupt does with a byte, whatever it is.
LEMMA Received ==
    ASSUME Types, InBuffer, Separate, AsSent,
           NEW b \in Byte, NEW of \in Payloads \union {NoPayload},
           USART0_IRQHandler(b, of),
           b = STOP_BYTE /\ is_start /\ of # NoPayload => Data = Body(of)
    PROVE  /\ is_start' \in BOOLEAN /\ Data' \in Seq(Byte) /\ created' \in BOOLEAN
           /\ RecvDatMsg_Queue' \in Seq(Message) /\ rfifo' \in Seq(Byte)
           /\ InBuffer' /\ Separate' /\ AsSent'
<1> USE DEF Types, InBuffer, Separate, AsSent
<1>c. created' = created
  BY DEF USART0_IRQHandler
<1>f. rfifo' \in Seq(Byte)
  BY DEF USART0_IRQHandler, ToShell
<1>1. CASE Open(b)
  <2>1. Delimited(Data')
    BY <1>1 DEF Open, Delimited
  <2> QED
    BY <1>1, <1>c, <1>f, <2>1, SerialConstants DEF Open
<1>2. CASE Close(b, of)
  <2> DEFINE m == [Data |-> Data, of |-> of]
  <2>1. m \in Message /\ Delimited(m.Data) /\ (m.of # NoPayload => m.Data = Body(m.of))
    BY <1>2 DEF Close, Message
  <2>2. CASE RecvDatMsg_Queue' = RecvDatMsg_Queue
    <3>1. is_start' = FALSE /\ Data' = Data
      BY <1>2 DEF Close
    <3> QED
      BY <1>c, <1>f, <2>2, <3>1
  <2>3. CASE /\ Len(RecvDatMsg_Queue) < QueueLength
             /\ RecvDatMsg_Queue' = Append(RecvDatMsg_Queue, m)
    <3>1. /\ RecvDatMsg_Queue' \in Seq(Message)
          /\ Len(RecvDatMsg_Queue') = Len(RecvDatMsg_Queue) + 1
          /\ \A i \in DOMAIN RecvDatMsg_Queue' :
                RecvDatMsg_Queue'[i] = m \/ (i \in DOMAIN RecvDatMsg_Queue /\ RecvDatMsg_Queue'[i] = RecvDatMsg_Queue[i])
      BY <2>1, <2>3
    <3>2. Separate' /\ AsSent'
      BY <1>2, <2>1, <3>1 DEF Close
    <3>3. is_start' = FALSE /\ Data' = Data
      BY <1>2 DEF Close
    <3>4. InBuffer'
      BY <2>3, <3>1, <3>3, SerialConstants
    <3> QED
      BY <1>c, <1>f, <3>1, <3>2, <3>3, <3>4
  <2> QED
    BY <1>2, <2>2, <2>3 DEF Close
<1>3. CASE Store(b)
  <2>1. Data' \in Seq(Byte) /\ Len(Data') = Len(Data) + 1 /\ Len(Data') < BufferSize
    BY <1>3, SerialConstants DEF Store, Overlong
  <2>2. ASSUME is_start PROVE Delimited(Data')
    <3>1. b \notin Delimiters /\ Delimited(Data)
      BY <1>3, <2>2 DEF Store, Ordinary, Delimiters
    <3> QED
      BY <1>3, <3>1 DEF Store, Delimited
  <2>3. is_start' = is_start /\ RecvDatMsg_Queue' = RecvDatMsg_Queue
    BY <1>3 DEF Store
  <2>4. InBuffer'
    BY <2>1, <2>3
  <2>5. Separate'
    BY <2>2, <2>3
  <2> QED
    BY <1>c, <1>f, <2>1, <2>3, <2>4, <2>5
<1>4. CASE Overrun(b)
  <2>1. is_start' = FALSE /\ Data' = <<>> /\ RecvDatMsg_Queue' = RecvDatMsg_Queue
    BY <1>4 DEF Overrun
  <2>2. Data' \in Seq(Byte) /\ Len(Data') = 0
    BY <2>1
  <2>3. InBuffer' /\ Separate'
    BY <2>1, <2>2, SerialConstants
  <2> QED
    BY <1>c, <1>f, <2>1, <2>2, <2>3
<1> QED
  BY <1>1, <1>2, <1>3, <1>4 DEF USART0_IRQHandler

\* The interrupt keeps in step with an undisturbed frame.
LEMMA InStep ==
    ASSUME SerialInv, Deliver
    PROVE  Assembled'
<1> SUFFICES ASSUME clean', 0 < at', at' < Len(Frame(sending'))
             PROVE  /\ Fits(sending') => is_start'
                    /\ is_start' => Data' = SubSeq(Frame(sending'), 2, at')
  BY DEF Assembled
<1> DEFINE f == Frame(sending)
           b == f[at + 1]
<1>1. /\ sending' = sending /\ clean /\ at' = at + 1 /\ at \in Nat /\ at + 1 < Len(f)
      /\ USART0_IRQHandler(b, Completed)
      /\ sending \in Payloads \union {NoPayload}
  BY DEF Deliver, SerialInv, Types
<1>2. f # <<>> /\ f \in Seq(Byte) /\ f[1] = START_BYTE /\ Len(f) = Len(Body(sending)) + 2
      /\ Body(sending) \in Seq(Byte \ Delimiters)
  BY <1>1, FrameShape
<1>3. CASE at = 0
  <2>1. Open(b)
    BY <1>1, <1>2, <1>3
       DEF USART0_IRQHandler, Close, Store, Overrun, Ordinary, START_BYTE, STOP_BYTE
  <2> QED
    BY <1>1, <1>2, <1>3, <2>1 DEF Open
<1>4. CASE at > 0
  <2>1. (Fits(sending) => is_start) /\ (is_start => Data = SubSeq(f, 2, at))
    BY <1>1, <1>4 DEF SerialInv, Assembled
  <2>2. at \in 1..(Len(f) - 2)
    BY <1>1, <1>2, <1>4
  <2>3. b \notin Delimiters /\ SubSeq(f, 2, at + 1) = Append(SubSeq(f, 2, at), b)
    BY <1>1, <2>2, InsideFrame
  <2>4. CASE Store(b)
    BY <1>1, <2>1, <2>3, <2>4 DEF Store
  <2>5. CASE Overrun(b)
    <3>1. ASSUME Fits(sending) PROVE FALSE
      <4>1. Len(Data) = at - 1 /\ Len(Body(sending)) <= BufferSize - 3
        BY <1>1, <1>2, <2>1, <2>2, <3>1 DEF Fits
      <4>2. ~Overlong
        BY <1>1, <1>2, <2>2, <4>1, SerialConstants DEF Overlong
      <4> QED
        BY <2>5, <4>2 DEF Overrun
    <3> QED
      BY <1>1, <2>5, <3>1 DEF Overrun
  <2>6. ~Open(b) /\ ~Close(b, Completed)
    BY <2>3 DEF Open, Close, Delimiters
  <2> QED
    BY <1>1, <2>4, <2>5, <2>6 DEF USART0_IRQHandler
<1> QED
  BY <1>1, <1>3, <1>4

\* When the last byte of an undisturbed frame arrives and a frame is open, the
\* buffer holds the whole body.
LEMMA Complete ==
    ASSUME SerialInv, ~LineIdle, Completed # NoPayload, is_start
    PROVE  Data = Body(Completed)
<1>1. /\ clean /\ at + 1 = Len(Frame(sending)) /\ Completed = sending
      /\ sending \in Payloads \union {NoPayload} /\ at \in Nat
  BY DEF Completed, SerialInv, Types
<1>2. Frame(sending) # <<>> /\ Len(Frame(sending)) = Len(Body(sending)) + 2 /\ Len(Body(sending)) \in Nat
  BY <1>1, FrameShape
<1>3. Data = SubSeq(Frame(sending), 2, at)
  BY <1>1, <1>2 DEF SerialInv, Assembled
<1> QED
  BY <1>1, <1>2, <1>3, WholeBody

\* SerialInv, for every instance.
THEOREM SerialInvariant == Spec => []SerialInv
<1>1. Init => SerialInv
  <2> SUFFICES ASSUME Init PROVE SerialInv
    OBVIOUS
  <2>1. Frame(NoPayload) = <<>>
    BY DEF Frame
  <2>2. Types
    <3>1. at \in 0..Len(Frame(sending))
      BY <2>1 DEF Init
    <3>2. Data \in Seq(Byte) /\ RecvDatMsg_Queue \in Seq(Message) /\ rfifo \in Seq(Byte)
      BY DEF Init
    <3>3. frames \in 0..MaxFrames /\ lost \in 0..MaxLost
      BY SerialConstants DEF Init
    <3>4. clean = FALSE /\ is_start = FALSE /\ created = FALSE /\ sending = NoPayload
      BY DEF Init
    <3> QED
      BY <3>1, <3>2, <3>3, <3>4 DEF Types
  <2>3. InBuffer
    BY SerialConstants DEF Init, InBuffer
  <2>4. Assembled /\ Separate /\ AsSent
    BY DEF Init, Assembled, Separate, AsSent
  <2> QED
    BY <2>2, <2>3, <2>4 DEF SerialInv
<1>2. SerialInv /\ [Next]_vars => SerialInv'
  <2> SUFFICES ASSUME SerialInv, [Next]_vars PROVE SerialInv'
    OBVIOUS
  <2> USE DEF SerialInv
  <2>0. /\ Frame(sending) \in Seq(Byte) /\ Len(Frame(sending)) \in Nat
        /\ Completed \in Payloads \union {NoPayload}
    BY FrameShape DEF Types, Completed
  <2>1. ASSUME NEW p \in Payloads, Send(p) PROVE SerialInv'
    <3>1. Len(Frame(p)) \in Nat
      BY FrameShape
    <3>2. Types'
      BY <2>1, <3>1, SerialConstants DEF Send, Types, receiver
    <3>3. InBuffer' /\ Separate' /\ AsSent'
      BY <2>1 DEF Send, InBuffer, Separate, AsSent, receiver
    <3>4. Assembled'
      BY <2>1 DEF Send, Assembled
    <3> QED
      BY <3>2, <3>3, <3>4
  <2>2. CASE Deliver
    <3>1. Frame(sending)[at + 1] \in Byte /\ at + 1 \in 0..Len(Frame(sending))
      BY <2>0, <2>2 DEF Deliver, LineIdle, Types
    <3>2. /\ is_start' \in BOOLEAN /\ Data' \in Seq(Byte) /\ created' \in BOOLEAN
          /\ RecvDatMsg_Queue' \in Seq(Message) /\ rfifo' \in Seq(Byte)
          /\ InBuffer' /\ Separate' /\ AsSent'
      BY <2>0, <2>2, <3>1, Received, Complete DEF Deliver
    <3>3. Types'
      <4>1. /\ sending' = sending /\ clean' = clean /\ frames' = frames /\ lost' = lost
            /\ at' = at + 1
        BY <2>2 DEF Deliver
      <4> QED
        BY <3>1, <3>2, <4>1 DEF Types
    <3>4. Assembled'
      BY <2>2, InStep
    <3> QED
      BY <3>2, <3>3, <3>4
  <2>3. CASE Lose
    <3>1. Types'
      <4>1. at' \in 0..Len(Frame(sending')) /\ lost' \in 0..MaxLost
        BY <2>0, <2>3, SerialConstants DEF Lose, Disturbed, LineIdle, Types
      <4> QED
        BY <2>3, <4>1 DEF Lose, Disturbed, Types, receiver
    <3>2. InBuffer' /\ Separate' /\ Assembled' /\ AsSent'
      BY <2>3 DEF Lose, Disturbed, InBuffer, Separate, Assembled, AsSent, receiver
    <3> QED
      BY <3>1, <3>2
  <2>4. ASSUME NEW b \in Noise, Damage(b) PROVE SerialInv'
    <3>1. b \in Byte
      BY SerialConstants
    <3>2. /\ is_start' \in BOOLEAN /\ Data' \in Seq(Byte) /\ created' \in BOOLEAN
          /\ RecvDatMsg_Queue' \in Seq(Message) /\ rfifo' \in Seq(Byte)
          /\ InBuffer' /\ Separate' /\ AsSent'
      BY <2>4, <3>1, Received DEF Damage
    <3>3. Types'
      <4>1. at' \in 0..Len(Frame(sending')) /\ lost' \in 0..MaxLost
        BY <2>0, <2>4, SerialConstants DEF Damage, Disturbed, LineIdle, Types
      <4>2. sending' = sending /\ clean' = FALSE /\ frames' = frames
        BY <2>4 DEF Damage, Disturbed
      <4> QED
        BY <3>2, <4>1, <4>2 DEF Types
    <3>4. Assembled'
      BY <2>4 DEF Damage, Disturbed, Assembled
    <3> QED
      BY <3>2, <3>3, <3>4
  <2>5. ASSUME NEW b \in Keys, Type(b) PROVE SerialInv'
    <3>1. b \in Byte
      BY SerialConstants
    <3>2. /\ is_start' \in BOOLEAN /\ Data' \in Seq(Byte) /\ created' \in BOOLEAN
          /\ RecvDatMsg_Queue' \in Seq(Message) /\ rfifo' \in Seq(Byte)
          /\ InBuffer' /\ Separate' /\ AsSent'
      BY <2>5, <3>1, Received DEF Type
    <3>3. Types'
      BY <2>5, <3>2 DEF Type, Types, console
    <3>4. Assembled'
      BY <2>5 DEF Type, LineIdle, Assembled, console
    <3> QED
      BY <3>2, <3>3, <3>4
  <2>6. CASE CreateQueue
    BY <2>6 DEF CreateQueue, Types, InBuffer, Assembled, Separate, AsSent, console, receiver
  <2>7. CASE TakeRequest
    <3>1. /\ RecvDatMsg_Queue' \in Seq(Message)
          /\ Len(RecvDatMsg_Queue') <= Len(RecvDatMsg_Queue)
          /\ \A i \in DOMAIN RecvDatMsg_Queue' :
                i + 1 \in DOMAIN RecvDatMsg_Queue /\ RecvDatMsg_Queue'[i] = RecvDatMsg_Queue[i + 1]
      BY <2>7 DEF TakeRequest, Types
    <3>2. Types' /\ Assembled'
      BY <2>7, <3>1 DEF TakeRequest, Types, Assembled, console
    <3>3. InBuffer'
      BY <2>7, <3>1, SerialConstants DEF TakeRequest, InBuffer, Types
    <3>4. Separate' /\ AsSent'
      BY <2>7, <3>1 DEF TakeRequest, Separate, AsSent
    <3> QED
      BY <3>2, <3>3, <3>4
  <2>8. CASE UART_getByte
    <3>1. rfifo' \in Seq(Byte)
      BY <2>8 DEF UART_getByte, Types
    <3> QED
      BY <2>8, <3>1 DEF UART_getByte, Types, InBuffer, Assembled, Separate, AsSent, console
  <2>9. CASE UNCHANGED vars
    BY <2>9 DEF vars, console, receiver, Types, InBuffer, Assembled, Separate, AsSent
  <2> QED
    BY <2>1, <2>2, <2>3, <2>4, <2>5, <2>6, <2>7, <2>8, <2>9 DEF Next
<1> QED
  BY <1>1, <1>2, PTL DEF Spec

\* FrameArrives, for every instance: the last byte of an undisturbed frame queues
\* the body that was sent.
THEOREM FramesArrive == Spec => FrameArrives
<1>1. ASSUME SerialInv, [Next]_vars,
             clean, at' # at, at' = Len(Frame(sending)), clean',
             Fits(sending), created, Len(RecvDatMsg_Queue) < QueueLength
      PROVE  RecvDatMsg_Queue' = Append(RecvDatMsg_Queue, [Data |-> Body(sending), of |-> sending])
  <2> USE DEF SerialInv
  <2> DEFINE f == Frame(sending)
  <2>1. /\ sending \in Payloads \union {NoPayload} /\ f \in Seq(Byte)
        /\ Len(f) \in Nat /\ at \in 0..Len(f)
    <3>1. Types
      BY <1>1
    <3> QED
      BY <3>1, FrameShape DEF Types
  <2>2. Deliver
    <3>1. ASSUME NEW p \in Payloads, Send(p) PROVE FALSE
      BY <1>1, <2>1, <3>1 DEF Send, LineIdle
    <3>2. ~Lose /\ ~(\E b \in Noise : Damage(b))
      BY <1>1 DEF Lose, Damage, Disturbed
    <3>3. ~(\E b \in Keys : Type(b)) /\ ~CreateQueue /\ ~TakeRequest /\ ~UART_getByte /\ ~UNCHANGED vars
      BY <1>1 DEF Type, CreateQueue, TakeRequest, UART_getByte, vars, console
    <3> QED
      BY <1>1, <3>1, <3>2, <3>3 DEF Next
  <2>3. at + 1 = Len(f) /\ f # <<>> /\ USART0_IRQHandler(f[at + 1], sending)
    <3>1. at' = at + 1 /\ USART0_IRQHandler(f[at + 1], Completed)
      BY <2>2 DEF Deliver
    <3>2. at + 1 = Len(f)
      BY <1>1, <3>1
    <3>3. Completed = sending /\ f # <<>>
      BY <1>1, <2>1, <3>2 DEF Completed
    <3> QED
      BY <3>1, <3>2, <3>3
  <2>4. Len(f) = Len(Body(sending)) + 2 /\ f[Len(f)] = STOP_BYTE /\ Len(Body(sending)) \in Nat
    BY <2>1, <2>3, FrameShape
  <2>5. is_start /\ Data = SubSeq(f, 2, Len(f) - 1)
    BY <1>1, <2>1, <2>3, <2>4 DEF Assembled
  <2>6. Data = Body(sending)
    BY <2>1, <2>3, <2>5, WholeBody
  <2>7. Close(STOP_BYTE, sending)
    <3>1. USART0_IRQHandler(STOP_BYTE, sending)
      BY <2>3, <2>4
    <3> QED
      BY <2>5, <3>1
       DEF USART0_IRQHandler, Open, Store, Overrun, Ordinary, START_BYTE, STOP_BYTE
  <2> QED
    BY <1>1, <2>6, <2>7 DEF Close
<1> QED
  BY <1>1, SerialInvariant, PTL DEF Spec, FrameArrives

\* RequestRead, for every set of requests: what MsgCoreHndlr decodes is the
\* request that was sent, whatever its bytes and its length.
THEOREM RequestsRead == Spec => []RequestRead
<1>1. SerialInv => RequestRead
  <2> SUFFICES ASSUME SerialInv, NEW i \in DOMAIN RecvDatMsg_Queue,
                      RecvDatMsg_Queue[i].of # NoPayload
               PROVE  DecodeSerialPkt(RecvDatMsg_Queue[i].Data) = RecvDatMsg_Queue[i].of
    BY DEF RequestRead
  <2>1. RecvDatMsg_Queue[i] \in Message
    BY DEF SerialInv, Types
  <2>2. RecvDatMsg_Queue[i].of \in Seq(Byte)
    BY <2>1, SerialConstants DEF Message
  <2>3. RecvDatMsg_Queue[i].Data = Body(RecvDatMsg_Queue[i].of)
    BY DEF SerialInv, AsSent
  <2> QED
    BY <2>2, <2>3, StuffingUndone
<1> QED
  BY <1>1, SerialInvariant, PTL

=============================================================================
