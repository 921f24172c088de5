----------------------------- MODULE HostProofs -----------------------------
(***************************************************************************)
(* Proofs about the three host tools that share nothing: the frames of     *)
(* ktool.py (Slip), the files of link_app.py (LinkApp) and the scanner of  *)
(* test_runner.py (TestRunner). The inductions are over sets of numbers,   *)
(* by way of the smallest number that is missing from one (UpTo).          *)
(***************************************************************************)
EXTENDS SuiteLog, Slip, LinkApp, SequenceTheorems, FiniteSetTheorems,
        WellFoundedInduction, TLAPS

(* Induction over the lengths, for a set of them.                          *)
LEMMA UpTo ==
  ASSUME NEW n \in Nat, NEW P \in SUBSET Nat, 0 \in P, \A k \in 0 .. n - 1 : k \in P => k + 1 \in P
  PROVE  \A k \in 0 .. n : k \in P
<1> DEFINE LT == {x \in Nat \X Nat : x[1] < x[2]}
           Q == {k \in 0 .. n : k \notin P}
<1>1. IsWellFoundedOn(LT, Nat)
  BY NatLessThanWellFounded DEF OpToRel
<1>2. Q \subseteq Nat
  OBVIOUS
<1> SUFFICES ASSUME Q # {} PROVE FALSE
  OBVIOUS
<1>3. PICK k \in Q : \A j \in Q : ~(<<j, k>> \in LT)
  <2> HIDE DEF LT, Q
  <2>. QED BY <1>1, <1>2, WFMin
<1>4. k # 0 /\ k \in 0 .. n /\ k \notin P
  OBVIOUS
<1>5. /\ k \in Nat /\ k - 1 \in Nat /\ k - 1 < k
      /\ k - 1 \in 0 .. n - 1 /\ k - 1 \in 0 .. n /\ (k - 1) + 1 = k
  BY <1>4
<1>6. <<k - 1, k>> \in LT
  BY <1>5
<1>7. k - 1 \in P
  BY <1>3, <1>5, <1>6
<1>. QED BY <1>4, <1>5, <1>7

(* The equation of the recursive function in FlattenSeq.                   *)
Flattens(g, seqs, n) ==
  g = [i \in 1 .. n |-> IF i = 1 THEN seqs[i] ELSE g[i - 1] \o seqs[i]]

(* There is such a function, whatever is flattened.                        *)
LEMMA FlattenExists ==
  ASSUME NEW seqs, NEW n \in Nat
  PROVE  \E g : Flattens(g, seqs, n)
<1> DEFINE P == {k \in Nat : \E g : Flattens(g, seqs, k)}
<1>1. 0 \in P
  <2>1. Flattens([i \in 1 .. 0 |-> 0], seqs, 0)
    BY DEF Flattens
  <2>. QED BY <2>1
<1>2. ASSUME NEW k \in 0 .. n - 1, k \in P PROVE k + 1 \in P
  <2>1. PICK g : Flattens(g, seqs, k)
    BY <1>2
  <2> DEFINE e == IF k = 0 THEN seqs[1] ELSE g[k] \o seqs[k + 1]
             h == [i \in 1 .. k + 1 |-> IF i = k + 1 THEN e ELSE g[i]]
  <2>2. \A i \in 1 .. k + 1 : h[i] = IF i = 1 THEN seqs[i] ELSE h[i - 1] \o seqs[i]
    <3> SUFFICES ASSUME NEW i \in 1 .. k + 1
                 PROVE  h[i] = IF i = 1 THEN seqs[i] ELSE h[i - 1] \o seqs[i]
      OBVIOUS
    <3>1. CASE i = k + 1
      BY <3>1
    <3>2. CASE i # k + 1
      <4>1. i \in 1 .. k /\ (i # 1 => i - 1 \in 1 .. k /\ i - 1 \in 1 .. k + 1 /\ i - 1 # k + 1)
        BY <3>2
      <4>2. g[i] = IF i = 1 THEN seqs[i] ELSE g[i - 1] \o seqs[i]
        BY <2>1, <4>1 DEF Flattens
      <4>3. h[i] = g[i] /\ (i # 1 => h[i - 1] = g[i - 1])
        BY <3>2, <4>1
      <4>. QED BY <4>2, <4>3
    <3>. QED BY <3>1, <3>2
  <2>3. h = [i \in 1 .. k + 1 |-> IF i = 1 THEN seqs[i] ELSE h[i - 1] \o seqs[i]]
    BY <2>2
  <2>4. Flattens(h, seqs, k + 1)
    BY <2>3 DEF Flattens
  <2>. QED BY <2>4
<1>3. \A k \in 0 .. n : k \in P
  <2> HIDE DEF P
  <2>1. P \in SUBSET Nat
    BY DEF P
  <2>. QED BY <1>1, <1>2, <2>1, UpTo
<1>. QED BY <1>3

(* FlattenSeq gives the last value of it.                                  *)
LEMMA FlattenIs ==
  ASSUME NEW seqs, Len(seqs) \in Nat \ {0}
  PROVE  \E g : Flattens(g, seqs, Len(seqs)) /\ FlattenSeq(seqs) = g[Len(seqs)]
<1>1. \E g : Flattens(g, seqs, Len(seqs))
  BY FlattenExists
<1>2. Len(seqs) # 0
  OBVIOUS
<1>. QED BY <1>1, <1>2 DEF FlattenSeq, Flattens

(* What it has made of the first sequences does not depend on the others.  *)
LEMMA FlattenAgree ==
  ASSUME NEW g, NEW h, NEW ss, NEW tt, NEW m \in Nat, NEW n \in Nat, m <= n,
         Flattens(g, ss, m), Flattens(h, tt, n), \A i \in 1 .. m : ss[i] = tt[i]
  PROVE  \A k \in 1 .. m : g[k] = h[k]
<1> DEFINE P == {k \in Nat : k \in 1 .. m => g[k] = h[k]}
<1>1. 0 \in P
  OBVIOUS
<1>2. ASSUME NEW k \in 0 .. m - 1, k \in P PROVE k + 1 \in P
  <2>1. /\ k + 1 \in 1 .. m /\ k + 1 \in 1 .. n /\ (k + 1) - 1 = k /\ (k + 1 # 1 => k \in 1 .. m)
    OBVIOUS
  <2>2. g[k + 1] = IF k + 1 = 1 THEN ss[k + 1] ELSE g[(k + 1) - 1] \o ss[k + 1]
    BY <2>1 DEF Flattens
  <2>3. h[k + 1] = IF k + 1 = 1 THEN tt[k + 1] ELSE h[(k + 1) - 1] \o tt[k + 1]
    BY <2>1 DEF Flattens
  <2>4. k + 1 # 1 => g[k] = h[k]
    BY <1>2, <2>1
  <2>. QED BY <2>1, <2>2, <2>3, <2>4
<1>3. \A k \in 0 .. m : k \in P
  <2>1. P \in SUBSET Nat
    OBVIOUS
  <2> HIDE DEF P
  <2>. QED BY <1>1, <1>2, <2>1, UpTo
<1>. QED BY <1>3

(* Nothing flattens to nothing.                                            *)
LEMMA FlattenEmpty == FlattenSeq(<<>>) = <<>>
BY DEF FlattenSeq

(* What is flattened has the entries of its parts.                         *)
LEMMA FlattenTypes ==
  ASSUME NEW S, NEW ss \in Seq(Seq(S))
  PROVE  FlattenSeq(ss) \in Seq(S)
<1>1. CASE ss = <<>>
  <2>1. FlattenSeq(ss) = <<>>
    BY <1>1, FlattenEmpty
  <2>2. <<>> \in Seq(S)
    OBVIOUS
  <2>. QED BY <2>1, <2>2
<1>2. CASE ss # <<>>
  <2> DEFINE n == Len(ss)
  <2>1. n \in Nat \ {0}
    BY <1>2
  <2>2. PICK g : Flattens(g, ss, n) /\ FlattenSeq(ss) = g[n]
    BY <2>1, FlattenIs
  <2> DEFINE P == {k \in Nat : k \in 1 .. n => g[k] \in Seq(S)}
  <2>3. 0 \in P /\ P \in SUBSET Nat
    OBVIOUS
  <2>4. ASSUME NEW k \in 0 .. n - 1, k \in P PROVE k + 1 \in P
    <3>1. k + 1 \in 1 .. n /\ (k + 1) - 1 = k /\ (k + 1 # 1 => k \in 1 .. n)
      BY <2>1
    <3>2. g[k + 1] = IF k + 1 = 1 THEN ss[k + 1] ELSE g[(k + 1) - 1] \o ss[k + 1]
      BY <2>2, <3>1 DEF Flattens
    <3>3. ss[k + 1] \in Seq(S)
      BY <3>1
    <3>4. k + 1 # 1 => g[k] \in Seq(S)
      BY <2>4, <3>1
    <3>5. k + 1 # 1 => g[k] \o ss[k + 1] \in Seq(S)
      BY <3>3, <3>4
    <3>6. g[k + 1] \in Seq(S)
      <4>1. CASE k = 0
        BY <3>2, <3>3, <4>1
      <4>2. CASE k # 0
        BY <3>1, <3>2, <3>5, <4>2
      <4>. QED BY <4>1, <4>2
    <3>. QED BY <3>6
  <2>5. \A k \in 0 .. n : k \in P
    <3> HIDE DEF P, n
    <3>. QED BY <2>1, <2>3, <2>4, UpTo
  <2>. QED BY <2>1, <2>2, <2>5
<1>. QED BY <1>1, <1>2

(* One more part comes after what the others give.                         *)
LEMMA FlattenAppend ==
  ASSUME NEW S, NEW ss \in Seq(Seq(S)), NEW s \in Seq(S)
  PROVE  FlattenSeq(Append(ss, s)) = FlattenSeq(ss) \o s
<1> DEFINE tt == Append(ss, s)
           n == Len(ss)
<1>0. n \in Nat /\ Len(tt) = n + 1 /\ tt[n + 1] = s /\ \A i \in 1 .. n : tt[i] = ss[i]
  OBVIOUS
<1>1. PICK h : Flattens(h, tt, n + 1) /\ FlattenSeq(tt) = h[n + 1]
  <2>1. Len(tt) \in Nat \ {0}
    BY <1>0
  <2>. QED BY <1>0, <2>1, FlattenIs
<1>2. h[n + 1] = IF n + 1 = 1 THEN tt[n + 1] ELSE h[(n + 1) - 1] \o tt[n + 1]
  <2>1. n + 1 \in 1 .. n + 1
    BY <1>0
  <2> HIDE DEF n, tt
  <2>. QED BY <1>1, <2>1 DEF Flattens
<1>3. CASE n = 0
  <2>1. ss = <<>>
    BY <1>3
  <2>2. FlattenSeq(ss) \o s = s
    BY <2>1, FlattenEmpty
  <2>. QED BY <1>0, <1>1, <1>2, <1>3, <2>2
<1>4. CASE n # 0
  <2>1. PICK g : Flattens(g, ss, n) /\ FlattenSeq(ss) = g[n]
    BY <1>0, <1>4, FlattenIs
  <2>2. g[n] = h[n]
    <3>1. n <= n + 1 /\ n + 1 \in Nat /\ n \in 1 .. n /\ \A i \in 1 .. n : ss[i] = tt[i]
      BY <1>0, <1>4
    <3> HIDE DEF n, tt
    <3>. QED BY <1>0, <1>1, <2>1, <3>1, FlattenAgree
  <2>. QED BY <1>0, <1>1, <1>2, <1>4, <2>1, <2>2
<1>. QED BY <1>3, <1>4

(* The parts of a flattened sequence s of sequences ss lie one behind the  *)
(* other in it, the i-th behind the first off[i] entries.                  *)
Places(ss, s, off) ==
  /\ off \in [1 .. Len(ss) + 1 -> Nat]
  /\ off[1] = 0 /\ off[Len(ss) + 1] = Len(s)
  /\ \A i \in 1 .. Len(ss) :
       /\ off[i + 1] = off[i] + Len(ss[i])
       /\ \A k \in 1 .. Len(ss[i]) : off[i] + k \in 1 .. Len(s) /\ s[off[i] + k] = ss[i][k]
  /\ \A p \in 1 .. Len(s) : \E i \in 1 .. Len(ss) : \E k \in 1 .. Len(ss[i]) : p = off[i] + k

(* One more part is placed at the end.                                     *)
LEMMA PlaceOne ==
  ASSUME NEW S, NEW ss \in Seq(Seq(S)), NEW s \in Seq(S), NEW t \in Seq(S),
         NEW off, Places(ss, s, off)
  PROVE  \E more : Places(Append(ss, t), s \o t, more)
<1>0. PICK n : n = Len(ss)
  OBVIOUS
<1>1. PICK tt : tt = Append(ss, t)
  OBVIOUS
<1>2. PICK r : r = s \o t
  OBVIOUS
<1>3. PICK more : more = [i \in 1 .. n + 2 |-> IF i = n + 2 THEN Len(r) ELSE off[i]]
  OBVIOUS
<1>4. /\ n \in Nat /\ Len(tt) = n + 1 /\ tt[n + 1] = t
      /\ \A i \in 1 .. n : tt[i] = ss[i] /\ ss[i] \in Seq(S) /\ Len(ss[i]) \in Nat
  BY <1>0, <1>1
<1>5. /\ Len(s) \in Nat /\ Len(t) \in Nat /\ Len(r) = Len(s) + Len(t)
      /\ \A k \in 1 .. Len(s) : r[k] = s[k]
      /\ \A k \in 1 .. Len(t) : r[Len(s) + k] = t[k]
  BY <1>2
<1>6. /\ \A i \in 1 .. n + 1 : off[i] \in Nat
      /\ off[1] = 0 /\ off[n + 1] = Len(s)
      /\ \A i \in 1 .. n : off[i + 1] = off[i] + Len(ss[i])
      /\ \A i \in 1 .. n : \A k \in 1 .. Len(ss[i]) :
           off[i] + k \in 1 .. Len(s) /\ s[off[i] + k] = ss[i][k]
      /\ \A p \in 1 .. Len(s) : \E i \in 1 .. n : \E k \in 1 .. Len(ss[i]) : p = off[i] + k
  BY <1>0 DEF Places
<1>7. /\ \A i \in 1 .. n + 1 : more[i] = off[i]
      /\ more[n + 2] = Len(r) /\ more \in [1 .. n + 2 -> Nat]
  <2>1. \A i \in 1 .. n + 2 : i # n + 2 => i \in 1 .. n + 1
    BY <1>4
  <2>2. \A i \in 1 .. n + 2 : (IF i = n + 2 THEN Len(r) ELSE off[i]) \in Nat
    <3>1. Len(r) \in Nat
      BY <1>5
    <3>2. \A i \in 1 .. n + 1 : off[i] \in Nat
      BY <1>6
    <3>. QED BY <2>1, <3>1, <3>2
  <2>3. \A i \in 1 .. n + 1 : i \in 1 .. n + 2 /\ i # n + 2
    BY <1>4
  <2>4. n + 2 \in 1 .. n + 2
    BY <1>4
  <2>. QED BY <1>3, <2>2, <2>3, <2>4
<1>8. more[1] = 0 /\ more[Len(tt) + 1] = Len(r) /\ more \in [1 .. Len(tt) + 1 -> Nat]
  <2>1. 1 \in 1 .. n + 1 /\ Len(tt) + 1 = n + 2
    BY <1>4
  <2>. QED BY <1>6, <1>7, <2>1
<1>9. ASSUME NEW i \in 1 .. Len(tt)
      PROVE  /\ more[i + 1] = more[i] + Len(tt[i])
             /\ \A k \in 1 .. Len(tt[i]) : more[i] + k \in 1 .. Len(r) /\ r[more[i] + k] = tt[i][k]
  <2>1. CASE i = n + 1
    <3>1. /\ n + 1 \in 1 .. n + 1 /\ (n + 1) + 1 = n + 2
      BY <1>4
    <3>2. more[i] = Len(s) /\ more[i + 1] = Len(r) /\ tt[i] = t
      BY <1>4, <1>6, <1>7, <2>1, <3>1
    <3>3. \A k \in 1 .. Len(t) : Len(s) + k \in 1 .. Len(r)
      BY <1>5
    <3>. QED BY <1>5, <3>2, <3>3
  <2>2. CASE i # n + 1
    <3>1. i \in 1 .. n /\ i \in 1 .. n + 1 /\ i + 1 \in 1 .. n + 1
      BY <1>4, <2>2
    <3>2. more[i] = off[i] /\ more[i + 1] = off[i + 1] /\ tt[i] = ss[i]
      BY <1>4, <1>7, <3>1
    <3>3. ASSUME NEW k \in 1 .. Len(ss[i])
          PROVE  off[i] + k \in 1 .. Len(r) /\ r[off[i] + k] = ss[i][k]
      <4>1. off[i] + k \in 1 .. Len(s) /\ s[off[i] + k] = ss[i][k]
        BY <1>6, <3>1
      <4>2. \A m \in 1 .. Len(s) : m \in 1 .. Len(r) /\ r[m] = s[m]
        BY <1>5
      <4>. QED BY <4>1, <4>2
    <3>. QED BY <1>6, <3>1, <3>2, <3>3
  <2>. QED BY <2>1, <2>2
<1>10. ASSUME NEW p \in 1 .. Len(r)
       PROVE  \E i \in 1 .. Len(tt) : \E k \in 1 .. Len(tt[i]) : p = more[i] + k
  <2>1. CASE p \in 1 .. Len(s)
    <3>1. PICK i \in 1 .. n : \E k \in 1 .. Len(ss[i]) : p = off[i] + k
      BY <1>6, <2>1
    <3>2. i \in 1 .. Len(tt) /\ tt[i] = ss[i] /\ more[i] = off[i]
      BY <1>4, <1>7, <3>1
    <3>. QED BY <3>1, <3>2
  <2>2. CASE p \notin 1 .. Len(s)
    <3>1. p - Len(s) \in 1 .. Len(t) /\ p = Len(s) + (p - Len(s))
      BY <1>5, <2>2
    <3>2. n + 1 \in 1 .. Len(tt) /\ n + 1 \in 1 .. n + 1
      BY <1>4
    <3>3. more[n + 1] = Len(s) /\ tt[n + 1] = t
      BY <1>4, <1>6, <1>7, <3>2
    <3>. QED BY <3>1, <3>2, <3>3
  <2>. QED BY <2>1, <2>2
<1>11. Places(tt, r, more)
  BY <1>8, <1>9, <1>10 DEF Places
<1>. QED BY <1>1, <1>2, <1>11

(* Whatever is flattened, its parts have their places: by induction over   *)
(* the number of parts.                                                    *)
LEMMA FlattenPlaces ==
  ASSUME NEW S, NEW ss \in Seq(Seq(S))
  PROVE  \E off : Places(ss, FlattenSeq(ss), off)
<1> DEFINE R(q) == \E off : Places(q, FlattenSeq(q), off)
           P == {k \in Nat : k <= Len(ss) => R(SubSeq(ss, 1, k))}
<1>1. 0 \in P
  <2>1. SubSeq(ss, 1, 0) = <<>>
    OBVIOUS
  <2>2. Places(<<>>, <<>>, [i \in 1 .. 1 |-> 0])
    BY DEF Places
  <2>. QED BY <2>1, <2>2, FlattenEmpty
<1>2. ASSUME NEW k \in 0 .. Len(ss) - 1, k \in P PROVE k + 1 \in P
  <2> DEFINE q == SubSeq(ss, 1, k)
             t == ss[k + 1]
  <2>1. q \in Seq(Seq(S)) /\ t \in Seq(S) /\ SubSeq(ss, 1, k + 1) = Append(q, t) /\ k <= Len(ss)
    OBVIOUS
  <2>2. PICK off : Places(q, FlattenSeq(q), off)
    BY <1>2, <2>1
  <2> HIDE DEF q, t
  <2>3. FlattenSeq(q) \in Seq(S) /\ FlattenSeq(Append(q, t)) = FlattenSeq(q) \o t
    BY <2>1, FlattenTypes, FlattenAppend
  <2>4. R(Append(q, t))
    BY <2>1, <2>2, <2>3, PlaceOne
  <2>5. k + 1 \in Nat
    OBVIOUS
  <2> HIDE DEF R
  <2>. QED BY <2>1, <2>4, <2>5
<1>3. Len(ss) \in P
  <2>1. P \in SUBSET Nat /\ Len(ss) \in Nat /\ Len(ss) \in 0 .. Len(ss)
    OBVIOUS
  <2> HIDE DEF P
  <2>2. \A k \in 0 .. Len(ss) : k \in P
    BY <1>1, <1>2, <2>1, UpTo
  <2>. QED BY <2>1, <2>2
<1>4. SubSeq(ss, 1, Len(ss)) = ss /\ Len(ss) \in Nat /\ Len(ss) <= Len(ss)
  OBVIOUS
<1>5. R(SubSeq(ss, 1, Len(ss)))
  <2> HIDE DEF R
  <2>. QED BY <1>3, <1>4
<1>. QED BY <1>4, <1>5

-----------------------------------------------------------------------------
(* The frames of ktool.py.                                                 *)

(* What write() makes of one byte.                                         *)
Code(x) == IF x = END THEN <<ESC, ESC_END>> ELSE IF x = ESC THEN <<ESC, ESC_ESC>> ELSE <<x>>

(* What lies between the two END bytes of a frame.                         *)
Escaped(p) == replace(replace(p, ESC, <<ESC, ESC_ESC>>), END, <<ESC, ESC_END>>)

(* A sequence that goes on for one entry after another one.                *)
LEMMA AppendIs ==
  ASSUME NEW S, NEW s \in Seq(S), NEW t \in Seq(S), NEW e \in S,
         Len(t) = Len(s) + 1, \A i \in 1 .. Len(s) : t[i] = s[i], t[Len(s) + 1] = e
  PROVE  t = Append(s, e)
<1>1. /\ Append(s, e) \in Seq(S) /\ Len(Append(s, e)) = Len(t) /\ Len(s) \in Nat
      /\ \A i \in 1 .. Len(t) : t[i] = Append(s, e)[i]
  OBVIOUS
<1>. QED BY <1>1, SeqEqual

(* bytes.replace() works byte by byte.                                     *)
LEMMA ReplaceAppend ==
  ASSUME NEW p \in Seq(Bytes), NEW x \in Bytes, NEW b \in Bytes, NEW by \in Seq(Bytes)
  PROVE  /\ replace(p, b, by) \in Seq(Bytes)
         /\ replace(Append(p, x), b, by) = replace(p, b, by) \o (IF x = b THEN by ELSE <<x>>)
<1> DEFINE ss(s) == [i \in DOMAIN s |-> IF s[i] = b THEN by ELSE <<s[i]>>]
           y == IF x = b THEN by ELSE <<x>>
<1>1. y \in Seq(Bytes)
  OBVIOUS
<1>2. ss(p) \in Seq(Seq(Bytes))
  <2>1. DOMAIN p = 1 .. Len(p) /\ Len(p) \in Nat /\ \A i \in 1 .. Len(p) : p[i] \in Bytes
    OBVIOUS
  <2>2. \A i \in 1 .. Len(p) : (IF p[i] = b THEN by ELSE <<p[i]>>) \in Seq(Bytes)
    BY <2>1
  <2>. QED BY <2>1, <2>2
<1>3. ss(Append(p, x)) = Append(ss(p), y)
  <2> DEFINE q == Append(p, x)
  <2>1. /\ q \in Seq(Bytes) /\ Len(q) = Len(p) + 1 /\ DOMAIN q = 1 .. Len(p) + 1
        /\ \A i \in 1 .. Len(p) : q[i] = p[i]
        /\ q[Len(p) + 1] = x /\ DOMAIN p = 1 .. Len(p) /\ Len(p) \in Nat
    OBVIOUS
  <2>2. Len(ss(p)) = Len(p)
    BY <2>1
  <2>3. /\ ss(q) \in Seq(Seq(Bytes)) /\ Len(ss(q)) = Len(p) + 1
        /\ \A i \in 1 .. Len(p) : ss(q)[i] = ss(p)[i]
        /\ ss(q)[Len(p) + 1] = y
    <3>1. \A i \in 1 .. Len(p) + 1 : (IF q[i] = b THEN by ELSE <<q[i]>>) \in Seq(Bytes)
      <4>1. \A i \in 1 .. Len(p) + 1 : q[i] \in Bytes
        BY <2>1
      <4>. QED BY <4>1
    <3>2. ss(q) \in [1 .. Len(p) + 1 -> Seq(Bytes)]
      BY <2>1, <3>1
    <3>. QED BY <2>1, <3>2
  <2> HIDE DEF ss, q, y
  <2>. QED BY <1>1, <1>2, <2>2, <2>3, AppendIs DEF q
<1>4. /\ replace(p, b, by) = FlattenSeq(ss(p))
      /\ replace(Append(p, x), b, by) = FlattenSeq(ss(Append(p, x)))
  BY DEF replace
<1> HIDE DEF ss, y
<1>5. FlattenSeq(ss(p)) \in Seq(Bytes) /\ FlattenSeq(Append(ss(p), y)) = FlattenSeq(ss(p)) \o y
  BY <1>1, <1>2, FlattenTypes, FlattenAppend
<1>. QED BY <1>3, <1>4, <1>5 DEF y

(* So do the two in a row, which therefore escape each byte once.          *)
LEMMA EscapedAppend ==
  ASSUME NEW p \in Seq(Bytes), NEW x \in Bytes
  PROVE  /\ Escaped(p) \in Seq(Bytes)
         /\ Escaped(Append(p, x)) = Escaped(p) \o Code(x)
<1> DEFINE ee == <<ESC, ESC_ESC>>
           ed == <<ESC, ESC_END>>
           r == replace(p, ESC, ee)
           R(s) == replace(s, END, ed)
<1>1. /\ {ESC, END, ESC_ESC, ESC_END} \subseteq Bytes /\ ee \in Seq(Bytes) /\ ed \in Seq(Bytes)
      /\ END # ESC /\ END # ESC_ESC /\ END # ESC_END
  BY DEF Bytes, ESC, END, ESC_ESC, ESC_END
<1>2. r \in Seq(Bytes) /\ replace(Append(p, x), ESC, ee) = r \o (IF x = ESC THEN ee ELSE <<x>>)
  <2> HIDE DEF ee
  <2>. QED BY <1>1, ReplaceAppend
<1>3. \A s \in Seq(Bytes), b \in Bytes :
        /\ R(s) \in Seq(Bytes)
        /\ R(Append(s, b)) = R(s) \o (IF b = END THEN ed ELSE <<b>>)
  <2> HIDE DEF ed
  <2>. QED BY <1>1, ReplaceAppend
<1>4. Escaped(p) = R(r) /\ Escaped(Append(p, x)) = R(replace(Append(p, x), ESC, ee))
  BY DEF Escaped
<1> HIDE DEF r, R
<1>5. CASE x = ESC
  <2>1. r \o ee = Append(Append(r, ESC), ESC_ESC)
    BY <1>1, <1>2
  <2>2. /\ Append(r, ESC) \in Seq(Bytes)
        /\ R(Append(r, ESC)) = R(r) \o <<ESC>>
        /\ R(Append(Append(r, ESC), ESC_ESC)) = R(Append(r, ESC)) \o <<ESC_ESC>>
    <3>1. Append(r, ESC) \in Seq(Bytes)
      BY <1>1, <1>2
    <3>. QED BY <1>1, <1>2, <1>3, <3>1
  <2>3. (R(r) \o <<ESC>>) \o <<ESC_ESC>> = R(r) \o ee
    <3>1. R(r) \in Seq(Bytes)
      BY <1>2, <1>3
    <3>. QED BY <1>1, <3>1
  <2>4. Code(x) = ee
    BY <1>1, <1>5 DEF Code
  <2>. QED BY <1>2, <1>3, <1>4, <1>5, <2>1, <2>2, <2>3, <2>4
<1>6. CASE x # ESC
  <2>1. r \o <<x>> = Append(r, x)
    BY <1>2
  <2>2. R(Append(r, x)) = R(r) \o (IF x = END THEN ed ELSE <<x>>)
    BY <1>2, <1>3
  <2>3. Code(x) = IF x = END THEN ed ELSE <<x>>
    BY <1>6 DEF Code
  <2>. QED BY <1>2, <1>3, <1>4, <1>6, <2>1, <2>2, <2>3
<1>. QED BY <1>5, <1>6

(* An empty packet has nothing to escape.                                  *)
LEMMA EscapedEmpty == Escaped(<<>>) = <<>>
<1>1. \A b, by : replace(<<>>, b, by) = <<>>
  <2>1. \A b, by : [i \in DOMAIN <<>> |-> IF <<>>[i] = b THEN by ELSE << <<>>[i] >>] = <<>>
    OBVIOUS
  <2>. QED BY <2>1, FlattenEmpty DEF replace
<1>. QED BY <1>1 DEF Escaped

(* What n and in_escape are after each byte of e, when e is read for p.    *)
Reads(p, e, n, x) ==
  /\ n \in [0 .. Len(e) -> 0 .. Len(p)] /\ x \in [0 .. Len(e) -> BOOLEAN]
  /\ n[0] = 0 /\ ~x[0] /\ n[Len(e)] = Len(p) /\ ~x[Len(e)]
  /\ \A j \in 1 .. Len(e) :
       /\ e[j] \in Bytes \ {END}
       /\ x[j] <=> ~x[j - 1] /\ e[j] = ESC
       /\ x[j - 1] => e[j] \in {ESC_END, ESC_ESC}
       /\ IF x[j] THEN n[j] = n[j - 1]
          ELSE /\ n[j] = n[j - 1] + 1
               /\ p[n[j]] = IF x[j - 1] THEN Unescaped(e[j]) ELSE e[j]

(* If a packet is read back, so is the packet with one more byte.          *)
LEMMA ReadsMore ==
  ASSUME NEW p \in Seq(Bytes), NEW e \in Seq(Bytes), NEW b \in Bytes,
         NEW n, NEW x, Reads(p, e, n, x)
  PROVE  \E m, y : Reads(Append(p, b), e \o Code(b), m, y)
<1> DEFINE q == Append(p, b)
           f == e \o Code(b)
           m == [j \in 0 .. Len(f) |->
                    IF j <= Len(e) THEN n[j] ELSE IF j = Len(f) THEN Len(p) + 1 ELSE Len(p)]
           y == [j \in 0 .. Len(f) |-> (j <= Len(e) /\ x[j]) \/ (~(j <= Len(e)) /\ j # Len(f))]
<1>1. /\ Len(e) \in Nat /\ Len(p) \in Nat
      /\ q \in Seq(Bytes) /\ Len(q) = Len(p) + 1 /\ q[Len(p) + 1] = b
      /\ \A i \in 1 .. Len(p) : q[i] = p[i]
  OBVIOUS
<1>2. /\ f \in Seq(Bytes) /\ Len(f) \in {Len(e) + 1, Len(e) + 2}
      /\ \A j \in 1 .. Len(e) : f[j] = e[j]
      /\ Len(f) = Len(e) + 1 => b \notin {END, ESC} /\ f[Len(e) + 1] = b
      /\ Len(f) = Len(e) + 2 =>
           /\ f[Len(e) + 1] = ESC /\ f[Len(e) + 2] \in {ESC_END, ESC_ESC}
           /\ Unescaped(f[Len(e) + 2]) = b
  <2>1. /\ {ESC, END, ESC_ESC, ESC_END} \subseteq Bytes /\ END # ESC /\ ESC_END # ESC_ESC
        /\ Unescaped(ESC_END) = END /\ Unescaped(ESC_ESC) = ESC
    BY DEF Bytes, ESC, END, ESC_ESC, ESC_END, Unescaped
  <2>2. CASE b = END
    <3>1. f = e \o <<ESC, ESC_END>>
      BY <2>2 DEF Code
    <3> HIDE DEF f
    <3>. QED BY <2>1, <2>2, <3>1
  <2>3. CASE b = ESC
    <3>1. f = e \o <<ESC, ESC_ESC>>
      BY <2>1, <2>3 DEF Code
    <3> HIDE DEF f
    <3>. QED BY <2>1, <2>3, <3>1
  <2>4. CASE b \notin {END, ESC}
    <3>1. f = e \o <<b>>
      BY <2>4 DEF Code
    <3> HIDE DEF f
    <3>. QED BY <2>1, <2>4, <3>1
  <2>. QED BY <2>2, <2>3, <2>4
<1>3. /\ n \in [0 .. Len(e) -> 0 .. Len(p)] /\ x \in [0 .. Len(e) -> BOOLEAN]
      /\ n[0] = 0 /\ ~x[0] /\ n[Len(e)] = Len(p) /\ ~x[Len(e)]
  BY DEF Reads
<1> HIDE DEF q, f
<1>a. /\ Len(e) \in Nat /\ Len(p) \in Nat /\ Len(f) \in Nat /\ Len(q) = Len(p) + 1
      /\ Len(f) = Len(e) + 1 \/ Len(f) = Len(e) + 2
  BY <1>1, <1>2
<1>b. \A j \in 0 .. Len(f) :
        /\ m[j] = IF j <= Len(e) THEN n[j] ELSE IF j = Len(f) THEN Len(p) + 1 ELSE Len(p)
        /\ y[j] <=> IF j <= Len(e) THEN x[j] ELSE j # Len(f)
  OBVIOUS
<1>4. m \in [0 .. Len(f) -> 0 .. Len(q)] /\ y \in [0 .. Len(f) -> BOOLEAN]
  <2>1. \A j \in 0 .. Len(f) :
          (IF j <= Len(e) THEN n[j] ELSE IF j = Len(f) THEN Len(p) + 1 ELSE Len(p)) \in 0 .. Len(q)
    <3> HIDE DEF m, y
    <3>1. \A j \in 0 .. Len(e) : n[j] \in 0 .. Len(q)
      BY <1>a, <1>3
    <3>. QED BY <1>a, <3>1
  <2>2. y \in [0 .. Len(f) -> BOOLEAN]
    OBVIOUS
  <2>. QED BY <2>1, <2>2
<1>5. m[0] = 0 /\ ~y[0] /\ m[Len(f)] = Len(q) /\ ~y[Len(f)]
  <2>1. 0 \in 0 .. Len(f) /\ Len(f) \in 0 .. Len(f) /\ 0 <= Len(e) /\ ~(Len(f) <= Len(e))
    BY <1>a
  <2> HIDE DEF m, y
  <2>. QED BY <1>a, <1>b, <1>3, <2>1
<1> HIDE DEF m, y
<1>6. ASSUME NEW j \in 1 .. Len(f)
      PROVE  /\ f[j] \in Bytes \ {END}
             /\ y[j] <=> ~y[j - 1] /\ f[j] = ESC
             /\ y[j - 1] => f[j] \in {ESC_END, ESC_ESC}
             /\ IF y[j] THEN m[j] = m[j - 1]
                ELSE /\ m[j] = m[j - 1] + 1
                     /\ q[m[j]] = IF y[j - 1] THEN Unescaped(f[j]) ELSE f[j]
  <2>0. j \in 0 .. Len(f) /\ j - 1 \in 0 .. Len(f)
    BY <1>1, <1>2
  <2>1. CASE j <= Len(e)
    <3>1. j \in 1 .. Len(e) /\ j \in 0 .. Len(e) /\ j - 1 \in 0 .. Len(e)
      BY <1>1, <2>1
    <3>2. /\ m[j] = n[j] /\ m[j - 1] = n[j - 1] /\ f[j] = e[j]
          /\ y[j] <=> x[j]
          /\ y[j - 1] <=> x[j - 1]
      <4>1. j <= Len(e) /\ j - 1 <= Len(e)
        BY <1>a, <3>1
      <4>. QED BY <1>b, <1>2, <2>0, <3>1, <4>1
    <3>3. /\ e[j] \in Bytes \ {END}
          /\ x[j] <=> ~x[j - 1] /\ e[j] = ESC
          /\ x[j - 1] => e[j] \in {ESC_END, ESC_ESC}
          /\ IF x[j] THEN n[j] = n[j - 1]
             ELSE /\ n[j] = n[j - 1] + 1
                  /\ p[n[j]] = IF x[j - 1] THEN Unescaped(e[j]) ELSE e[j]
      BY <3>1 DEF Reads
    <3>4. ~x[j] => n[j] \in 1 .. Len(p) /\ q[n[j]] = p[n[j]]
      BY <1>1, <1>3, <3>1, <3>3
    <3>. QED BY <3>2, <3>3, <3>4
  <2>2. CASE Len(f) = Len(e) + 1 /\ j = Len(e) + 1
    <3>0. ~(j <= Len(e)) /\ j - 1 = Len(e)
      BY <1>a, <2>2
    <3>1. m[j] = Len(p) + 1 /\ m[j - 1] = Len(p) /\ ~y[j] /\ ~y[j - 1] /\ f[j] = b
      BY <1>a, <1>b, <1>2, <1>3, <2>0, <3>0, <2>2
    <3>2. f[j] \in Bytes \ {END} /\ f[j] # ESC
      BY <1>2, <2>2
    <3>. QED BY <1>1, <3>1, <3>2
  <2>3. CASE Len(f) = Len(e) + 2 /\ j = Len(e) + 1
    <3>0. ~(j <= Len(e)) /\ j - 1 = Len(e) /\ j # Len(f)
      BY <1>a, <2>3
    <3>1. m[j] = Len(p) /\ m[j - 1] = Len(p) /\ y[j] /\ ~y[j - 1] /\ f[j] = ESC
      BY <1>a, <1>b, <1>2, <1>3, <2>0, <3>0, <2>3
    <3>2. f[j] \in Bytes \ {END}
      BY <3>1 DEF Bytes, END, ESC
    <3>. QED BY <1>1, <3>1, <3>2
  <2>4. CASE Len(f) = Len(e) + 2 /\ j = Len(e) + 2
    <3>0. ~(j <= Len(e)) /\ ~(j - 1 <= Len(e)) /\ j - 1 # Len(f) /\ j = Len(f)
      BY <1>a, <2>4
    <3>1. /\ m[j] = Len(p) + 1 /\ m[j - 1] = Len(p) /\ ~y[j] /\ y[j - 1]
          /\ f[j] \in {ESC_END, ESC_ESC} /\ Unescaped(f[j]) = b
      BY <1>a, <1>b, <1>2, <1>3, <2>0, <3>0, <2>4
    <3>2. f[j] \in Bytes \ {END} /\ f[j] # ESC
      BY <3>1 DEF Bytes, END, ESC, ESC_END, ESC_ESC
    <3>. QED BY <1>1, <3>1, <3>2
  <2>. QED BY <1>1, <1>2, <2>1, <2>2, <2>3, <2>4
<1>7. Reads(q, f, m, y)
  BY <1>4, <1>5, <1>6 DEF Reads
<1>. QED BY <1>7 DEF q, f

(* Every packet is read back from what write() makes of it: by induction   *)
(* over its length.                                                        *)
LEMMA PacketReads ==
  ASSUME NEW p \in Seq(Bytes)
  PROVE  \E n, x : Reads(p, Escaped(p), n, x)
<1> DEFINE R(q) == \E n, x : Reads(q, Escaped(q), n, x)
           P == {k \in Nat : k <= Len(p) => R(SubSeq(p, 1, k))}
<1>1. 0 \in P
  <2>1. SubSeq(p, 1, 0) = <<>>
    OBVIOUS
  <2>2. Reads(<<>>, <<>>, [j \in 0 .. 0 |-> 0], [j \in 0 .. 0 |-> FALSE])
    BY DEF Reads
  <2>. QED BY <2>1, <2>2, EscapedEmpty
<1>2. ASSUME NEW k \in 0 .. Len(p) - 1, k \in P PROVE k + 1 \in P
  <2> DEFINE q == SubSeq(p, 1, k)
             b == p[k + 1]
  <2>1. q \in Seq(Bytes) /\ b \in Bytes /\ SubSeq(p, 1, k + 1) = Append(q, b) /\ k <= Len(p)
    OBVIOUS
  <2>2. PICK n, x : Reads(q, Escaped(q), n, x)
    BY <1>2, <2>1
  <2> HIDE DEF q, b
  <2>3. Escaped(q) \in Seq(Bytes) /\ Escaped(Append(q, b)) = Escaped(q) \o Code(b)
    BY <2>1, EscapedAppend
  <2>4. R(Append(q, b))
    BY <2>1, <2>2, <2>3, ReadsMore
  <2>5. k + 1 \in Nat
    OBVIOUS
  <2> HIDE DEF R
  <2>. QED BY <2>1, <2>4, <2>5
<1>3. Len(p) \in P
  <2>1. P \in SUBSET Nat /\ Len(p) \in Nat /\ Len(p) \in 0 .. Len(p)
    OBVIOUS
  <2> HIDE DEF P
  <2>2. \A k \in 0 .. Len(p) : k \in P
    BY <1>1, <1>2, <2>1, UpTo
  <2>. QED BY <2>1, <2>2
<1>4. SubSeq(p, 1, Len(p)) = p
  OBVIOUS
<1>5. Len(p) \in Nat /\ Len(p) <= Len(p)
  OBVIOUS
<1>6. R(SubSeq(p, 1, Len(p)))
  <2> HIDE DEF R
  <2>. QED BY <1>3, <1>5
<1>. QED BY <1>4, <1>6

(* The bytes of a frame.                                                   *)
LEMMA FrameIs ==
  ASSUME NEW p \in Seq(Bytes)
  PROVE  /\ Escaped(p) \in Seq(Bytes) /\ Frame(p) \in Seq(Bytes)
         /\ Len(Frame(p)) = Len(Escaped(p)) + 2
         /\ Frame(p)[1] = END /\ Frame(p)[Len(Escaped(p)) + 2] = END
         /\ \A j \in 1 .. Len(Escaped(p)) : Frame(p)[j + 1] = Escaped(p)[j]
<1>1. Escaped(p) \in Seq(Bytes) /\ END \in Bytes
  BY EscapedAppend DEF Bytes
<1>2. Frame(p) = <<END>> \o Escaped(p) \o <<END>>
  BY DEF Frame, Escaped
<1>. QED BY <1>1, <1>2

(* The types of the variables.                                             *)
SlipTypes ==
  /\ sent \in Seq(Packets) /\ wire \in Seq(Bytes)
  /\ loop \in {"idle", "start", "frame", "closed"}
  /\ in_escape \in BOOLEAN /\ frame \in Seq(Bytes) /\ got \in Seq(Seq(Bytes))
  /\ calls \in Nat /\ disturbed \in Nat

(* How many END bytes the calls have read.                                 *)
EndsRead == IF loop = "frame" THEN 2 * Len(got) + 1 ELSE 2 * Len(got)

(* The END bytes that have been read or are on the wire are numbered 1 to  *)
(* N; the j-th is at e[j], which is not positive if it has been read, and  *)
(* e[N + 1] is where the next one will be put. There are no others.        *)
Borders(N, e) ==
  /\ N \in Nat /\ e \in [Nat -> Int]
  /\ EndsRead <= N /\ e[EndsRead] <= 0 /\ e[N + 1] = Len(wire) + 1
  /\ \A j \in EndsRead + 1 .. N + 1 : 1 <= e[j] /\ e[j] <= Len(wire) + 1
  /\ \A j \in EndsRead .. N : e[j] < e[j + 1]
  /\ \A j \in EndsRead + 1 .. N : wire[e[j]] = END
  /\ \A j \in EndsRead .. N :
       \A i \in 1 .. Len(wire) : e[j] < i /\ i < e[j + 1] => wire[i] # END

(* A label says what the calls make of the bytes between two END bytes that*)
(* they take for a frame: 0 that there are none, k > 0 that they are those *)
(* of the k-th answer, Spoiled nothing.                                    *)
Spoiled == -1

Segment(e, j, k) ==
  /\ k = 0 => e[j + 1] = e[j] + 1
  /\ k > 0 =>
       /\ e[j + 1] = e[j] + Len(Escaped(sent[k])) + 1
       /\ \A h \in 1 .. Len(Escaped(sent[k])) :
            e[j] + h >= 1 => wire[e[j] + h] = Escaped(sent[k])[h]

(* Every answer is in its place at most once, one frame is spoiled, and    *)
(* what has been returned is what its label says.                          *)
Labels(lab) ==
  /\ lab \in [Nat -> Int] /\ \A q \in Nat : Spoiled <= lab[q] /\ lab[q] <= Len(sent)
  /\ \A p, q \in Nat : p < q /\ lab[p] > 0 /\ lab[q] > 0 => lab[p] < lab[q]
  /\ \A p, q \in Nat : lab[p] = Spoiled /\ lab[q] = Spoiled => p = q
  /\ \A q \in 1 .. Len(got) : /\ lab[q] = 0 => got[q] = <<>>
                              /\ lab[q] > 0 => got[q] = sent[lab[q]]

(* r bytes of packet p are through.                                        *)
Reading(p, r, n, x) ==
  /\ Reads(p, Escaped(p), n, x)
  /\ frame = SubSeq(p, 1, n[r]) /\ (in_escape <=> x[r])

(* The q-th frame lies behind the END with number 2q - 1.                  *)
Stream(N, e, lab) ==
  /\ Borders(N, e)
  /\ \A q \in Nat : 2 * q - 1 > N => lab[q] = 0
  /\ \A q \in Nat : EndsRead <= 2 * q - 1 /\ 2 * q - 1 <= N => Segment(e, 2 * q - 1, lab[q])
  /\ loop = "start" => frame = <<>> /\ ~in_escape
  /\ loop = "frame" /\ lab[Len(got) + 1] = 0 => frame = <<>>
  /\ loop = "frame" /\ lab[Len(got) + 1] > 0 =>
       \E n, x : Reading(sent[lab[Len(got) + 1]], -e[EndsRead], n, x)

(* Undisturbed, the q-th frame is the q-th answer, and there is nothing    *)
(* between two frames.                                                     *)
CleanLabels(lab) ==
  /\ Len(got) <= Len(sent)
  /\ \A q \in Nat : q <= Len(sent) => lab[q] = q

CleanStream(N, e) ==
  /\ N = 2 * Len(sent)
  /\ \A q \in Nat : EndsRead <= 2 * q /\ 2 * q <= N => Segment(e, 2 * q, 0)

(* On a line that has been disturbed once at most.                         *)
StreamInv ==
  disturbed <= 1 =>
    \E lab :
      /\ Labels(lab) /\ (disturbed = 0 => CleanLabels(lab))
      /\ loop # "closed" =>
           \E N, e : Stream(N, e, lab) /\ (disturbed = 0 => CleanStream(N, e))

(* What every step keeps.                                                  *)
SlipInv == SlipTypes /\ StreamInv

(* Answers consist of bytes.                                               *)
LEMMA TypesOfPackets ==
  ASSUME SlipTypes
  PROVE  /\ \A i \in 1 .. Len(sent) :
              /\ sent[i] \in Seq(Bytes) /\ Escaped(sent[i]) \in Seq(Bytes)
              /\ Len(Escaped(sent[i])) \in Nat /\ Len(sent[i]) \in Nat
         /\ Len(sent) \in Nat /\ Len(got) \in Nat /\ Len(wire) \in Nat /\ EndsRead \in Nat
<1>1. \A i \in 1 .. Len(sent) : sent[i] \in Seq(Bytes)
  BY SlipAssumption DEF SlipTypes
<1>2. Len(sent) \in Nat /\ Len(got) \in Nat /\ Len(wire) \in Nat
  BY DEF SlipTypes
<1>3. \A i \in 1 .. Len(sent) : Escaped(sent[i]) \in Seq(Bytes)
  BY <1>1, FrameIs
<1>4. \A i \in 1 .. Len(sent) : Len(Escaped(sent[i])) \in Nat /\ Len(sent[i]) \in Nat
  <2>1. \A s \in Seq(Bytes) : Len(s) \in Nat
    OBVIOUS
  <2>. QED BY <1>1, <1>3, <2>1
<1>5. EndsRead \in Nat
  BY <1>2 DEF EndsRead
<1>. QED BY <1>1, <1>2, <1>3, <1>4, <1>5

(* The invariant holds when nothing has been sent.                         *)
LEMMA SlipStart == SlipInit => SlipInv
<1> SUFFICES ASSUME SlipInit PROVE SlipInv
  OBVIOUS
<1>1. SlipTypes
  <2>1. <<>> \in Seq(Packets) /\ <<>> \in Seq(Bytes) /\ <<>> \in Seq(Seq(Bytes))
    BY EmptySeq
  <2>. QED BY <2>1 DEF SlipInit, SlipTypes
<1> DEFINE lab == [q \in Nat |-> 0]
           e == [j \in Nat |-> j]
<1>0. /\ Len(sent) = 0 /\ Len(got) = 0 /\ Len(wire) = 0 /\ EndsRead = 0 /\ loop = "idle"
      /\ disturbed = 0
  BY DEF SlipInit, EndsRead
<1>2. Labels(lab) /\ CleanLabels(lab)
  BY <1>0 DEF Labels, CleanLabels, Spoiled
<1>3. \A j \in Nat : e[j] = j
  OBVIOUS
<1>4. Borders(0, e)
  <2>1. e \in [Nat -> Int]
    OBVIOUS
  <2> HIDE DEF e
  <2>. QED BY <1>0, <1>3, <2>1 DEF Borders
<1>5. Stream(0, e, lab)
  <2>1. \A q \in Nat : ~(0 <= 2 * q - 1 /\ 2 * q - 1 <= 0)
    OBVIOUS
  <2>2. \A q \in Nat : lab[q] = 0
    OBVIOUS
  <2> HIDE DEF e, lab
  <2>. QED BY <1>0, <1>4, <2>1, <2>2 DEF Stream
<1>6. CleanStream(0, e)
  <2>1. \A q \in Nat : 2 * q <= 0 => 2 * q = 0
    OBVIOUS
  <2>2. e[0 + 1] = e[0] + 1
    BY <1>3
  <2> HIDE DEF e
  <2>. QED BY <1>0, <2>1, <2>2 DEF CleanStream, Segment
<1>7. StreamInv
  <2> HIDE DEF e, lab
  <2>. QED BY <1>2, <1>5, <1>6 DEF StreamInv
<1>. QED BY <1>1, <1>7 DEF SlipInv

(* Every step keeps the types, also on a disturbed line.                   *)
LEMMA SlipTypesStep == SlipTypes /\ [SlipNext]_slipvars => SlipTypes'
<1> SUFFICES ASSUME SlipTypes, [SlipNext]_slipvars PROVE SlipTypes'
  OBVIOUS
<1> USE DEF SlipTypes
<1>1. CASE write
  <2>1. PICK p \in Packets : sent' = Append(sent, p) /\ wire' = wire \o Frame(p)
    BY <1>1 DEF write
  <2>2. Frame(p) \in Seq(Bytes)
    BY SlipAssumption, FrameIs
  <2>. QED BY <1>1, <2>1, <2>2 DEF write, call
<1>2. CASE Disturb
  <2>2. wire' \in Seq(Bytes)
    <3>1. CASE \E i \in DOMAIN wire : wire' = RemoveAt(wire, i)
      <4>1. PICK i \in 1 .. Len(wire) :
              wire' = SubSeq(wire, 1, i - 1) \o SubSeq(wire, i + 1, Len(wire))
        <5>1. DOMAIN wire = 1 .. Len(wire)
          OBVIOUS
        <5>. QED BY <3>1, <5>1 DEF RemoveAt
      <4>2. SubSeq(wire, 1, i - 1) \in Seq(Bytes) /\ SubSeq(wire, i + 1, Len(wire)) \in Seq(Bytes)
        OBVIOUS
      <4>. QED BY <4>1, <4>2
    <3>2. CASE \E i \in 1 .. Len(wire) + 1, b \in Bytes : wire' = InsertAt(wire, i, b)
      <4>1. PICK i \in 1 .. Len(wire) + 1, b \in Bytes :
              wire' = SubSeq(wire, 1, i - 1) \o <<b>> \o SubSeq(wire, i, Len(wire))
        BY <3>2 DEF InsertAt
      <4>2. SubSeq(wire, 1, i - 1) \in Seq(Bytes) /\ SubSeq(wire, i, Len(wire)) \in Seq(Bytes)
        OBVIOUS
      <4>. QED BY <4>1, <4>2
    <3>. QED BY <1>2, <3>1, <3>2 DEF Disturb
  <2>. QED BY <1>2, <2>2 DEF Disturb, call
<1>3. CASE Call
  <2>1. <<>> \in Seq(Bytes)
    BY EmptySeq
  <2>2. /\ UNCHANGED <<sent, wire, got, disturbed>> /\ loop' = "start" /\ in_escape' = FALSE
        /\ frame' = <<>> /\ calls' = calls + 1
    BY <1>3 DEF Call
  <2>3. frame' \in Seq(Bytes) /\ calls' \in Nat
    BY <2>1, <2>2
  <2>4. in_escape' \in BOOLEAN
    BY <2>2
  <2>5. loop' \in {"idle", "start", "frame", "closed"}
    BY <2>2
  <2>. QED BY <2>2, <2>3, <2>4, <2>5
<1>4. CASE Deadline
  BY <1>4 DEF Deadline
<1>5. CASE WaitFrameStart
  BY <1>5 DEF WaitFrameStart, Read
<1>6. CASE FrameEnd
  BY <1>6 DEF FrameEnd, Read
<1>7. CASE FrameByte
  <2>1. Unescaped(ESC_END) \in Bytes /\ Unescaped(ESC_ESC) \in Bytes
    BY DEF Unescaped, Bytes, ESC_END, ESC_ESC, END, ESC
  <2>2. PICK b \in Bytes \ {END} :
          /\ Read(b)
          /\ \/ /\ b \in {ESC_END, ESC_ESC}
                /\ frame' = Append(frame, Unescaped(b)) /\ in_escape' = FALSE
             \/ in_escape' = TRUE /\ UNCHANGED frame
             \/ frame' = Append(frame, b) /\ UNCHANGED in_escape
    BY <1>7 DEF FrameByte
  <2>3. frame' \in Seq(Bytes)
    <3>1. b \in {ESC_END, ESC_ESC} => Append(frame, Unescaped(b)) \in Seq(Bytes)
      <4>1. b \in {ESC_END, ESC_ESC} => Unescaped(b) \in Bytes
        BY <2>1
      <4>. QED BY <4>1
    <3>2. Append(frame, b) \in Seq(Bytes)
      OBVIOUS
    <3>. QED BY <2>2, <3>1, <3>2
  <2>a. in_escape' \in BOOLEAN
    BY <2>2
  <2>4. wire' \in Seq(Bytes)
    BY <2>2 DEF Read
  <2>. QED BY <1>7, <2>3, <2>a, <2>4 DEF FrameByte
<1>8. CASE BadEscape
  <2>1. wire' \in Seq(Bytes)
    <3>1. \A b : Read(b) => wire' \in Seq(Bytes)
      BY DEF Read
    <3>. QED BY <1>8, <3>1 DEF BadEscape
  <2>. QED BY <1>8, <2>1 DEF BadEscape
<1>9. CASE UNCHANGED slipvars
  BY <1>9 DEF slipvars, call
<1>. QED BY <1>1, <1>2, <1>3, <1>4, <1>5, <1>6, <1>7, <1>8, <1>9 DEF SlipNext, recv_one_return

(* Which byte comes next.                                                  *)
LEMMA NextByte ==
  ASSUME SlipTypes, NEW N, NEW e, Borders(N, e), wire # <<>>
  PROVE  /\ wire[1] = Head(wire) /\ Len(wire) >= 1
         /\ Head(wire) = END => e[EndsRead + 1] = 1 /\ EndsRead + 1 <= N
         /\ Head(wire) # END => e[EndsRead + 1] >= 2
<1>1. Len(wire) \in Nat /\ Len(wire) >= 1 /\ wire[1] = Head(wire) /\ EndsRead \in Nat
  <2>1. Len(wire) # 0 /\ wire[1] = Head(wire)
    BY DEF SlipTypes
  <2>. QED BY <2>1, TypesOfPackets
<1>2. PICK r \in Nat : r = EndsRead
  BY <1>1
<1>3. PICK w \in Nat : w = Len(wire) /\ w >= 1
  BY <1>1
<1>4. PICK a, b \in Int : a = e[r] /\ b = e[r + 1]
  BY <1>2 DEF Borders
<1>5. /\ N \in Nat /\ r <= N /\ a <= 0 /\ 1 <= b /\ b <= w + 1
      /\ r = N => b = w + 1
  BY <1>2, <1>3, <1>4 DEF Borders
<1>6. r < N => wire[b] = END
  <2>1. r < N => r + 1 \in r + 1 .. N
    BY <1>5
  <2>. QED BY <1>2, <1>4, <2>1 DEF Borders
<1>7. \A i \in 1 .. w : a < i /\ i < b => wire[i] # END
  <2>1. r \in r .. N
    BY <1>5
  <2>. QED BY <1>2, <1>3, <1>4, <2>1 DEF Borders
<1>8. Head(wire) = END => b = 1 /\ r + 1 <= N
  <2>1. 1 \in 1 .. w /\ a < 1
    BY <1>3, <1>5
  <2>. QED BY <1>1, <1>3, <1>5, <1>7, <2>1
<1>9. Head(wire) # END => b >= 2
  <2>1. b = 1 => r < N
    BY <1>3, <1>5
  <2>2. b = 1 => wire[1] = END
    BY <1>6, <2>1
  <2>. QED BY <1>1, <1>5, <2>2
<1>. QED BY <1>1, <1>2, <1>4, <1>8, <1>9

(* A byte is read: everything moves one place nearer.                      *)
LEMMA ByteRead ==
  ASSUME SlipTypes, NEW N, NEW e, Borders(N, e), wire # <<>>, wire' = Tail(wire), UNCHANGED sent,
         EndsRead' = IF Head(wire) = END THEN EndsRead + 1 ELSE EndsRead
  PROVE  \E f : /\ Borders(N, f)' /\ \A j \in Nat : f[j] = e[j] - 1
                /\ \A j \in EndsRead .. N, k \in Int :
                     k <= Len(sent) /\ Segment(e, j, k) => Segment(f, j, k)'
<1> DEFINE g == [j \in Nat |-> e[j] - 1]
<1>1. PICK f : f = g
  OBVIOUS
<1>2. \A j \in Nat : e[j] \in Int /\ f[j] = e[j] - 1
  BY <1>1 DEF Borders
<1>3. f \in [Nat -> Int]
  BY <1>1 DEF Borders
<1> HIDE DEF g
<1>4. PICK r \in Nat, s \in Nat : r = EndsRead /\ s = EndsRead'
  BY TypesOfPackets
<1>5. PICK w \in Nat : w = Len(wire) /\ w >= 1
  BY NextByte, TypesOfPackets
<1>6. Len(wire') = w - 1 /\ \A i \in 1 .. w - 1 : wire'[i] = wire[i + 1]
  BY <1>5, HeadTailProperties DEF SlipTypes
<1>7. /\ N \in Nat /\ s <= N /\ r <= s /\ s <= r + 1
      /\ s = r \/ e[r + 1] = 1
      /\ s = r => e[r + 1] >= 2
  <2>1. N \in Nat /\ r <= N
    BY <1>4 DEF Borders
  <2>2. CASE Head(wire) = END
    <3>1. e[r + 1] = 1 /\ r + 1 <= N /\ s = r + 1
      BY <1>4, <2>2, NextByte
    <3>. QED BY <2>1, <3>1
  <2>3. CASE Head(wire) # END
    <3>1. e[r + 1] >= 2 /\ s = r
      BY <1>4, <2>3, NextByte
    <3>. QED BY <2>1, <3>1
  <2>. QED BY <2>2, <2>3
<1>8. e[r] <= 0 /\ e[N + 1] = w + 1 /\ \A j \in r + 1 .. N + 1 : 1 <= e[j] /\ e[j] <= w + 1
  BY <1>4, <1>5 DEF Borders
<1>9. \A j \in r .. N : e[j] < e[j + 1]
  BY <1>4 DEF Borders
<1>10. f[s] <= 0 /\ f[N + 1] = w
  <2>1. s = r \/ s = r + 1
    BY <1>7
  <2>2. e[s] <= 1 /\ e[s] \in Int
    BY <1>2, <1>7, <1>8, <2>1
  <2>. QED BY <1>2, <1>7, <1>8, <2>2
<1>11. \A j \in s + 1 .. N + 1 : 1 <= f[j] /\ f[j] <= w
  <2> SUFFICES ASSUME NEW j \in s + 1 .. N + 1 PROVE 1 <= f[j] /\ f[j] <= w
    OBVIOUS
  <2>1. j \in Nat /\ j \in r + 1 .. N + 1
    BY <1>7
  <2>2. 2 <= e[j]
    <3>1. CASE j = r + 1
      <4>1. s = r
        BY <1>7, <3>1
      <4>. QED BY <1>7, <3>1, <4>1
    <3>2. CASE j # r + 1
      <4>1. j - 1 \in r + 1 .. N + 1 /\ j - 1 \in r .. N /\ (j - 1) + 1 = j /\ j - 1 \in Nat
        BY <1>7, <2>1, <3>2
      <4>2. 1 <= e[j - 1] /\ e[j - 1] < e[j]
        BY <1>8, <1>9, <4>1
      <4>. QED BY <1>2, <2>1, <4>1, <4>2
    <3>. QED BY <3>1, <3>2
  <2>. QED BY <1>2, <1>8, <2>1, <2>2
<1>12. \A j \in s .. N : f[j] < f[j + 1]
  <2> SUFFICES ASSUME NEW j \in s .. N PROVE f[j] < f[j + 1]
    OBVIOUS
  <2>1. j \in Nat /\ j + 1 \in Nat /\ j \in r .. N
    BY <1>7
  <2>. QED BY <1>2, <1>9, <2>1
<1>13. \A j \in s + 1 .. N : wire'[f[j]] = END
  <2> SUFFICES ASSUME NEW j \in s + 1 .. N PROVE wire'[f[j]] = END
    OBVIOUS
  <2>1. j \in Nat /\ j \in r + 1 .. N /\ j \in s + 1 .. N + 1 /\ j \in s .. N
    BY <1>7
  <2>2. wire[e[j]] = END
    BY <1>4, <2>1 DEF Borders
  <2>3. f[j] < f[j + 1] /\ f[j + 1] <= w /\ 1 <= f[j]
    <3>1. j + 1 \in s + 1 .. N + 1
      BY <1>7, <2>1
    <3>. QED BY <1>11, <1>12, <2>1, <3>1
  <2>4. f[j] \in 1 .. w - 1 /\ f[j] + 1 = e[j]
    <3>1. f[j] \in Int /\ f[j + 1] \in Int
      BY <1>3, <2>1
    <3>. QED BY <1>2, <2>1, <2>3, <3>1
  <2>. QED BY <1>6, <2>2, <2>4
<1>14. ASSUME NEW j \in s .. N, NEW i \in 1 .. w - 1, f[j] < i, i < f[j + 1]
       PROVE  wire'[i] # END
  <2>1. j \in Nat /\ j + 1 \in Nat /\ j \in r .. N
    BY <1>7
  <2>2. i + 1 \in 1 .. w /\ e[j] < i + 1 /\ i + 1 < e[j + 1]
    BY <1>2, <1>14, <2>1
  <2>3. wire[i + 1] # END
    BY <1>4, <1>5, <2>1, <2>2 DEF Borders
  <2>. QED BY <1>6, <2>3
<1>15. Borders(N, f)'
  <2>1. (w - 1) + 1 = w
    OBVIOUS
  <2>. QED BY <1>3, <1>4, <1>6, <1>7, <1>10, <1>11, <1>12, <1>13, <1>14, <2>1 DEF Borders
<1>16. ASSUME NEW j \in r .. N, NEW k \in Int, k <= Len(sent), Segment(e, j, k)
       PROVE  Segment(f, j, k)'
  <2>1. j \in Nat /\ j + 1 \in Nat /\ j + 1 \in r + 1 .. N + 1
    BY <1>7
  <2>2. PICK a, b \in Int : a = e[j] /\ b = e[j + 1] /\ f[j] = a - 1 /\ f[j + 1] = b - 1 /\ b <= w + 1
    BY <1>2, <1>8, <2>1
  <2>3. CASE k > 0
    <3>1. PICK y : y = Escaped(sent[k])
      OBVIOUS
    <3>2. PICK l \in Nat : l = Len(y)
      <4>1. k \in 1 .. Len(sent)
        BY <1>16, <2>3, TypesOfPackets
      <4>. QED BY <3>1, <4>1, TypesOfPackets
    <3>3. b = a + l + 1 /\ \A h \in 1 .. l : a + h >= 1 => wire[a + h] = y[h]
      BY <1>16, <2>2, <2>3, <3>1, <3>2 DEF Segment
    <3>4. ASSUME NEW h \in 1 .. l, (a - 1) + h >= 1 PROVE wire'[(a - 1) + h] = y[h]
      <4>0. b = a + l + 1 /\ b <= w + 1 /\ h \in Nat /\ 1 <= h /\ h <= l /\ (a - 1) + h >= 1
        BY <2>2, <3>3, <3>4
      <4>1. (a - 1) + h \in 1 .. w - 1 /\ ((a - 1) + h) + 1 = a + h /\ a + h >= 1
        BY <1>5, <4>0
      <4>. QED BY <1>6, <3>3, <4>1
    <3>5. b - 1 = (a - 1) + l + 1
      BY <3>2, <3>3
    <3>6. Escaped(sent'[k]) = y
      BY <3>1
    <3>7. /\ f[j + 1] = f[j] + Len(Escaped(sent'[k])) + 1
          /\ \A h \in 1 .. Len(Escaped(sent'[k])) :
               f[j] + h >= 1 => wire'[f[j] + h] = Escaped(sent'[k])[h]
      BY <2>2, <3>2, <3>4, <3>5, <3>6
    <3>8. ~(k = 0)
      BY <2>3
    <3>. QED BY <3>7, <3>8 DEF Segment
  <2>4. CASE ~(k > 0)
    <3>1. k = 0 => b - 1 = (a - 1) + 1
      BY <1>16, <2>2 DEF Segment
    <3>. QED BY <2>2, <2>4, <3>1 DEF Segment
  <2>. QED BY <2>3, <2>4
<1>. QED BY <1>2, <1>4, <1>15, <1>16

(* What a step that reads a byte leaves in order.                          *)
LEMMA Onward ==
  ASSUME SlipTypes, NEW N, NEW e, NEW lab, Labels(lab), Stream(N, e, lab),
         wire # <<>>, wire' = Tail(wire), UNCHANGED sent,
         EndsRead' = IF Head(wire) = END THEN EndsRead + 1 ELSE EndsRead
  PROVE  \E f : /\ Borders(N, f)' /\ \A j \in Nat : f[j] = e[j] - 1
                /\ \A q \in Nat : EndsRead' <= 2 * q - 1 /\ 2 * q - 1 <= N =>
                     Segment(f, 2 * q - 1, lab[q])'
                /\ CleanStream(N, e) => CleanStream(N, f)'
<1>1. Borders(N, e)
  BY DEF Stream
<1>2. PICK f : /\ Borders(N, f)' /\ \A j \in Nat : f[j] = e[j] - 1
               /\ \A j \in EndsRead .. N, k \in Int :
                    k <= Len(sent) /\ Segment(e, j, k) => Segment(f, j, k)'
  BY <1>1, ByteRead
<1>3. N \in Nat /\ EndsRead \in Nat /\ EndsRead' \in Nat /\ EndsRead <= EndsRead'
  <2>1. N \in Nat /\ EndsRead \in Nat
    BY <1>1, TypesOfPackets DEF Borders
  <2>2. EndsRead' = EndsRead + 1 \/ EndsRead' = EndsRead
    OBVIOUS
  <2>. QED BY <2>1, <2>2
<1>4. ASSUME NEW q \in Nat, EndsRead' <= 2 * q - 1, 2 * q - 1 <= N
      PROVE  Segment(f, 2 * q - 1, lab[q])'
  <2>1. 2 * q - 1 \in EndsRead .. N /\ EndsRead <= 2 * q - 1
    BY <1>3, <1>4
  <2>2. Segment(e, 2 * q - 1, lab[q])
    BY <1>4, <2>1 DEF Stream
  <2>3. lab[q] \in Int /\ lab[q] <= Len(sent)
    BY DEF Labels
  <2>. QED BY <1>2, <2>1, <2>2, <2>3
<1>5. ASSUME CleanStream(N, e) PROVE CleanStream(N, f)'
  <2>1. ASSUME NEW q \in Nat, EndsRead' <= 2 * q, 2 * q <= N PROVE Segment(f, 2 * q, 0)'
    <3>1. 2 * q \in EndsRead .. N /\ EndsRead <= 2 * q
      BY <1>3, <2>1
    <3>2. Segment(e, 2 * q, 0)
      BY <1>5, <2>1, <3>1 DEF CleanStream
    <3>. QED BY <1>2, <3>1, <3>2, TypesOfPackets
  <2>. QED BY <1>5, <2>1 DEF CleanStream
<1>. QED BY <1>2, <1>4, <1>5

(* The first loop skips what comes before an END.                          *)
LEMMA FrameBegins ==
  ASSUME SlipTypes, NEW N, NEW e, NEW lab, Labels(lab), Stream(N, e, lab), WaitFrameStart
  PROVE  \E f : Stream(N, f, lab)' /\ (CleanStream(N, e) => CleanStream(N, f)')
<1>1. /\ wire # <<>> /\ wire' = Tail(wire)
      /\ loop = "start" /\ loop' = IF Head(wire) = END THEN "frame" ELSE "start"
      /\ UNCHANGED <<sent, in_escape, frame, got, calls, disturbed>>
      /\ frame = <<>> /\ ~in_escape
  BY DEF WaitFrameStart, Read, Stream
<1>2. PICK g \in Nat : g = Len(got)
  BY TypesOfPackets
<1>3. EndsRead = 2 * g /\ EndsRead' = IF Head(wire) = END THEN EndsRead + 1 ELSE EndsRead
  BY <1>1, <1>2 DEF EndsRead
<1>4. PICK f : /\ Borders(N, f)' /\ \A j \in Nat : f[j] = e[j] - 1
               /\ \A q \in Nat : EndsRead' <= 2 * q - 1 /\ 2 * q - 1 <= N =>
                    Segment(f, 2 * q - 1, lab[q])'
               /\ CleanStream(N, e) => CleanStream(N, f)'
  BY <1>1, <1>3, Onward
<1>5. ASSUME loop' = "frame", lab[g + 1] > 0
      PROVE  \E n, x : Reading(sent[lab[g + 1]], -f[EndsRead], n, x)'
  <2>0. Head(wire) = END
    BY <1>1, <1>5
  <2>1. EndsRead' = 2 * g + 1 /\ e[2 * g + 1] = 1
    BY <1>1, <1>3, <1>4, <2>0, NextByte DEF Stream
  <2>2. f[2 * g + 1] = 0
    <3>1. 2 * g + 1 \in Nat
      OBVIOUS
    <3>. QED BY <1>4, <2>1, <3>1
  <2>3. PICK p : p = sent[lab[g + 1]]
    OBVIOUS
  <2>4. p \in Seq(Bytes) /\ Escaped(p) \in Seq(Bytes)
    <3>1. lab[g + 1] \in 1 .. Len(sent)
      <4>1. g + 1 \in Nat
        OBVIOUS
      <4>. QED BY <1>5, <4>1, TypesOfPackets DEF Labels
    <3>. QED BY <2>3, <3>1, TypesOfPackets
  <2>5. PICK n, x : Reads(p, Escaped(p), n, x)
    BY <2>4, PacketReads
  <2>6. n[0] = 0 /\ ~x[0] /\ SubSeq(p, 1, 0) = <<>>
    BY <2>4, <2>5 DEF Reads
  <2>7. frame' = SubSeq(p, 1, n[0]) /\ (in_escape' <=> x[0])
    BY <1>1, <2>6
  <2>8. Reading(sent[lab[g + 1]], 0, n, x)'
    BY <1>1, <2>3, <2>5, <2>7 DEF Reading
  <2>9. PICK m : m = 2 * g + 1
    OBVIOUS
  <2>10. Reading(sent[lab[g + 1]], -f[EndsRead], n, x)'
    <3>1. -f[m] = 0 /\ EndsRead' = m
      BY <2>1, <2>2, <2>9
    <3>2. PICK r : r = -f[m] /\ r = 0
      BY <3>1
    <3>3. Reading(sent[lab[g + 1]], r, n, x)'
      BY <2>8, <3>2
    <3>. QED BY <3>1, <3>2, <3>3 DEF Reading
  <2>. QED BY <2>10
<1>6. Stream(N, f, lab)'
  <2>1. \A q \in Nat : 2 * q - 1 > N => lab[q] = 0
    BY DEF Stream
  <2>2. Len(got') = g /\ frame' = <<>> /\ ~in_escape'
    BY <1>1, <1>2
  <2>3. Borders(N, f)'
    BY <1>4
  <2>. QED BY <1>4, <1>5, <2>1, <2>2, <2>3 DEF Stream
<1>. QED BY <1>4, <1>6

(* What is known of a frame that is being read for the k-th answer.        *)
LEMMA InFrame ==
  ASSUME SlipTypes, NEW N, NEW e, NEW lab, Labels(lab), Stream(N, e, lab),
         loop = "frame", wire # <<>>, lab[Len(got) + 1] > 0
  PROVE  LET k == lab[Len(got) + 1]
             p == sent[k]
             r == -e[EndsRead]
         IN  /\ k \in 1 .. Len(sent) /\ p \in Seq(Bytes) /\ Escaped(p) \in Seq(Bytes)
             /\ r \in 0 .. Len(Escaped(p))
             /\ Head(wire) = IF r = Len(Escaped(p)) THEN END ELSE Escaped(p)[r + 1]
             /\ \E n, x : Reading(p, r, n, x)
<1>1. PICK k \in Int : k = lab[Len(got) + 1] /\ k > 0
  BY TypesOfPackets DEF Labels
<1>2. PICK p : p = sent[k]
  OBVIOUS
<1>3. k \in 1 .. Len(sent) /\ p \in Seq(Bytes) /\ Escaped(p) \in Seq(Bytes)
  <2>1. k \in 1 .. Len(sent)
    BY <1>1, TypesOfPackets DEF Labels
  <2>. QED BY <1>2, <2>1, TypesOfPackets
<1>4. PICK l \in Nat : l = Len(Escaped(p))
  BY <1>3
<1>5. PICK m \in Nat : m = EndsRead
  BY TypesOfPackets
<1>6. PICK a, b \in Int : a = e[m] /\ b = e[m + 1]
  BY <1>5 DEF Stream, Borders
<1>7. m <= N /\ N \in Nat /\ a <= 0 /\ b >= 1
  <2>1. m <= N /\ N \in Nat /\ a <= 0
    BY <1>5, <1>6 DEF Stream, Borders
  <2>2. m + 1 \in m + 1 .. N + 1
    BY <2>1
  <2>. QED BY <1>5, <1>6, <2>1, <2>2 DEF Stream, Borders
<1>8. b = a + l + 1 /\ \A h \in 1 .. l : a + h >= 1 => wire[a + h] = Escaped(p)[h]
  <2>1. PICK q \in Nat : q = Len(got) + 1
    BY TypesOfPackets
  <2>2. m = 2 * q - 1
    <3>1. EndsRead = 2 * Len(got) + 1 /\ Len(got) \in Nat
      BY TypesOfPackets DEF EndsRead
    <3>. QED BY <1>5, <2>1, <3>1
  <2>3. Segment(e, 2 * q - 1, lab[q])
    <3>1. EndsRead <= 2 * q - 1 /\ 2 * q - 1 <= N
      BY <1>5, <1>7, <2>2
    <3>. QED BY <3>1 DEF Stream
  <2>4. Segment(e, m, k)
    BY <1>1, <2>1, <2>2, <2>3
  <2>. QED BY <1>1, <1>2, <1>4, <1>6, <2>4 DEF Segment
<1>9. PICK r \in Int : r = -a /\ r \in 0 .. l
  BY <1>7, <1>8
<1>10. Borders(N, e)
  BY DEF Stream
<1>11. Head(wire) = IF r = l THEN END ELSE Escaped(p)[r + 1]
  <2>1. CASE r = l
    <3>1. b = 1
      BY <1>8, <1>9, <2>1
    <3>2. Head(wire) # END => b >= 2
      BY <1>5, <1>6, <1>10, NextByte
    <3>3. Head(wire) = END
      BY <3>1, <3>2
    <3>. QED BY <2>1, <3>3
  <2>2. CASE r # l
    <3>1. r + 1 \in 1 .. l /\ a + (r + 1) = 1
      BY <1>9, <2>2
    <3>2. wire[1] = Escaped(p)[r + 1]
      BY <1>8, <3>1
    <3>3. wire[1] = Head(wire)
      BY <1>10, NextByte
    <3>. QED BY <2>2, <3>2, <3>3
  <2>. QED BY <2>1, <2>2
<1>12. \E n, x : Reading(p, r, n, x)
  BY <1>1, <1>2, <1>5, <1>6, <1>9 DEF Stream
<1>. QED BY <1>1, <1>2, <1>3, <1>4, <1>5, <1>6, <1>9, <1>11, <1>12

(* An END byte inside a frame for the k-th answer is the one behind all of *)
(* its bytes, so what is returned is the whole answer.                     *)
LEMMA FrameEnds ==
  ASSUME SlipTypes, NEW N, NEW e, NEW lab, Labels(lab), Stream(N, e, lab), FrameEnd
  PROVE  /\ Labels(lab)'
         /\ \E f : Stream(N, f, lab)' /\ (CleanStream(N, e) => CleanStream(N, f)')
         /\ CleanLabels(lab) /\ CleanStream(N, e) => CleanLabels(lab)'
<1>1. /\ loop = "frame" /\ wire # <<>> /\ wire' = Tail(wire) /\ Head(wire) = END
      /\ loop' = "idle" /\ got' = Append(got, frame)
      /\ UNCHANGED <<sent, in_escape, frame, calls, disturbed>>
  BY DEF FrameEnd, Read
<1>2. PICK g \in Nat : g = Len(got)
  BY TypesOfPackets
<1>3. /\ Len(got') = g + 1 /\ got'[g + 1] = frame
      /\ \A i \in 1 .. g : got'[i] = got[i]
  BY <1>1, <1>2 DEF SlipTypes
<1>4. EndsRead = 2 * g + 1 /\ EndsRead' = 2 * g + 2
  BY <1>1, <1>2, <1>3 DEF EndsRead
<1>5. PICK f : /\ Borders(N, f)' /\ \A j \in Nat : f[j] = e[j] - 1
               /\ \A q \in Nat : EndsRead' <= 2 * q - 1 /\ 2 * q - 1 <= N =>
                    Segment(f, 2 * q - 1, lab[q])'
               /\ CleanStream(N, e) => CleanStream(N, f)'
  <2>1. EndsRead' = IF Head(wire) = END THEN EndsRead + 1 ELSE EndsRead
    BY <1>1, <1>4
  <2>. QED BY <1>1, <2>1, Onward
<1>6. Stream(N, f, lab)'
  <2>1. \A q \in Nat : 2 * q - 1 > N => lab[q] = 0
    BY DEF Stream
  <2>2. Borders(N, f)'
    BY <1>5
  <2>3. loop' = "idle"
    BY <1>1
  <2>. QED BY <1>5, <2>1, <2>2, <2>3 DEF Stream
<1>7. lab[g + 1] = 0 => frame = <<>>
  BY <1>1, <1>2 DEF Stream
<1>8. ASSUME lab[g + 1] > 0 PROVE frame = sent[lab[g + 1]]
  <2>1. PICK p, r, n, x :
          /\ p = sent[lab[g + 1]] /\ r \in 0 .. Len(Escaped(p))
          /\ p \in Seq(Bytes) /\ Escaped(p) \in Seq(Bytes)
          /\ Head(wire) = IF r = Len(Escaped(p)) THEN END ELSE Escaped(p)[r + 1]
          /\ Reading(p, r, n, x)
    BY <1>1, <1>2, <1>8, InFrame
  <2>2. r = Len(Escaped(p))
    <3> SUFFICES ASSUME r # Len(Escaped(p)) PROVE FALSE
      OBVIOUS
    <3>1. r + 1 \in 1 .. Len(Escaped(p))
      BY <2>1
    <3>2. Escaped(p)[r + 1] # END
      BY <2>1, <3>1 DEF Reading, Reads
    <3>. QED BY <1>1, <2>1, <3>2
  <2>3. n[r] = Len(p)
    BY <2>1, <2>2 DEF Reading, Reads
  <2>4. SubSeq(p, 1, Len(p)) = p
    BY <2>1
  <2>. QED BY <2>1, <2>3, <2>4 DEF Reading
<1>9. Labels(lab)'
  <2>1. ASSUME NEW q \in 1 .. Len(got')
        PROVE  /\ lab[q] = 0 => got'[q] = <<>>
               /\ lab[q] > 0 => got'[q] = sent[lab[q]]
    <3>1. CASE q = g + 1
      BY <1>3, <1>7, <1>8, <3>1
    <3>2. CASE q # g + 1
      <4>1. q \in 1 .. g
        BY <1>3, <3>2
      <4>. QED BY <1>2, <1>3, <4>1 DEF Labels
    <3>. QED BY <3>1, <3>2
  <2>. QED BY <1>1, <2>1 DEF Labels
<1>10. ASSUME CleanLabels(lab), CleanStream(N, e) PROVE CleanLabels(lab)'
  <2>1. N = 2 * Len(sent) /\ Len(sent) \in Nat
    BY <1>10, TypesOfPackets DEF CleanStream
  <2>2. 2 * g + 2 <= N
    BY <1>4, <1>5 DEF Borders
  <2>3. g + 1 <= Len(sent)
    BY <2>1, <2>2
  <2>. QED BY <1>1, <1>3, <1>10, <2>3 DEF CleanLabels
<1>. QED BY <1>5, <1>6, <1>9, <1>10

(* Any other byte is the next one of the answer or half of it.             *)
LEMMA OneByteMore ==
  ASSUME SlipTypes, NEW N, NEW e, NEW lab, Labels(lab), Stream(N, e, lab), FrameByte
  PROVE  \E f : Stream(N, f, lab)' /\ (CleanStream(N, e) => CleanStream(N, f)')
<1>1. PICK b \in Bytes \ {END} :
        /\ wire # <<>> /\ b = Head(wire) /\ wire' = Tail(wire)
        /\ IF in_escape
           THEN /\ b \in {ESC_END, ESC_ESC}
                /\ frame' = Append(frame, Unescaped(b)) /\ in_escape' = FALSE
           ELSE IF b = ESC THEN in_escape' = TRUE /\ UNCHANGED frame
           ELSE frame' = Append(frame, b) /\ UNCHANGED in_escape
  BY DEF FrameByte, Read
<1>2. loop = "frame" /\ UNCHANGED <<sent, loop, got, calls, disturbed>>
  BY DEF FrameByte
<1>3. PICK g \in Nat : g = Len(got)
  BY TypesOfPackets
<1>4. EndsRead = 2 * g + 1 /\ EndsRead' = 2 * g + 1
  BY <1>2, <1>3 DEF EndsRead
<1>5. PICK f : /\ Borders(N, f)' /\ \A j \in Nat : f[j] = e[j] - 1
               /\ \A q \in Nat : EndsRead' <= 2 * q - 1 /\ 2 * q - 1 <= N =>
                    Segment(f, 2 * q - 1, lab[q])'
               /\ CleanStream(N, e) => CleanStream(N, f)'
  <2>1. EndsRead' = IF Head(wire) = END THEN EndsRead + 1 ELSE EndsRead
    BY <1>1, <1>4
  <2>. QED BY <1>1, <1>2, <2>1, Onward
<1>6. PICK a \in Int : a = e[2 * g + 1] /\ f[2 * g + 1] = a - 1 /\ a <= 0
  <2>1. 2 * g + 1 \in Nat
    OBVIOUS
  <2>. QED BY <1>4, <1>5, <2>1 DEF Stream, Borders
<1>7. lab[g + 1] # 0
  <2> SUFFICES ASSUME lab[g + 1] = 0 PROVE FALSE
    OBVIOUS
  <2>1. /\ 2 * (g + 1) - 1 = 2 * g + 1 /\ EndsRead <= 2 * (g + 1) - 1 /\ 2 * (g + 1) - 1 <= N
        /\ N \in Nat /\ g + 1 \in Nat
    BY <1>4 DEF Stream, Borders
  <2>2. Segment(e, 2 * (g + 1) - 1, lab[g + 1])
    BY <2>1 DEF Stream
  <2>3. e[(2 * g + 1) + 1] = a + 1
    BY <1>6, <2>1, <2>2 DEF Segment
  <2>4. e[(2 * g + 1) + 1] >= 2
    <3>1. Borders(N, e)
      BY DEF Stream
    <3>. QED BY <1>1, <1>4, <3>1, NextByte
  <2>. QED BY <1>6, <2>3, <2>4
<1>8. ASSUME lab[g + 1] > 0
      PROVE  \E n, x : Reading(sent[lab[g + 1]], -f[EndsRead], n, x)'
  <2>1. PICK q, r, n, x :
          /\ q = sent[lab[g + 1]] /\ r = -a /\ r \in 0 .. Len(Escaped(q))
          /\ q \in Seq(Bytes) /\ Escaped(q) \in Seq(Bytes)
          /\ Head(wire) = IF r = Len(Escaped(q)) THEN END ELSE Escaped(q)[r + 1]
          /\ Reading(q, r, n, x)
    BY <1>1, <1>2, <1>3, <1>4, <1>6, <1>8, InFrame
  <2> DEFINE y == Escaped(q)
  <2>2. Reads(q, y, n, x) /\ frame = SubSeq(q, 1, n[r]) /\ (in_escape <=> x[r])
    BY <2>1 DEF Reading
  <2>3. /\ r + 1 \in 1 .. Len(y) /\ r \in 0 .. Len(y) /\ r + 1 \in 0 .. Len(y) /\ (r + 1) - 1 = r
        /\ b = y[r + 1]
    BY <1>1, <2>1
  <2> HIDE DEF y
  <2>4. /\ n \in [0 .. Len(y) -> 0 .. Len(q)] /\ x \in [0 .. Len(y) -> BOOLEAN]
        /\ x[r + 1] <=> ~x[r] /\ b = ESC
        /\ x[r] => b \in {ESC_END, ESC_ESC}
        /\ IF x[r + 1] THEN n[r + 1] = n[r]
           ELSE /\ n[r + 1] = n[r] + 1
                /\ q[n[r + 1]] = IF x[r] THEN Unescaped(b) ELSE b
    BY <2>2, <2>3 DEF Reads
  <2>5. frame' = SubSeq(q, 1, n[r + 1]) /\ (in_escape' <=> x[r + 1])
    <3>1. q \in Seq(Bytes) /\ n[r] \in 0 .. Len(q) /\ n[r + 1] \in 0 .. Len(q) /\ Len(q) \in Nat
      BY SMTT(30), <2>1, <2>3, <2>4
    <3>2. ASSUME n[r + 1] = n[r] + 1
          PROVE  SubSeq(q, 1, n[r + 1]) = Append(frame, q[n[r + 1]])
      <4>1. \A m \in 0 .. Len(q) - 1 : SubSeq(q, 1, m + 1) = Append(SubSeq(q, 1, m), q[m + 1])
        BY <3>1
      <4>2. n[r] \in 0 .. Len(q) - 1
        BY <3>1, <3>2
      <4>. QED BY <2>2, <3>2, <4>1, <4>2
    <3>3. CASE x[r]
      BY <1>1, <2>2, <2>4, <3>2, <3>3
    <3>4. CASE ~x[r] /\ b = ESC
      BY <1>1, <2>2, <2>4, <3>4
    <3>5. CASE ~x[r] /\ b # ESC
      BY <1>1, <2>2, <2>4, <3>2, <3>5
    <3>. QED BY <3>3, <3>4, <3>5
  <2>6. PICK s : s = -f[2 * g + 1]
    OBVIOUS
  <2>7. s = r + 1
    BY <1>6, <2>1, <2>6
  <2>8. Reading(sent[lab[g + 1]], s, n, x)'
    BY <1>2, <2>1, <2>2, <2>5, <2>7 DEF Reading, y
  <2>9. Reading(sent[lab[g + 1]], -f[EndsRead], n, x)'
    BY <1>4, <2>6, <2>8 DEF Reading
  <2>. QED BY <2>9
<1>9. Stream(N, f, lab)'
  <2>1. \A q \in Nat : 2 * q - 1 > N => lab[q] = 0
    BY DEF Stream
  <2>2. Borders(N, f)'
    BY <1>5
  <2>3. loop' = "frame" /\ Len(got') = g
    BY <1>2, <1>3
  <2>. QED BY <1>5, <1>7, <1>8, <2>1, <2>2, <2>3 DEF Stream
<1>. QED BY <1>5, <1>9

(* A frame goes behind what is on the wire: two more ENDs, the bytes of the*)
(* packet between them.                                                    *)
LEMMA SentBorders ==
  ASSUME SlipTypes, NEW p \in Packets, sent' = Append(sent, p), wire' = wire \o Frame(p),
         EndsRead' = EndsRead, NEW N, NEW e, Borders(N, e)
  PROVE  \E f : /\ Borders(N + 2, f)' /\ \A j \in 0 .. N + 1 : f[j] = e[j]
                /\ \A j \in EndsRead .. N, k \in Int :
                     k <= Len(sent) /\ Segment(e, j, k) => Segment(f, j, k)'
                /\ Segment(f, N + 1, Len(sent))' /\ Segment(f, N + 2, 0)'
<1>1. p \in Seq(Bytes) /\ Frame(p) \in Seq(Bytes) /\ Escaped(p) \in Seq(Bytes)
  BY SlipAssumption, FrameIs
<1>2. PICK w, l, r, s \in Nat :
        w = Len(wire) /\ l = Len(Escaped(p)) /\ r = EndsRead /\ s = Len(sent)
  <2>1. Len(Escaped(p)) \in Nat
    BY <1>1
  <2>. QED BY <2>1, TypesOfPackets
<1>0. N \in Nat
  BY DEF Borders
<1>3. /\ N \in Nat /\ e \in [Nat -> Int] /\ r <= N /\ e[r] <= 0 /\ e[N + 1] = w + 1
      /\ \A j \in r + 1 .. N + 1 : 1 <= e[j] /\ e[j] <= w + 1
      /\ \A j \in r .. N : e[j] < e[j + 1]
      /\ \A j \in r + 1 .. N : wire[e[j]] = END
      /\ \A j \in r .. N : \A i \in 1 .. w : e[j] < i /\ i < e[j + 1] => wire[i] # END
  BY <1>2 DEF Borders
<1>4. /\ Len(wire') = w + l + 2 /\ \A i \in 1 .. w : wire'[i] = wire[i]
      /\ wire'[w + 1] = END /\ wire'[w + l + 2] = END
      /\ \A h \in 1 .. l : wire'[w + 1 + h] = Escaped(p)[h]
  <2>1. \A x, y \in Seq(Bytes) :
          /\ Len(x \o y) = Len(x) + Len(y)
          /\ \A i \in 1 .. Len(x) : (x \o y)[i] = x[i]
          /\ \A j \in 1 .. Len(y) : (x \o y)[Len(x) + j] = y[j]
    OBVIOUS
  <2>2. wire \in Seq(Bytes)
    BY DEF SlipTypes
  <2>3. /\ Len(Frame(p)) = l + 2 /\ Frame(p)[1] = END /\ Frame(p)[l + 2] = END
        /\ \A h \in 1 .. l : Frame(p)[h + 1] = Escaped(p)[h]
    BY <1>1, <1>2, FrameIs
  <2>4. /\ Len(wire') = w + (l + 2) /\ \A i \in 1 .. w : wire'[i] = wire[i]
        /\ \A j \in 1 .. l + 2 : wire'[w + j] = Frame(p)[j]
    <3>1. /\ Len(wire \o Frame(p)) = Len(wire) + Len(Frame(p))
          /\ \A i \in 1 .. Len(wire) : (wire \o Frame(p))[i] = wire[i]
          /\ \A j \in 1 .. Len(Frame(p)) : (wire \o Frame(p))[Len(wire) + j] = Frame(p)[j]
      BY <1>1, <2>1, <2>2
    <3>. QED BY <1>2, <2>3, <3>1
  <2>5. wire'[w + 1] = END /\ wire'[w + (l + 2)] = END
    <3>1. 1 \in 1 .. l + 2 /\ l + 2 \in 1 .. l + 2
      BY <1>2
    <3>2. wire'[w + 1] = Frame(p)[1] /\ wire'[w + (l + 2)] = Frame(p)[l + 2]
      BY <2>4, <3>1
    <3>. QED BY <2>3, <3>2
  <2>6. ASSUME NEW h \in 1 .. l PROVE wire'[w + 1 + h] = Escaped(p)[h]
    <3>1. h + 1 \in 1 .. l + 2 /\ w + (h + 1) = w + 1 + h
      OBVIOUS
    <3>. QED BY <2>3, <2>4, <3>1
  <2>7. w + (l + 2) = w + l + 2
    OBVIOUS
  <2>. QED BY <2>4, <2>5, <2>6, <2>7
<1>5. /\ Len(sent') = s + 1 /\ sent'[s + 1] = p /\ \A i \in 1 .. s : sent'[i] = sent[i]
  BY <1>2 DEF SlipTypes
<1> DEFINE g == [j \in Nat |-> IF j <= N + 1 THEN e[j] ELSE IF j = N + 2 THEN w + l + 2
                               ELSE w + l + 3]
<1>6. PICK f : f = g
  OBVIOUS
<1>7. /\ f \in [Nat -> Int] /\ \A j \in 0 .. N + 1 : f[j] = e[j]
      /\ f[N + 2] = w + l + 2 /\ f[N + 3] = w + l + 3
  BY <1>3, <1>6
<1> HIDE DEF g
<1>8. \A j \in r + 1 .. N + 3 : 1 <= f[j] /\ f[j] <= w + l + 3
  <2> SUFFICES ASSUME NEW j \in r + 1 .. N + 3 PROVE 1 <= f[j] /\ f[j] <= w + l + 3
    OBVIOUS
  <2>1. CASE j <= N + 1
    <3>1. j \in 0 .. N + 1 /\ j \in r + 1 .. N + 1 /\ e[j] \in Int
      BY <1>2, <1>3, <2>1
    <3>2. f[j] = e[j] /\ 1 <= e[j] /\ e[j] <= w + 1
      BY <1>3, <1>7, <3>1
    <3>. QED BY <3>1, <3>2
  <2>2. CASE ~(j <= N + 1)
    <3>1. j = N + 2 \/ j = N + 3
      BY <1>0, <1>2, <2>2
    <3>2. f[j] = w + l + 2 \/ f[j] = w + l + 3
      BY <1>7, <3>1
    <3>. QED BY <1>2, <3>2
  <2>. QED BY <2>1, <2>2
<1>9. \A j \in r .. N + 2 : f[j] < f[j + 1]
  <2> SUFFICES ASSUME NEW j \in r .. N + 2 PROVE f[j] < f[j + 1]
    OBVIOUS
  <2>1. CASE j <= N
    <3>1. j \in 0 .. N + 1 /\ j + 1 \in 0 .. N + 1 /\ j \in r .. N
      BY <1>2, <1>3, <2>1
    <3>. QED BY <1>3, <1>7, <3>1
  <2>2. CASE j = N + 1
    <3>1. f[j] = w + 1 /\ j + 1 = N + 2
      BY <1>3, <1>7, <2>2
    <3>. QED BY <1>0, <1>2, <1>7, <3>1
  <2>3. CASE j = N + 2
    <3>1. j + 1 = N + 3
      BY <1>3, <2>3
    <3>. QED BY <1>7, <2>3, <3>1
  <2>4. j <= N \/ j = N + 1 \/ j = N + 2
    BY <1>3
  <2>. QED BY <2>1, <2>2, <2>3, <2>4
<1>10. \A j \in r + 1 .. N + 2 : wire'[f[j]] = END
  <2> SUFFICES ASSUME NEW j \in r + 1 .. N + 2 PROVE wire'[f[j]] = END
    OBVIOUS
  <2>1. CASE j <= N
    <3>0. /\ j \in 0 .. N + 1 /\ j \in r + 1 .. N + 1 /\ j \in r + 1 .. N /\ j \in r .. N
          /\ j + 1 \in r + 1 .. N + 1 /\ j \in Nat /\ j + 1 \in Nat
      BY <1>0, <1>2, <2>1
    <3>1. e[j] \in Int /\ e[j + 1] \in Int
      BY <1>3, <3>0
    <3>2. f[j] = e[j] /\ wire[e[j]] = END /\ 1 <= e[j] /\ e[j] < e[j + 1] /\ e[j + 1] <= w + 1
      BY <1>3, <1>7, <3>0
    <3>3. e[j] \in 1 .. w
      BY <3>1, <3>2
    <3>. QED BY <1>4, <3>2, <3>3
  <2>2. CASE j = N + 1
    <3>1. f[j] = w + 1
      BY <1>3, <1>7, <2>2
    <3>. QED BY <1>4, <3>1
  <2>3. CASE j = N + 2
    BY <1>4, <1>7, <2>3
  <2>4. j <= N \/ j = N + 1 \/ j = N + 2
    BY <1>3
  <2>. QED BY <2>1, <2>2, <2>3, <2>4
<1>11. ASSUME NEW j \in r .. N + 2, NEW i \in 1 .. w + l + 2, f[j] < i, i < f[j + 1]
       PROVE  wire'[i] # END
  <2>1. CASE j <= N
    <3>0. /\ j \in 0 .. N + 1 /\ j + 1 \in 0 .. N + 1 /\ j \in r .. N /\ j + 1 \in r + 1 .. N + 1
          /\ j \in Nat /\ j + 1 \in Nat
      BY <1>0, <1>2, <2>1
    <3>1. e[j] \in Int /\ e[j + 1] \in Int
      BY <1>3, <3>0
    <3>2. e[j] < i /\ i < e[j + 1] /\ e[j + 1] <= w + 1
      BY <1>3, <1>7, <1>11, <3>0
    <3>3. i \in 1 .. w
      BY <3>1, <3>2
    <3>4. wire[i] # END
      BY <1>3, <3>0, <3>2, <3>3
    <3>. QED BY <1>4, <3>3, <3>4
  <2>2. CASE j = N + 1
    <3>1. f[j] = w + 1 /\ j + 1 = N + 2
      BY <1>3, <1>7, <2>2
    <3>0. w + 1 < i /\ i < w + l + 2
      BY <1>7, <1>11, <2>2, <3>1
    <3>2. i - (w + 1) \in 1 .. l /\ w + 1 + (i - (w + 1)) = i
      BY <1>2, <3>0
    <3>3. wire'[i] = Escaped(p)[i - (w + 1)]
      BY <1>4, <3>2
    <3>4. PICK n, x : Reads(p, Escaped(p), n, x)
      BY <1>1, PacketReads
    <3>5. Escaped(p)[i - (w + 1)] # END
      BY <1>2, <3>2, <3>4 DEF Reads
    <3>. QED BY <3>3, <3>5
  <2>3. CASE j = N + 2
    <3>1. j + 1 = N + 3
      BY <1>3, <2>3
    <3>2. w + l + 2 < i /\ i < w + l + 3
      BY <1>7, <1>11, <2>3, <3>1
    <3>. QED BY <1>2, <3>2
  <2>4. j <= N \/ j = N + 1 \/ j = N + 2
    BY <1>3
  <2>. QED BY <2>1, <2>2, <2>3, <2>4
<1>12. Borders(N + 2, f)'
  <2>1. /\ (N + 2) + 1 = N + 3 /\ N + 2 \in Nat /\ r <= N + 2 /\ f[N + 3] = Len(wire') + 1
        /\ Len(wire') = w + l + 2 /\ Len(wire') + 1 = w + l + 3 /\ r \in 0 .. N + 1 /\ f[r] <= 0
    <3>1. /\ (N + 2) + 1 = N + 3 /\ N + 2 \in Nat /\ r <= N + 2 /\ r \in 0 .. N + 1
          /\ (w + l + 2) + 1 = w + l + 3
      BY <1>0, <1>2, <1>3
    <3>2. f[r] <= 0
      BY <1>3, <1>7, <3>1
    <3>3. Len(wire') = w + l + 2 /\ f[N + 3] = w + l + 3
      BY <1>4, <1>7
    <3>. QED BY <3>1, <3>2, <3>3
  <2>. QED BY <1>2, <1>7, <1>8, <1>9, <1>10, <1>11, <2>1 DEF Borders
<1>13. ASSUME NEW j \in r .. N, NEW k \in Int, k <= s, Segment(e, j, k)
       PROVE  Segment(f, j, k)'
  <2>1. /\ j \in 0 .. N + 1 /\ j + 1 \in 0 .. N + 1 /\ j + 1 \in r + 1 .. N + 1
        /\ j \in Nat /\ j + 1 \in Nat
    BY <1>0, <1>2
  <2>2. PICK a, b \in Int : a = e[j] /\ b = e[j + 1] /\ f[j] = a /\ f[j + 1] = b /\ b <= w + 1
    BY <1>3, <1>7, <2>1
  <2>3. CASE k > 0
    <3>1. k \in 1 .. s
      BY <1>13, <2>3
    <3>2. PICK y : y = Escaped(sent[k]) /\ y = Escaped(sent'[k])
      BY <1>5, <3>1
    <3>3. PICK m \in Nat : m = Len(y)
      BY <1>2, <3>1, <3>2, TypesOfPackets
    <3>4. b = a + m + 1 /\ \A h \in 1 .. m : a + h >= 1 => wire[a + h] = y[h]
      BY <1>13, <2>2, <2>3, <3>2, <3>3 DEF Segment
    <3>5. ASSUME NEW h \in 1 .. m, a + h >= 1 PROVE wire'[a + h] = y[h]
      <4>0. b = a + m + 1 /\ b <= w + 1 /\ h \in Nat /\ 1 <= h /\ h <= m
        BY <2>2, <3>3, <3>4
      <4>1. a + h \in 1 .. w
        BY SMTT(30), <2>2, <3>5, <4>0
      <4>. QED BY <1>4, <3>4, <3>5, <4>1
    <3>6. /\ f[j + 1] = f[j] + Len(Escaped(sent'[k])) + 1
          /\ \A h \in 1 .. Len(Escaped(sent'[k])) :
               f[j] + h >= 1 => wire'[f[j] + h] = Escaped(sent'[k])[h]
      BY <2>2, <3>2, <3>3, <3>4, <3>5
    <3>7. ~(k = 0)
      BY <2>3
    <3>. QED BY <3>6, <3>7 DEF Segment
  <2>4. CASE ~(k > 0)
    <3>1. k = 0 => b = a + 1
      BY <1>13, <2>2 DEF Segment
    <3>. QED BY <2>2, <2>4, <3>1 DEF Segment
  <2>. QED BY <2>3, <2>4
<1>14. Segment(f, N + 1, Len(sent))'
  <2>0. N + 1 \in 0 .. N + 1 /\ (N + 1) + 1 = N + 2 /\ w + l + 2 = (w + 1) + l + 1
    BY <1>3
  <2>1. f[N + 1] = w + 1 /\ f[(N + 1) + 1] = f[N + 1] + l + 1
    BY <1>3, <1>7, <2>0
  <2>2. \A h \in 1 .. l : wire'[f[N + 1] + h] = Escaped(p)[h]
    BY <1>4, <2>1
  <2>3. PICK k \in Nat : k = s + 1
    OBVIOUS
  <2>4. Escaped(sent'[k]) = Escaped(p) /\ k > 0 /\ ~(k = 0)
    BY <1>5, <2>3
  <2>5. \A m : m = N + 1 => Segment(f, m, k)'
    BY <1>2, <2>1, <2>2, <2>4 DEF Segment
  <2>6. Segment(f, N + 1, k)'
    BY <2>5
  <2>. QED BY <1>2, <2>3, <2>6
<1>15. Segment(f, N + 2, 0)'
  <2>1. (N + 2) + 1 = N + 3 /\ f[N + 3] = f[N + 2] + 1
    BY <1>3, <1>7
  <2>. QED BY <2>1 DEF Segment
<1>. QED BY <1>2, <1>7, <1>12, <1>13, <1>14, <1>15

(* write() leaves the frames on the wire as they are and adds one for its  *)
(* packet, if the ENDs before it are even in number, or else an empty one. *)
LEMMA Sent ==
  ASSUME SlipTypes, write, NEW N, NEW e, NEW lab, Labels(lab), Stream(N, e, lab)
  PROVE  \E f, new : /\ Labels(new)' /\ Stream(N + 2, f, new)'
                     /\ CleanLabels(lab) /\ CleanStream(N, e) =>
                          CleanLabels(new)' /\ CleanStream(N + 2, f)'
<1>1. PICK p \in Packets : sent' = Append(sent, p) /\ wire' = wire \o Frame(p)
  BY DEF write
<1>2. UNCHANGED <<loop, in_escape, frame, got, calls, disturbed>>
  BY DEF write, call
<1>3. PICK s, g, r \in Nat : s = Len(sent) /\ g = Len(got) /\ r = EndsRead
  BY TypesOfPackets
<1>4. /\ Len(sent') = s + 1 /\ \A i \in 1 .. s : sent'[i] = sent[i]
  BY <1>1, <1>3 DEF SlipTypes
<1>5. /\ EndsRead' = r /\ Len(got') = g /\ r >= 2 * g
      /\ loop = "frame" => r = 2 * g + 1
  BY <1>2, <1>3 DEF EndsRead
<1>6. PICK f : /\ Borders(N + 2, f)' /\ \A j \in 0 .. N + 1 : f[j] = e[j]
               /\ \A j \in r .. N, k \in Int :
                    k <= Len(sent) /\ Segment(e, j, k) => Segment(f, j, k)'
               /\ Segment(f, N + 1, Len(sent))' /\ Segment(f, N + 2, 0)'
  <2>1. Borders(N, e)
    BY DEF Stream
  <2>2. EndsRead' = EndsRead
    BY <1>3, <1>5
  <2>. QED BY <1>1, <1>3, <2>1, <2>2, SentBorders
<1>7. N \in Nat /\ r <= N
  BY <1>3 DEF Stream, Borders
<1> DEFINE m == [q \in Nat |-> IF 2 * q - 1 = N + 1 THEN s + 1 ELSE lab[q]]
<1>8. PICK new : new = m
  OBVIOUS
<1>9. /\ \A q \in Nat : new[q] = IF 2 * q - 1 = N + 1 THEN s + 1 ELSE lab[q]
      /\ lab \in [Nat -> Int] /\ new \in [Nat -> Int]
      /\ \A q \in Nat : Spoiled <= lab[q] /\ lab[q] <= s
      /\ \A q \in Nat : 2 * q - 1 > N => lab[q] = 0
  <2>1. lab \in [Nat -> Int] /\ \A q \in Nat : Spoiled <= lab[q] /\ lab[q] <= s
    BY <1>3 DEF Labels
  <2>2. \A q \in Nat : 2 * q - 1 > N => lab[q] = 0
    BY DEF Stream
  <2>3. \A q \in Nat : new[q] = IF 2 * q - 1 = N + 1 THEN s + 1 ELSE lab[q]
    BY <1>8
  <2>4. new \in [Nat -> Int]
    BY <1>3, <1>8, <2>1
  <2>. QED BY <2>1, <2>2, <2>3, <2>4
<1> HIDE DEF m
<1>10. \A q \in Nat : 2 * q - 1 = N + 1 => q > g /\ q > 0
  BY <1>3, <1>5, <1>7
<1>11. Labels(new)'
  <2>1. ASSUME NEW q \in Nat PROVE Spoiled <= new[q] /\ new[q] <= s + 1
    <3>1. lab[q] \in Int /\ Spoiled <= lab[q] /\ lab[q] <= s
      BY <1>9
    <3>2. new[q] = s + 1 \/ new[q] = lab[q]
      BY <1>9
    <3>. QED BY <1>3, <3>1, <3>2 DEF Spoiled
  <2>2. ASSUME NEW i \in Nat, NEW j \in Nat, i < j, new[i] > 0, new[j] > 0
        PROVE  new[i] < new[j]
    <3>1. CASE 2 * j - 1 = N + 1
      <4>1. 2 * i - 1 # N + 1
        BY <1>7, <2>2, <3>1
      <4>2. new[j] = s + 1 /\ new[i] = lab[i] /\ lab[i] <= s /\ lab[i] \in Int
        BY <1>9, <3>1, <4>1
      <4>. QED BY <1>3, <4>2
    <3>2. CASE 2 * i - 1 = N + 1
      <4>1. 2 * j - 1 # N + 1 /\ 2 * j - 1 > N
        BY <1>7, <2>2, <3>2
      <4>2. new[j] = 0
        BY <1>9, <4>1
      <4>. QED BY <2>2, <4>2
    <3>3. CASE 2 * i - 1 # N + 1 /\ 2 * j - 1 # N + 1
      <4>1. new[i] = lab[i] /\ new[j] = lab[j]
        BY <1>9, <3>3
      <4>. QED BY <2>2, <4>1 DEF Labels
    <3>. QED BY <3>1, <3>2, <3>3
  <2>3. ASSUME NEW i \in Nat, NEW j \in Nat, new[i] = Spoiled, new[j] = Spoiled
        PROVE  i = j
    <3>1. s + 1 # Spoiled
      BY <1>3 DEF Spoiled
    <3>2. lab[i] = Spoiled /\ lab[j] = Spoiled
      BY <1>9, <2>3, <3>1
    <3>. QED BY <3>2 DEF Labels
  <2>4. ASSUME NEW q \in 1 .. g
        PROVE  /\ new[q] = 0 => got'[q] = <<>>
               /\ new[q] > 0 => got'[q] = sent'[new[q]]
    <3>1. new[q] = lab[q]
      BY <1>9, <1>10
    <3>2. lab[q] > 0 => lab[q] \in 1 .. s
      <4>1. q \in Nat /\ lab[q] \in Int /\ lab[q] <= s
        BY <1>3, <1>9
      <4>. QED BY <1>3, <4>1
    <3>3. /\ lab[q] = 0 => got[q] = <<>>
          /\ lab[q] > 0 => got[q] = sent[lab[q]]
      BY <1>3 DEF Labels
    <3>4. got' = got
      BY <1>2
    <3>. QED BY <1>4, <3>1, <3>2, <3>3, <3>4
  <2>5. Len(sent') = s + 1 /\ Len(got') = g
    BY <1>4, <1>5
  <2>6. /\ \A q \in Nat : Spoiled <= new[q] /\ new[q] <= Len(sent')
        /\ \A q \in 1 .. Len(got') : /\ new[q] = 0 => got'[q] = <<>>
                                     /\ new[q] > 0 => got'[q] = sent'[new[q]]
    BY <2>1, <2>4, <2>5
  <2>. QED BY <1>9, <2>2, <2>3, <2>6 DEF Labels
<1>12. Stream(N + 2, f, new)'
  <2>1. \A q \in Nat : 2 * q - 1 > N + 2 => new[q] = 0
    <3>1. \A q \in Nat : 2 * q - 1 > N + 2 => 2 * q - 1 # N + 1 /\ 2 * q - 1 > N
      BY <1>7
    <3>. QED BY <1>9, <3>1
  <2>2. ASSUME NEW q \in Nat, r <= 2 * q - 1, 2 * q - 1 <= N + 2
        PROVE  Segment(f, 2 * q - 1, new[q])'
    <3>0. PICK j : j = 2 * q - 1
      OBVIOUS
    <3>1. CASE j = N + 1
      <4>1. new[q] = Len(sent')
        BY <1>4, <1>9, <3>0, <3>1
      <4>. QED BY <1>6, <3>0, <3>1, <4>1
    <3>2. CASE j = N + 2
      <4>1. 2 * q - 1 # N + 1 /\ 2 * q - 1 > N
        BY <1>7, <3>0, <3>2
      <4>2. new[q] = 0
        BY <1>9, <4>1
      <4>. QED BY <1>6, <3>0, <3>2, <4>2
    <3>3. CASE j <= N
      <4>1. 2 * q - 1 # N + 1 /\ j \in r .. N /\ r <= 2 * q - 1 /\ 2 * q - 1 <= N
        BY <1>3, <1>7, <2>2, <3>0, <3>3
      <4>2. new[q] = lab[q] /\ lab[q] \in Int /\ lab[q] <= s
        BY <1>9, <4>1
      <4>3. Segment(e, 2 * q - 1, lab[q])
        BY <1>3, <4>1 DEF Stream
      <4>. QED BY <1>3, <1>6, <3>0, <4>1, <4>2, <4>3
    <3>4. j = N + 1 \/ j = N + 2 \/ j <= N
      BY <1>7, <2>2, <3>0
    <3>. QED BY <3>1, <3>2, <3>3, <3>4
  <2>3. loop' = "start" => frame' = <<>> /\ ~in_escape'
    BY <1>2 DEF Stream
  <2>4. ASSUME loop' = "frame" PROVE new[g + 1] = lab[g + 1] /\ f[r] = e[r]
    <3>1. 2 * (g + 1) - 1 # N + 1 /\ r \in 0 .. N + 1 /\ g + 1 \in Nat
      BY <1>2, <1>3, <1>5, <1>7, <2>4
    <3>. QED BY <1>6, <1>9, <3>1
  <2>5. loop' = "frame" /\ new[g + 1] = 0 => frame' = <<>>
    BY <1>2, <1>3, <2>4 DEF Stream
  <2>6. ASSUME loop' = "frame", new[g + 1] > 0
        PROVE  \E n, x : Reading(sent[new[g + 1]], -f[EndsRead], n, x)'
    <3>1. PICK k : k = lab[g + 1] /\ k = new[g + 1] /\ k \in 1 .. s
      <4>1. g + 1 \in Nat
        BY <1>3
      <4>2. lab[g + 1] \in Int /\ lab[g + 1] <= s
        BY <1>9, <4>1
      <4>. QED BY <1>3, <2>4, <2>6, <4>2
    <3>2. PICK n, x : Reading(sent[k], -e[r], n, x)
      BY <1>2, <1>3, <2>6, <3>1 DEF Stream
    <3>3. sent'[k] = sent[k] /\ f[EndsRead'] = e[r]
      BY <1>4, <1>5, <2>4, <2>6, <3>1
    <3>4. Reading(sent[k], -f[EndsRead], n, x)'
      BY <1>2, <3>2, <3>3 DEF Reading
    <3>. QED BY <3>1, <3>4
  <2>7. Borders(N + 2, f)'
    BY <1>6
  <2>. QED BY <1>5, <2>1, <2>2, <2>3, <2>5, <2>6, <2>7 DEF Stream
<1>13. ASSUME CleanLabels(lab), CleanStream(N, e)
       PROVE  CleanLabels(new)' /\ CleanStream(N + 2, f)'
  <2>1. N = 2 * s /\ N + 2 = 2 * (s + 1)
    BY <1>3, <1>13 DEF CleanStream
  <2>2. \A q \in Nat : q <= s + 1 => new[q] = q
    <3> SUFFICES ASSUME NEW q \in Nat, q <= s + 1 PROVE new[q] = q
      OBVIOUS
    <3>1. CASE q = s + 1
      <4>1. 2 * q - 1 = N + 1
        BY <1>3, <2>1, <3>1
      <4>. QED BY <1>9, <3>1, <4>1
    <3>2. CASE q # s + 1
      <4>1. q <= s /\ 2 * q - 1 # N + 1
        BY <1>3, <2>1, <3>2
      <4>. QED BY <1>3, <1>9, <1>13, <4>1 DEF CleanLabels
    <3>. QED BY <3>1, <3>2
  <2>3. g <= s + 1
    BY <1>3, <1>13 DEF CleanLabels
  <2>4. CleanLabels(new)'
    BY <1>4, <1>5, <2>2, <2>3 DEF CleanLabels
  <2>5. ASSUME NEW q \in Nat, r <= 2 * q, 2 * q <= N + 2 PROVE Segment(f, 2 * q, 0)'
    <3>0. PICK j : j = 2 * q
      OBVIOUS
    <3>1. CASE j = N + 2
      BY <1>6, <3>0, <3>1
    <3>2. CASE j # N + 2
      <4>1. j \in r .. N /\ r <= 2 * q /\ 2 * q <= N
        BY <1>3, <2>1, <2>5, <3>0, <3>2
      <4>2. Segment(e, j, 0)
        BY <1>3, <1>13, <3>0, <4>1 DEF CleanStream
      <4>3. 0 \in Int /\ 0 <= Len(sent)
        BY <1>3
      <4>. QED BY <1>6, <3>0, <4>1, <4>2, <4>3
    <3>. QED BY <3>1, <3>2
  <2>6. CleanStream(N + 2, f)'
    BY <1>4, <1>5, <2>1, <2>5 DEF CleanStream
  <2>. QED BY <2>4, <2>6
<1>. QED BY <1>11, <1>12, <1>13

(* The bytes between two ENDs are c places on, with the two ENDs.          *)
Shifted(e, j, f, i, c) ==
  /\ c \in Int /\ e[j] \in Int /\ e[j + 1] \in Int
  /\ f[i] = e[j] + c /\ f[i + 1] = e[j + 1] + c
  /\ e[j + 1] <= Len(wire) + 1 /\ (c = 0 \/ e[j] >= 1)
  /\ \A x \in 1 .. Len(wire) : e[j] < x /\ x < e[j + 1] => wire'[x + c] = wire[x]

(* A segment that only moves is still what it was.                         *)
LEMMA Moved ==
  ASSUME SlipTypes, UNCHANGED sent, NEW j, NEW i, NEW c, NEW e, NEW f, Shifted(e, j, f, i, c),
         NEW k \in Int, k <= Len(sent), Segment(e, j, k)
  PROVE  Segment(f, i, k)'
<1>0. PICK a, b \in Int : a = e[j] /\ b = e[j + 1]
  BY DEF Shifted
<1>a. /\ c \in Int /\ f[i] = a + c /\ f[i + 1] = b + c
      /\ b <= Len(wire) + 1 /\ (c = 0 \/ a >= 1)
      /\ \A x \in 1 .. Len(wire) : a < x /\ x < b => wire'[x + c] = wire[x]
  BY <1>0 DEF Shifted
<1>1. CASE k > 0
  <2>1. PICK y : y = Escaped(sent[k])
    OBVIOUS
  <2>2. PICK l, w \in Nat : l = Len(y) /\ w = Len(wire)
    <3>1. k \in 1 .. Len(sent)
      BY <1>1, TypesOfPackets
    <3>. QED BY <2>1, <3>1, TypesOfPackets
  <2>3. b = a + l + 1 /\ \A h \in 1 .. l : a + h >= 1 => wire[a + h] = y[h]
    BY <1>0, <1>1, <2>1, <2>2 DEF Segment
  <2>4. ASSUME NEW h \in 1 .. l, (a + c) + h >= 1 PROVE wire'[(a + c) + h] = y[h]
    <3>1. a + h \in 1 .. w /\ a < a + h /\ a + h < b /\ a + h >= 1 /\ (a + c) + h = (a + h) + c
      <4>1. h \in Int /\ 1 <= h /\ h <= l /\ (a + c) + h >= 1 /\ b = a + l + 1 /\ b <= w + 1
        BY <1>0, <1>a, <2>2, <2>3, <2>4
      <4>2. c \in Int /\ (c = 0 \/ a >= 1)
        BY <1>a
      <4>3. a + h >= 1
        BY SMTT(30), <1>0, <4>1, <4>2
      <4>4. a \in Int /\ b \in Int /\ w \in Int /\ l \in Int
        BY <1>0, <2>2
      <4>5. a + h \in 1 .. w /\ a < a + h /\ a + h < b
        BY <4>1, <4>3, <4>4
      <4>. QED BY <4>1, <4>2, <4>3, <4>4, <4>5
    <3>. QED BY <1>a, <2>2, <2>3, <3>1
  <2>5. b + c = (a + c) + l + 1
    BY SMTT(30), <1>0, <1>a, <2>2, <2>3
  <2>6. Escaped(sent'[k]) = y /\ ~(k = 0)
    BY <1>1, <2>1
  <2>7. /\ f[i + 1] = f[i] + Len(Escaped(sent'[k])) + 1
        /\ \A h \in 1 .. Len(Escaped(sent'[k])) :
             f[i] + h >= 1 => wire'[f[i] + h] = Escaped(sent'[k])[h]
    BY <1>a, <2>2, <2>4, <2>5, <2>6
  <2>. QED BY <2>6, <2>7 DEF Segment
<1>2. CASE ~(k > 0)
  <2>1. k = 0 => b + c = (a + c) + 1
    BY <1>0, <1>a DEF Segment
  <2>. QED BY <1>a, <1>2, <2>1 DEF Segment
<1>. QED BY <1>1, <1>2

(* Every byte of the wire is behind one END and not behind the next.       *)
LEMMA Between ==
  ASSUME SlipTypes, NEW N, NEW e, Borders(N, e), NEW i \in 1 .. Len(wire) + 1
  PROVE  \E m \in EndsRead .. N : e[m] < i /\ i <= e[m + 1]
<1>1. PICK w, r \in Nat : w = Len(wire) /\ r = EndsRead
  BY TypesOfPackets
<1>2. N \in Nat /\ r <= N /\ e \in [Nat -> Int] /\ e[r] <= 0 /\ e[N + 1] = w + 1
  BY <1>1 DEF Borders
<1>3. i \in Nat /\ 1 <= i /\ i <= w + 1
  BY <1>1
<1> SUFFICES ASSUME \A m \in r .. N : ~(e[m] < i /\ i <= e[m + 1]) PROVE FALSE
  BY <1>1
<1> DEFINE P == {k \in Nat : e[r + k] < i}
<1>4. P \in SUBSET Nat
  OBVIOUS
<1>5. 0 \in P
  <2>1. r + 0 = r /\ e[r] \in Int
    BY <1>1, <1>2
  <2>2. e[r + 0] < i
    BY <1>2, <1>3, <2>1
  <2>. QED BY <2>2
<1>6. PICK n \in Nat : n = (N + 1) - r
  BY <1>1, <1>2
<1>7. ASSUME NEW k \in 0 .. n - 1, k \in P PROVE k + 1 \in P
  <2>1. r + k \in r .. N /\ (r + k) + 1 = r + (k + 1) /\ r + (k + 1) \in Nat /\ k + 1 \in Nat
    BY <1>1, <1>2, <1>6
  <2>2. ~(i <= e[r + (k + 1)]) /\ e[r + (k + 1)] \in Int
    BY <1>2, <1>7, <2>1
  <2>3. e[r + (k + 1)] < i
    BY <1>3, <2>2
  <2>. QED BY <2>1, <2>3
<1>8. n \in P
  <2> HIDE DEF P
  <2>1. n \in 0 .. n
    BY <1>6
  <2>. QED BY <1>4, <1>5, <1>6, <1>7, <2>1, UpTo
<1>9. r + n = N + 1
  BY <1>1, <1>2, <1>6
<1>10. w + 1 < i
  BY <1>2, <1>8, <1>9
<1>. QED BY <1>1, <1>3, <1>10

(* The ENDs are in order.                                                  *)
LEMMA Ascends ==
  ASSUME SlipTypes, NEW N, NEW e, Borders(N, e)
  PROVE  \A i, j \in Nat : EndsRead <= i /\ i <= j /\ j <= N + 1 => e[i] <= e[j]
<1>1. PICK r \in Nat : r = EndsRead
  BY TypesOfPackets
<1>2. N \in Nat /\ r <= N /\ e \in [Nat -> Int] /\ \A j \in r .. N : e[j] < e[j + 1]
  BY <1>1 DEF Borders
<1> SUFFICES ASSUME NEW i \in Nat, NEW j \in Nat, r <= i, i <= j, j <= N + 1
             PROVE  e[i] <= e[j]
  BY <1>1
<1> DEFINE P == {k \in Nat : i + k <= N + 1 => e[i] <= e[i + k]}
<1>3. P \in SUBSET Nat
  OBVIOUS
<1>4. 0 \in P
  <2>1. i + 0 = i /\ e[i] \in Int
    BY <1>2
  <2>2. e[i] <= e[i + 0]
    BY <2>1
  <2>. QED BY <2>2
<1>5. PICK n \in Nat : n = j - i
  OBVIOUS
<1>6. ASSUME NEW k \in 0 .. n - 1, k \in P PROVE k + 1 \in P
  <2>1. PICK a \in Nat : a = i + k
    OBVIOUS
  <2>2. a + 1 = i + (k + 1) /\ a \in r .. N /\ a <= N + 1 /\ a + 1 \in Nat /\ k + 1 \in Nat
    BY <1>1, <1>2, <1>5, <2>1
  <2>3. e[i] <= e[a] /\ e[a] < e[a + 1] /\ e[i] \in Int /\ e[a] \in Int /\ e[a + 1] \in Int
    BY <1>2, <1>6, <2>1, <2>2
  <2>4. e[i] <= e[i + (k + 1)]
    BY <2>2, <2>3
  <2>. QED BY <2>2, <2>4
<1>7. n \in P
  <2> HIDE DEF P
  <2>1. n \in 0 .. n
    BY <1>5
  <2>. QED BY <1>3, <1>4, <1>5, <1>6, <2>1, UpTo
<1>8. i + n = j
  BY <1>5
<1>. QED BY <1>7, <1>8

(* The bytes behind the m-th END change, and with them, if d = 1, the END  *)
(* that follows: all that is behind them is c places on.                   *)
Closed(e, m, d, c) ==
  /\ c \in Int /\ Len(wire') = Len(wire) + c
  /\ e[m] < e[m + d + 1] + c /\ 1 <= e[m + d + 1] + c
  /\ \A x \in 1 .. Len(wire) : x <= e[m] => wire'[x] = wire[x]
  /\ \A x \in 1 .. Len(wire) : x >= e[m + d + 1] => wire'[x + c] = wire[x]
  /\ \A x \in 1 .. Len(wire') : e[m] < x /\ x < e[m + d + 1] + c => wire'[x] # END

(* And then the ENDs are numbered by f: d of them has gone.                *)
Kept(e, f, N, m, d) ==
  /\ Borders(N - d, f)' /\ \A j \in 0 .. m : f[j] = e[j]
  /\ \A j \in EndsRead .. m - 1, k \in Int :
       k <= Len(sent) /\ Segment(e, j, k) => Segment(f, j, k)'
  /\ \A j \in m + d + 1 .. N, k \in Int :
       k <= Len(sent) /\ Segment(e, j, k) => Segment(f, j - d, k)'

(* The ENDs and the segments move with the bytes.                          *)
LEMMA Spaced ==
  ASSUME SlipTypes, UNCHANGED sent, EndsRead' = EndsRead, NEW N, NEW e, Borders(N, e),
         NEW m \in Nat, NEW d \in {0, 1}, EndsRead <= m, m + d <= N,
         wire' \in Seq(Bytes), NEW c, Closed(e, m, d, c)
  PROVE  \E f : Kept(e, f, N, m, d)
<1>c. /\ c \in Int /\ Len(wire') = Len(wire) + c
      /\ e[m] < e[m + d + 1] + c /\ 1 <= e[m + d + 1] + c
      /\ \A x \in 1 .. Len(wire) : x <= e[m] => wire'[x] = wire[x]
      /\ \A x \in 1 .. Len(wire) : x >= e[m + d + 1] => wire'[x + c] = wire[x]
      /\ \A x \in 1 .. Len(wire') : e[m] < x /\ x < e[m + d + 1] + c => wire'[x] # END
  BY DEF Closed
<1>d. c \in Int
  BY <1>c
<1>1. PICK w, r \in Nat : w = Len(wire) /\ r = EndsRead
  BY TypesOfPackets
<1>0. N \in Nat /\ r <= N /\ d \in Nat /\ r <= m /\ m + d <= N /\ (d = 0 \/ d = 1)
  BY <1>1 DEF Borders
<1>2. /\ e \in [Nat -> Int] /\ e[r] <= 0 /\ e[N + 1] = w + 1
      /\ \A j \in r + 1 .. N + 1 : 1 <= e[j] /\ e[j] <= w + 1
      /\ \A j \in r .. N : e[j] < e[j + 1]
      /\ \A j \in r + 1 .. N : wire[e[j]] = END
      /\ \A j \in r .. N : \A i \in 1 .. w : e[j] < i /\ i < e[j + 1] => wire[i] # END
  BY <1>1 DEF Borders
<1> DEFINE z == e[m + d + 1]
           g == [j \in Nat |-> IF j <= m THEN e[j] ELSE e[j + d] + c]
<1>3. PICK f : f = g
  OBVIOUS
<1>4. /\ f \in [Nat -> Int] /\ \A j \in 0 .. m : f[j] = e[j] /\ e[j] \in Int
      /\ \A j \in Nat : j > m => f[j] = e[j + d] + c /\ e[j + d] \in Int
  <2>1. ASSUME NEW j \in Nat PROVE e[j] \in Int /\ e[j + d] \in Int
    <3>1. j + d \in Nat
      BY <1>0
    <3>2. e \in [Nat -> Int]
      BY <1>2
    <3>. QED BY <3>1, <3>2
  <2>2. f \in [Nat -> Int]
    <3>1. ASSUME NEW j \in Nat PROVE (IF j <= m THEN e[j] ELSE e[j + d] + c) \in Int
      <4>1. e[j] \in Int /\ e[j + d] \in Int
        BY <2>1
      <4>2. \A y \in Int : y + c \in Int
        BY <1>d
      <4>. QED BY <4>1, <4>2
    <3>. QED BY <1>3, <3>1
  <2>3. \A j \in Nat : f[j] = IF j <= m THEN e[j] ELSE e[j + d] + c
    BY <1>3
  <2>4. \A j \in 0 .. m : j \in Nat /\ j <= m
    OBVIOUS
  <2>5. \A j \in Nat : j > m => ~(j <= m)
    OBVIOUS
  <2>. QED BY <2>1, <2>2, <2>3, <2>4, <2>5
<1>z. z = e[m + d + 1]
  OBVIOUS
<1> HIDE DEF g, z
<1> USE <1>z, <1>d
<1>5. \A i, j \in Nat : r <= i /\ i <= j /\ j <= N + 1 => e[i] <= e[j]
  BY <1>1, Ascends
<1>6. z \in Int /\ e[m] \in Int /\ e[m] < z + c /\ 1 <= z + c /\ 1 <= z /\ z <= w + 1
  <2>1. m + d + 1 \in r + 1 .. N + 1 /\ m + d + 1 \in Nat
    BY <1>0, <1>1
  <2>. QED BY <1>c, <1>2, <2>1
<1>7. Len(wire') = w + c /\ w + c \in Nat
  BY <1>c, <1>1
<1>8. ASSUME NEW j \in Nat, m + d + 1 <= j, j <= N + 1
      PROVE  /\ z <= e[j] /\ e[j] \in Int /\ e[j] <= w + 1 /\ 1 <= e[j]
             /\ 1 <= e[j] + c /\ e[j] + c <= w + c + 1
  <2>1. m + d + 1 \in Nat /\ r <= m + d + 1 /\ j \in r + 1 .. N + 1
    BY <1>0, <1>1, <1>8
  <2>2. z <= e[j] /\ e[j] \in Int /\ e[j] <= w + 1
    BY <1>2, <1>5, <1>8, <2>1
  <2>3. PICK y \in Int : y = e[j]
    BY <2>2
  <2>4. z <= y /\ y <= w + 1
    BY <2>2, <2>3
  <2>5. 1 <= y /\ 1 <= y + c /\ y + c <= w + c + 1
    BY <1>6, <2>4
  <2>. QED BY <2>3, <2>4, <2>5
<1>9. ASSUME NEW j \in Nat, r <= j, j <= m PROVE e[j] <= e[m] /\ e[j] \in Int
  <2>1. m <= N + 1
    BY <1>0
  <2>. QED BY <1>2, <1>5, <1>9, <2>1
<1>10. \A j \in r + 1 .. (N - d) + 1 : 1 <= f[j] /\ f[j] <= w + c + 1
  <2> SUFFICES ASSUME NEW j \in r + 1 .. (N - d) + 1 PROVE 1 <= f[j] /\ f[j] <= w + c + 1
    OBVIOUS
  <2>0. j \in Nat /\ r + 1 <= j /\ j <= (N - d) + 1
    BY <1>0, <1>1
  <2>1. CASE j <= m
    <3>1. j \in 0 .. m /\ j \in r + 1 .. N + 1 /\ r <= j
      BY <1>0, <1>1, <2>0, <2>1
    <3>2. f[j] = e[j] /\ 1 <= e[j] /\ e[j] <= e[m] /\ e[j] \in Int
      BY <1>2, <1>4, <1>9, <2>0, <2>1, <3>1
    <3>3. PICK x, y \in Int : x = e[j] /\ y = e[m]
      BY <1>6, <3>2
    <3>4. 1 <= x /\ x <= y /\ y < z + c /\ z <= w + 1
      BY <1>6, <3>2, <3>3
    <3>5. 1 <= x /\ x <= w + c + 1
      BY SMTT(30), <1>1, <1>6, <3>3, <3>4
    <3>. QED BY <3>2, <3>3, <3>5
  <2>2. CASE ~(j <= m)
    <3>1. j > m /\ j + d \in Nat /\ m + d + 1 <= j + d /\ j + d <= N + 1
      BY <1>0, <2>0, <2>2
    <3>2. 1 <= e[j + d] + c /\ e[j + d] + c <= w + c + 1
      BY <1>8, <3>1
    <3>. QED BY <1>4, <2>0, <3>1, <3>2
  <2>. QED BY <2>1, <2>2
<1>11. \A j \in r .. N - d : f[j] < f[j + 1]
  <2> SUFFICES ASSUME NEW j \in r .. N - d PROVE f[j] < f[j + 1]
    OBVIOUS
  <2>0. j \in Nat /\ j + 1 \in Nat /\ r <= j /\ j <= N - d
    BY <1>0, <1>1
  <2>1. CASE j < m
    <3>1. j \in 0 .. m /\ j + 1 \in 0 .. m /\ j \in r .. N
      BY <1>0, <1>1, <2>0, <2>1
    <3>. QED BY <1>2, <1>4, <3>1
  <2>2. CASE j = m
    <3>1. j \in 0 .. m /\ j + 1 > m /\ (j + 1) + d = m + d + 1
      BY <1>0, <2>2
    <3>2. f[j] = e[m] /\ f[j + 1] = z + c
      BY <1>4, <2>0, <2>2, <3>1
    <3>. QED BY <1>6, <3>2
  <2>3. CASE j > m
    <3>1. j + d \in r .. N /\ (j + 1) + d = (j + d) + 1 /\ j + 1 > m
      BY <1>0, <1>1, <2>0, <2>3
    <3>2. PICK a, b \in Int : a = e[j + d] /\ b = e[(j + d) + 1] /\ a < b
      BY <1>2, <1>4, <2>0, <2>3, <3>1
    <3>3. f[j] = a + c /\ f[j + 1] = b + c
      BY <1>4, <2>0, <2>3, <3>1, <3>2
    <3>. QED BY <3>2, <3>3
  <2>. QED BY <2>0, <2>1, <2>2, <2>3
<1>12. \A j \in r + 1 .. N - d : wire'[f[j]] = END
  <2> SUFFICES ASSUME NEW j \in r + 1 .. N - d PROVE wire'[f[j]] = END
    OBVIOUS
  <2>0. j \in Nat /\ r + 1 <= j /\ j <= N - d
    BY <1>0, <1>1
  <2>1. CASE j <= m
    <3>1. j \in 0 .. m /\ j \in r + 1 .. N /\ j \in r + 1 .. N + 1 /\ r <= j
      BY <1>0, <1>1, <2>0, <2>1
    <3>2. f[j] = e[j] /\ 1 <= e[j] /\ e[j] <= e[m] /\ e[j] \in Int /\ wire[e[j]] = END
      BY <1>2, <1>4, <1>9, <2>0, <2>1, <3>1
    <3>3. e[m] < w + 1
      <4>1. m \in r .. N /\ m \in Nat /\ m + 1 \in Nat /\ r <= m + 1 /\ m + 1 <= N + 1
        BY <1>0, <1>1
      <4>2. N + 1 \in Nat /\ N + 1 <= N + 1
        BY <1>0
      <4>3. e[m] < e[m + 1] /\ e[m + 1] <= e[N + 1] /\ e[m + 1] \in Int /\ e[N + 1] = w + 1
        BY <1>2, <1>5, <4>1, <4>2
      <4>. QED BY <1>6, <4>3
    <3>4. e[j] \in 1 .. w
      BY <1>1, <1>6, <3>2, <3>3
    <3>. QED BY <1>c, <1>1, <3>2, <3>4
  <2>2. CASE ~(j <= m)
    <3>1. /\ j > m /\ j + d \in Nat /\ m + d + 1 <= j + d /\ j + d <= N + 1
          /\ j + d \in r + 1 .. N /\ j + d \in r .. N /\ (j + d) + 1 \in r + 1 .. N + 1
      BY <1>0, <1>1, <2>0, <2>2
    <3>2. PICK a \in Int : a = e[j + d] /\ z <= a /\ 1 <= a /\ wire[a] = END /\ f[j] = a + c
      BY <1>2, <1>4, <1>8, <2>0, <3>1
    <3>3. PICK b \in Int : a < b /\ b <= w + 1
      <4>1. (j + d) + 1 \in Nat
        BY <3>1
      <4>2. e[(j + d) + 1] \in Int /\ a < e[(j + d) + 1] /\ e[(j + d) + 1] <= w + 1
        BY <1>2, <3>1, <3>2, <4>1
      <4>. QED BY <4>2
    <3>4. a \in 1 .. w /\ a >= z
      <4>1. 1 <= a /\ z <= a /\ a < b /\ b <= w + 1
        BY <3>2, <3>3
      <4>. QED BY <1>6, <4>1
    <3>5. wire'[a + c] = wire[a]
      BY <1>c, <1>1, <3>4
    <3>. QED BY <3>2, <3>5
  <2>. QED BY <2>1, <2>2
<1>13. ASSUME NEW j \in r .. N - d, NEW x \in 1 .. w + c, f[j] < x, x < f[j + 1]
       PROVE  wire'[x] # END
  <2>0. j \in Nat /\ j + 1 \in Nat /\ r <= j /\ j <= N - d /\ x \in Int /\ 1 <= x /\ x <= w + c
    BY <1>0, <1>1, <1>7
  <2>1. CASE j < m
    <3>1. /\ j \in 0 .. m /\ j + 1 \in 0 .. m /\ j \in r .. N /\ r <= j + 1 /\ j + 1 <= m
      BY <1>0, <1>1, <2>0, <2>1
    <3>2. e[j] < x /\ x < e[j + 1] /\ e[j + 1] <= e[m] /\ e[j + 1] \in Int
      BY <1>4, <1>9, <1>13, <2>0, <3>1
    <3>3. x \in 1 .. w /\ x <= e[m]
      <4>1. m \in Nat /\ r <= m /\ m <= N + 1 /\ N + 1 \in Nat /\ N + 1 <= N + 1
        BY <1>0
      <4>2. e[m] <= w + 1
        BY <1>2, <1>5, <4>1
      <4>3. PICK y, q \in Int : y = e[j + 1] /\ q = e[m]
        BY <1>6, <3>2
      <4>4. x \in Int /\ 1 <= x /\ x < y /\ y <= q /\ q <= w + 1
        BY <2>0, <3>2, <4>2, <4>3
      <4>5. x \in 1 .. w /\ x <= q
        BY <4>4
      <4>. QED BY <4>3, <4>5
    <3>4. wire[x] # END
      BY <1>2, <3>1, <3>2, <3>3
    <3>. QED BY <1>c, <1>1, <3>3, <3>4
  <2>2. CASE j = m
    <3>1. j \in 0 .. m /\ j + 1 > m /\ (j + 1) + d = m + d + 1
      BY <1>0, <2>2
    <3>2. f[j] = e[m] /\ f[j + 1] = z + c
      BY <1>4, <2>0, <2>2, <3>1
    <3>3. x \in 1 .. Len(wire') /\ e[m] < x /\ x < z + c
      BY <1>7, <1>13, <3>2
    <3>. QED BY <1>c, <3>3
  <2>3. CASE j > m
    <3>1. /\ j + d \in r .. N /\ (j + 1) + d = (j + d) + 1 /\ j + 1 > m /\ j + d \in Nat
          /\ m + d + 1 <= j + d /\ j + d <= N + 1 /\ (j + d) + 1 \in r + 1 .. N + 1
      BY <1>0, <1>1, <2>0, <2>3
    <3>2. PICK a, b \in Int : /\ a = e[j + d] /\ b = e[(j + d) + 1] /\ z <= a /\ 1 <= a
                             /\ b <= w + 1
      <4>1. (j + d) + 1 \in Nat
        BY <3>1
      <4>2. /\ e[j + d] \in Int /\ e[(j + d) + 1] \in Int /\ z <= e[j + d] /\ 1 <= e[j + d]
            /\ e[(j + d) + 1] <= w + 1
        BY <1>2, <1>8, <3>1, <4>1
      <4>. QED BY <4>2
    <3>3. f[j] = a + c /\ f[j + 1] = b + c
      BY <1>4, <2>0, <2>3, <3>1, <3>2
    <3>4. PICK y \in Int : y = x - c
      BY <2>0
    <3>5. y \in 1 .. w /\ a < y /\ y < b /\ y >= z /\ y + c = x
      <4>1. a + c < x /\ x < b + c
        BY <1>13, <3>3
      <4>0. a \in Int /\ b \in Int /\ x \in Int
        BY <2>0, <3>2
      <4>2. a < y /\ y < b /\ y + c = x
        BY <3>4, <4>0, <4>1
      <4>3. a \in Int /\ b \in Int /\ y \in Int /\ 1 <= a /\ b <= w + 1
        BY <3>2, <3>4
      <4>4. y \in 1 .. w
        BY <1>1, <4>2, <4>3
      <4>5. z \in Int /\ z <= a
        BY <1>6, <3>2
      <4>6. y >= z
        <5> HIDE DEF z
        <5>. QED BY <4>2, <4>3, <4>5
      <4>. QED BY <4>2, <4>4, <4>6
    <3>6. wire[y] # END
      BY <1>2, <3>1, <3>2, <3>5
    <3>7. wire'[y + c] = wire[y]
      BY <1>c, <1>1, <3>5
    <3>. QED BY <3>5, <3>6, <3>7
  <2>. QED BY <2>0, <2>1, <2>2, <2>3
<1>14. Borders(N - d, f)'
  <2>1. /\ N - d \in Nat /\ r <= N - d /\ r \in 0 .. m /\ (N - d) + 1 > m
        /\ ((N - d) + 1) + d = N + 1 /\ (N - d) + 1 \in Nat
    BY <1>0, <1>1
  <2>2. f[r] <= 0 /\ f[(N - d) + 1] = (w + 1) + c
    <3>1. f[r] = e[r] /\ f[(N - d) + 1] = e[((N - d) + 1) + d] + c
      BY <1>4, <2>1
    <3>. QED BY <1>2, <2>1, <3>1
  <2>3. f[(N - d) + 1] = Len(wire') + 1 /\ Len(wire') + 1 = w + c + 1
    BY <1>1, <1>7, <2>2
  <2>. QED BY <1>1, <1>4, <1>7, <1>10, <1>11, <1>12, <1>13, <2>1, <2>2, <2>3 DEF Borders
<1>15. ASSUME NEW j \in r .. m - 1, NEW k \in Int, k <= Len(sent), Segment(e, j, k)
       PROVE  Segment(f, j, k)'
  <2>1. /\ j \in 0 .. m /\ j + 1 \in 0 .. m /\ j + 1 \in Nat /\ r <= j + 1 /\ j + 1 <= m
        /\ j + 1 \in r + 1 .. N + 1
    BY <1>0, <1>1
  <2>2. PICK a, b \in Int : a = e[j] /\ b = e[j + 1] /\ f[j] = a /\ f[j + 1] = b
    BY <1>4, <2>1
  <2>3. b <= e[m] /\ b <= w + 1
    BY <1>2, <1>9, <2>1, <2>2
  <2>4. ASSUME NEW x \in 1 .. Len(wire), x < b PROVE wire'[x] = wire[x]
    <3>1. x <= e[m]
      BY <1>6, <2>3, <2>4
    <3>. QED BY <1>c, <3>1
  <2>5. PICK o \in Int : o = 0
    OBVIOUS
  <2>6. f[j] = a + o /\ f[j + 1] = b + o /\ \A x \in 1 .. Len(wire) : x + o = x
    BY <1>1, <2>2, <2>5
  <2>7. \A x \in 1 .. Len(wire) : a < x /\ x < b => wire'[x + o] = wire[x]
    BY <2>4, <2>6
  <2>8. b <= Len(wire) + 1
    BY <1>1, <2>3
  <2>9. Shifted(e, j, f, j, o)
    BY <2>2, <2>5, <2>6, <2>7, <2>8 DEF Shifted
  <2>. QED BY <1>15, <2>9, Moved
<1>16. ASSUME NEW j \in m + d + 1 .. N, NEW k \in Int, k <= Len(sent), Segment(e, j, k)
       PROVE  Segment(f, j - d, k)'
  <2>1. /\ j \in Nat /\ j - d \in Nat /\ j - d > m /\ (j - d) + d = j /\ (j - d) + 1 \in Nat
        /\ (j - d) + 1 > m /\ ((j - d) + 1) + d = j + 1 /\ j + 1 \in r + 1 .. N + 1
        /\ m + d + 1 <= j /\ j <= N + 1
    BY <1>0, <1>1
  <2>2. PICK a, b \in Int : a = e[j] /\ b = e[j + 1] /\ f[j - d] = a + c /\ f[(j - d) + 1] = b + c
    BY <1>4, <2>1
  <2>3. z <= a /\ 1 <= a /\ b <= w + 1
    BY <1>2, <1>8, <2>1, <2>2
  <2>4. ASSUME NEW x \in 1 .. Len(wire), a < x PROVE wire'[x + c] = wire[x]
    <3>1. x >= z
      BY <1>1, <1>6, <2>3, <2>4
    <3>. QED BY <1>c, <3>1
  <2>5. b <= Len(wire) + 1
    BY <1>1, <2>3
  <2>6. \A x \in 1 .. Len(wire) : a < x /\ x < b => wire'[x + c] = wire[x]
    BY <2>4
  <2>7. Shifted(e, j, f, j - d, c)
    BY <2>2, <2>3, <2>5, <2>6 DEF Shifted
  <2>. QED BY <1>16, <2>7, Moved
<1>. QED BY <1>1, <1>4, <1>14, <1>15, <1>16 DEF Kept

(* What moves when an END is added behind the m-th: all that follows.      *)
LEMMA Split ==
  ASSUME SlipTypes, UNCHANGED sent, EndsRead' = EndsRead, NEW N, NEW e, Borders(N, e),
         NEW m \in Nat, EndsRead <= m, m <= N, NEW i \in Nat, e[m] < i, 1 <= i, i <= e[m + 1],
         wire' \in Seq(Bytes), Len(wire') = Len(wire) + 1, wire'[i] = END,
         \A x \in 1 .. Len(wire) : x < i => wire'[x] = wire[x],
         \A x \in 1 .. Len(wire) : x >= i => wire'[x + 1] = wire[x]
  PROVE  \E f : /\ Borders(N + 1, f)' /\ \A j \in 0 .. m : f[j] = e[j]
                /\ \A j \in EndsRead .. m - 1, k \in Int :
                     k <= Len(sent) /\ Segment(e, j, k) => Segment(f, j, k)'
                /\ \A j \in m + 1 .. N, k \in Int :
                     k <= Len(sent) /\ Segment(e, j, k) => Segment(f, j + 1, k)'
<1>1. PICK w, r \in Nat : w = Len(wire) /\ r = EndsRead
  BY TypesOfPackets
<1>0. N \in Nat /\ r <= N /\ r <= m /\ m <= N
  BY <1>1 DEF Borders
<1>2. /\ e \in [Nat -> Int] /\ e[r] <= 0 /\ e[N + 1] = w + 1
      /\ \A j \in r + 1 .. N + 1 : 1 <= e[j] /\ e[j] <= w + 1
      /\ \A j \in r .. N : e[j] < e[j + 1]
      /\ \A j \in r + 1 .. N : wire[e[j]] = END
      /\ \A j \in r .. N : \A x \in 1 .. w : e[j] < x /\ x < e[j + 1] => wire[x] # END
  BY <1>1 DEF Borders
<1> DEFINE z == e[m + 1]
           g == [j \in Nat |-> IF j <= m THEN e[j] ELSE IF j = m + 1 THEN i ELSE e[j - 1] + 1]
<1>3. PICK f : f = g
  OBVIOUS
<1>4. /\ f \in [Nat -> Int] /\ \A j \in 0 .. m : f[j] = e[j] /\ e[j] \in Int
      /\ f[m + 1] = i
      /\ \A j \in Nat : j > m + 1 => f[j] = e[j - 1] + 1 /\ e[j - 1] \in Int
  <2>1. ASSUME NEW j \in Nat PROVE e[j] \in Int /\ (j > m => e[j - 1] \in Int)
    <3>1. e \in [Nat -> Int]
      BY <1>2
    <3>2. j > m => j - 1 \in Nat
      OBVIOUS
    <3>. QED BY <3>1, <3>2
  <2>2. f \in [Nat -> Int]
    BY <1>3, <2>1
  <2>3. \A j \in Nat : f[j] = IF j <= m THEN e[j] ELSE IF j = m + 1 THEN i ELSE e[j - 1] + 1
    BY <1>3
  <2>4. \A j \in 0 .. m : j \in Nat /\ j <= m
    OBVIOUS
  <2>5. \A j \in Nat : j > m + 1 => ~(j <= m) /\ j # m + 1 /\ j > m
    OBVIOUS
  <2>6. m + 1 \in Nat /\ ~(m + 1 <= m)
    OBVIOUS
  <2>. QED BY <2>1, <2>2, <2>3, <2>4, <2>5, <2>6
<1>z. z = e[m + 1]
  OBVIOUS
<1> HIDE DEF g, z
<1> USE <1>z
<1>5. \A j, k \in Nat : r <= j /\ j <= k /\ k <= N + 1 => e[j] <= e[k]
  BY <1>1, Ascends
<1>6. z \in Int /\ e[m] \in Int /\ e[m] < i /\ i <= z /\ z <= w + 1
  <2>1. m + 1 \in r + 1 .. N + 1 /\ m + 1 \in Nat
    BY <1>0, <1>1
  <2>. QED BY <1>2, <2>1
<1>7. Len(wire') = w + 1
  BY <1>1
<1>8. ASSUME NEW j \in Nat, m + 1 <= j, j <= N + 1
      PROVE  z <= e[j] /\ e[j] \in Int /\ e[j] <= w + 1 /\ 1 <= e[j]
  <2>1. m + 1 \in Nat /\ r <= m + 1 /\ j \in r + 1 .. N + 1
    BY <1>0, <1>1, <1>8
  <2>. QED BY <1>2, <1>5, <1>8, <2>1
<1>9. ASSUME NEW j \in Nat, r <= j, j <= m PROVE e[j] <= e[m] /\ e[j] \in Int
  <2>1. m <= N + 1
    BY <1>0
  <2>. QED BY <1>2, <1>5, <1>9, <2>1
<1>10. \A j \in r + 1 .. (N + 1) + 1 : 1 <= f[j] /\ f[j] <= w + 2
  <2> SUFFICES ASSUME NEW j \in r + 1 .. (N + 1) + 1 PROVE 1 <= f[j] /\ f[j] <= w + 2
    OBVIOUS
  <2>0. j \in Nat /\ r + 1 <= j /\ j <= (N + 1) + 1
    BY <1>0, <1>1
  <2>1. CASE j <= m
    <3>1. j \in 0 .. m /\ j \in r + 1 .. N + 1 /\ r <= j
      BY <1>0, <1>1, <2>0, <2>1
    <3>2. f[j] = e[j] /\ 1 <= e[j] /\ e[j] <= w + 1 /\ e[j] \in Int
      BY <1>2, <1>4, <3>1
    <3>. QED BY <1>1, <3>2
  <2>2. CASE j = m + 1
    <3>1. f[j] = i
      BY <1>4, <2>2
    <3>. QED BY <1>1, <1>6, <3>1
  <2>3. CASE j > m + 1
    <3>1. j - 1 \in Nat /\ m + 1 <= j - 1 /\ j - 1 <= N + 1
      BY <1>0, <2>0, <2>3
    <3>2. 1 <= e[j - 1] /\ e[j - 1] <= w + 1 /\ e[j - 1] \in Int
      BY <1>8, <3>1
    <3>3. f[j] = e[j - 1] + 1
      BY <1>4, <2>0, <2>3
    <3>. QED BY <1>1, <3>2, <3>3
  <2>. QED BY <2>0, <2>1, <2>2, <2>3
<1>11. \A j \in r .. N + 1 : f[j] < f[j + 1]
  <2> SUFFICES ASSUME NEW j \in r .. N + 1 PROVE f[j] < f[j + 1]
    OBVIOUS
  <2>0. j \in Nat /\ j + 1 \in Nat /\ r <= j /\ j <= N + 1
    BY <1>0, <1>1
  <2>1. CASE j < m
    <3>1. j \in 0 .. m /\ j + 1 \in 0 .. m /\ j \in r .. N
      BY <1>0, <1>1, <2>0, <2>1
    <3>. QED BY <1>2, <1>4, <3>1
  <2>2. CASE j = m
    <3>1. j \in 0 .. m
      BY <2>0, <2>2
    <3>2. f[j] = e[m] /\ f[j + 1] = i
      BY <1>4, <2>2, <3>1
    <3>. QED BY <1>6, <3>2
  <2>3. CASE j = m + 1
    <3>1. j + 1 > m + 1 /\ (j + 1) - 1 = m + 1
      BY <2>0, <2>3
    <3>2. f[j] = i /\ f[j + 1] = z + 1
      BY <1>4, <2>0, <2>3, <3>1
    <3>. QED BY <1>6, <3>2
  <2>4. CASE j > m + 1
    <3>1. j - 1 \in r .. N /\ (j - 1) + 1 = j /\ (j + 1) - 1 = j /\ j + 1 > m + 1
      BY <1>0, <1>1, <2>0, <2>4
    <3>2. f[j] = e[j - 1] + 1 /\ f[j + 1] = e[j] + 1 /\ e[j - 1] \in Int /\ e[j] \in Int
      BY <1>4, <2>0, <2>4, <3>1
    <3>3. e[j - 1] < e[j]
      BY <1>2, <3>1
    <3>. QED BY <3>2, <3>3
  <2>. QED BY <2>0, <2>1, <2>2, <2>3, <2>4
<1>12. \A j \in r + 1 .. N + 1 : wire'[f[j]] = END
  <2> SUFFICES ASSUME NEW j \in r + 1 .. N + 1 PROVE wire'[f[j]] = END
    OBVIOUS
  <2>0. j \in Nat /\ r + 1 <= j /\ j <= N + 1
    BY <1>0, <1>1
  <2>1. CASE j <= m
    <3>1. j \in 0 .. m /\ j \in r + 1 .. N /\ j \in r + 1 .. N + 1 /\ r <= j
      BY <1>0, <1>1, <2>0, <2>1
    <3>2. f[j] = e[j] /\ 1 <= e[j] /\ e[j] <= e[m] /\ e[j] \in Int /\ wire[e[j]] = END
      BY <1>2, <1>4, <1>9, <2>0, <2>1, <3>1
    <3>3. e[j] \in 1 .. w /\ e[j] < i
      BY <1>1, <1>6, <3>2
    <3>. QED BY <1>1, <3>2, <3>3
  <2>2. CASE j = m + 1
    BY <1>4, <2>2
  <2>3. CASE j > m + 1
    <3>1. /\ j - 1 \in Nat /\ m + 1 <= j - 1 /\ j - 1 <= N + 1
          /\ j - 1 \in r + 1 .. N /\ j - 1 \in r .. N /\ j \in r + 1 .. N + 1
          /\ (j - 1) + 1 = j
      BY <1>0, <1>1, <2>0, <2>3
    <3>2. PICK a \in Int : a = e[j - 1] /\ z <= a /\ 1 <= a /\ wire[a] = END /\ f[j] = a + 1
      BY <1>2, <1>4, <1>8, <2>0, <2>3, <3>1
    <3>3. PICK b \in Int : b = e[j] /\ a < b /\ b <= w + 1
      <4>1. a < e[j] /\ e[j] <= w + 1 /\ e[j] \in Int
        BY <1>2, <2>0, <3>1, <3>2
      <4>. QED BY <4>1
    <3>4. a \in 1 .. w /\ a >= i
      <4>1. 1 <= a /\ z <= a /\ i <= z
        BY <1>6, <3>2
      <4>. QED BY <1>6, <3>3, <4>1
    <3>5. wire'[a + 1] = wire[a]
      BY <1>1, <3>4
    <3>. QED BY <3>2, <3>5
  <2>. QED BY <2>0, <2>1, <2>2, <2>3
<1>13. ASSUME NEW j \in r .. N + 1, NEW x \in 1 .. w + 1, f[j] < x, x < f[j + 1]
       PROVE  wire'[x] # END
  <2>0. j \in Nat /\ j + 1 \in Nat /\ r <= j /\ j <= N + 1 /\ x \in Int /\ 1 <= x /\ x <= w + 1
    BY <1>0, <1>1
  <2>1. CASE j < m
    <3>1. /\ j \in 0 .. m /\ j + 1 \in 0 .. m /\ j \in r .. N /\ r <= j + 1 /\ j + 1 <= m
      BY <1>0, <1>1, <2>0, <2>1
    <3>2. e[j] < x /\ x < e[j + 1] /\ e[j + 1] <= e[m] /\ e[j + 1] \in Int
      BY <1>4, <1>9, <1>13, <2>0, <3>1
    <3>3. x \in 1 .. w /\ x < i
      BY <1>1, <1>6, <2>0, <3>2
    <3>4. wire[x] # END
      BY <1>2, <3>1, <3>2, <3>3
    <3>. QED BY <1>1, <3>3, <3>4
  <2>2. CASE j = m
    <3>1. j \in 0 .. m /\ m \in r .. N
      BY <1>0, <1>1, <2>0, <2>2
    <3>2. f[j] = e[m] /\ f[j + 1] = i
      BY <1>4, <2>2, <3>1
    <3>3. e[m] < x /\ x < i
      BY <1>13, <3>2
    <3>4. x \in 1 .. w /\ x < z
      BY <1>1, <1>6, <2>0, <3>3
    <3>5. wire[x] # END
      BY <1>2, <3>1, <3>3, <3>4
    <3>. QED BY <1>1, <3>3, <3>4, <3>5
  <2>3. CASE j = m + 1
    <3>1. j + 1 > m + 1 /\ (j + 1) - 1 = m + 1 /\ m \in r .. N
      BY <1>0, <1>1, <2>0, <2>3
    <3>2. f[j] = i /\ f[j + 1] = z + 1
      BY <1>4, <2>0, <2>3, <3>1
    <3>3. i < x /\ x < z + 1
      BY <1>13, <3>2
    <3>4. PICK y \in Int : y = x - 1
      BY <2>0
    <3>5. y \in 1 .. w /\ y >= i /\ e[m] < y /\ y < z /\ y + 1 = x
      BY <1>1, <1>6, <2>0, <3>3, <3>4
    <3>6. wire[y] # END
      BY <1>2, <3>1, <3>5
    <3>. QED BY <1>1, <3>5, <3>6
  <2>4. CASE j > m + 1
    <3>0. /\ j - 1 \in Nat /\ m + 1 <= j - 1 /\ j <= N + 1 /\ (j - 1) + 1 = j
          /\ (j + 1) - 1 = j /\ j + 1 > m + 1
      BY <1>0, <2>0, <2>4
    <3>1. /\ j - 1 \in r .. N /\ (j + 1) - 1 = j /\ (j - 1) + 1 = j /\ j + 1 > m + 1
          /\ j - 1 \in Nat /\ m + 1 <= j - 1 /\ j - 1 <= N + 1 /\ j \in r + 1 .. N + 1
      BY <1>0, <2>0, <3>0
    <3>2. PICK a, b \in Int : a = e[j - 1] /\ b = e[j] /\ z <= a /\ 1 <= a /\ b <= w + 1
      <4>1. e[j] \in Int /\ e[j - 1] \in Int /\ z <= e[j - 1] /\ 1 <= e[j - 1] /\ e[j] <= w + 1
        BY <1>2, <1>8, <2>0, <3>1
      <4>. QED BY <4>1
    <3>3. f[j] = a + 1 /\ f[j + 1] = b + 1
      BY <1>4, <2>0, <2>4, <3>1, <3>2
    <3>4. PICK y \in Int : y = x - 1
      BY <2>0
    <3>5. y \in 1 .. w /\ a < y /\ y < b /\ y >= i /\ y + 1 = x
      <4>1. a + 1 < x /\ x < b + 1
        BY <1>13, <3>3
      <4>0. a \in Int /\ b \in Int /\ x \in Int
        BY <2>0, <3>2
      <4>2. a < y /\ y < b /\ y + 1 = x
        BY <3>4, <4>0, <4>1
      <4>. QED BY <1>1, <1>6, <3>2, <3>4, <4>2
    <3>6. wire[y] # END
      BY <1>2, <3>1, <3>2, <3>5
    <3>7. wire'[y + 1] = wire[y]
      BY <1>1, <3>5
    <3>. QED BY <3>5, <3>6, <3>7
  <2>. QED BY <2>0, <2>1, <2>2, <2>3, <2>4
<1>14. Borders(N + 1, f)'
  <2>1. /\ N + 1 \in Nat /\ r <= N + 1 /\ r \in 0 .. m /\ (N + 1) + 1 > m + 1
        /\ ((N + 1) + 1) - 1 = N + 1 /\ (N + 1) + 1 \in Nat
    BY <1>0, <1>1
  <2>2. f[r] <= 0 /\ f[(N + 1) + 1] = (w + 1) + 1
    <3>1. f[r] = e[r] /\ f[(N + 1) + 1] = e[((N + 1) + 1) - 1] + 1
      BY <1>4, <2>1
    <3>. QED BY <1>2, <2>1, <3>1
  <2>3. f[(N + 1) + 1] = Len(wire') + 1 /\ Len(wire') + 1 = w + 2
    BY <1>1, <1>7, <2>2
  <2>. QED BY <1>1, <1>4, <1>7, <1>10, <1>11, <1>12, <1>13, <2>1, <2>2, <2>3 DEF Borders
<1>15. ASSUME NEW j \in r .. m - 1, NEW k \in Int, k <= Len(sent), Segment(e, j, k)
       PROVE  Segment(f, j, k)'
  <2>1. /\ j \in 0 .. m /\ j + 1 \in 0 .. m /\ j + 1 \in Nat /\ r <= j + 1 /\ j + 1 <= m
        /\ j + 1 \in r + 1 .. N + 1
    BY <1>0, <1>1
  <2>2. PICK a, b \in Int : a = e[j] /\ b = e[j + 1] /\ f[j] = a /\ f[j + 1] = b
    BY <1>4, <2>1
  <2>3. b <= e[m] /\ b <= w + 1
    BY <1>2, <1>9, <2>1, <2>2
  <2>4. ASSUME NEW x \in 1 .. Len(wire), x < b PROVE wire'[x] = wire[x]
    <3>1. x < i
      BY <1>1, <1>6, <2>2, <2>3, <2>4
    <3>. QED BY <3>1
  <2>5. PICK o \in Int : o = 0
    OBVIOUS
  <2>6. f[j] = a + o /\ f[j + 1] = b + o /\ \A x \in 1 .. Len(wire) : x + o = x
    BY <1>1, <2>2, <2>5
  <2>7. \A x \in 1 .. Len(wire) : a < x /\ x < b => wire'[x + o] = wire[x]
    BY <2>4, <2>6
  <2>8. b <= Len(wire) + 1
    BY <1>1, <2>3
  <2>9. Shifted(e, j, f, j, o)
    BY <2>2, <2>5, <2>6, <2>7, <2>8 DEF Shifted
  <2>. QED BY <1>15, <2>9, Moved
<1>16. ASSUME NEW j \in m + 1 .. N, NEW k \in Int, k <= Len(sent), Segment(e, j, k)
       PROVE  Segment(f, j + 1, k)'
  <2>1. /\ j \in Nat /\ j + 1 \in Nat /\ j + 1 > m + 1 /\ (j + 1) - 1 = j /\ (j + 1) + 1 \in Nat
        /\ (j + 1) + 1 > m + 1 /\ ((j + 1) + 1) - 1 = j + 1 /\ j + 1 \in r + 1 .. N + 1
        /\ m + 1 <= j /\ j <= N + 1
    <3>1. j \in Nat /\ m + 1 <= j /\ j <= N
      BY <1>0
    <3>. QED BY <1>0, <3>1
  <2>2. PICK a, b \in Int : a = e[j] /\ b = e[j + 1] /\ f[j + 1] = a + 1 /\ f[(j + 1) + 1] = b + 1
    BY <1>4, <2>1
  <2>3. z <= a /\ 1 <= a /\ b <= w + 1
    BY <1>2, <1>8, <2>1, <2>2
  <2>4. ASSUME NEW x \in 1 .. Len(wire), a < x PROVE wire'[x + 1] = wire[x]
    <3>0. i \in Int /\ x \in Int /\ a \in Int /\ z \in Int
      BY <1>1, <1>6, <2>2
    <3>1. i <= z /\ z <= a /\ a < x
      BY <1>6, <2>3, <2>4
    <3>2. x >= i
      BY <3>0, <3>1
    <3>. QED BY <3>2
  <2>5. b <= Len(wire) + 1
    BY <1>1, <2>3
  <2>6. \A x \in 1 .. Len(wire) : a < x /\ x < b => wire'[x + 1] = wire[x]
    BY <2>4
  <2>7. Shifted(e, j, f, j + 1, 1)
    BY <2>2, <2>3, <2>5, <2>6 DEF Shifted
  <2>. QED BY <1>16, <2>7, Moved
<1>. QED BY <1>1, <1>4, <1>14, <1>15, <1>16

(* f numbers the ENDs when t of them have come after the m-th: the segments*)
(* before it and those behind the next have kept their bytes.              *)
Carried(e, f, N, m, t) ==
  /\ Borders(N + t, f)' /\ \A j \in 0 .. m : f[j] = e[j]
  /\ \A j \in EndsRead .. m - 1, k \in Int :
       k <= Len(sent) /\ Segment(e, j, k) => Segment(f, j, k)'
  /\ \A j \in (IF t = -1 THEN m + 2 ELSE m + 1) .. N, k \in Int :
       k <= Len(sent) /\ Segment(e, j, k) => Segment(f, j + t, k)'

(* The first disturbance behind the m-th END: what comes before it is as it*)
(* was, it spoils the frame it falls in, if it falls in one, and if it adds*)
(* or takes an END (t is 1 or -1) what is between two frames is taken for a*)
(* frame from there on, and is empty.                                      *)
LEMMA Relabelled ==
  ASSUME SlipTypes, UNCHANGED <<sent, call>>,
         NEW N, NEW e, NEW lab, Labels(lab), Stream(N, e, lab),
         CleanLabels(lab), CleanStream(N, e), NEW m \in Nat, EndsRead <= m, m <= N,
         NEW t \in {-1, 0, 1}, m <= N + t,
         NEW f, Carried(e, f, N, m, t)
  PROVE  \E new : Labels(new)' /\ Stream(N + t, f, new)'
<1>c. /\ Borders(N + t, f)' /\ \A j \in 0 .. m : f[j] = e[j]
      /\ \A j \in EndsRead .. m - 1, k \in Int :
           k <= Len(sent) /\ Segment(e, j, k) => Segment(f, j, k)'
      /\ \A j \in (IF t = -1 THEN m + 2 ELSE m + 1) .. N, k \in Int :
           k <= Len(sent) /\ Segment(e, j, k) => Segment(f, j + t, k)'
  BY DEF Carried
<1> USE <1>c
<1>0. UNCHANGED <<loop, in_escape, frame, got, calls>>
  BY DEF call
<1>1. PICK s, g, r \in Nat : s = Len(sent) /\ g = Len(got) /\ r = EndsRead
  BY TypesOfPackets
<1>2. /\ EndsRead' = r /\ Len(got') = g /\ Len(sent') = s /\ r >= 2 * g
      /\ loop = "frame" => r = 2 * g + 1
  BY <1>0, <1>1 DEF EndsRead
<1>3. N \in Nat /\ N = 2 * s /\ r <= m /\ m <= N /\ m <= N + t
  BY <1>1 DEF CleanStream
<1>4. /\ lab \in [Nat -> Int] /\ \A q \in Nat : q <= s => lab[q] = q
      /\ \A q \in Nat : q > s => lab[q] = 0
  <2>1. lab \in [Nat -> Int]
    BY DEF Labels
  <2>2. \A q \in Nat : q <= s => lab[q] = q
    BY <1>1 DEF CleanLabels
  <2>3. \A q \in Nat : q > s => 2 * q - 1 > N
    BY <1>1, <1>3
  <2>4. \A q \in Nat : 2 * q - 1 > N => lab[q] = 0
    BY DEF Stream
  <2>. QED BY <2>1, <2>2, <2>3, <2>4
(* The frame that is spoiled. *)
<1> DEFINE Hit(q) == 2 * q - 1 = m \/ (t = 1 /\ 2 * q - 1 = m + 1)
           l == [q \in Nat |-> IF Hit(q) THEN Spoiled
                               ELSE IF 2 * q - 1 < m \/ t = 0 THEN lab[q] ELSE 0]
<1>5. PICK new : new = l
  OBVIOUS
<1>6. /\ new \in [Nat -> Int]
      /\ \A q \in Nat : new[q] = IF Hit(q) THEN Spoiled
                                 ELSE IF 2 * q - 1 < m \/ t = 0 THEN lab[q] ELSE 0
  <2>1. \A q \in Nat : lab[q] \in Int
    BY <1>4
  <2>2. Spoiled \in Int
    BY DEF Spoiled
  <2> HIDE DEF Hit
  <2>. QED BY <1>5, <2>1, <2>2
<1> HIDE DEF l
<1>7. \A p, q \in Nat : Hit(p) /\ Hit(q) => p = q
  BY <1>3
<1>8. ASSUME NEW q \in Nat
      PROVE  /\ new[q] = Spoiled <=> Hit(q)
             /\ new[q] > 0 => new[q] = q /\ lab[q] = q /\ q <= s
             /\ Spoiled <= new[q] /\ new[q] <= s
  <2>1. lab[q] = IF q <= s THEN q ELSE 0
    BY <1>1, <1>4
  <2>2. Spoiled = -1
    BY DEF Spoiled
  <2>3. new[q] = Spoiled \/ new[q] = lab[q] \/ new[q] = 0
    BY <1>6
  <2>4. Hit(q) => new[q] = Spoiled
    BY <1>6
  <2>5. ~Hit(q) => new[q] = lab[q] \/ new[q] = 0
    BY <1>6
  <2> HIDE DEF Hit
  <2>. QED BY <1>1, <2>1, <2>2, <2>3, <2>4, <2>5
<1>9. \A q \in Nat : 2 * q - 1 < m => ~Hit(q)
  BY <1>1, <1>3
<1>10. \A q \in Nat : 2 * q - 1 < m => new[q] = lab[q]
  <2> HIDE DEF Hit
  <2>. QED BY <1>6, <1>9
<1>11. Labels(new)'
  <2>1. \A p, q \in Nat : p < q /\ new[p] > 0 /\ new[q] > 0 => new[p] < new[q]
    BY <1>8
  <2>2. \A p, q \in Nat : new[p] = Spoiled /\ new[q] = Spoiled => p = q
    <3> HIDE DEF Hit
    <3>. QED BY <1>7, <1>8
  <2>3. ASSUME NEW q \in 1 .. g
        PROVE  /\ new[q] = 0 => got'[q] = <<>>
               /\ new[q] > 0 => got'[q] = sent'[new[q]]
    <3>1. q \in Nat /\ 2 * q - 1 < m /\ q \in 1 .. Len(got)
      BY <1>1, <1>2, <1>3
    <3>2. new[q] = lab[q]
      BY <1>10, <3>1
    <3>. QED BY <1>0, <3>1, <3>2 DEF Labels
  <2>4. \A q \in Nat : Spoiled <= new[q] /\ new[q] <= s
    BY <1>8
  <2>. QED BY <1>2, <1>6, <2>1, <2>2, <2>3, <2>4 DEF Labels
<1>12. Stream(N + t, f, new)'
  <2>1. ASSUME NEW q \in Nat, 2 * q - 1 > N + t PROVE new[q] = 0
    <3>1. 2 * q - 1 > m /\ q \in Int
      BY <1>3, <2>1
    <3>2. t = 0 \/ t = 1 \/ t = -1
      OBVIOUS
    <3>3. ~Hit(q) /\ ~(2 * q - 1 < m)
      BY <1>3, <2>1, <3>1, <3>2
    <3>4. t = 0 => lab[q] = 0
      <4>1. t = 0 => q > s
        BY <1>1, <1>3, <2>1
      <4>. QED BY <1>4, <4>1
    <3> HIDE DEF Hit
    <3>. QED BY <1>6, <3>3, <3>4
  <2>2. ASSUME NEW q \in Nat, r <= 2 * q - 1, 2 * q - 1 <= N + t
        PROVE  Segment(f, 2 * q - 1, new[q])'
    <3>1. CASE Hit(q)
      <4>1. new[q] = Spoiled
        BY <1>8, <3>1
      <4>2. ~(Spoiled = 0) /\ ~(Spoiled > 0)
        BY DEF Spoiled
      <4>. QED BY <4>1, <4>2 DEF Segment
    <3>2. CASE 2 * q - 1 < m
      <4>1. 2 * q - 1 \in r .. m - 1 /\ r <= 2 * q - 1 /\ 2 * q - 1 <= N
        BY <1>1, <1>3, <2>2, <3>2
      <4>2. Segment(e, 2 * q - 1, lab[q])
        BY <1>1, <4>1 DEF Stream
      <4>3. lab[q] \in Int /\ lab[q] <= Len(sent) /\ new[q] = lab[q]
        BY <1>10, <3>2 DEF Labels
      <4>. QED BY <1>1, <4>1, <4>2, <4>3
    <3>3. CASE ~Hit(q) /\ ~(2 * q - 1 < m) /\ t = 0
      <4>1. 2 * q - 1 \in m + 1 .. N /\ r <= 2 * q - 1 /\ 2 * q - 1 <= N /\ (2 * q - 1) + t = 2 * q - 1
        BY <1>1, <1>3, <2>2, <3>3
      <4>2. Segment(e, 2 * q - 1, lab[q])
        BY <1>1, <4>1 DEF Stream
      <4>3. lab[q] \in Int /\ lab[q] <= Len(sent)
        BY DEF Labels
      <4>4. new[q] = lab[q]
        <5> HIDE DEF Hit
        <5>. QED BY <1>6, <3>3
      <4>5. t # -1
        BY <3>3
      <4>6. Segment(f, (2 * q - 1) + t, lab[q])'
        BY <4>1, <4>2, <4>3, <4>5
      <4>. QED BY <4>1, <4>4, <4>6
    <3>4. CASE ~Hit(q) /\ ~(2 * q - 1 < m) /\ t # 0
      <4>2. PICK y \in Nat : y = IF t = 1 THEN 2 * (q - 1) ELSE 2 * q
        <5>1. q > 0
          BY <1>1, <2>2
        <5>. QED BY <5>1
      <4>3. PICK h \in Nat : y = 2 * h
        <5>1. q - 1 \in Nat
          BY <1>1, <2>2
        <5>. QED BY <4>2, <5>1
      <4>4. /\ y + t = 2 * q - 1 /\ y <= N /\ r <= y
            /\ y \in (IF t = -1 THEN m + 2 ELSE m + 1) .. N
        <5>1. CASE t = 1
          <6>1. y = 2 * q - 2 /\ 2 * q - 1 # m /\ 2 * q - 1 # m + 1 /\ ~(2 * q - 1 < m)
            BY <3>4, <4>2, <5>1
          <6>2. y + 1 = 2 * q - 1 /\ y <= N /\ m + 1 <= y
            BY <1>3, <2>2, <5>1, <6>1
          <6>. QED BY <1>1, <1>3, <5>1, <6>2
        <5>2. CASE t = -1
          <6>1. y = 2 * q /\ 2 * q - 1 # m /\ ~(2 * q - 1 < m)
            BY <3>4, <4>2, <5>2
          <6>2. y + (-1) = 2 * q - 1 /\ y <= N /\ m + 2 <= y
            BY <1>3, <2>2, <5>2, <6>1
          <6>. QED BY <1>1, <1>3, <5>2, <6>2
        <5>. QED BY <3>4, <5>1, <5>2
      <4>5. Segment(e, y, 0)
        BY <1>1, <4>3, <4>4 DEF CleanStream
      <4>6. new[q] = 0
        <5> HIDE DEF Hit
        <5>. QED BY <1>6, <3>4
      <4>7. Segment(f, y + t, 0)'
        <5>1. 0 \in Int /\ 0 <= Len(sent)
          BY <1>1
        <5>. QED BY <4>4, <4>5, <5>1
      <4>. QED BY <4>4, <4>6, <4>7
    <3> HIDE DEF Hit
    <3>. QED BY <3>1, <3>2, <3>3, <3>4
  <2>3. loop' = "start" => frame' = <<>> /\ ~in_escape'
    BY <1>0 DEF Stream
  <2>4. ASSUME loop' = "frame"
        PROVE  new[g + 1] = Spoiled \/ (new[g + 1] = lab[g + 1] /\ f[r] = e[r])
    <3>1. r = 2 * (g + 1) - 1 /\ g + 1 \in Nat /\ r \in 0 .. m
      BY <1>0, <1>1, <1>2, <1>3, <2>4
    <3>2. CASE r = m
      <4>1. Hit(g + 1)
        BY <3>1, <3>2
      <4> HIDE DEF Hit
      <4>. QED BY <1>8, <3>1, <4>1
    <3>3. CASE r # m
      <4>1. 2 * (g + 1) - 1 < m
        BY <1>1, <1>3, <3>1, <3>3
      <4>. QED BY <1>10, <3>1, <4>1
    <3>. QED BY <3>2, <3>3
  <2>a. Spoiled # 0 /\ ~(Spoiled > 0)
    BY DEF Spoiled
  <2>5. loop' = "frame" /\ new[g + 1] = 0 => frame' = <<>>
    BY <1>0, <1>1, <2>4, <2>a DEF Stream
  <2>6. ASSUME loop' = "frame", new[g + 1] > 0
        PROVE  \E n, x : Reading(sent[new[g + 1]], -f[EndsRead], n, x)'
    <3>1. PICK k : k = lab[g + 1] /\ k = new[g + 1] /\ f[r] = e[r]
      BY <2>4, <2>6, <2>a
    <3>2. PICK n, x : Reading(sent[k], -e[r], n, x)
      BY <1>0, <1>1, <2>6, <3>1 DEF Stream
    <3>3. f[EndsRead'] = e[r]
      BY <1>2, <3>1
    <3>4. Reading(sent[k], -f[EndsRead], n, x)'
      BY <1>0, <3>2, <3>3 DEF Reading
    <3>. QED BY <3>1, <3>4
  <2>. QED BY <1>2, <2>1, <2>2, <2>3, <2>5, <2>6 DEF Stream
<1>. QED BY <1>11, <1>12

(* Where the bytes are when one has been added, or lost.                   *)
LEMMA Adding ==
  ASSUME NEW s \in Seq(Bytes), NEW i \in 1 .. Len(s) + 1, NEW b \in Bytes
  PROVE  LET t == InsertAt(s, i, b)
         IN  /\ Len(t) = Len(s) + 1 /\ t[i] = b
             /\ \A x \in 1 .. Len(s) : x < i => t[x] = s[x]
             /\ \A x \in 1 .. Len(s) : x >= i => t[x + 1] = s[x]
<1> DEFINE u == SubSeq(s, 1, i - 1)
           v == SubSeq(s, i, Len(s))
           t == u \o <<b>> \o v
<1>1. PICK w \in Nat : w = Len(s)
  OBVIOUS
<1>2. i \in Nat /\ 1 <= i /\ i <= w + 1
  BY <1>1
<1>3. /\ u \in Seq(Bytes) /\ Len(u) = i - 1
      /\ \A x \in 1 .. i - 1 : u[x] = s[x]
  BY <1>1, <1>2
<1>4. /\ v \in Seq(Bytes) /\ Len(v) = w - i + 1
      /\ \A x \in 1 .. w - i + 1 : v[x] = s[i + x - 1]
  BY <1>1, <1>2
<1> HIDE DEF u, v
<1>5. /\ Len(t) = Len(u) + 1 + Len(v) /\ t[Len(u) + 1] = b
      /\ \A x \in 1 .. Len(u) : t[x] = u[x]
      /\ \A x \in 1 .. Len(v) : t[Len(u) + 1 + x] = v[x]
  <2>1. u \in Seq(Bytes) /\ v \in Seq(Bytes)
    BY <1>3, <1>4
  <2> DEFINE p == u \o <<b>>
  <2>2. /\ p \in Seq(Bytes) /\ Len(p) = Len(u) + 1 /\ p[Len(u) + 1] = b
        /\ \A x \in 1 .. Len(u) : p[x] = u[x]
    BY <2>1
  <2>3. t = p \o v
    OBVIOUS
  <2> HIDE DEF p, t
  <2>4. /\ Len(t) = Len(p) + Len(v)
        /\ \A x \in 1 .. Len(p) : t[x] = p[x]
        /\ \A x \in 1 .. Len(v) : t[Len(p) + x] = v[x]
    <3>1. \A x, y \in Seq(Bytes) :
            /\ Len(x \o y) = Len(x) + Len(y)
            /\ \A j \in 1 .. Len(x) : (x \o y)[j] = x[j]
            /\ \A j \in 1 .. Len(y) : (x \o y)[Len(x) + j] = y[j]
      OBVIOUS
    <3>2. p \in Seq(Bytes)
      BY <2>2
    <3>. QED BY <2>1, <2>3, <3>1, <3>2
  <2>5. Len(u) \in Nat
    BY <2>1
  <2>6. Len(u) + 1 \in 1 .. Len(u) + 1 /\ \A x \in 1 .. Len(u) : x \in 1 .. Len(u) + 1
    BY <2>5
  <2>. QED BY <2>2, <2>4, <2>6
<1> HIDE DEF t
<1>6. Len(t) = w + 1 /\ t[i] = b
  <2>1. (i - 1) + 1 = i /\ (i - 1) + 1 + (w - i + 1) = w + 1
    BY <1>1, <1>2
  <2>. QED BY <1>3, <1>4, <1>5, <2>1
<1>7. ASSUME NEW x \in 1 .. w, x < i PROVE t[x] = s[x]
  <2>1. x \in 1 .. i - 1
    BY <1>1, <1>2, <1>7
  <2>. QED BY <1>3, <1>5, <2>1
<1>8. ASSUME NEW x \in 1 .. w, x >= i PROVE t[x + 1] = s[x]
  <2>1. PICK y \in Int : y = x - i + 1
    BY <1>1, <1>2
  <2>2. y \in 1 .. w - i + 1 /\ (i - 1) + 1 + y = x + 1 /\ i + y - 1 = x
    BY <1>1, <1>2, <1>8, <2>1
  <2>3. t[(i - 1) + 1 + y] = v[y]
    BY <1>3, <1>4, <1>5, <2>2
  <2>. QED BY <1>4, <2>2, <2>3
<1>. QED BY <1>1, <1>6, <1>7, <1>8 DEF t, u, v, InsertAt

(* And one with a byte less: those after it move one to the front.         *)
LEMMA Losing ==
  ASSUME NEW s \in Seq(Bytes), NEW i \in 1 .. Len(s)
  PROVE  LET t == RemoveAt(s, i)
         IN  /\ Len(t) = Len(s) - 1
             /\ \A x \in 1 .. Len(s) : x < i => t[x] = s[x]
             /\ \A x \in 1 .. Len(s) : x > i => t[x - 1] = s[x]
<1> DEFINE u == SubSeq(s, 1, i - 1)
           v == SubSeq(s, i + 1, Len(s))
           t == u \o v
<1>1. PICK w \in Nat : w = Len(s)
  OBVIOUS
<1>2. i \in Nat /\ 1 <= i /\ i <= w
  BY <1>1
<1>3. /\ u \in Seq(Bytes) /\ Len(u) = i - 1
      /\ \A x \in 1 .. i - 1 : u[x] = s[x]
  BY <1>1, <1>2
<1>4. /\ v \in Seq(Bytes) /\ Len(v) = w - i
      /\ \A x \in 1 .. w - i : v[x] = s[i + x]
  BY <1>1, <1>2
<1> HIDE DEF u, v
<1>5. /\ Len(t) = Len(u) + Len(v)
      /\ \A x \in 1 .. Len(u) : t[x] = u[x]
      /\ \A x \in 1 .. Len(v) : t[Len(u) + x] = v[x]
  <2>1. u \in Seq(Bytes) /\ v \in Seq(Bytes)
    BY <1>3, <1>4
  <2>. QED BY <2>1
<1> HIDE DEF t
<1>6. Len(t) = w - 1
  BY <1>1, <1>2, <1>3, <1>4, <1>5
<1>7. ASSUME NEW x \in 1 .. w, x < i PROVE t[x] = s[x]
  <2>1. x \in 1 .. i - 1
    BY <1>1, <1>2, <1>7
  <2>. QED BY <1>3, <1>5, <2>1
<1>8. ASSUME NEW x \in 1 .. w, x > i PROVE t[x - 1] = s[x]
  <2>1. PICK y \in Int : y = x - i
    BY <1>1, <1>2
  <2>2. y \in 1 .. w - i /\ (i - 1) + y = x - 1 /\ i + y = x
    BY <1>1, <1>2, <1>8, <2>1
  <2>3. t[(i - 1) + y] = v[y]
    BY <1>3, <1>4, <1>5, <2>2
  <2>. QED BY <1>4, <2>2, <2>3
<1>. QED BY <1>1, <1>6, <1>7, <1>8 DEF t, u, v, RemoveAt

(* A byte is added to a line that has not been disturbed.                  *)
LEMMA ByteAdded ==
  ASSUME SlipTypes, wire' \in Seq(Bytes), UNCHANGED <<sent, call>>,
         NEW N, NEW e, NEW lab, Labels(lab), Stream(N, e, lab),
         CleanLabels(lab), CleanStream(N, e), NEW i \in 1 .. Len(wire) + 1, NEW b \in Bytes,
         wire' = InsertAt(wire, i, b)
  PROVE  \E M, f, new : Labels(new)' /\ Stream(M, f, new)'
<1>1. PICK w, r \in Nat : w = Len(wire) /\ r = EndsRead
  BY TypesOfPackets
<1>2. i \in Nat /\ 1 <= i /\ i <= w + 1
  BY <1>1
<1>3. /\ Len(wire') = w + 1 /\ wire'[i] = b
      /\ \A x \in 1 .. w : x < i => wire'[x] = wire[x]
      /\ \A x \in 1 .. w : x >= i => wire'[x + 1] = wire[x]
  <2>1. wire \in Seq(Bytes)
    BY DEF SlipTypes
  <2>2. /\ Len(wire') = Len(wire) + 1 /\ wire'[i] = b
        /\ \A x \in 1 .. Len(wire) : x < i => wire'[x] = wire[x]
        /\ \A x \in 1 .. Len(wire) : x >= i => wire'[x + 1] = wire[x]
    BY <2>1, Adding
  <2>. QED BY <1>1, <2>2
<1>4. EndsRead' = EndsRead /\ UNCHANGED sent
  BY DEF EndsRead, call
<1>5. Borders(N, e)
  BY DEF Stream
<1>6. PICK m \in r .. N : e[m] < i /\ i <= e[m + 1]
  BY <1>1, <1>5, Between
<1>7. N \in Nat /\ m \in Nat /\ r <= m /\ m <= N /\ m + 1 \in Nat
  BY <1>1, <1>5, <1>6 DEF Borders
<1>8. PICK a, z \in Int : a = e[m] /\ z = e[m + 1]
  BY <1>5, <1>7 DEF Borders
<1>9. CASE b = END
  <2>1. PICK f : /\ Borders(N + 1, f)' /\ \A j \in 0 .. m : f[j] = e[j]
                 /\ \A j \in EndsRead .. m - 1, k \in Int :
                      k <= Len(sent) /\ Segment(e, j, k) => Segment(f, j, k)'
                 /\ \A j \in m + 1 .. N, k \in Int :
                      k <= Len(sent) /\ Segment(e, j, k) => Segment(f, j + 1, k)'
    BY <1>1, <1>2, <1>3, <1>4, <1>5, <1>6, <1>7, <1>9, Split
  <2>2. PICK t \in {-1, 0, 1} : t = 1
    OBVIOUS
  <2>3. t # -1 /\ m <= N + t /\ (IF t = -1 THEN m + 2 ELSE m + 1) = m + 1
    BY <1>7, <2>2
  <2>4. \E new : Labels(new)' /\ Stream(N + t, f, new)'
    <3>1. Carried(e, f, N, m, t)
      BY <2>1, <2>2, <2>3 DEF Carried
    <3>2. EndsRead <= m /\ m <= N /\ m \in Nat
      BY <1>1, <1>7
    <3>. QED BY <2>3, <3>1, <3>2, Relabelled
  <2>. QED BY <2>4
<1>10. CASE b # END
  <2>1. PICK d \in {0, 1} : d = 0
    OBVIOUS
  <2>2. m + d + 1 = m + 1 /\ m + d <= N /\ N - d = N
    BY <1>7, <2>1
  <2>3. e[m] < e[m + d + 1] + 1 /\ 1 <= e[m + d + 1] + 1
    BY <1>2, <1>6, <1>8, <2>2
  <2>4. \A x \in 1 .. w : x <= e[m] => wire'[x] = wire[x]
    <3>1. \A x \in 1 .. w : x <= a => x < i
      BY <1>1, <1>2, <1>6, <1>8
    <3>. QED BY <1>3, <1>8, <3>1
  <2>5. \A x \in 1 .. w : x >= e[m + d + 1] => wire'[x + 1] = wire[x]
    <3>1. \A x \in 1 .. w : x >= z => x >= i
      BY <1>1, <1>2, <1>6, <1>8
    <3>. QED BY <1>3, <1>8, <2>2, <3>1
  <2>6. ASSUME NEW x \in 1 .. w + 1, a < x, x < z + 1 PROVE wire'[x] # END
    <3>0. \A y \in 1 .. w : a < y /\ y < z => wire[y] # END
      BY <1>1, <1>5, <1>6, <1>8 DEF Borders
    <3>1. CASE x < i
      <4>1. x \in 1 .. w /\ x < z
        BY <1>1, <1>2, <1>6, <1>8, <3>1
      <4>. QED BY <1>3, <2>6, <3>0, <3>1, <4>1
    <3>2. CASE x = i
      BY <1>3, <1>10, <3>2
    <3>3. CASE x > i
      <4>1. x - 1 \in 1 .. w /\ a < x - 1 /\ x - 1 < z /\ x - 1 >= i /\ (x - 1) + 1 = x
        BY <1>1, <1>2, <1>6, <1>8, <2>6, <3>3
      <4>. QED BY <1>3, <3>0, <4>1
    <3>4. x < i \/ x = i \/ x > i
      BY <1>1, <1>2
    <3>. QED BY <3>1, <3>2, <3>3, <3>4
  <2>7. \A x \in 1 .. Len(wire') : e[m] < x /\ x < e[m + d + 1] + 1 => wire'[x] # END
    BY <1>3, <1>8, <2>2, <2>6
  <2>8. PICK f : /\ Borders(N - d, f)' /\ \A j \in 0 .. m : f[j] = e[j]
                 /\ \A j \in EndsRead .. m - 1, k \in Int :
                      k <= Len(sent) /\ Segment(e, j, k) => Segment(f, j, k)'
                 /\ \A j \in m + d + 1 .. N, k \in Int :
                      k <= Len(sent) /\ Segment(e, j, k) => Segment(f, j - d, k)'
    <3>0. PICK c \in Int : c = 1
      OBVIOUS
    <3>1. Closed(e, m, d, c)
      BY <1>1, <1>3, <2>3, <2>4, <2>5, <2>7, <3>0 DEF Closed
    <3>2. EndsRead <= m
      BY <1>1, <1>7
    <3>3. m \in Nat
      BY <1>7
    <3>4. \E f : Kept(e, f, N, m, d)
      BY <1>4, <1>5, <2>2, <3>1, <3>2, <3>3, Spaced
    <3>. QED BY <3>4 DEF Kept
  <2>9. PICK t \in {-1, 0, 1} : t = 0
    OBVIOUS
  <2>10. t # -1 /\ m <= N + t /\ N + t = N - d /\ (IF t = -1 THEN m + 2 ELSE m + 1) = m + d + 1
    BY <1>7, <2>1, <2>9
  <2>11. \A j \in m + d + 1 .. N : j + t = j - d
    BY <1>7, <2>1, <2>2, <2>9
  <2>12. \E new : Labels(new)' /\ Stream(N + t, f, new)'
    <3>1. \A j \in (IF t = -1 THEN m + 2 ELSE m + 1) .. N, k \in Int :
            k <= Len(sent) /\ Segment(e, j, k) => Segment(f, j + t, k)'
      BY <2>8, <2>10, <2>11
    <3>2. Borders(N + t, f)'
      BY <2>8, <2>10
    <3>3. Carried(e, f, N, m, t)
      BY <2>8, <3>1, <3>2 DEF Carried
    <3>4. EndsRead <= m /\ m <= N /\ m \in Nat
      BY <1>1, <1>7
    <3>. QED BY <2>10, <3>3, <3>4, Relabelled
  <2>. QED BY <2>12
<1>. QED BY <1>9, <1>10

(* A byte is lost of a line that has not been disturbed.                   *)
LEMMA ByteLost ==
  ASSUME SlipTypes, wire' \in Seq(Bytes), UNCHANGED <<sent, call>>,
         NEW N, NEW e, NEW lab, Labels(lab), Stream(N, e, lab),
         CleanLabels(lab), CleanStream(N, e), NEW i \in 1 .. Len(wire),
         wire' = RemoveAt(wire, i)
  PROVE  \E M, f, new : Labels(new)' /\ Stream(M, f, new)'
<1>1. PICK w, r \in Nat : w = Len(wire) /\ r = EndsRead
  BY TypesOfPackets
<1>2. i \in Nat /\ 1 <= i /\ i <= w
  BY <1>1
<1>3. /\ Len(wire') = w + (-1)
      /\ \A x \in 1 .. w : x < i => wire'[x] = wire[x]
      /\ \A x \in 1 .. w : x > i => wire'[x + (-1)] = wire[x]
  <2>1. wire \in Seq(Bytes)
    BY DEF SlipTypes
  <2>2. /\ Len(wire') = w - 1
        /\ \A x \in 1 .. w : x < i => wire'[x] = wire[x]
        /\ \A x \in 1 .. w : x > i => wire'[x - 1] = wire[x]
    BY <1>1, <2>1, Losing
  <2>3. \A x \in 1 .. w : x - 1 = x + (-1)
    BY <1>1
  <2>4. w - 1 = w + (-1)
    BY <1>1
  <2>. QED BY <2>2, <2>3, <2>4
<1>4. EndsRead' = EndsRead /\ UNCHANGED sent
  BY DEF EndsRead, call
<1>5. Borders(N, e)
  BY DEF Stream
<1>6. PICK m \in r .. N : e[m] < i /\ i <= e[m + 1]
  <2>1. i \in 1 .. Len(wire) + 1
    BY <1>1
  <2>. QED BY <1>1, <1>5, <2>1, Between
<1>7. N \in Nat /\ m \in Nat /\ r <= m /\ m <= N /\ m + 1 \in Nat
  BY <1>1, <1>5, <1>6 DEF Borders
<1>8. PICK a, y \in Int : a = e[m] /\ y = e[m + 1]
  BY <1>5, <1>7 DEF Borders
<1>9. PICK d \in {0, 1} : d = IF i = y THEN 1 ELSE 0
  OBVIOUS
<1>10. m + d <= N /\ m + d + 1 \in Nat
  <2>1. e[N + 1] = w + 1
    BY <1>1, <1>5 DEF Borders
  <2>2. m = N => i # y
    BY <1>2, <1>8, <2>1
  <2>. QED BY <1>7, <1>9, <2>2
<1>11. PICK z \in Int : z = e[m + d + 1] /\ i < z
  <2>1. e[m + d + 1] \in Int
    BY <1>5, <1>10 DEF Borders
  <2>2. CASE d = 0
    <3>1. m + d + 1 = m + 1 /\ i # y
      BY <1>7, <1>9, <2>2
    <3>. QED BY <1>2, <1>6, <1>8, <2>1, <3>1
  <2>3. CASE d = 1
    <3>1. m + d + 1 = (m + 1) + 1 /\ i = y /\ m + 1 \in r .. N
      BY <1>1, <1>7, <1>9, <1>10, <2>3
    <3>2. e[m + 1] < e[(m + 1) + 1]
      BY <1>1, <1>5, <3>1 DEF Borders
    <3>. QED BY <1>8, <2>1, <3>1, <3>2
  <2>. QED BY <2>2, <2>3
<1>12. \A x \in 1 .. w : a < x /\ x < z /\ x # i => wire[x] # END
  <2>0. \A x \in 1 .. w : a < x /\ x < y => wire[x] # END
    BY <1>1, <1>5, <1>6, <1>8 DEF Borders
  <2>1. CASE d = 0
    <3>1. m + d + 1 = m + 1
      BY <1>7, <2>1
    <3>. QED BY <1>8, <1>11, <2>0, <3>1
  <2>2. CASE d = 1
    <3>1. m + d + 1 = (m + 1) + 1 /\ i = y /\ m + 1 \in r .. N
      BY <1>1, <1>7, <1>9, <1>10, <2>2
    <3>2. \A x \in 1 .. w : y < x /\ x < z => wire[x] # END
      BY <1>1, <1>5, <1>8, <1>11, <3>1 DEF Borders
    <3>. QED BY <1>1, <1>8, <2>0, <3>1, <3>2
  <2>. QED BY <2>1, <2>2
<1>13. e[m] < e[m + d + 1] + (-1) /\ 1 <= e[m + d + 1] + (-1)
  <2>1. a < i
    BY <1>6, <1>8
  <2>2. a < z + (-1) /\ 1 <= z + (-1)
    BY <1>2, <1>11, <2>1
  <2>. QED BY <1>8, <1>11, <2>2
<1>14. \A x \in 1 .. w : x <= e[m] => wire'[x] = wire[x]
  <2>1. \A x \in 1 .. w : x <= a => x < i
    BY <1>1, <1>2, <1>6, <1>8
  <2>. QED BY <1>3, <1>8, <2>1
<1>15. \A x \in 1 .. w : x >= e[m + d + 1] => wire'[x + (-1)] = wire[x]
  <2>1. \A x \in 1 .. w : x >= z => x > i
    BY <1>1, <1>2, <1>11
  <2>. QED BY <1>3, <1>11, <2>1
<1>16. ASSUME NEW x \in 1 .. w + (-1), a < x, x < z + (-1) PROVE wire'[x] # END
  <2>1. CASE x < i
    <3>1. x \in 1 .. w /\ x < z /\ x # i
      BY <1>1, <1>2, <1>11, <1>16, <2>1
    <3>. QED BY <1>3, <1>12, <1>16, <2>1, <3>1
  <2>2. CASE x >= i
    <3>1. /\ x + 1 \in 1 .. w /\ a < x + 1 /\ x + 1 < z /\ x + 1 > i /\ x + 1 # i
          /\ (x + 1) + (-1) = x
      BY <1>1, <1>2, <1>11, <1>16, <2>2
    <3>. QED BY <1>3, <1>12, <3>1
  <2>3. x < i \/ x >= i
    BY <1>1, <1>2
  <2>. QED BY <2>1, <2>2, <2>3
<1>17. \A x \in 1 .. Len(wire') : e[m] < x /\ x < e[m + d + 1] + (-1) => wire'[x] # END
  BY <1>3, <1>8, <1>11, <1>16
<1>18. PICK f : /\ Borders(N - d, f)' /\ \A j \in 0 .. m : f[j] = e[j]
                /\ \A j \in EndsRead .. m - 1, k \in Int :
                     k <= Len(sent) /\ Segment(e, j, k) => Segment(f, j, k)'
                /\ \A j \in m + d + 1 .. N, k \in Int :
                     k <= Len(sent) /\ Segment(e, j, k) => Segment(f, j - d, k)'
  <2>0. PICK c \in Int : c = -1
    OBVIOUS
  <2>1. Closed(e, m, d, c)
    BY <1>1, <1>3, <1>13, <1>14, <1>15, <1>17, <2>0 DEF Closed
  <2>2. EndsRead <= m
    BY <1>1, <1>7
  <2>3. m \in Nat
    BY <1>7
  <2>4. \E f : Kept(e, f, N, m, d)
    BY <1>4, <1>5, <1>10, <2>1, <2>2, <2>3, Spaced
  <2>. QED BY <2>4 DEF Kept
<1>19. PICK t \in {-1, 0, 1} : t = -d
  OBVIOUS
<1>20. m <= N + t /\ N + t = N - d /\ (IF t = -1 THEN m + 2 ELSE m + 1) = m + d + 1
  BY <1>7, <1>10, <1>19
<1>21. \A j \in m + d + 1 .. N : j + t = j - d
  BY <1>7, <1>10, <1>19
<1>22. \E new : Labels(new)' /\ Stream(N + t, f, new)'
  <2>1. \A j \in (IF t = -1 THEN m + 2 ELSE m + 1) .. N, k \in Int :
          k <= Len(sent) /\ Segment(e, j, k) => Segment(f, j + t, k)'
    BY <1>18, <1>20, <1>21
  <2>2. Borders(N + t, f)'
    BY <1>18, <1>20
  <2>3. Carried(e, f, N, m, t)
    BY <1>18, <2>1, <2>2 DEF Carried
  <2>4. EndsRead <= m /\ m <= N /\ m \in Nat
    BY <1>1, <1>7
  <2>. QED BY <1>20, <2>3, <2>4, Relabelled
<1>. QED BY <1>22

(* The first byte that is lost or added.                                   *)
LEMMA FirstFault ==
  ASSUME SlipTypes, SlipTypes', StreamInv, Disturb, disturbed = 0
  PROVE  StreamInv'
<1>1. disturbed' = 1 /\ UNCHANGED <<sent, call>> /\ wire' \in Seq(Bytes)
  BY DEF Disturb, SlipTypes
<1>2. UNCHANGED <<loop, got>>
  BY <1>1 DEF call
<1>3. PICK lab : /\ Labels(lab) /\ CleanLabels(lab)
                 /\ loop # "closed" => \E N, e : Stream(N, e, lab) /\ CleanStream(N, e)
  BY DEF StreamInv
<1>4. CASE loop = "closed"
  <2>1. Labels(lab)'
    BY <1>1, <1>2, <1>3 DEF Labels
  <2>. QED BY <1>1, <1>2, <1>4, <2>1 DEF StreamInv
<1>5. CASE loop # "closed"
  <2>1. PICK N, e : Stream(N, e, lab) /\ CleanStream(N, e)
    BY <1>3, <1>5
  <2>2. \E M, f, new : Labels(new)' /\ Stream(M, f, new)'
    <3>1. CASE \E i \in DOMAIN wire : wire' = RemoveAt(wire, i)
      <4>1. PICK i \in 1 .. Len(wire) : wire' = RemoveAt(wire, i)
        <5>1. DOMAIN wire = 1 .. Len(wire)
          BY DEF SlipTypes
        <5>. QED BY <3>1, <5>1
      <4>. QED BY <1>1, <1>3, <2>1, <4>1, ByteLost
    <3>2. CASE \E i \in 1 .. Len(wire) + 1, b \in Bytes : wire' = InsertAt(wire, i, b)
      <4>. QED BY <1>1, <1>3, <2>1, <3>2, ByteAdded
    <3>. QED BY <3>1, <3>2 DEF Disturb
  <2>. QED BY <1>1, <1>2, <2>2 DEF StreamInv
<1>. QED BY <1>4, <1>5

(* An answer is sent on a line that nobody reads any more.                 *)
LEMMA SentClosed ==
  ASSUME SlipTypes, StreamInv, write, disturbed <= 1, loop = "closed"
  PROVE  StreamInv'
<1>1. PICK p \in Packets : sent' = Append(sent, p)
  BY DEF write
<1>2. UNCHANGED <<loop, in_escape, frame, got, calls, disturbed>>
  BY DEF write, call
<1>3. PICK lab : Labels(lab) /\ (disturbed = 0 => CleanLabels(lab))
  BY DEF StreamInv
<1>4. PICK s, g \in Nat : s = Len(sent) /\ g = Len(got)
  BY TypesOfPackets
<1>5. /\ Len(sent') = s + 1 /\ \A i \in 1 .. s : sent'[i] = sent[i]
  BY <1>1, <1>4 DEF SlipTypes
<1>6. /\ lab \in [Nat -> Int]
      /\ \A q \in Nat : Spoiled <= lab[q] /\ lab[q] <= s
      /\ \A q \in 1 .. g : /\ lab[q] = 0 => got[q] = <<>>
                           /\ lab[q] > 0 => got[q] = sent[lab[q]]
  BY <1>3, <1>4 DEF Labels
<1>7. ASSUME NEW q \in 1 .. g
      PROVE  /\ lab[q] = 0 => got'[q] = <<>>
             /\ lab[q] > 0 => got'[q] = sent'[lab[q]]
  <2>1. lab[q] \in Int /\ lab[q] <= s
    <3>1. q \in Nat
      BY <1>4
    <3>. QED BY <1>6, <3>1
  <2>2. lab[q] > 0 => lab[q] \in 1 .. s
    BY <1>4, <2>1
  <2>. QED BY <1>2, <1>5, <1>6, <2>2
<1>8. CASE disturbed = 0
  <2> DEFINE l == [q \in Nat |-> IF q <= s + 1 THEN q ELSE 0]
  <2>1. PICK new : new = l
    OBVIOUS
  <2>2. new \in [Nat -> Int] /\ \A q \in Nat : new[q] = IF q <= s + 1 THEN q ELSE 0
    BY <2>1
  <2> HIDE DEF l
  <2>3. g <= s /\ \A q \in Nat : q <= s => lab[q] = q
    BY <1>3, <1>4, <1>8 DEF CleanLabels
  <2>4. ASSUME NEW q \in 1 .. g
        PROVE  /\ new[q] = 0 => got'[q] = <<>>
               /\ new[q] > 0 => got'[q] = sent'[new[q]]
    <3>1. q \in Nat /\ q <= s /\ q <= s + 1
      BY <1>4, <2>3
    <3>2. new[q] = lab[q]
      BY <2>2, <2>3, <3>1
    <3>. QED BY <1>7, <3>2
  <2>5. \A q \in Nat : Spoiled < new[q] /\ new[q] <= s + 1
    BY <1>4, <2>2 DEF Spoiled
  <2>6. \A k, q \in Nat : k < q /\ new[k] > 0 /\ new[q] > 0 => new[k] < new[q]
    BY <2>2
  <2>7. \A q \in Nat : Spoiled <= new[q] /\ new[q] # Spoiled
    <3>1. \A q \in Nat : new[q] \in Int
      BY <2>2
    <3>. QED BY <2>5, <3>1 DEF Spoiled
  <2>8. Labels(new)'
    <3>1. Len(got') = g
      BY <1>2, <1>4
    <3>. QED BY <1>5, <2>2, <2>4, <2>5, <2>6, <2>7, <3>1 DEF Labels
  <2>9. CleanLabels(new)'
    <3>1. g <= s + 1 /\ Len(got') = g
      BY <1>2, <1>4, <2>3
    <3>. QED BY <1>5, <2>2, <3>1 DEF CleanLabels
  <2>. QED BY <1>2, <2>8, <2>9 DEF StreamInv
<1>9. CASE disturbed # 0
  <2>1. \A q \in Nat : Spoiled <= lab[q] /\ lab[q] <= s + 1
    BY <1>4, <1>6
  <2>2. Labels(lab)'
    <3>1. Len(got') = g
      BY <1>2, <1>4
    <3>. QED BY <1>3, <1>5, <1>6, <1>7, <2>1, <3>1 DEF Labels
  <2>3. disturbed' # 0
    BY <1>2, <1>9
  <2>. QED BY <1>2, <2>2, <2>3 DEF StreamInv
<1>. QED BY <1>8, <1>9

(* Every step keeps the invariant.                                         *)
LEMMA SlipStep == SlipInv /\ [SlipNext]_slipvars => SlipInv'
<1> SUFFICES ASSUME SlipInv, [SlipNext]_slipvars PROVE SlipInv'
  OBVIOUS
<1>t. SlipTypes /\ SlipTypes' /\ StreamInv
  BY SlipTypesStep DEF SlipInv
<1> SUFFICES ASSUME disturbed' <= 1 PROVE StreamInv'
  BY <1>t DEF SlipInv, StreamInv
<1>1. CASE Disturb
  <2>1. disturbed = 0
    BY <1>1, <1>t DEF Disturb, SlipTypes
  <2>. QED BY <1>1, <1>t, <2>1, FirstFault
<1> SUFFICES ASSUME ~Disturb PROVE StreamInv'
  BY <1>1
<1>d. UNCHANGED disturbed /\ disturbed <= 1
  <2>1. UNCHANGED disturbed
    BY DEF SlipNext, write, recv_one_return, Call, Deadline, WaitFrameStart, FrameEnd, FrameByte,
           BadEscape, slipvars
  <2>. QED BY <2>1
<1>l. PICK lab :
        /\ Labels(lab) /\ (disturbed = 0 => CleanLabels(lab))
        /\ loop # "closed" =>
             \E N, e : Stream(N, e, lab) /\ (disturbed = 0 => CleanStream(N, e))
  BY <1>t, <1>d DEF StreamInv
<1>2. CASE write
  <2>1. CASE loop = "closed"
    BY <1>2, <1>d, <1>t, <2>1, SentClosed
  <2>2. CASE loop # "closed"
    <3>1. PICK N, e : Stream(N, e, lab) /\ (disturbed = 0 => CleanStream(N, e))
      BY <1>l, <2>2
    <3>2. PICK f, new : /\ Labels(new)' /\ Stream(N + 2, f, new)'
                        /\ CleanLabels(lab) /\ CleanStream(N, e) =>
                             CleanLabels(new)' /\ CleanStream(N + 2, f)'
      BY <1>2, <1>l, <1>t, <3>1, Sent
    <3>. QED BY <1>d, <1>l, <3>1, <3>2 DEF StreamInv
  <2>. QED BY <2>1, <2>2
<1>3. CASE Call
  <2>1. /\ loop = "idle" /\ loop' = "start" /\ in_escape' = FALSE /\ frame' = <<>>
        /\ UNCHANGED <<sent, wire, got, disturbed>>
    BY <1>3 DEF Call
  <2>2. PICK N, e : Stream(N, e, lab) /\ (disturbed = 0 => CleanStream(N, e))
    BY <1>l, <2>1
  <2>3. EndsRead' = EndsRead
    BY <2>1 DEF EndsRead
  <2>4. Borders(N, e)' /\ \A j, k : Segment(e, j, k) => Segment(e, j, k)'
    BY <2>1, <2>2, <2>3 DEF Stream, Borders, Segment
  <2>5. Stream(N, e, lab)'
    BY <2>1, <2>2, <2>3, <2>4 DEF Stream
  <2>6. CleanStream(N, e) => CleanStream(N, e)'
    BY <2>1, <2>3, <2>4 DEF CleanStream
  <2>7. Labels(lab)' /\ (disturbed = 0 => CleanLabels(lab)')
    BY <1>l, <2>1 DEF Labels, CleanLabels
  <2>. QED BY <1>d, <2>2, <2>5, <2>6, <2>7 DEF StreamInv
<1>4. CASE Deadline \/ BadEscape
  <2>1. loop' = "closed" /\ UNCHANGED <<sent, got, disturbed>>
    BY <1>4 DEF Deadline, BadEscape
  <2>2. Labels(lab)' /\ (disturbed = 0 => CleanLabels(lab)')
    BY <1>l, <2>1 DEF Labels, CleanLabels
  <2>. QED BY <1>d, <2>1, <2>2 DEF StreamInv
<1>5. CASE WaitFrameStart
  <2>1. loop = "start" /\ UNCHANGED <<sent, got>>
    BY <1>5 DEF WaitFrameStart
  <2>2. PICK N, e : Stream(N, e, lab) /\ (disturbed = 0 => CleanStream(N, e))
    BY <1>l, <2>1
  <2>3. PICK f : Stream(N, f, lab)' /\ (CleanStream(N, e) => CleanStream(N, f)')
    BY <1>5, <1>l, <1>t, <2>2, FrameBegins
  <2>4. Labels(lab)' /\ (disturbed = 0 => CleanLabels(lab)')
    BY <1>l, <2>1 DEF Labels, CleanLabels
  <2>. QED BY <1>d, <2>2, <2>3, <2>4 DEF StreamInv
<1>6. CASE FrameEnd
  <2>1. loop = "frame"
    BY <1>6 DEF FrameEnd
  <2>2. PICK N, e : Stream(N, e, lab) /\ (disturbed = 0 => CleanStream(N, e))
    BY <1>l, <2>1
  <2>3. PICK f : /\ Labels(lab)' /\ Stream(N, f, lab)' /\ (CleanStream(N, e) => CleanStream(N, f)')
                 /\ CleanLabels(lab) /\ CleanStream(N, e) => CleanLabels(lab)'
    BY <1>6, <1>l, <1>t, <2>2, FrameEnds
  <2>. QED BY <1>d, <1>l, <2>2, <2>3 DEF StreamInv
<1>7. CASE FrameByte
  <2>1. loop = "frame" /\ UNCHANGED <<sent, got>>
    BY <1>7 DEF FrameByte
  <2>2. PICK N, e : Stream(N, e, lab) /\ (disturbed = 0 => CleanStream(N, e))
    BY <1>l, <2>1
  <2>3. PICK f : Stream(N, f, lab)' /\ (CleanStream(N, e) => CleanStream(N, f)')
    BY <1>7, <1>l, <1>t, <2>2, OneByteMore
  <2>4. Labels(lab)' /\ (disturbed = 0 => CleanLabels(lab)')
    BY <1>l, <2>1 DEF Labels, CleanLabels
  <2>. QED BY <1>d, <2>2, <2>3, <2>4 DEF StreamInv
<1>8. CASE UNCHANGED slipvars
  <2>1. UNCHANGED <<sent, wire, loop, in_escape, frame, got, calls, disturbed>>
    BY <1>8 DEF slipvars, call
  <2>2. EndsRead' = EndsRead
    BY <2>1 DEF EndsRead
  <2>3. /\ \A e, j, k : Segment(e, j, k)' <=> Segment(e, j, k)
        /\ \A p, r, n, x : Reading(p, r, n, x)' <=> Reading(p, r, n, x)
        /\ \A N, e : Borders(N, e)' <=> Borders(N, e)
    BY <2>1, <2>2 DEF Segment, Reading, Borders
  <2>4. Labels(lab)' /\ (disturbed = 0 => CleanLabels(lab)')
    BY <1>l, <2>1 DEF Labels, CleanLabels
  <2>5. ASSUME loop # "closed"
        PROVE  \E N, e : Stream(N, e, lab)' /\ (disturbed = 0 => CleanStream(N, e)')
    <3>1. PICK N, e : Stream(N, e, lab) /\ (disturbed = 0 => CleanStream(N, e))
      BY <1>l, <2>5
    <3>2. \A n, x : Reading(sent[lab[Len(got) + 1]], -e[EndsRead], n, x) =>
                      Reading(sent[lab[Len(got) + 1]], -e[EndsRead], n, x)'
      BY <2>1, <2>2 DEF Reading
    <3>3. Stream(N, e, lab)'
      BY <2>1, <2>2, <2>3, <3>1, <3>2 DEF Stream
    <3>4. CleanStream(N, e) => CleanStream(N, e)'
      BY <2>1, <2>2, <2>3 DEF CleanStream
    <3>. QED BY <3>1, <3>3, <3>4
  <2>. QED BY <2>1, <2>4, <2>5 DEF StreamInv
<1>. QED BY <1>2, <1>3, <1>4, <1>5, <1>6, <1>7, <1>8 DEF SlipNext, recv_one_return

(* The invariant holds whatever the answers are, however many there are and*)
(* however the reads fall, until a second byte is lost or added.           *)
THEOREM SlipInductive == SlipSpec => []SlipInv
<1>. QED BY SlipStart, SlipStep, PTL DEF SlipSpec

(* On an undisturbed line recv_one_return() returns the answers whole and  *)
(* in order (ktool.py:761-804).                                            *)
THEOREM FramesArriveInOrder == SlipSpec => []CleanLineIsFifo
<1>1. SlipInv => CleanLineIsFifo
  <2> SUFFICES ASSUME SlipInv, disturbed = 0 PROVE IsPrefix(got, sent)
    BY DEF CleanLineIsFifo
  <2>0. Len(got) \in Nat /\ Len(sent) \in Nat
    BY TypesOfPackets DEF SlipInv
  <2>1. Len(got) <= Len(sent) /\ (\A i \in 1 .. Len(got) : got[i] = sent[i])
    <3>1. PICK lab : Labels(lab) /\ CleanLabels(lab)
      BY DEF SlipInv, StreamInv
    <3>2. \A i \in 1 .. Len(got) : i \in Nat /\ i <= Len(sent) /\ i > 0
      BY <2>0, <3>1 DEF CleanLabels
    <3>. QED BY <3>1, <3>2 DEF Labels, CleanLabels
  <2>2. SubSeq(got, 1, Len(got)) = SubSeq(sent, 1, Len(got))
    BY <2>0, <2>1 DEF SlipInv, SlipTypes
  <2>. QED BY <2>0, <2>1, <2>2 DEF IsPrefix
<1>. QED BY <1>1, SlipInductive, PTL

(* A byte that is lost or added spoils one answer at most: every other one *)
(* that is returned is empty or is one that was sent, in the order in which*)
(* they were sent (ktool.py:761-804).                                      *)
THEOREM OneAnswerSpoiled == SlipSpec => []OneByteSpoilsOne
<1>1. SlipInv => OneByteSpoilsOne
  <2> SUFFICES ASSUME SlipInv, disturbed <= 1
               PROVE  \E spoiled \in 1 .. Len(got) + 1 :
                        LET others == {k \in DOMAIN got : k # spoiled /\ got[k] # <<>>}
                        IN  \E at \in [others -> DOMAIN sent] :
                              /\ \A k \in others : got[k] = sent[at[k]]
                              /\ \A j, k \in others : j < k => at[j] < at[k]
    BY DEF OneByteSpoilsOne
  <2>1. PICK lab : Labels(lab)
    BY DEF SlipInv, StreamInv
  <2>2. PICK s, g \in Nat : s = Len(sent) /\ g = Len(got)
    BY TypesOfPackets DEF SlipInv
  <2>3. DOMAIN got = 1 .. g /\ DOMAIN sent = 1 .. s
    BY <2>2 DEF SlipInv, SlipTypes
  <2>4. PICK spoiled \in 1 .. g + 1 : \A q \in 1 .. g : lab[q] = Spoiled => q = spoiled
    <3>1. CASE \E q \in 1 .. g : lab[q] = Spoiled
      <4>1. PICK q \in 1 .. g : lab[q] = Spoiled
        BY <3>1
      <4>2. q \in 1 .. g + 1 /\ \A p \in 1 .. g : p \in Nat
        BY <2>2
      <4>3. \A p \in 1 .. g : lab[p] = Spoiled => p = q
        BY <2>1, <4>1, <4>2 DEF Labels
      <4>. QED BY <4>2, <4>3
    <3>2. CASE ~\E q \in 1 .. g : lab[q] = Spoiled
      <4>1. g + 1 \in 1 .. g + 1
        BY <2>2
      <4>. QED BY <3>2, <4>1
    <3>. QED BY <3>1, <3>2
  <2> DEFINE others == {k \in DOMAIN got : k # spoiled /\ got[k] # <<>>}
             at == [k \in others |-> lab[k]]
  <2>5. ASSUME NEW k \in others
        PROVE  k \in Nat /\ lab[k] \in 1 .. s /\ lab[k] > 0 /\ got[k] = sent[lab[k]]
    <3>1. k \in 1 .. g /\ k \in Nat /\ k # spoiled /\ got[k] # <<>>
      BY <2>2, <2>3
    <3>2. lab[k] # Spoiled /\ lab[k] # 0
      BY <2>1, <2>2, <2>4, <3>1 DEF Labels
    <3>3. lab[k] \in Int /\ Spoiled <= lab[k] /\ lab[k] <= s
      BY <2>1, <2>2, <3>1 DEF Labels
    <3>4. lab[k] > 0
      BY <3>2, <3>3 DEF Spoiled
    <3>. QED BY <2>1, <2>2, <3>1, <3>3, <3>4 DEF Labels
  <2>6. at \in [others -> DOMAIN sent]
    BY <2>3, <2>5
  <2>7. \A k \in others : got[k] = sent[at[k]]
    BY <2>5
  <2>8. \A j, k \in others : j < k => at[j] < at[k]
    <3>1. \A j, k \in others : j < k => lab[j] < lab[k]
      BY <2>1, <2>5 DEF Labels
    <3>. QED BY <3>1
  <2>9. spoiled \in 1 .. Len(got) + 1
    BY <2>2
  <2> HIDE DEF at
  <2>. QED BY <2>6, <2>7, <2>8, <2>9
<1>. QED BY <1>1, SlipInductive, PTL

-----------------------------------------------------------------------------
(* The files of link_app.py.                                               *)

(* What sorted() promises of its result.                                   *)
Ascending(s, S) ==
  /\ s \in [1 .. Cardinality(S) -> S]
  /\ ToSet(s) = S
  /\ \A i, j \in DOMAIN s : i < j => s[i] < s[j]

(* One more program, the first of all by name, goes to the head.           *)
LEMMA SmallestFirst ==
  ASSUME NEW S, IsFiniteSet(S), S \subseteq Nat, NEW m \in S,
         \A x \in S : x # m => m < x,
         NEW t, Ascending(t, S \ {m})
  PROVE  \E s : Ascending(s, S)
<1> DEFINE n == Cardinality(S \ {m})
           s == [i \in 1 .. n + 1 |-> IF i = 1 THEN m ELSE t[i - 1]]
<1>1. /\ n \in Nat /\ Cardinality(S) = n + 1
      /\ DOMAIN t = 1 .. n /\ \A i \in 1 .. n : t[i] \in S \ {m}
  <2>1. IsFiniteSet(S \ {m}) /\ n = Cardinality(S) - 1 /\ Cardinality(S) \in Nat
    BY FS_RemoveElement, FS_CardinalityType
  <2>2. n \in Nat
    BY <2>1, FS_CardinalityType
  <2>3. t \in [1 .. n -> S \ {m}]
    BY DEF Ascending
  <2> HIDE DEF n
  <2>. QED BY <2>1, <2>2, <2>3
<1> HIDE DEF n
<1>2. s \in [1 .. Cardinality(S) -> S]
  <2>1. \A i \in 1 .. n + 1 : i # 1 => i - 1 \in 1 .. n
    BY <1>1
  <2>2. \A i \in 1 .. n + 1 : (IF i = 1 THEN m ELSE t[i - 1]) \in S
    BY <1>1, <2>1
  <2>. QED BY <1>1, <2>2
<1>3. ToSet(s) = S
  <2>1. \A i \in DOMAIN s : s[i] \in S
    BY <1>1, <1>2
  <2>2. ASSUME NEW x \in S PROVE \E i \in DOMAIN s : s[i] = x
    <3>1. CASE x = m
      <4>1. 1 \in 1 .. n + 1
        BY <1>1
      <4>. QED BY <3>1, <4>1
    <3>2. CASE x # m
      <4>1. x \in ToSet(t)
        BY <3>2 DEF Ascending
      <4>2. PICK k \in 1 .. n : t[k] = x
        BY <4>1, <1>1 DEF ToSet
      <4>3. k + 1 \in 1 .. n + 1 /\ k + 1 # 1 /\ (k + 1) - 1 = k
        BY <1>1
      <4>4. s[k + 1] = x
        BY <4>2, <4>3
      <4>. QED BY <4>3, <4>4
    <3>. QED BY <3>1, <3>2
  <2> HIDE DEF s
  <2>. QED BY <2>1, <2>2 DEF ToSet
<1>4. ASSUME NEW i \in DOMAIN s, NEW j \in DOMAIN s, i < j
      PROVE  s[i] < s[j]
  <2>1. i \in 1 .. n + 1 /\ j \in 1 .. n + 1 /\ j # 1 /\ j - 1 \in 1 .. n
    BY <1>1, <1>4
  <2>2. s[j] = t[j - 1] /\ t[j - 1] \in S /\ t[j - 1] # m
    BY <1>1, <2>1
  <2>3. CASE i = 1
    BY <2>1, <2>2, <2>3
  <2>4. CASE i # 1
    <3>1. i - 1 \in 1 .. n /\ i - 1 < j - 1
      BY <1>1, <1>4, <2>1, <2>4
    <3>2. s[i] = t[i - 1]
      BY <2>1, <2>4
    <3>3. t[i - 1] < t[j - 1]
      BY <1>1, <2>1, <3>1 DEF Ascending
    <3>. QED BY <2>2, <3>2, <3>3
  <2>. QED BY <2>3, <2>4
<1>. QED BY <1>2, <1>3, <1>4 DEF Ascending

(* Every finite set of names can be listed in order, so sorted() has a     *)
(* result: by induction over the number of names.                          *)
LEMMA SortedIs ==
  ASSUME NEW S, IsFiniteSet(S), S \subseteq Nat
  PROVE  Ascending(sorted(S), S)
<1> DEFINE P == {k \in Nat : \A U \in SUBSET S : Cardinality(U) = k => \E s : Ascending(s, U)}
<1>0. \A U \in SUBSET S : IsFiniteSet(U) /\ Cardinality(U) \in Nat /\ U \subseteq Nat
  BY FS_Subset, FS_CardinalityType
<1>1. 0 \in P
  <2> SUFFICES ASSUME NEW U \in SUBSET S, Cardinality(U) = 0 PROVE \E s : Ascending(s, U)
    OBVIOUS
  <2>1. U = {}
    BY <1>0, FS_EmptySet
  <2>2. <<>> \in [1 .. 0 -> {}] /\ DOMAIN <<>> = {}
    OBVIOUS
  <2>3. Ascending(<<>>, U)
    BY <2>1, <2>2, FS_EmptySet DEF Ascending, ToSet
  <2>. QED BY <2>3
<1>2. ASSUME NEW k \in Nat, k \in P PROVE k + 1 \in P
  <2> SUFFICES ASSUME NEW U \in SUBSET S, Cardinality(U) = k + 1 PROVE \E s : Ascending(s, U)
    OBVIOUS
  <2>1. U # {}
    BY FS_EmptySet
  <2> DEFINE LT == {x \in Nat \X Nat : x[1] < x[2]}
  <2>2. IsWellFoundedOn(LT, Nat)
    BY NatLessThanWellFounded DEF OpToRel
  <2>3. PICK m \in U : \A y \in U : ~(<<y, m>> \in LT)
    <3> HIDE DEF LT
    <3>. QED BY <1>0, <2>1, <2>2, WFMin
  <2>4. \A y \in U : y # m => m < y
    <3> SUFFICES ASSUME NEW y \in U, y # m PROVE m < y
      OBVIOUS
    <3>1. y \in Nat /\ m \in Nat
      BY <1>0
    <3>2. ~(y < m)
      BY <2>3, <3>1
    <3>. QED BY <3>1, <3>2
  <2>5. U \ {m} \in SUBSET S /\ Cardinality(U \ {m}) = k
    BY <1>0, FS_RemoveElement
  <2>6. PICK t : Ascending(t, U \ {m})
    BY <1>2, <2>5
  <2>. QED BY <1>0, <2>4, <2>6, SmallestFirst
<1>3. \E s : Ascending(s, S)
  <2> DEFINE n == Cardinality(S)
  <2>1. n \in Nat /\ n \in 0 .. n
    BY FS_CardinalityType
  <2>2. P \in SUBSET Nat
    OBVIOUS
  <2>3. \A k \in 0 .. n : k \in P
    <3> HIDE DEF P
    <3>1. \A k \in 0 .. n - 1 : k \in P => k + 1 \in P
      BY <1>2, <2>1
    <3>. QED BY <1>1, <2>1, <2>2, <3>1, UpTo
  <2>. QED BY <2>1, <2>3
<1>. QED BY <1>3 DEF sorted, Ascending

(* However the directory is listed, every entry of it is in the listing.   *)
LEMMA ListingHasAll ==
  ASSUME NEW S, IsFiniteSet(S), NEW listing \in SetToSeqs(S)
  PROVE  ToSet(listing) = S
<1> DEFINE D == 1 .. Cardinality(S)
<1>1. Cardinality(S) \in Nat
  BY FS_CardinalityType
<1>2. listing \in [D -> S] /\ \A i, j \in D : i # j => listing[i] # listing[j]
  BY DEF SetToSeqs
<1>3. listing \in Injection(D, S)
  BY <1>2 DEF Injection, IsInjective
<1>4. IsFiniteSet(D) /\ Cardinality(D) = Cardinality(S)
  BY <1>1, FS_Interval
<1>5. listing \in Surjection(D, S)
  <2> HIDE DEF D
  <2>. QED BY <1>3, <1>4, FS_Injection
<1>. QED BY <1>2, <1>5 DEF Surjection, ToSet

(* The types of the variables.                                             *)
LinkTypes ==
  /\ build \in [Names -> {"absent", "file", "dir"}]
  /\ step \in {"idle", "order", "table", "done"}
  /\ filesystem_mode \in BOOLEAN
  /\ links \in Nat
  /\ built \in SUBSET Names

(* A run that has listed the programs holds the sorted list of those there *)
(* were; what it has written since is that list, and nothing older.        *)
LinkInv ==
  /\ LinkTypes
  /\ step # "idle" => Ascending(elf_files, built)
  /\ step \in {"table", "done"} => order = elf_files
  /\ step = "done" =>
       table = IF filesystem_mode THEN Empty ELSE [num |-> Len(elf_files), apps |-> elf_files]

(* Nothing is listed twice.                                                *)
LEMMA SortedLen ==
  ASSUME NEW S, IsFiniteSet(S), NEW s, Ascending(s, S)
  PROVE  Len(s) = Cardinality(S)
<1>1. Cardinality(S) \in Nat
  BY FS_CardinalityType
<1>. QED BY <1>1 DEF Ascending

(* Whatever order listdir() gives, the list is the sorted one.             *)
LEMMA ListTheFiles ==
  ASSUME LinkTypes, NEW listing \in SetToSeqs({f \in Names : build[f] # "absent"})
  PROVE  Ascending(collect_elf_files(listing), Programs)
<1> DEFINE S == {f \in Names : build[f] # "absent"}
<1>1. IsFiniteSet(S) /\ IsFiniteSet(Programs) /\ Programs \subseteq Nat
  <2>1. S \in SUBSET Names /\ Programs \in SUBSET Names
    BY DEF Programs
  <2>. QED BY <2>1, FS_Subset, LinkAppAssumption
<1>2. ToSet(listing) = S
  BY <1>1, ListingHasAll
<1>3. {f \in ToSet(listing) : build[f] = "file"} = Programs
  BY <1>2 DEF Programs, LinkTypes
<1>. QED BY <1>1, <1>3, SortedIs DEF collect_elf_files

(* Every step of link_app.py, of the build and of whatever interrupts them *)
(* keeps the invariant.                                                    *)
THEOREM LinkInductive == LinkSpec => []LinkInv
<1>1. LinkInit => LinkInv
  <2> SUFFICES ASSUME LinkInit PROVE LinkInv
    OBVIOUS
  <2>1. LinkTypes
    <3>1. build \in [Names -> {"absent", "file", "dir"}]
      BY DEF LinkInit
    <3>. QED BY <3>1 DEF LinkInit, LinkTypes
  <2>2. step = "idle"
    BY DEF LinkInit
  <2>. QED BY <2>1, <2>2 DEF LinkInv
<1>2. LinkInv /\ [LinkNext]_linkvars => LinkInv'
  <2> SUFFICES ASSUME LinkInv, [LinkNext]_linkvars PROVE LinkInv'
    OBVIOUS
  <2>0. LinkTypes
    BY DEF LinkInv
  <2>1. CASE Rebuild
    <3>1. LinkTypes'
      BY <2>0, <2>1 DEF Rebuild, LinkTypes
    <3>. QED BY <2>1, <3>1 DEF LinkInv, Rebuild
  <2>2. CASE ListPrograms
    <3>1. PICK listing \in SetToSeqs({f \in Names : build[f] # "absent"}) :
            elf_files' = collect_elf_files(listing)
      BY <2>2 DEF ListPrograms
    <3>2. step' = "order" /\ built' = Programs /\ filesystem_mode' \in BOOLEAN
          /\ links' = links + 1 /\ build' = build
      BY <2>2 DEF ListPrograms
    <3>3. Ascending(collect_elf_files(listing), Programs)
      BY <2>0, ListTheFiles
    <3>4. Programs \subseteq Names
      BY DEF Programs
    <3>5. LinkTypes'
      BY <2>0, <3>2, <3>4 DEF LinkTypes
    <3>6. Ascending(elf_files', built')
      BY <3>1, <3>2, <3>3
    <3>. QED BY <3>2, <3>5, <3>6 DEF LinkInv, Ascending
  <2>3. CASE write_manifest_order
    <3>1. LinkTypes'
      BY <2>0, <2>3 DEF write_manifest_order, LinkTypes
    <3>. QED BY <2>3, <3>1 DEF LinkInv, write_manifest_order, Ascending
  <2>4. CASE generate_stub_link_app
    <3>1. LinkTypes'
      BY <2>0, <2>4 DEF generate_stub_link_app, LinkTypes
    <3>. QED BY <2>4, <3>1 DEF LinkInv, generate_stub_link_app, Ascending, Empty
  <2>5. CASE generate_link_app
    <3>1. LinkTypes'
      BY <2>0, <2>5 DEF generate_link_app, LinkTypes
    <3>. QED BY <2>5, <3>1 DEF LinkInv, generate_link_app, Ascending
  <2>6. CASE Interrupt
    <3>1. LinkTypes'
      BY <2>0, <2>6 DEF Interrupt, LinkTypes
    <3>. QED BY <2>6, <3>1 DEF LinkInv, Interrupt
  <2>7. CASE UNCHANGED linkvars
    BY <2>7 DEF LinkInv, LinkTypes, linkvars, Ascending
  <2>. QED BY <2>1, <2>2, <2>3, <2>4, <2>5, <2>6, <2>7 DEF LinkNext
<1>. QED BY <1>1, <1>2, PTL DEF LinkSpec

(* After a run manifest.order and link_app.S list the same programs, those *)
(* that were built, once each and by name (link_app.py:85-99).             *)
THEOREM TablesAlwaysAgree == LinkSpec => []TablesAgree
<1>1. LinkInv => TablesAgree
  <2> SUFFICES ASSUME LinkInv, step = "done" PROVE TablesAgree
    BY DEF TablesAgree
  <2>1. Ascending(order, built) /\ IsFiniteSet(built) /\ order = elf_files
    BY FS_Subset, LinkAppAssumption DEF LinkInv, LinkTypes
  <2>2. Len(order) = Cardinality(built)
    BY <2>1, SortedLen
  <2>. QED BY <2>1, <2>2 DEF TablesAgree, LinkInv, Ascending
<1>. QED BY <1>1, LinkInductive, PTL

-----------------------------------------------------------------------------
(* The scanner of test_runner.py, for every capture, every set of oracles  *)
(* and every assert they make.                                             *)

(* Lines of a capture have one of the four kinds and a test name.          *)
LEMMA LineType ==
  ASSUME log \in Logs, NEW p \in DOMAIN log
  PROVE  /\ log[p].kind \in {"start", "end", "text", "blank"}
         /\ log[p].test \in Tests
<1>1. log \in Seq(Line)
  BY RunnerAssumption
<1>2. log[p] \in Line
  BY <1>1
<1>. QED BY <1>2 DEF Line

(* The types of the scanner's variables.                                   *)
THEOREM RunnerTyping == Spec => []TypeOK
<1>1. Init => TypeOK
  BY DEF Init, TypeOK
<1>2. TypeOK /\ [Next]_vars => TypeOK'
  <2> SUFFICES ASSUME TypeOK, [Next]_vars PROVE TypeOK'
    OBVIOUS
  <2>s. /\ log \in Seq(Line) /\ Len(log) \in Nat /\ DOMAIN log = 1 .. Len(log)
        /\ \A p \in DOMAIN log : log[p].test \in Tests
    BY RunnerAssumption, LineType DEF TypeOK
  <2> USE DEF TypeOK, Scan
  <2>1. CASE SkipBlank     BY <2>1, <2>s DEF SkipBlank
  <2>2. CASE SkipOutside   BY <2>2, <2>s DEF SkipOutside
  <2>3. CASE FoundStart    BY <2>3, <2>s DEF FoundStart, Grade
  <2>4. CASE FoundEnd      BY <2>4, <2>s DEF FoundEnd, Grade
  <2>5. CASE NoRunner      BY <2>5, <2>s DEF NoRunner
  <2>6. CASE Collect       BY <2>6, <2>s DEF Collect
  <2>7. CASE PrintResults  BY <2>7, <2>s DEF PrintResults
  <2>8. CASE UNCHANGED vars
    BY <2>8 DEF vars
  <2>. QED BY <2>1, <2>2, <2>3, <2>4, <2>5, <2>6, <2>7, <2>8 DEF Next
<1>. QED BY <1>1, <1>2, PTL DEF Spec

-----------------------------------------------------------------------------

(* A blank line extends a segment by nothing.                              *)
LEMMA BlankExtends ==
  ASSUME NEW ps, NEW a \in Nat, NEW b \in Nat, a < b,
         ExactlyBetween(ps, a, b), log[b].kind = "blank"
  PROVE  ExactlyBetween(ps, a, b + 1)
<1>1. \A p \in a + 1 .. (b + 1) - 1 : p \in a + 1 .. b - 1 \/ p = b
  OBVIOUS
<1>. QED BY <1>1 DEF ExactlyBetween

(* A line that is collected extends it by one.                             *)
LEMMA LineExtends ==
  ASSUME NEW ps \in Seq(Nat), NEW a \in Nat, NEW b \in Nat, a < b,
         ExactlyBetween(ps, a, b), log[b].kind \in {"text", "start"}
  PROVE  ExactlyBetween(Append(ps, b), a, b + 1)
<1> DEFINE qs == Append(ps, b)
<1>1. /\ Len(ps) \in Nat /\ DOMAIN ps = 1 .. Len(ps) /\ DOMAIN qs = 1 .. Len(ps) + 1
      /\ qs[Len(ps) + 1] = b /\ \A k \in DOMAIN ps : qs[k] = ps[k]
  OBVIOUS
<1> HIDE DEF qs
<1>2. \A p \in a + 1 .. (b + 1) - 1 : p \in a + 1 .. b - 1 \/ p = b
  OBVIOUS
<1>3. \A k \in DOMAIN qs : qs[k] \in a + 1 .. (b + 1) - 1 /\ log[qs[k]].kind \in {"text", "start"}
  BY <1>1 DEF ExactlyBetween
<1>4. \A j, k \in DOMAIN qs : j < k => qs[j] < qs[k]
  BY <1>1 DEF ExactlyBetween
<1>5. \A p \in a + 1 .. (b + 1) - 1 : log[p].kind = "blank" \/ \E k \in DOMAIN qs : qs[k] = p
  <2> SUFFICES ASSUME NEW p \in a + 1 .. (b + 1) - 1
               PROVE  log[p].kind = "blank" \/ \E k \in DOMAIN qs : qs[k] = p
    OBVIOUS
  <2>1. CASE p = b
    <3>1. Len(ps) + 1 \in DOMAIN qs
      BY <1>1
    <3>. QED BY <2>1, <3>1, <1>1
  <2>2. CASE p \in a + 1 .. b - 1
    <3>1. log[p].kind = "blank" \/ \E k \in DOMAIN ps : ps[k] = p
      BY <2>2 DEF ExactlyBetween
    <3>. QED BY <3>1, <1>1
  <2>. QED BY <2>1, <2>2, <1>2
<1>6. ExactlyBetween(qs, a, b + 1)
  BY <1>3, <1>4, <1>5 DEF ExactlyBetween
<1>. QED BY <1>6 DEF qs

(* Every step of the scanner keeps its invariant.                          *)
LEMMA RunnerStep ==
  ASSUME RunnerInv, TypeOK', [Next]_vars
  PROVE  RunnerInv'
<1>t. /\ log \in Seq(Line) /\ Len(log) \in Nat /\ DOMAIN log = 1 .. Len(log)
      /\ pos \in Nat /\ from \in Nat /\ data \in Seq(Nat) /\ state \in {0, 1}
  BY RunnerAssumption DEF RunnerInv, TypeOK
<1>c. outcome = "scanning" /\ state = 1 =>
        /\ from < pos /\ 0 < from /\ log[from].kind = "start" /\ log[from].test = test_name
        /\ ExactlyBetween(data, from, pos)
  BY <1>t DEF RunnerInv, CollectsItsSegment
<1>g. \A g \in graded : g.end \in 1 .. pos - 1 /\ g.from \in 1 .. g.end - 1
  BY <1>t DEF RunnerInv, GradedSegmentsExact
<1>q. \A g \in graded : g.end \in Nat /\ g.from \in Nat /\ g.end < pos /\ g.from < g.end
  BY <1>t, <1>g
<1>k. ASSUME UNCHANGED <<log, graded>>, pos' \in {pos, pos + 1}
      PROVE  GradedSegmentsExact'
  <2> SUFFICES ASSUME NEW g \in graded
               PROVE  /\ g.end \in 1 .. pos' - 1 /\ g.from \in 1 .. g.end - 1
                      /\ log'[g.end].kind = "end"
                      /\ log'[g.from].kind = "start" /\ log'[g.from].test = g.test
                      /\ ExactlyBetween(g.data, g.from, g.end)'
    BY <1>k DEF GradedSegmentsExact
  <2>1. /\ g.end \in 1 .. pos - 1 /\ g.from \in 1 .. g.end - 1
        /\ log[g.end].kind = "end"
        /\ log[g.from].kind = "start" /\ log[g.from].test = g.test
        /\ ExactlyBetween(g.data, g.from, g.end)
    BY DEF RunnerInv, GradedSegmentsExact
  <2>. QED BY <2>1, <1>k, <1>t DEF ExactlyBetween
<1>1. CASE SkipBlank
  <2>1. UNCHANGED <<log, state, test_name, data, graded, outcome, from>> /\ pos' = pos + 1
        /\ outcome = "scanning" /\ log[pos].kind = "blank"
    BY <1>1 DEF SkipBlank, Scan
  <2>2. state = 1 => ExactlyBetween(data, from, pos + 1)
    BY <1>t, <1>c, <2>1, BlankExtends
  <2>3. CollectsItsSegment'
    BY <1>t, <1>c, <2>1, <2>2 DEF RunnerInv, CollectsItsSegment, ExactlyBetween
  <2>4. GradedSegmentsExact'
    BY <2>1, <1>k
  <2>5. SegmentsDisjoint' /\ GradedIsPast'
    BY <2>1 DEF RunnerInv, SegmentsDisjoint, GradedIsPast
  <2>. QED BY <2>3, <2>4, <2>5 DEF RunnerInv
<1>2. CASE SkipOutside
  <2>1. UNCHANGED <<log, state, test_name, data, graded, outcome, from>> /\ pos' = pos + 1
        /\ state = 0
    BY <1>2 DEF SkipOutside, Scan
  <2>2. CollectsItsSegment'
    BY <2>1 DEF RunnerInv, CollectsItsSegment
  <2>3. GradedSegmentsExact'
    BY <2>1, <1>k
  <2>4. SegmentsDisjoint' /\ GradedIsPast'
    BY <2>1 DEF RunnerInv, SegmentsDisjoint, GradedIsPast
  <2>. QED BY <2>2, <2>3, <2>4 DEF RunnerInv
<1>3. CASE FoundStart
  <2>1. /\ UNCHANGED <<log, graded>> /\ pos' = pos + 1 /\ state' = 1 /\ from' = pos
        /\ data' = <<>> /\ test_name' = log[pos].test /\ log[pos].kind = "start"
        /\ pos \in 1 .. Len(log)
    BY <1>3, <1>t DEF FoundStart, Scan, RunnerInv, CollectsItsSegment
  <2>2. CollectsItsSegment'
    BY <1>t, <2>1 DEF CollectsItsSegment, ExactlyBetween
  <2>3. GradedSegmentsExact'
    BY <2>1, <1>k
  <2>4. SegmentsDisjoint'
    BY <2>1 DEF RunnerInv, SegmentsDisjoint
  <2>5. GradedIsPast'
    BY <1>q, <2>1 DEF GradedIsPast
  <2>. QED BY <2>2, <2>3, <2>4, <2>5 DEF RunnerInv
<1>4. CASE FoundEnd
  <2> DEFINE new == [test |-> test_name, from |-> from, data |-> data, end |-> pos]
  <2>1. /\ UNCHANGED <<log, from, test_name, outcome>> /\ pos' = pos + 1 /\ state' = 0
        /\ state = 1 /\ data' = <<>> /\ graded' = graded \cup {new} /\ log[pos].kind = "end"
        /\ pos \in 1 .. Len(log) /\ outcome = "scanning"
    BY <1>4, <1>t DEF FoundEnd, Scan, Grade
  <2>n. /\ new.test = test_name /\ new.from = from /\ new.data = data /\ new.end = pos
    OBVIOUS
  <2>c. from \in 1 .. pos - 1
    BY <2>1 DEF RunnerInv, CollectsItsSegment
  <2> HIDE DEF new
  <2>2. CollectsItsSegment'
    BY <2>1 DEF CollectsItsSegment
  <2>3. GradedSegmentsExact'
    <3> SUFFICES ASSUME NEW g \in graded'
                 PROVE  /\ g.end \in 1 .. pos' - 1 /\ g.from \in 1 .. g.end - 1
                        /\ log'[g.end].kind = "end"
                        /\ log'[g.from].kind = "start" /\ log'[g.from].test = g.test
                        /\ ExactlyBetween(g.data, g.from, g.end)'
      BY DEF GradedSegmentsExact
    <3>1. CASE g \in graded
      <4>1. /\ g.end \in 1 .. pos - 1 /\ g.from \in 1 .. g.end - 1
            /\ log[g.end].kind = "end"
            /\ log[g.from].kind = "start" /\ log[g.from].test = g.test
            /\ ExactlyBetween(g.data, g.from, g.end)
        BY <3>1 DEF RunnerInv, GradedSegmentsExact
      <4>. QED BY <4>1, <2>1, <1>t DEF ExactlyBetween
    <3>2. CASE g = new
      BY <3>2, <1>t, <1>c, <2>1, <2>n, <2>c DEF ExactlyBetween
    <3>. QED BY <3>1, <3>2, <2>1
  <2>4. SegmentsDisjoint'
    <3>1. \A g \in graded : g.end < new.from
      BY <2>1, <2>n DEF RunnerInv, GradedIsPast
    <3>. QED BY <3>1, <2>1 DEF RunnerInv, SegmentsDisjoint
  <2>5. GradedIsPast'
    BY <2>1 DEF GradedIsPast
  <2>. QED BY <2>2, <2>3, <2>4, <2>5 DEF RunnerInv
<1>5. CASE NoRunner
  <2>1. /\ UNCHANGED <<log, state, test_name, data, from, graded>> /\ pos' = pos + 1
        /\ state = 1 /\ outcome = "scanning" /\ outcome' = "KeyError"
    <3>1. state = 1
      BY <1>5, <1>t DEF NoRunner, RunnerInv, CollectsItsSegment
    <3>. QED BY <1>5, <3>1 DEF NoRunner, Scan
  <2>2. CollectsItsSegment'
    BY <1>t, <1>c, <2>1 DEF RunnerInv, CollectsItsSegment
  <2>3. GradedSegmentsExact'
    BY <2>1, <1>k
  <2>4. SegmentsDisjoint' /\ GradedIsPast'
    BY <2>1 DEF RunnerInv, SegmentsDisjoint, GradedIsPast
  <2>. QED BY <2>2, <2>3, <2>4 DEF RunnerInv
<1>6. CASE Collect
  <2>1. /\ UNCHANGED <<log, state, test_name, graded, outcome, from>> /\ pos' = pos + 1
        /\ data' = Append(data, pos) /\ state = 1 /\ outcome = "scanning"
        /\ log[pos].kind \in {"text", "start"}
    BY <1>6 DEF Collect, Scan
  <2>2. ExactlyBetween(Append(data, pos), from, pos + 1)
    BY <1>t, <1>c, <2>1, LineExtends
  <2>3. ExactlyBetween(data, from, pos)'
    BY <2>1, <2>2 DEF ExactlyBetween
  <2>6. CollectsItsSegment'
    BY <1>t, <1>c, <2>1, <2>3 DEF CollectsItsSegment
  <2>4. GradedSegmentsExact'
    BY <2>1, <1>k
  <2>5. SegmentsDisjoint' /\ GradedIsPast'
    BY <2>1 DEF RunnerInv, SegmentsDisjoint, GradedIsPast
  <2>. QED BY <2>4, <2>5, <2>6 DEF RunnerInv
<1>7. CASE PrintResults
  <2>1. UNCHANGED <<log, pos, state, test_name, data, graded, from>> /\ outcome' = "printed"
    BY <1>7 DEF PrintResults
  <2>2. CollectsItsSegment' /\ GradedSegmentsExact'
    BY <2>1, <1>k DEF RunnerInv, CollectsItsSegment
  <2>. QED BY <2>1, <2>2 DEF RunnerInv, SegmentsDisjoint, GradedIsPast
<1>8. CASE UNCHANGED vars
  <2>1. GradedSegmentsExact'
    BY <1>8, <1>k DEF vars
  <2>. QED BY <1>8, <2>1 DEF vars, RunnerInv, CollectsItsSegment, SegmentsDisjoint,
                             GradedIsPast, ExactlyBetween
<1>. QED BY <1>1, <1>2, <1>3, <1>4, <1>5, <1>6, <1>7, <1>8 DEF Next

-----------------------------------------------------------------------------

(* The scanner's invariant holds on every capture.                         *)
THEOREM RunnerInductive == Spec => []RunnerInv
<1>1. Init /\ TypeOK => RunnerInv
  BY DEF Init, RunnerInv, CollectsItsSegment, GradedSegmentsExact, SegmentsDisjoint, GradedIsPast
<1>2. TypeOK' /\ RunnerInv /\ [Next]_vars => RunnerInv'
  BY RunnerStep
<1>. QED BY <1>1, <1>2, RunnerTyping, PTL DEF Spec

(* Outside a test no line is held, so the branch of test_runner.py:45-47   *)
(* never grades anything, whatever the capture.                            *)
THEOREM NothingHeldOutside == Spec => []CollectsItsSegment
BY RunnerInductive, PTL DEF RunnerInv

(* An oracle is given exactly the lines from a START line to the next END. *)
THEOREM SegmentsExact == Spec => []GradedSegmentsExact
BY RunnerInductive, PTL DEF RunnerInv

(* No line of the capture is graded twice.                                 *)
THEOREM NeverGradedTwice == Spec => []SegmentsDisjoint
BY RunnerInductive, PTL DEF RunnerInv

-----------------------------------------------------------------------------
(* What a panic costs: the scanner on the captures of the suite.           *)

(* Before line p lies an END line or nothing, and since then no START line.*)
Fresh(p) ==
  \E q \in 0 .. p - 1 :
    /\ q = 0 \/ log[q].kind = "end"
    /\ \A r \in q + 1 .. p - 1 : log[r].kind \in {"text", "blank"}

(* The scanner is then outside a test.                                     *)
FreshMeansOutside == outcome = "scanning" /\ Fresh(pos) => state = 0

(* The START line opens the segment that is collected or one that has been *)
(* graded.                                                                 *)
FreshIsRecognised ==
  \A p \in 1 .. pos - 1 :
    log[p].kind = "start" /\ Fresh(p) =>
      (state = 1 /\ from = p) \/ \E g \in graded : g.from = p

(* What the scanner holds is the segment so far, also when the lines are   *)
(* over.                                                                   *)
HeldToTheEnd ==
  /\ outcome # "KeyError" /\ state = 1 => ExactlyBetween(data, from, pos)
  /\ outcome = "printed" => pos = Len(log) + 1

(* The result of a test is what its oracle said of a segment graded for it.*)
ResultsAreOfSegments ==
  \A g \in graded :
    /\ g.test \in Oracles /\ g.data \in Seq(Nat)
    /\ \E h \in graded : h.test = g.test /\ result[g.test] = Start(g.test, Lines(h.data))

(* What every step keeps, besides RunnerInv.                               *)
RecoverInv == FreshMeansOutside /\ FreshIsRecognised /\ HeldToTheEnd /\ ResultsAreOfSegments

(* The capture is a sequence of lines of the four kinds.                   *)
LEMMA LogIs ==
  ASSUME TypeOK
  PROVE  /\ log \in Seq(Line) /\ Len(log) \in Nat /\ DOMAIN log = 1 .. Len(log)
         /\ pos \in Nat /\ from \in Nat /\ data \in Seq(Nat) /\ state \in {0, 1}
         /\ \A p \in DOMAIN log : log[p].kind \in {"start", "end", "text", "blank"}
<1>1. log \in Seq(Line)
  BY RunnerAssumption DEF TypeOK
<1>2. \A p \in DOMAIN log : log[p].kind \in {"start", "end", "text", "blank"}
  <2>1. \A p \in DOMAIN log : log[p] \in Line
    BY <1>1
  <2>. QED BY <2>1 DEF Line
<1>. QED BY <1>1, <1>2 DEF TypeOK

(* Line by line.                                                           *)
LEMMA FreshGoesOn ==
  ASSUME TypeOK, pos \in DOMAIN log, Fresh(pos + 1)
  PROVE  log[pos].kind = "end" \/ (Fresh(pos) /\ log[pos].kind \in {"text", "blank"})
<1>1. pos \in Nat
  BY DEF TypeOK
<1>2. PICK q \in 0 .. (pos + 1) - 1 :
        /\ q = 0 \/ log[q].kind = "end"
        /\ \A r \in q + 1 .. (pos + 1) - 1 : log[r].kind \in {"text", "blank"}
  BY DEF Fresh
<1>3. CASE q = pos
  <2>1. q # 0
    BY <1>3, LogIs
  <2>. QED BY <1>2, <1>3, <2>1
<1>4. CASE q # pos
  <2>1. /\ q \in 0 .. pos - 1 /\ pos \in q + 1 .. (pos + 1) - 1
        /\ \A r \in q + 1 .. pos - 1 : r \in q + 1 .. (pos + 1) - 1
    BY <1>1, <1>4
  <2>. QED BY <1>2, <2>1 DEF Fresh
<1>. QED BY <1>3, <1>4

(* Every step of the scanner keeps that.                                   *)
LEMMA RecoverStep ==
  ASSUME RunnerInv, RunnerInv', RecoverInv, [Next]_vars
  PROVE  RecoverInv'
<1>t. /\ log \in Seq(Line) /\ Len(log) \in Nat /\ DOMAIN log = 1 .. Len(log)
      /\ pos \in Nat /\ from \in Nat /\ data \in Seq(Nat) /\ state \in {0, 1}
      /\ \A p \in DOMAIN log : log[p].kind \in {"start", "end", "text", "blank"}
      /\ DOMAIN result = Oracles /\ pos \in 1 .. Len(log) + 1 /\ TypeOK
  BY LogIs DEF RunnerInv, TypeOK
<1>l. UNCHANGED log
  BY DEF Next, vars, SkipBlank, SkipOutside, FoundStart, FoundEnd, NoRunner, Collect, PrintResults
<1>f. \A p : Fresh(p)' <=> Fresh(p)
  BY <1>l DEF Fresh
<1>d. state = 0 => data = <<>>
  BY DEF RunnerInv, CollectsItsSegment
<1>h. ASSUME outcome' \in {"scanning", "KeyError"} PROVE HeldToTheEnd'
  BY <1>h DEF HeldToTheEnd, RunnerInv, CollectsItsSegment
<1>r. ASSUME UNCHANGED <<graded, result>> PROVE ResultsAreOfSegments'
  BY <1>l, <1>r DEF RecoverInv, ResultsAreOfSegments, Lines
<1>s. ASSUME pos' = pos + 1, UNCHANGED <<state, from>>, graded \subseteq graded',
             pos \in DOMAIN log, log[pos].kind # "start" \/ ~Fresh(pos)
      PROVE  FreshIsRecognised'
  <2> SUFFICES ASSUME NEW p \in 1 .. pos' - 1, log'[p].kind = "start", Fresh(p)'
               PROVE  (state' = 1 /\ from' = p) \/ \E g \in graded' : g.from = p
    BY DEF FreshIsRecognised
  <2>1. log[p].kind = "start" /\ Fresh(p)
    BY <1>l, <1>f
  <2>2. p \in 1 .. pos - 1
    BY <1>t, <1>s, <2>1
  <2>. QED BY <1>s, <2>1, <2>2 DEF RecoverInv, FreshIsRecognised
<1>n. pos \in DOMAIN log /\ Fresh(pos + 1) =>
        log[pos].kind = "end" \/ (Fresh(pos) /\ log[pos].kind \in {"text", "blank"})
  BY <1>t, FreshGoesOn
<1>1. CASE SkipBlank \/ SkipOutside
  <2>1. /\ UNCHANGED <<state, from, graded, result, outcome>> /\ pos' = pos + 1
        /\ pos \in DOMAIN log /\ outcome = "scanning"
        /\ log[pos].kind = "blank" \/ (state = 0 /\ log[pos].kind \in {"text", "end"})
    BY <1>1 DEF SkipBlank, SkipOutside, Scan
  <2>2. FreshMeansOutside'
    BY <1>f, <1>n, <2>1 DEF RecoverInv, FreshMeansOutside
  <2>. QED BY <2>1, <2>2, <1>h, <1>r, <1>s DEF RecoverInv
<1>2. CASE FoundStart
  <2>1. /\ UNCHANGED <<graded, result, outcome>> /\ pos' = pos + 1 /\ state = 0 /\ state' = 1
        /\ from' = pos /\ pos \in DOMAIN log /\ outcome = "scanning" /\ log[pos].kind = "start"
    BY <1>2, <1>d DEF FoundStart, Scan
  <2>2. FreshMeansOutside'
    BY <1>f, <1>n, <2>1 DEF FreshMeansOutside
  <2>3. FreshIsRecognised'
    <3> SUFFICES ASSUME NEW p \in 1 .. pos' - 1, log'[p].kind = "start", Fresh(p)'
                 PROVE  (state' = 1 /\ from' = p) \/ \E g \in graded' : g.from = p
      BY DEF FreshIsRecognised
    <3>1. log[p].kind = "start" /\ Fresh(p)
      BY <1>l, <1>f
    <3>2. p = pos \/ p \in 1 .. pos - 1
      BY <1>t, <2>1
    <3>. QED BY <2>1, <3>1, <3>2 DEF RecoverInv, FreshIsRecognised
  <2>. QED BY <2>1, <2>2, <2>3, <1>h, <1>r DEF RecoverInv
<1>3. CASE FoundEnd
  <2> DEFINE new == [test |-> test_name, from |-> from, data |-> data, end |-> pos]
  <2>1. /\ UNCHANGED <<from, outcome>> /\ pos' = pos + 1 /\ state = 1 /\ state' = 0
        /\ pos \in DOMAIN log /\ outcome = "scanning" /\ log[pos].kind = "end"
        /\ graded' = graded \cup {new} /\ test_name \in Oracles
        /\ result' = [result EXCEPT ![test_name] = Start(test_name, Lines(data))]
    BY <1>3 DEF FoundEnd, Scan, Grade
  <2>n. new.test = test_name /\ new.from = from /\ new.data = data
    OBVIOUS
  <2> HIDE DEF new
  <2>2. FreshMeansOutside'
    BY <2>1 DEF FreshMeansOutside
  <2>3. FreshIsRecognised'
    <3> SUFFICES ASSUME NEW p \in 1 .. pos' - 1, log'[p].kind = "start", Fresh(p)'
                 PROVE  \E g \in graded' : g.from = p
      BY DEF FreshIsRecognised
    <3>1. log[p].kind = "start" /\ Fresh(p)
      BY <1>l, <1>f
    <3>2. p \in 1 .. pos - 1
      BY <1>t, <2>1, <3>1
    <3>. QED BY <2>1, <2>n, <3>1, <3>2 DEF RecoverInv, FreshIsRecognised
  <2>4. ResultsAreOfSegments'
    <3>1. \A ps : Lines(ps)' = Lines(ps)
      BY <1>l DEF Lines
    <3>2. /\ result'[test_name] = Start(test_name, Lines(new.data))
          /\ \A u \in Oracles : u # test_name => result'[u] = result[u]
      BY <1>t, <2>1, <2>n
    <3>3. ASSUME NEW g \in graded'
          PROVE  /\ g.test \in Oracles /\ g.data \in Seq(Nat)
                 /\ \E h \in graded' :
                      h.test = g.test /\ result'[g.test] = Start(g.test, Lines(h.data))
      <4>1. g.test \in Oracles /\ g.data \in Seq(Nat)
        BY <1>t, <2>1, <2>n DEF RecoverInv, ResultsAreOfSegments
      <4>2. CASE g.test = test_name
        BY <2>1, <2>n, <3>2, <4>1, <4>2
      <4>3. CASE g.test # test_name
        <5>1. g \in graded
          BY <2>1, <2>n, <4>3
        <5>. QED BY <2>1, <3>2, <4>1, <4>3, <5>1 DEF RecoverInv, ResultsAreOfSegments
      <4>. QED BY <4>1, <4>2, <4>3
    <3>. QED BY <3>1, <3>3 DEF ResultsAreOfSegments
  <2>. QED BY <2>1, <2>2, <2>3, <2>4, <1>h DEF RecoverInv
<1>4. CASE NoRunner
  <2>1. /\ UNCHANGED <<state, from, graded, result>> /\ pos' = pos + 1 /\ outcome' = "KeyError"
        /\ pos \in DOMAIN log /\ log[pos].kind = "end"
    <3>1. state = 1
      BY <1>4, <1>t, <1>d DEF NoRunner
    <3>. QED BY <1>4, <3>1 DEF NoRunner, Scan
  <2>2. FreshMeansOutside'
    BY <2>1 DEF FreshMeansOutside
  <2>. QED BY <2>1, <2>2, <1>h, <1>r, <1>s DEF RecoverInv
<1>5. CASE Collect
  <2>1. /\ UNCHANGED <<state, from, graded, result, outcome>> /\ pos' = pos + 1 /\ state = 1
        /\ pos \in DOMAIN log /\ outcome = "scanning" /\ log[pos].kind \in {"text", "start"}
    BY <1>5 DEF Collect, Scan
  <2>2. ~Fresh(pos)
    BY <2>1 DEF RecoverInv, FreshMeansOutside
  <2>3. FreshMeansOutside'
    BY <1>f, <1>n, <2>1, <2>2 DEF FreshMeansOutside
  <2>. QED BY <2>1, <2>2, <2>3, <1>h, <1>r, <1>s DEF RecoverInv
<1>6. CASE PrintResults
  <2>1. /\ UNCHANGED <<pos, state, from, data, graded, result>> /\ outcome = "scanning"
        /\ outcome' = "printed" /\ pos \notin DOMAIN log
    BY <1>6 DEF PrintResults
  <2>2. FreshMeansOutside' /\ FreshIsRecognised'
    BY <1>f, <1>l, <2>1 DEF RecoverInv, FreshMeansOutside, FreshIsRecognised
  <2>3. HeldToTheEnd'
    <3>1. pos = Len(log) + 1
      BY <1>t, <2>1
    <3>. QED BY <1>l, <2>1, <3>1 DEF RecoverInv, HeldToTheEnd, ExactlyBetween
  <2>. QED BY <2>1, <2>2, <2>3, <1>r DEF RecoverInv
<1>7. CASE UNCHANGED vars
  <2>1. UNCHANGED <<log, pos, state, data, from, graded, result, outcome>>
    BY <1>7 DEF vars
  <2>2. HeldToTheEnd'
    BY <2>1 DEF RecoverInv, HeldToTheEnd, ExactlyBetween
  <2>. QED BY <1>f, <1>r, <2>1, <2>2 DEF RecoverInv, FreshMeansOutside, FreshIsRecognised
<1>. QED BY <1>1, <1>2, <1>3, <1>4, <1>5, <1>6, <1>7 DEF Next

(* START lines after an END line are recognised on every capture.          *)
THEOREM RecoverInductive == Spec => []RecoverInv
<1>1. Init => RecoverInv
  <2> SUFFICES ASSUME Init PROVE RecoverInv
    OBVIOUS
  <2>. QED BY DEF Init, RecoverInv, FreshMeansOutside, FreshIsRecognised, HeldToTheEnd,
                  ResultsAreOfSegments
<1>2. RunnerInv /\ RunnerInv' /\ RecoverInv /\ [Next]_vars => RecoverInv'
  BY RecoverStep
<1>. QED BY <1>1, <1>2, RunnerInductive, PTL DEF Spec

(* Two sequences, one behind the other.                                    *)
LEMMA ConcatIs ==
  ASSUME NEW S, NEW a \in Seq(S), NEW b \in Seq(S)
  PROVE  /\ a \o b \in Seq(S) /\ Len(a \o b) = Len(a) + Len(b) /\ Len(a) \in Nat /\ Len(b) \in Nat
         /\ \A k \in 1 .. Len(a) : (a \o b)[k] = a[k]
         /\ \A k \in 1 .. Len(b) : (a \o b)[Len(a) + k] = b[k]
OBVIOUS

(* Every entry of the result is one of theirs.                             *)
LEMMA ConcatHas ==
  ASSUME NEW a, NEW b, Len(a) \in Nat, Len(b) \in Nat, NEW k \in 1 .. Len(a) + Len(b)
  PROVE  k \in 1 .. Len(a) \/ (k - Len(a) \in 1 .. Len(b) /\ k = Len(a) + (k - Len(a)))
OBVIOUS

(* A line of the capture.                                                  *)
LEMMA LineOfIs ==
  ASSUME NEW k \in {"start", "end", "text", "blank"}, NEW t \in Tests, NEW x \in Text
  PROVE  /\ LineOf(k, t, x) \in Line
         /\ LineOf(k, t, x).kind = k /\ LineOf(k, t, x).test = t /\ LineOf(k, t, x).text = x
BY DEF LineOf, Line

(* The lines of t are its own and are neither START nor END lines.         *)
LEMMA PrintedIs ==
  ASSUME NEW t \in Tests, NEW xs \in Seq(Text)
  PROVE  /\ Printed(t, xs) \in Seq(Line) /\ Len(Printed(t, xs)) = Len(xs) /\ Len(xs) \in Nat
         /\ \A k \in 1 .. Len(xs) :
              /\ Printed(t, xs)[k] = LineOf("text", t, xs[k])
              /\ Printed(t, xs)[k].kind = "text" /\ Printed(t, xs)[k].test = t
<1>1. DOMAIN xs = 1 .. Len(xs) /\ Len(xs) \in Nat /\ \A k \in 1 .. Len(xs) : xs[k] \in Text
  OBVIOUS
<1>2. \A k \in 1 .. Len(xs) : /\ LineOf("text", t, xs[k]) \in Line
                              /\ LineOf("text", t, xs[k]).kind = "text"
                              /\ LineOf("text", t, xs[k]).test = t
  BY <1>1, LineOfIs
<1>. QED BY <1>1, <1>2 DEF Printed

(* The lines of test t after its START line: no START line among them, and *)
(* an END line at the very end or not at all.                              *)
RestShape(t, f, b) ==
  /\ b \in Seq(Line)
  /\ \A k \in 1 .. Len(b) : b[k].test = t /\ b[k].kind # "start"
  /\ \A k \in 1 .. Len(b) : b[k].kind = "end" => k = Len(b) /\ f.done /\ t \in Ends
  /\ f.done /\ t \in Ends =>
       /\ Len(b) = Len(Body[t]) + 1 /\ b[Len(b)].kind = "end"
       /\ \A k \in 1 .. Len(Body[t]) : b[k] = LineOf("text", t, Body[t][k])

(* All of them: the echo of run-all.sh and one START line come first.      *)
SectionShape(t, f, s) ==
  /\ Len(s) \in Nat /\ s[1].kind = "text" /\ s[2].kind = "start" /\ Len(s) >= 2
  /\ \A k \in 1 .. Len(s) : s[k].test = t
  /\ \A k \in 1 .. Len(s) : s[k].kind = "start" => k = 2
  /\ \A k \in 1 .. Len(s) : s[k].kind = "end" => k = Len(s) /\ f.done /\ t \in Ends
  /\ f.done /\ t \in Ends =>
       /\ Len(s) = Len(Body[t]) + 3 /\ s[Len(s)].kind = "end"
       /\ \A k \in 1 .. Len(Body[t]) : s[k + 2] = LineOf("text", t, Body[t][k])

(* The one follows from the other.                                         *)
LEMMA ShapeOf ==
  ASSUME NEW t \in Tests, NEW f, NEW b, RestShape(t, f, b), Echo \in Text, Len(Body[t]) \in Nat,
         NEW a, a = <<LineOf("text", t, Echo), LineOf("start", t, Echo)>>,
         NEW s, s = a \o b
  PROVE  s \in Seq(Line) /\ SectionShape(t, f, s)
<1>1. /\ a \in Seq(Line) /\ Len(a) = 2 /\ a[1].kind = "text" /\ a[2].kind = "start"
      /\ a[1].test = t /\ a[2].test = t
  BY LineOfIs
<1>2. b \in Seq(Line) /\ Len(b) \in Nat
  BY DEF RestShape
<1>3. s \in Seq(Line) /\ Len(s) = 2 + Len(b)
      /\ (\A k \in 1 .. 2 : s[k] = a[k]) /\ \A k \in 1 .. Len(b) : s[2 + k] = b[k]
  BY <1>1, <1>2, ConcatIs
<1>4. s[1] = a[1] /\ s[2] = a[2]
  BY <1>3
<1>5. ASSUME NEW k \in 1 .. Len(s)
      PROVE  k = 1 \/ k = 2 \/ (k - 2 \in 1 .. Len(b) /\ s[k] = b[k - 2])
  <2>1. k = 1 \/ k = 2 \/ (k - 2 \in 1 .. Len(b) /\ k = 2 + (k - 2))
    BY <1>2, <1>3
  <2>. QED BY <1>3, <2>1
<1>6. \A k \in 1 .. Len(s) :
        /\ s[k].test = t
        /\ s[k].kind = "start" => k = 2
        /\ s[k].kind = "end" => k = Len(s) /\ f.done /\ t \in Ends
  <2> SUFFICES ASSUME NEW k \in 1 .. Len(s)
               PROVE  /\ s[k].test = t
                      /\ s[k].kind = "start" => k = 2
                      /\ s[k].kind = "end" => k = Len(s) /\ f.done /\ t \in Ends
    OBVIOUS
  <2>1. CASE k = 1 \/ k = 2
    BY <1>1, <1>4, <2>1
  <2>2. CASE k - 2 \in 1 .. Len(b) /\ s[k] = b[k - 2]
    <3>1. /\ b[k - 2].test = t /\ b[k - 2].kind # "start"
          /\ b[k - 2].kind = "end" => k - 2 = Len(b) /\ f.done /\ t \in Ends
      BY <2>2 DEF RestShape
    <3>2. k - 2 = Len(b) => k = Len(s)
      BY <1>2, <1>3
    <3>. QED BY <2>2, <3>1, <3>2
  <2>. QED BY <1>5, <2>1, <2>2
<1>7. ASSUME f.done, t \in Ends
      PROVE  /\ Len(s) = Len(Body[t]) + 3 /\ s[Len(s)].kind = "end"
             /\ \A k \in 1 .. Len(Body[t]) : s[k + 2] = LineOf("text", t, Body[t][k])
  <2>1. /\ Len(b) = Len(Body[t]) + 1 /\ b[Len(b)].kind = "end"
        /\ \A k \in 1 .. Len(Body[t]) : b[k] = LineOf("text", t, Body[t][k])
    BY <1>7 DEF RestShape
  <2>2. Len(b) \in 1 .. Len(b) /\ 2 + Len(b) = Len(s) /\ Len(s) = Len(Body[t]) + 3
    BY <1>2, <1>3, <2>1
  <2>3. \A k \in 1 .. Len(Body[t]) : k \in 1 .. Len(b) /\ 2 + k = k + 2
    BY <2>1
  <2>. QED BY <1>3, <2>1, <2>2, <2>3
<1>8. Len(s) \in Nat /\ Len(s) >= 2
  BY <1>2, <1>3
<1>. QED BY <1>1, <1>3, <1>4, <1>6, <1>7, <1>8 DEF SectionShape

(* What test t prints has that shape, whatever became of it.               *)
LEMMA SectionIs ==
  ASSUME NEW t \in SuiteTests, NEW f \in Fate(t)
  PROVE  Section(t, f) \in Seq(Line) /\ SectionShape(t, f, Section(t, f))
<1>1. /\ t \in Tests /\ Echo \in Text /\ Fatal \in Text /\ Body[t] \in Seq(Text)
      /\ AssertAt[t] \subseteq 0 .. Len(Body[t]) /\ Len(Body[t]) \in Nat
  <2>1. \A i \in DOMAIN Suite : Suite[i] \in Tests
    BY SuiteAssumption
  <2>2. Body[t] \in Seq(Text)
    BY SuiteAssumption
  <2>. QED BY <2>1, <2>2, SuiteAssumption DEF SuiteTests
<1>2. PICK a : a = <<LineOf("text", t, Echo), LineOf("start", t, Echo)>>
  OBVIOUS
<1> SUFFICES \E b : RestShape(t, f, b) /\ Section(t, f) = a \o b
  BY <1>1, <1>2, ShapeOf
<1>3. CASE f.done
  <2>1. PICK b : b = Printed(t, Body[t])
    OBVIOUS
  <2>2. /\ b \in Seq(Line) /\ Len(b) = Len(Body[t])
        /\ \A k \in 1 .. Len(b) : /\ b[k] = LineOf("text", t, Body[t][k])
                                  /\ b[k].kind = "text" /\ b[k].test = t
    BY <1>1, <2>1, PrintedIs
  <2>3. CASE t \in Ends
    <3>1. PICK e : e = <<LineOf("end", t, Echo)>>
      OBVIOUS
    <3>2. e \in Seq(Line) /\ Len(e) = 1 /\ e[1].kind = "end" /\ e[1].test = t
      BY <1>1, <3>1, LineOfIs
    <3>3. PICK c : c = b \o e
      OBVIOUS
    <3>4. /\ c \in Seq(Line) /\ Len(c) = Len(b) + 1 /\ Len(b) \in Nat
          /\ \A k \in 1 .. Len(b) : c[k] = b[k]
          /\ \A k \in 1 .. 1 : c[Len(b) + k] = e[k]
      BY <2>2, <3>2, <3>3, ConcatIs
    <3>5. c[Len(c)] = e[1]
      BY <3>4
    <3>6. \A k \in 1 .. Len(c) : k = Len(c) \/ k \in 1 .. Len(b)
      BY <3>4
    <3>7. \A k \in 1 .. Len(c) :
            (k = Len(c) /\ c[k] = e[1]) \/ (c[k].kind = "text" /\ c[k].test = t)
      BY <2>2, <3>4, <3>5, <3>6
    <3>8. RestShape(t, f, c)
      BY <1>3, <2>2, <2>3, <3>2, <3>4, <3>5, <3>7 DEF RestShape
    <3>9. Section(t, f) = a \o c
      BY <1>2, <1>3, <2>1, <2>3, <3>1, <3>3 DEF Section
    <3>. QED BY <3>8, <3>9
  <2>4. CASE t \notin Ends
    <3>1. b \o <<>> = b
      BY <2>2
    <3>2. Section(t, f) = a \o b
      BY <1>2, <1>3, <2>1, <2>4, <3>1 DEF Section
    <3>3. RestShape(t, f, b)
      BY <2>2, <2>4 DEF RestShape
    <3>. QED BY <3>2, <3>3
  <2>. QED BY <2>3, <2>4
<1>4. CASE ~f.done
  <2>0. PICK xs : xs = SubSeq(Body[t], 1, f.n)
    OBVIOUS
  <2>1. xs \in Seq(Text)
    <3>1. f.n \in 0 .. Len(Body[t])
      BY <1>1, <1>4 DEF Fate
    <3>. QED BY <1>1, <2>0, <3>1
  <2>2. PICK c : c = Printed(t, xs)
    OBVIOUS
  <2>3. /\ c \in Seq(Line) /\ Len(c) \in Nat
        /\ \A k \in 1 .. Len(c) : c[k].kind = "text" /\ c[k].test = t
    BY <1>1, <2>1, <2>2, PrintedIs
  <2>4. PICK d : d = Panic(t)
    OBVIOUS
  <2>5. d \in Seq(Line) /\ Len(d) = 2
        /\ \A k \in 1 .. 2 : d[k].kind \in {"text", "blank"} /\ d[k].test = t
    <3>1. /\ d = <<LineOf("blank", t, Fatal), LineOf("text", t, Fatal)>>
          /\ LineOf("blank", t, Fatal) \in Line /\ LineOf("text", t, Fatal) \in Line
      BY <1>1, <2>4, LineOfIs DEF Panic
    <3>2. d \in Seq(Line) /\ Len(d) = 2 /\ d[1] = LineOf("blank", t, Fatal)
          /\ d[2] = LineOf("text", t, Fatal)
      BY <3>1
    <3>3. \A k \in 1 .. 2 : k = 1 \/ k = 2
      OBVIOUS
    <3>. QED BY <1>1, <3>2, <3>3, LineOfIs
  <2>6. PICK b : b = c \o d
    OBVIOUS
  <2>7. /\ b \in Seq(Line) /\ Len(b) = Len(c) + Len(d) /\ Len(d) = 2
        /\ \A k \in 1 .. Len(c) : b[k] = c[k]
        /\ \A k \in 1 .. Len(d) : b[Len(c) + k] = d[k]
    <3>1. c \in Seq(Line) /\ d \in Seq(Line) /\ Len(d) = 2
      BY <2>3, <2>5
    <3>s. \A u, v \in Seq(Line) :
            /\ u \o v \in Seq(Line) /\ Len(u \o v) = Len(u) + Len(v)
            /\ \A k \in 1 .. Len(u) : (u \o v)[k] = u[k]
            /\ \A k \in 1 .. Len(v) : (u \o v)[Len(u) + k] = v[k]
      OBVIOUS
    <3>2. /\ c \o d \in Seq(Line) /\ Len(c \o d) = Len(c) + Len(d)
          /\ \A k \in 1 .. Len(c) : (c \o d)[k] = c[k]
          /\ \A k \in 1 .. Len(d) : (c \o d)[Len(c) + k] = d[k]
      BY <3>1, <3>s
    <3>. QED BY <2>6, <3>1, <3>2
  <2>8. ASSUME NEW k \in 1 .. Len(b) PROVE b[k].kind \in {"text", "blank"} /\ b[k].test = t
    <3>1. k \in 1 .. Len(c) + Len(d) /\ Len(d) \in Nat
      BY <2>7
    <3>2. k \in 1 .. Len(c) \/ (k - Len(c) \in 1 .. Len(d) /\ k = Len(c) + (k - Len(c)))
      BY <2>3, <3>1, ConcatHas
    <3>4. CASE k \in 1 .. Len(c)
      BY <2>3, <2>7, <3>4
    <3>5. CASE k - Len(c) \in 1 .. Len(d) /\ k = Len(c) + (k - Len(c))
      <4>1. b[k] = d[k - Len(c)]
        BY <2>7, <3>5
      <4>. QED BY <2>5, <3>5, <4>1
    <3>. QED BY <3>2, <3>4, <3>5
  <2>9. RestShape(t, f, b)
    BY <1>4, <2>7, <2>8 DEF RestShape
  <2>10. Section(t, f) = a \o b
    BY <1>2, <1>4, <2>0, <2>2, <2>4, <2>6 DEF Section
  <2>. QED BY <2>9, <2>10
<1>. QED BY <1>3, <1>4

(* Where no line between a and b is blank, the segment has all of them.    *)
LEMMA SegmentIs ==
  ASSUME NEW ps \in Seq(Nat), NEW a \in Nat, NEW b \in Nat, a < b, ExactlyBetween(ps, a, b),
         \A p \in a + 1 .. b - 1 : log[p].kind # "blank"
  PROVE  Len(ps) = b - 1 - a /\ \A k \in 1 .. Len(ps) : ps[k] = a + k
<1>0. PICK n : n = Len(ps)
  OBVIOUS
<1>1. n \in Nat /\ DOMAIN ps = 1 .. n /\ \A i \in 1 .. n : ps[i] \in Nat
  BY <1>0
<1>2. /\ \A i \in 1 .. n : ps[i] \in a + 1 .. b - 1
      /\ \A i, j \in 1 .. n : i < j => ps[i] < ps[j]
      /\ \A p \in a + 1 .. b - 1 : \E i \in 1 .. n : ps[i] = p
  BY <1>1 DEF ExactlyBetween
<1> DEFINE P == {k \in Nat : \A j \in 1 .. n : j <= k => ps[j] = a + j}
<1>3. 0 \in P
  OBVIOUS
<1>4. ASSUME NEW k \in 0 .. n - 1, k \in P PROVE k + 1 \in P
  <2>0. k \in Nat /\ k + 1 \in 1 .. n /\ k + 1 \in Nat
    BY <1>1
  <2>a. \A j \in 1 .. n : j <= k => ps[j] = a + j
    BY <1>4
  <2> SUFFICES ps[k + 1] = a + (k + 1)
    <3>1. \A j \in 1 .. n : j <= k + 1 => j <= k \/ j = k + 1
      BY <2>0
    <3>. QED BY <2>0, <2>a, <3>1
  <2>1. ps[k + 1] >= a + (k + 1) /\ ps[k + 1] \in Nat /\ ps[k + 1] <= b - 1
    <3>0. ps[k + 1] \in a + 1 .. b - 1 /\ ps[k + 1] \in Nat
      BY <1>1, <1>2, <2>0
    <3>1. CASE k = 0
      BY <3>0, <3>1
    <3>2. CASE k # 0
      <4>1. k \in 1 .. n /\ k < k + 1 /\ k <= k
        BY <1>1, <2>0, <3>2
      <4>2. ps[k] < ps[k + 1] /\ ps[k] = a + k
        BY <1>2, <2>0, <2>a, <4>1
      <4>. QED BY <2>0, <3>0, <4>2
    <3>. QED BY <3>1, <3>2
  <2>2. ASSUME ps[k + 1] > a + (k + 1) PROVE FALSE
    <3>1. a + (k + 1) \in a + 1 .. b - 1
      BY <2>0, <2>1, <2>2
    <3>2. PICK i \in 1 .. n : ps[i] = a + (k + 1)
      BY <1>2, <3>1
    <3>3. CASE i <= k
      <4>1. ps[i] = a + i
        BY <2>a, <3>3
      <4>. QED BY <2>0, <3>2, <3>3, <4>1
    <3>4. CASE i = k + 1
      BY <2>2, <3>2, <3>4, <2>1
    <3>5. CASE i > k + 1
      <4>1. ps[k + 1] < ps[i]
        BY <1>2, <2>0, <3>5
      <4>. QED BY <2>1, <2>2, <3>2, <4>1, <2>0
    <3>. QED BY <2>0, <3>3, <3>4, <3>5
  <2>3. PICK v : v = ps[k + 1]
    OBVIOUS
  <2>4. v >= a + (k + 1) /\ v \in Nat /\ ~(v > a + (k + 1))
    BY <2>1, <2>2, <2>3
  <2>5. v = a + (k + 1)
    BY <2>0, <2>4
  <2>. QED BY <2>3, <2>5
<1>5. \A j \in 1 .. n : ps[j] = a + j
  <2>1. P \in SUBSET Nat /\ n \in 0 .. n
    BY <1>1
  <2>2. n \in P
    <3> HIDE DEF P
    <3>. QED BY <1>1, <1>3, <1>4, <2>1, UpTo
  <2>. QED BY <2>2
<1>6. ~(n < b - 1 - a)
  <2> SUFFICES ASSUME n < b - 1 - a PROVE FALSE
    OBVIOUS
  <2>1. a + (n + 1) \in a + 1 .. b - 1
    BY <1>1
  <2>2. PICK i \in 1 .. n : ps[i] = a + (n + 1)
    BY <1>2, <2>1
  <2>3. ps[i] = a + i
    BY <1>5
  <2>. QED BY <1>1, <2>2, <2>3
<1>7. ~(n > b - 1 - a)
  <2> SUFFICES ASSUME n > b - 1 - a PROVE FALSE
    OBVIOUS
  <2>1. n \in 1 .. n
    BY <1>1
  <2>2. ps[n] = a + n /\ ps[n] \in a + 1 .. b - 1
    BY <1>2, <1>5, <2>1
  <2>. QED BY <1>1, <2>2
<1>. QED BY <1>0, <1>1, <1>5, <1>6, <1>7

(* An oracle that accepts what it is given records a pass for each assert. *)
LEMMA AllHold ==
  ASSUME NEW t \in Oracles, NEW ls, \A i \in DOMAIN Expect[t] : Holds(Expect[t][i], ls)
  PROVE  Start(t, ls) = [i \in DOMAIN Expect[t] |-> TRUE]
<1>1. DOMAIN Expect[t] = 1 .. Len(Expect[t]) /\ Len(Expect[t]) \in Nat
  <2>1. Expect[t] \in Seq(Check)
    BY RunnerAssumption
  <2>. QED BY <2>1
<1>2. \A i \in DOMAIN Expect[t] : \A j \in 1 .. i - 1 : j \in DOMAIN Expect[t]
  BY <1>1
<1>3. \A i \in DOMAIN Expect[t] : \A j \in 1 .. i - 1 : Holds(Expect[t][j], ls)
  BY <1>2
<1>. QED BY <1>3 DEF Start

(* The suite as a sequence without repetition.                             *)
LEMMA SuiteIs ==
  /\ DOMAIN Suite = 1 .. Len(Suite) /\ Len(Suite) \in Nat
  /\ \A i, j \in 1 .. Len(Suite) : Suite[i] = Suite[j] => i = j
  /\ \A i \in 1 .. Len(Suite) : Suite[i] \in SuiteTests
<1>1. Suite \in Seq(Tests) /\ \A i, j \in DOMAIN Suite : Suite[i] = Suite[j] => i = j
  BY SuiteAssumption
<1>2. DOMAIN Suite = 1 .. Len(Suite) /\ Len(Suite) \in Nat
  BY <1>1
<1>. QED BY <1>1, <1>2 DEF SuiteTests

(* The sections of a run.                                                  *)
Sections(f) == [i \in DOMAIN Suite |-> Section(Suite[i], f[Suite[i]])]

(* The capture of a run consists of the sections of its tests.             *)
LEMMA CaptureIs ==
  ASSUME NEW f \in Fates
  PROVE  /\ Len(Sections(f)) = Len(Suite)
         /\ \A i \in 1 .. Len(Suite) : SectionShape(Suite[i], f[Suite[i]], Sections(f)[i])
         /\ \E off : Places(Sections(f), Capture(f), off)
<1> DEFINE secs == Sections(f)
<1>1. DOMAIN Suite = 1 .. Len(Suite) /\ Len(Suite) \in Nat
  BY SuiteIs
<1>2. ASSUME NEW i \in 1 .. Len(Suite)
      PROVE  /\ Section(Suite[i], f[Suite[i]]) \in Seq(Line)
             /\ SectionShape(Suite[i], f[Suite[i]], Section(Suite[i], f[Suite[i]]))
  <2>1. Suite[i] \in SuiteTests
    BY <1>1 DEF SuiteTests
  <2>2. f[Suite[i]] \in Fate(Suite[i])
    BY <2>1 DEF Fates
  <2>. QED BY <2>1, <2>2, SectionIs
<1>3. secs \in Seq(Seq(Line)) /\ Len(secs) = Len(Suite)
  <2>1. secs \in [1 .. Len(Suite) -> Seq(Line)]
    BY <1>1, <1>2 DEF Sections
  <2>. QED BY <1>1, <2>1
<1>4. Capture(f) = FlattenSeq(secs)
  BY DEF Capture, Sections
<1>5. \A i \in 1 .. Len(Suite) : secs[i] = Section(Suite[i], f[Suite[i]])
  BY <1>1 DEF Sections
<1> HIDE DEF secs
<1>6. \E off : Places(secs, Capture(f), off)
  BY <1>3, <1>4, FlattenPlaces
<1>. QED BY <1>2, <1>3, <1>5, <1>6 DEF secs

(* Whoever got there prints his END line, and nobody else does.            *)
LEMMA FinishedIs ==
  ASSUME NEW f \in Fates, log = Capture(f), NEW j \in DOMAIN Suite, Finished(Suite[j]), TypeOK
  PROVE  f[Suite[j]].done /\ Suite[j] \in Ends
<1>0. PICK secs : secs = Sections(f)
  OBVIOUS
<1>1. PICK off : Places(secs, log, off)
  BY <1>0, CaptureIs
<1>2. /\ Len(secs) = Len(Suite) /\ DOMAIN Suite = 1 .. Len(Suite)
      /\ \A i \in 1 .. Len(Suite) : SectionShape(Suite[i], f[Suite[i]], secs[i])
  BY <1>0, CaptureIs, SuiteIs
<1>3. PICK p \in 1 .. Len(log) : log[p].kind = "end" /\ log[p].test = Suite[j]
  BY LogIs DEF Finished
<1>m. PICK m \in 1 .. Len(Suite) : \E k \in 1 .. Len(secs[m]) : p = off[m] + k
  <2>1. PICK m \in 1 .. Len(secs) : \E k \in 1 .. Len(secs[m]) : p = off[m] + k
    BY <1>1 DEF Places
  <2>. QED BY <1>2, <2>1
<1>4. PICK k \in 1 .. Len(secs[m]) : p = off[m] + k
  BY <1>m
<1>5. log[p] = secs[m][k]
  BY <1>1, <1>2, <1>4 DEF Places
<1>6. /\ secs[m][k].test = Suite[m]
      /\ secs[m][k].kind = "end" => f[Suite[m]].done /\ Suite[m] \in Ends
  BY <1>2 DEF SectionShape
<1>7. m = j
  BY <1>2, <1>3, <1>5, <1>6, SuiteIs
<1>. QED BY <1>3, <1>5, <1>6, <1>7

(* At p is the START line of t, the only one with its name; its L lines    *)
(* and its END line follow.                                                *)
WholeAt(p, t, L) ==
  /\ Fresh(p) /\ log[p].kind = "start" /\ log[p].test = t
  /\ \A q \in 1 .. Len(log) : log[q].kind = "start" /\ log[q].test = t => q = p
  /\ p + L + 1 \in 1 .. Len(log)
  /\ log[p + L + 1].kind = "end"
  /\ \A k \in 1 .. L : log[p + k] = LineOf("text", t, Body[t][k])

(* So it is for a test that got to its END line, after one that did.       *)
LEMMA WholeSection ==
  ASSUME NEW f \in Fates, log = Capture(f), NEW i \in DOMAIN Suite, TypeOK,
         Finished(Suite[i]), i = 1 \/ Finished(Suite[i - 1])
  PROVE  \E p \in 1 .. Len(log) : WholeAt(p, Suite[i], Len(Body[Suite[i]]))
<1>0. PICK secs : secs = Sections(f)
  OBVIOUS
<1>1. PICK off : Places(secs, log, off)
  BY <1>0, CaptureIs
<1>2. PICK t : t = Suite[i]
  OBVIOUS
<1>3. PICK L : L = Len(Body[t])
  OBVIOUS
<1>4. PICK o : o = off[i]
  OBVIOUS
<1>5. /\ Len(secs) = Len(Suite) /\ DOMAIN Suite = 1 .. Len(Suite) /\ Len(Suite) \in Nat
      /\ \A j \in 1 .. Len(Suite) : SectionShape(Suite[j], f[Suite[j]], secs[j])
  BY <1>0, CaptureIs, SuiteIs
<1>6. /\ i \in 1 .. Len(Suite) /\ o \in Nat /\ Len(log) \in Nat /\ L \in Nat
      /\ \A j \in 1 .. Len(Suite) : off[j] \in Nat
  <2>1. t \in SuiteTests /\ i \in 1 .. Len(Suite)
    BY <1>2, <1>5 DEF SuiteTests
  <2>2. L \in Nat
    BY <1>3, <2>1, SuiteAssumption
  <2>3. \A j \in 1 .. Len(Suite) : off[j] \in Nat
    <3>1. \A j \in 1 .. Len(Suite) : j \in 1 .. Len(secs) + 1
      BY <1>5
    <3>. QED BY <1>1, <3>1 DEF Places
  <2>. QED BY <1>4, <2>1, <2>2, <2>3, LogIs
<1>7. /\ secs[i][1].kind = "text" /\ secs[i][2].kind = "start"
      /\ \A k \in 1 .. Len(secs[i]) : secs[i][k].test = t
      /\ Len(secs[i]) = L + 3 /\ secs[i][L + 3].kind = "end"
      /\ \A k \in 1 .. L : secs[i][k + 2] = LineOf("text", t, Body[t][k])
  <2>1. f[t].done /\ t \in Ends
    BY <1>2, FinishedIs
  <2>2. SectionShape(t, f[t], secs[i])
    BY <1>2, <1>5, <1>6
  <2>. QED BY <1>3, <2>1, <2>2 DEF SectionShape
<1>8. \A k \in 1 .. L + 3 : o + k \in 1 .. Len(log) /\ log[o + k] = secs[i][k]
  <2>1. i \in 1 .. Len(secs)
    BY <1>5, <1>6
  <2>2. \A k \in 1 .. Len(secs[i]) :
          off[i] + k \in 1 .. Len(log) /\ log[off[i] + k] = secs[i][k]
    BY <1>1, <2>1 DEF Places
  <2>. QED BY <1>4, <1>7, <2>2
<1>9. 1 \in 1 .. L + 3 /\ 2 \in 1 .. L + 3 /\ L + 3 \in 1 .. L + 3
  BY <1>6
<1>10. /\ o + 1 \in 1 .. Len(log) /\ log[o + 1].kind = "text"
       /\ o + 2 \in 1 .. Len(log) /\ log[o + 2].kind = "start" /\ log[o + 2].test = t
       /\ o + (L + 3) \in 1 .. Len(log) /\ log[o + (L + 3)].kind = "end"
  BY <1>7, <1>8, <1>9
<1>11. \A k \in 1 .. L : log[(o + 2) + k] = LineOf("text", t, Body[t][k])
  <2> SUFFICES ASSUME NEW k \in 1 .. L PROVE log[(o + 2) + k] = LineOf("text", t, Body[t][k])
    OBVIOUS
  <2>1. k + 2 \in 1 .. L + 3 /\ o + (k + 2) = (o + 2) + k
    BY <1>6
  <2>2. log[o + (k + 2)] = secs[i][k + 2]
    BY <1>8, <2>1
  <2>. QED BY <1>7, <2>1, <2>2
<1>12. Fresh(o + 2)
  <2>1. o = 0 \/ (o \in 1 .. Len(log) /\ log[o].kind = "end")
    <3>1. CASE i = 1
      BY <1>1, <1>4, <3>1 DEF Places
    <3>2. CASE i # 1
      <4>1. i - 1 \in 1 .. Len(Suite) /\ (i - 1) + 1 = i
        BY <1>6, <3>2
      <4>2. f[Suite[i - 1]].done /\ Suite[i - 1] \in Ends
        BY <1>5, <3>2, <4>1, FinishedIs
      <4>3. PICK M : M = Len(secs[i - 1])
        OBVIOUS
      <4>4. M \in Nat /\ M >= 2 /\ secs[i - 1][M].kind = "end"
        BY <1>5, <4>1, <4>2, <4>3 DEF SectionShape
      <4>5. M \in 1 .. M
        BY <4>4
      <4>6. /\ o = off[i - 1] + M
            /\ off[i - 1] + M \in 1 .. Len(log) /\ log[off[i - 1] + M] = secs[i - 1][M]
        BY <1>1, <1>4, <1>5, <4>1, <4>3, <4>5 DEF Places
      <4>. QED BY <4>4, <4>6
    <3>. QED BY <3>1, <3>2
  <2>2. o \in 0 .. (o + 2) - 1 /\ \A r \in o + 1 .. (o + 2) - 1 : r = o + 1
    BY <1>6
  <2>. QED BY <1>10, <2>1, <2>2 DEF Fresh
<1>13. ASSUME NEW q \in 1 .. Len(log), log[q].kind = "start", log[q].test = t PROVE q = o + 2
  <2>m. PICK m \in 1 .. Len(Suite) : \E k \in 1 .. Len(secs[m]) : q = off[m] + k
    BY <1>1, <1>5 DEF Places
  <2>1. PICK k \in 1 .. Len(secs[m]) : q = off[m] + k
    BY <2>m
  <2>2. log[q] = secs[m][k]
    BY <1>1, <1>5, <2>1 DEF Places
  <2>3. secs[m][k].test = Suite[m] /\ (secs[m][k].kind = "start" => k = 2)
    BY <1>5 DEF SectionShape
  <2>4. m = i /\ k = 2
    BY <1>2, <1>6, <1>13, <2>2, <2>3, SuiteIs
  <2>. QED BY <1>4, <2>1, <2>4
<1>14. o + (L + 3) = (o + 2) + L + 1
  BY <1>6
<1>15. WholeAt(o + 2, t, L)
  BY <1>10, <1>11, <1>12, <1>13, <1>14 DEF WholeAt
<1>. QED BY <1>2, <1>3, <1>10, <1>15

(* A segment from a START line on ends at the first END line after it.     *)
LEMMA EndsAt ==
  ASSUME NEW ps, NEW a \in Nat, NEW b \in Nat, ExactlyBetween(ps, a, b),
         NEW e \in Nat, a < e, log[e].kind = "end"
  PROVE  b <= e
<1> SUFFICES ASSUME e < b PROVE FALSE
  OBVIOUS
<1>1. e \in a + 1 .. b - 1
  OBVIOUS
<1>2. \E i \in DOMAIN ps : ps[i] = e
  BY <1>1 DEF ExactlyBetween
<1>. QED BY <1>2 DEF ExactlyBetween

(* Such a test is graded on exactly its own lines, and only then.          *)
LEMMA FinishedGetsFullMarks ==
  ASSUME RunnerInv, RecoverInv, outcome = "printed", NEW i \in DOMAIN Suite,
         Finished(Suite[i]), i = 1 \/ Finished(Suite[i - 1])
  PROVE  FullMarks(Suite[i])
<1>t. /\ TypeOK /\ Len(log) \in Nat /\ DOMAIN log = 1 .. Len(log) /\ pos = Len(log) + 1
      /\ data \in Seq(Nat)
  BY LogIs DEF RunnerInv, RecoverInv, HeldToTheEnd
<1>1. PICK f \in Fates : log = Capture(f)
  BY SuiteAssumption, <1>t DEF TypeOK, SuiteLogs
<1>2. PICK t : t = Suite[i]
  OBVIOUS
<1>3. PICK L : L = Len(Body[t])
  OBVIOUS
<1>s. t \in SuiteTests /\ Body[t] \in Seq(Text) /\ L \in Nat /\ DOMAIN Body[t] = 1 .. L
  <2>1. t \in SuiteTests
    BY <1>2 DEF SuiteTests
  <2>2. Body[t] \in Seq(Text)
    BY <2>1, SuiteAssumption
  <2>. QED BY <1>3, <2>1, <2>2
<1>w. PICK p \in 1 .. Len(log) : WholeAt(p, t, L)
  BY <1>1, <1>2, <1>3, <1>t, WholeSection
<1>4. /\ p \in 1 .. Len(log)
      /\ Fresh(p) /\ log[p].kind = "start" /\ log[p].test = t
      /\ \A q \in 1 .. Len(log) : log[q].kind = "start" /\ log[q].test = t => q = p
      /\ p + L + 1 \in 1 .. Len(log)
      /\ log[p + L + 1].kind = "end"
      /\ \A k \in 1 .. L : log[p + k] = LineOf("text", t, Body[t][k])
  BY <1>w DEF WholeAt
<1>5. PICK e : e = p + L + 1
  OBVIOUS
<1>6. p \in Nat /\ e \in Nat /\ p < e /\ e < pos /\ log[e].kind = "end" /\ p \in 1 .. pos - 1
  BY <1>t, <1>s, <1>4, <1>5
<1>7. PICK g \in graded : g.from = p
  <2>1. (state = 1 /\ from = p) \/ \E g \in graded : g.from = p
    BY <1>4, <1>6 DEF RecoverInv, FreshIsRecognised
  <2>2. ASSUME state = 1, from = p PROVE FALSE
    <3>1. ExactlyBetween(data, p, pos)
      BY <2>2 DEF RecoverInv, HeldToTheEnd
    <3>2. pos \in Nat
      BY <1>t
    <3>3. pos <= e
      BY <1>6, <3>1, <3>2, EndsAt
    <3>. QED BY <1>6, <3>2, <3>3
  <2>. QED BY <2>1, <2>2
<1>8. g.test = t
  BY <1>4, <1>7 DEF RunnerInv, GradedSegmentsExact
<1>9. PICK h \in graded : h.test = t /\ result[t] = Start(t, Lines(h.data))
  BY <1>7, <1>8 DEF RecoverInv, ResultsAreOfSegments
<1>10. t \in Oracles /\ h.data \in Seq(Nat)
  BY <1>9 DEF RecoverInv, ResultsAreOfSegments
<1>11. /\ h.end \in 1 .. pos - 1 /\ h.from \in 1 .. h.end - 1 /\ log[h.end].kind = "end"
       /\ log[h.from].kind = "start" /\ log[h.from].test = t
       /\ ExactlyBetween(h.data, h.from, h.end)
  BY <1>9 DEF RunnerInv, GradedSegmentsExact
<1>12. h.from = p /\ h.end \in Nat /\ h.end > p
  <2>1. h.from \in 1 .. Len(log) /\ h.end \in Nat /\ h.end > h.from
    BY <1>t, <1>11
  <2>. QED BY <1>4, <1>11, <2>1
<1>13. h.end = e
  <2>1. h.end <= e
    BY <1>6, <1>11, <1>12, EndsAt
  <2>2. ~(h.end < e)
    <3> SUFFICES ASSUME h.end < e PROVE FALSE
      OBVIOUS
    <3>1. h.end - p \in 1 .. L /\ p + (h.end - p) = h.end
      BY <1>5, <1>6, <1>12, <1>s
    <3>2. log[h.end] = LineOf("text", t, Body[t][h.end - p])
      BY <1>4, <3>1
    <3>. QED BY <1>11, <3>2 DEF LineOf
  <2>. QED BY <1>6, <1>12, <2>1, <2>2
<1>14. Len(h.data) = L /\ \A k \in 1 .. L : h.data[k] = p + k
  <2>1. ASSUME NEW q \in p + 1 .. e - 1 PROVE log[q].kind # "blank"
    <3>1. q - p \in 1 .. L /\ p + (q - p) = q
      BY <1>5, <1>6, <1>s
    <3>2. log[q] = LineOf("text", t, Body[t][q - p])
      BY <1>4, <3>1
    <3>. QED BY <3>2 DEF LineOf
  <2>2. ExactlyBetween(h.data, p, e)
    BY <1>11, <1>12, <1>13
  <2>3. Len(h.data) = e - 1 - p /\ \A k \in 1 .. Len(h.data) : h.data[k] = p + k
    BY <1>6, <1>10, <2>1, <2>2, SegmentIs
  <2>4. e - 1 - p = L
    BY <1>5, <1>6, <1>s
  <2>. QED BY <2>3, <2>4
<1>15. Lines(h.data) = Printed(t, Body[t])
  <2>1. DOMAIN h.data = 1 .. L
    BY <1>10, <1>14
  <2>2. \A k \in 1 .. L : log[h.data[k]] = LineOf("text", t, Body[t][k])
    BY <1>4, <1>14
  <2>. QED BY <1>s, <2>1, <2>2 DEF Lines, Printed
<1>16. \A k \in DOMAIN Expect[t] : Holds(Expect[t][k], Printed(t, Body[t]))
  <2>1. t \in Ends
    BY <1>1, <1>2, <1>t, FinishedIs
  <2>. QED BY <1>s, <1>10, <2>1, SuiteAssumption
<1>17. result[t] = [k \in DOMAIN Expect[t] |-> TRUE]
  <2>1. PICK ls : ls = Printed(t, Body[t])
    OBVIOUS
  <2>2. Start(t, ls) = [k \in DOMAIN Expect[t] |-> TRUE]
    BY <1>10, <1>16, <2>1, AllHold
  <2>. QED BY <1>9, <1>15, <2>1, <2>2
<1>. QED BY <1>2, <1>10, <1>17 DEF FullMarks, Passed

(* A test that prints its END line and follows one that did, or comes      *)
(* first, gets full marks, whatever became of the others, for every suite  *)
(* whose oracles accept what their tests print.                            *)
THEOREM RecoversAtTheNextEnd == Spec => []RecoversAfterEnd
<1>1. RunnerInv /\ RecoverInv => RecoversAfterEnd
  BY FinishedGetsFullMarks DEF RecoversAfterEnd
<1>. QED BY <1>1, RunnerInductive, RecoverInductive, PTL

=============================================================================
