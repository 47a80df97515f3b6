---------------------------- MODULE PathTest_proofs ----------------------------
(***************************************************************************)
(* Proofs about PathTest: however many probes and polls there are, however *)
(* the player takes what it is asked, and whatever the web page does with  *)
(* it meanwhile, the verdict of a startup is what its caller takes it for; *)
(* and whatever the paths and the mappings are, an item is played from the *)
(* folder that the test of its mapping has tried, as far as the rules are  *)
(* meant to agree.                                                         *)
(***************************************************************************)
EXTENDS PathTest, SequenceTheorems, WellFoundedInduction, TLAPS

-------------------------------------------------------------------------------
(***************************************************************************)
(* str.replace: what the recursive definition of Rewritten comes to.  The  *)
(* inductions are over sets of numbers: a set of them that is without a    *)
(* first counterexample has them all.                                      *)
(***************************************************************************)

\* A set that has 0, and with each number the next one, has all.
LEMMA SetInduction ==
    ASSUME NEW T, 0 \in T, \A k \in Nat : k \in T => k + 1 \in T
    PROVE  Nat \subseteq T
<1> SUFFICES ASSUME NEW n \in Nat, n \notin T
             PROVE  FALSE
    OBVIOUS
<1>1. Nat \ T # {} /\ Nat \ T \subseteq Nat
    OBVIOUS
<1>2. PICK least \in Nat \ T : \A y \in Nat \ T : ~(<<y, least>> \in OpToRel(<, Nat))
    BY <1>1, NatLessThanWellFounded, WFMin, Zenon
<1>3. least # 0 /\ least - 1 \in Nat
    BY SMT
<1>4. least - 1 \in T
  <2>1. <<least - 1, least>> \in OpToRel(<, Nat)
    BY <1>3, SMT DEF OpToRel
  <2> QED
    BY <1>2, <1>3, <2>1, Zenon
<1>5. (least - 1) + 1 \in T
    BY <1>3, <1>4, Zenon
<1> QED
    BY <1>5, SMT

\* The same from above, for the places of a text.
LEMMA DownInduction ==
    ASSUME NEW n \in Nat, NEW T, n + 1 \in T,
           \A i \in 1..n : (i + 1)..(n + 1) \subseteq T => i \in T
    PROVE  1..(n + 1) \subseteq T
<1> DEFINE U == {k \in Nat : k <= n => (n + 1 - k)..(n + 1) \subseteq T}
<1>1. 0 \in U
    OBVIOUS
<1>2. ASSUME NEW k \in Nat, k \in U PROVE k + 1 \in U
  <2> SUFFICES ASSUME k + 1 <= n
               PROVE  (n + 1 - (k + 1))..(n + 1) \subseteq T
    OBVIOUS
  <2>1. (n + 1 - k)..(n + 1) \subseteq T
    BY <1>2
  <2>2. n - k \in 1..n /\ (n - k) + 1 = n + 1 - k /\ n + 1 - (k + 1) = n - k
    OBVIOUS
  <2>3. n - k \in T
    BY <2>1, <2>2
  <2> QED
    BY <2>1, <2>2, <2>3
<1>3. Nat \subseteq U
  <2> HIDE DEF U
  <2> QED
    BY <1>1, <1>2, SetInduction, Zenon
<1>4. n \in U
    BY <1>3
<1> QED
    BY <1>4

\* What the recursive definition of Rewritten asks of a function.
IsRewriting(g, text, old, new) ==
    g = [i \in 1..Len(text) + 1 |->
            IF i = Len(text) + 1 THEN <<>>
            ELSE IF Begins(text, old, i) THEN new \o g[i + Len(old)]
            ELSE <<text[i]>> \o g[i + 1]]

\* A text can be rewritten from its end on.
LEMMA RewritingExists ==
    ASSUME NEW A, NEW text \in Seq(A), NEW old \in Seq(A) \ {<<>>}, NEW new \in Seq(A)
    PROVE  \E g : IsRewriting(g, text, old, new)
<1> DEFINE n == Len(text)
           Body(g, i) == IF i = n + 1 THEN <<>>
                         ELSE IF Begins(text, old, i) THEN new \o g[i + Len(old)]
                         ELSE <<text[i]>> \o g[i + 1]
           Good(k) == \E g \in [(n + 1 - k)..(n + 1) -> Seq(A)] :
                          \A i \in (n + 1 - k)..(n + 1) : g[i] = Body(g, i)
           U == {k \in Nat : k <= n => Good(k)}
<1>1. n \in Nat /\ Len(old) \in Nat \ {0}
    BY EmptySeq, LenProperties
<1>2. \A i \in 1..n : Begins(text, old, i) => i + Len(old) \in (i + 1)..(n + 1)
    BY <1>1 DEF Begins
<1>3. <<>> \in Seq(A) /\ \A i \in 1..n : <<text[i]>> \in Seq(A)
    BY ElementOfSeq
<1> HIDE DEF n
<1>4. 0 \in U
  <2>1. n + 1 - 0 = n + 1
    BY <1>1
  <2>2. [i \in (n + 1)..(n + 1) |-> <<>>] \in [(n + 1)..(n + 1) -> Seq(A)]
    BY <1>3
  <2> DEFINE g == [i \in (n + 1)..(n + 1) |-> <<>>]
  <2>3. \A i \in (n + 1)..(n + 1) : i = n + 1
    BY <1>1
  <2>4. \A i \in (n + 1)..(n + 1) : g[i] = Body(g, i)
    BY <2>3
  <2>5. Good(0)
    BY <2>1, <2>2, <2>4
  <2> QED
    BY <2>5
<1>5. ASSUME NEW k \in Nat, k \in U PROVE k + 1 \in U
  <2> SUFFICES ASSUME k + 1 <= n PROVE Good(k + 1)
    OBVIOUS
  <2> DEFINE m == n - k
  <2>1. m \in 1..n /\ n + 1 - k = m + 1 /\ n + 1 - (k + 1) = m
    BY <1>1
  <2>2. PICK g \in [(m + 1)..(n + 1) -> Seq(A)] :
            \A i \in (m + 1)..(n + 1) : g[i] = Body(g, i)
    BY <1>1, <1>5, <2>1
  <2> HIDE DEF m
  <2> DEFINE h == [i \in m..(n + 1) |-> IF i = m THEN Body(g, m) ELSE g[i]]
  <2>3. Body(g, m) \in Seq(A)
    <3>1. CASE Begins(text, old, m)
      <4>1. g[m + Len(old)] \in Seq(A)
        BY <1>2, <2>1, <2>2, <3>1
      <4> QED
        BY <3>1, <4>1, <2>1, <1>1, ConcatProperties
    <3>2. CASE ~Begins(text, old, m)
      <4>1. g[m + 1] \in Seq(A)
        BY <2>1, <2>2, <1>1
      <4> QED
        BY <3>2, <4>1, <2>1, <1>1, <1>3, ConcatProperties
    <3> QED
      BY <3>1, <3>2
  <2> HIDE DEF Body
  <2>4. h \in [m..(n + 1) -> Seq(A)]
    BY <2>1, <2>2, <2>3
  <2>5. \A i \in (m + 1)..(n + 1) : h[i] = g[i]
    BY <2>1
  <2>6. \A i \in m..(n + 1) : Body(h, i) = Body(g, i)
    <3> TAKE i \in m..(n + 1)
    <3>1. i # n + 1 => i + 1 \in (m + 1)..(n + 1)
      BY <1>1, <2>1
    <3>2. i # n + 1 /\ Begins(text, old, i) => i + Len(old) \in (m + 1)..(n + 1)
      BY <1>1, <1>2, <2>1
    <3> HIDE DEF h
    <3> QED
      BY <2>5, <3>1, <3>2 DEF Body
  <2>7. \A i \in m..(n + 1) : h[i] = Body(h, i)
    BY <2>1, <2>2, <2>6
  <2> QED
    BY <2>1, <2>4, <2>7
<1>6. n \in U
  <2> HIDE DEF U
  <2> QED
    BY <1>1, <1>4, <1>5, SetInduction
<1>7. Good(n) /\ n + 1 - n = 1
  <2> HIDE DEF Good
  <2> QED
    BY <1>1, <1>6
<1>8. PICK g \in [1..(n + 1) -> Seq(A)] : \A i \in 1..(n + 1) : g[i] = Body(g, i)
    BY <1>7
<1>9. g = [i \in 1..(n + 1) |-> Body(g, i)]
  <2> HIDE DEF Body
  <2> QED
    BY <1>8
<1> QED
    BY <1>9, Zenon DEF n, IsRewriting

\* What a text is rewritten to from each place on.
LEMMA RewrittenFrom ==
    ASSUME NEW A, NEW text \in Seq(A), NEW old \in Seq(A) \ {<<>>}, NEW new \in Seq(A)
    PROVE  /\ Rewritten(text, old, new) \in [1..Len(text) + 1 -> Seq(A)]
           /\ Rewritten(text, old, new)[Len(text) + 1] = <<>>
           /\ \A i \in 1..Len(text) :
                  Rewritten(text, old, new)[i] =
                      IF Begins(text, old, i) THEN new \o Rewritten(text, old, new)[i + Len(old)]
                      ELSE <<text[i]>> \o Rewritten(text, old, new)[i + 1]
<1> DEFINE R == Rewritten(text, old, new)
           n == Len(text)
<1>1. R = CHOOSE g : IsRewriting(g, text, old, new)
    BY DEF Rewritten, IsRewriting
<1>2. \E g : IsRewriting(g, text, old, new)
    BY RewritingExists
<1>3. IsRewriting(R, text, old, new)
    BY <1>1, <1>2, Zenon
<1>4. n \in Nat /\ Len(old) \in Nat \ {0}
    BY EmptySeq, LenProperties
<1>5. R = [i \in 1..(n + 1) |->
            IF i = n + 1 THEN <<>>
            ELSE IF Begins(text, old, i) THEN new \o R[i + Len(old)]
            ELSE <<text[i]>> \o R[i + 1]]
    BY <1>3, Zenon DEF IsRewriting
<1>6. \A i \in 1..(n + 1) :
          R[i] = IF i = n + 1 THEN <<>>
                 ELSE IF Begins(text, old, i) THEN new \o R[i + Len(old)]
                 ELSE <<text[i]>> \o R[i + 1]
    BY <1>5, Zenon
<1> DEFINE T == {i \in 1..(n + 1) : R[i] \in Seq(A)}
<1> HIDE DEF R, n
<1>12. R[n + 1] = <<>>
  <2>1. n + 1 \in 1..(n + 1)
    BY <1>4
  <2> QED
    BY <1>6, <2>1, Zenon
<1>7. n + 1 \in T
  <2>1. n + 1 \in 1..(n + 1)
    BY <1>4
  <2>2. R[n + 1] \in Seq(A)
    BY <1>12, EmptySeq, Zenon
  <2> QED
    BY <2>1, <2>2, Zenon
<1>8. ASSUME NEW i \in 1..n, (i + 1)..(n + 1) \subseteq T
      PROVE  i \in T
  <2>1. i \in 1..(n + 1) /\ i # n + 1 /\ i + 1 \in T
    BY <1>4, <1>8
  <2>2. CASE Begins(text, old, i)
    <3>1. i + Len(old) \in T
      BY <1>4, <1>8, <2>2 DEF Begins, n
    <3>2. R[i + Len(old)] \in Seq(A)
      BY <3>1
    <3>3. R[i] = new \o R[i + Len(old)]
      BY <1>6, <2>1, <2>2, Zenon
    <3>4. R[i] \in Seq(A)
      BY <3>2, <3>3, ConcatProperties
    <3> QED
      BY <2>1, <3>4
  <2>3. CASE ~Begins(text, old, i)
    <3>1. <<text[i]>> \in Seq(A) /\ R[i + 1] \in Seq(A)
      BY <2>1, ElementOfSeq DEF n
    <3>3. R[i] = <<text[i]>> \o R[i + 1]
      BY <1>6, <2>1, <2>3, Zenon
    <3>4. R[i] \in Seq(A)
      BY <3>1, <3>3, ConcatProperties
    <3> QED
      BY <2>1, <3>4
  <2> QED
    BY <2>2, <2>3
<1>9. 1..(n + 1) \subseteq T
  <2> HIDE DEF T
  <2> QED
    BY <1>4, <1>7, <1>8, DownInduction
<1>10. R = [i \in 1..(n + 1) |-> R[i]]
    BY <1>5, Zenon
<1>11. R \in [1..(n + 1) -> Seq(A)]
    BY <1>9, <1>10
<1>13. \A i \in 1..n :
          R[i] = IF Begins(text, old, i) THEN new \o R[i + Len(old)]
                 ELSE <<text[i]>> \o R[i + 1]
    BY <1>4, <1>6
<1> QED
    BY <1>11, <1>12, <1>13, Zenon DEF n, R

\* Where one text begins in another, token by token.
LEMMA BeginsTokens ==
    ASSUME NEW text \in Seq(Tokens), NEW old \in Seq(Tokens), NEW i \in Nat \ {0}
    PROVE  Begins(text, old, i) <=> /\ i + Len(old) - 1 <= Len(text)
                                    /\ \A k \in 1..Len(old) : text[i + k - 1] = old[k]
<1>1. Len(old) \in Nat /\ Len(text) \in Nat
    BY LenProperties
<1>2. SUFFICES ASSUME i + Len(old) - 1 <= Len(text)
               PROVE  SubSeq(text, i, i + Len(old) - 1) = old
                          <=> \A k \in 1..Len(old) : text[i + k - 1] = old[k]
    BY DEF Begins
<1>3. \A j \in i..(i + Len(old) - 1) : text[j] \in Tokens
    BY <1>1, <1>2, ElementOfSeq
<1> DEFINE sub == SubSeq(text, i, i + Len(old) - 1)
<1>4. /\ sub \in Seq(Tokens) /\ Len(sub) = Len(old)
      /\ \A k \in 1..Len(old) : sub[k] = text[i + k - 1]
  <2>1. i \in Int /\ i + Len(old) - 1 \in Int /\ (i + Len(old) - 1) - i + 1 = Len(old)
    BY <1>1
  <2>2. Len(old) # 0 => i <= i + Len(old) - 1
    BY <1>1
  <2>3. Len(old) = 0 => ~(i <= i + Len(old) - 1)
    BY <1>1
  <2>4. /\ sub \in Seq(Tokens)
        /\ Len(sub) = IF i <= i + Len(old) - 1 THEN (i + Len(old) - 1) - i + 1 ELSE 0
        /\ \A k \in 1..(i + Len(old) - 1) - i + 1 : sub[k] = text[i + k - 1]
    BY <1>3, <2>1, SubSeqProperties
  <2> QED
    BY <2>1, <2>2, <2>3, <2>4
<1> HIDE DEF sub
<1>5. sub = old <=> \A k \in 1..Len(old) : sub[k] = old[k]
    BY <1>4, SeqEqual
<1> QED
    BY <1>4, <1>5 DEF sub

\* What a text begins with behind another does not depend on that one.
LEMMA BeginsBehind ==
    ASSUME NEW x \in Seq(Tokens), NEW y \in Seq(Tokens), NEW old \in Seq(Tokens),
           NEW j \in Nat \ {0}
    PROVE  Begins(x \o y, old, Len(x) + j) <=> Begins(y, old, j)
<1>1. /\ Len(old) \in Nat /\ Len(x) \in Nat /\ Len(y) \in Nat
      /\ x \o y \in Seq(Tokens) /\ Len(x \o y) = Len(x) + Len(y)
      /\ \A i \in 1..Len(x) + Len(y) :
             (x \o y)[i] = IF i <= Len(x) THEN x[i] ELSE y[i - Len(x)]
    BY LenProperties, ConcatProperties
<1>2. (Len(x) + j) + Len(old) - 1 <= Len(x \o y) <=> j + Len(old) - 1 <= Len(y)
    BY <1>1
<1>3. ASSUME j + Len(old) - 1 <= Len(y), NEW k \in 1..Len(old)
      PROVE  (x \o y)[Len(x) + j + k - 1] = y[j + k - 1]
    BY <1>1, <1>3
<1>4. Len(x) + j \in Nat \ {0}
    BY <1>1
<1>5. Begins(y, old, j) <=> /\ j + Len(old) - 1 <= Len(y)
                            /\ \A k \in 1..Len(old) : y[j + k - 1] = old[k]
    BY BeginsTokens
<1>6. Begins(x \o y, old, Len(x) + j) <=>
          /\ (Len(x) + j) + Len(old) - 1 <= Len(x \o y)
          /\ \A k \in 1..Len(old) : (x \o y)[Len(x) + j + k - 1] = old[k]
  <2> DEFINE z == x \o y
             i == Len(x) + j
  <2>1. z \in Seq(Tokens) /\ i \in Nat \ {0}
    BY <1>1, <1>4
  <2> HIDE DEF z, i
  <2>2. Begins(z, old, i) <=> /\ i + Len(old) - 1 <= Len(z)
                              /\ \A k \in 1..Len(old) : z[i + k - 1] = old[k]
    BY <2>1, BeginsTokens
  <2> QED
    BY <2>2, Zenon DEF z, i
<1> QED
    BY <1>2, <1>3, <1>5, <1>6

\* What a text begins with in front of another, if it ends there too.
LEMMA BeginsBefore ==
    ASSUME NEW x \in Seq(Tokens), NEW y \in Seq(Tokens), NEW old \in Seq(Tokens),
           NEW i \in Nat \ {0}, i + Len(old) - 1 <= Len(x)
    PROVE  Begins(x \o y, old, i) <=> Begins(x, old, i)
<1>1. /\ Len(old) \in Nat /\ Len(x) \in Nat /\ Len(y) \in Nat
      /\ x \o y \in Seq(Tokens) /\ Len(x \o y) = Len(x) + Len(y)
      /\ \A k \in 1..Len(x) + Len(y) :
             (x \o y)[k] = IF k <= Len(x) THEN x[k] ELSE y[k - Len(x)]
    BY LenProperties, ConcatProperties
<1>2. ASSUME NEW k \in 1..Len(old) PROVE (x \o y)[i + k - 1] = x[i + k - 1]
    BY <1>1
<1>3. Begins(x, old, i) <=> /\ i + Len(old) - 1 <= Len(x)
                            /\ \A k \in 1..Len(old) : x[i + k - 1] = old[k]
    BY BeginsTokens
<1>4. Begins(x \o y, old, i) <=>
          /\ i + Len(old) - 1 <= Len(x \o y)
          /\ \A k \in 1..Len(old) : (x \o y)[i + k - 1] = old[k]
  <2>1. x \o y \in Seq(Tokens)
    BY <1>1
  <2> QED
    BY <2>1, BeginsTokens
<1> QED
    BY <1>1, <1>2, <1>3, <1>4

\* The end of a text is rewritten as if it stood alone.
LEMMA RewrittenBehind ==
    ASSUME NEW x \in Seq(Tokens), NEW y \in Seq(Tokens), NEW old \in Seq(Tokens) \ {<<>>},
           NEW new \in Seq(Tokens), NEW k \in 1..Len(y) + 1
    PROVE  Rewritten(x \o y, old, new)[Len(x) + k] = Rewritten(y, old, new)[k]
<1> DEFINE R == Rewritten(x \o y, old, new)
           S == Rewritten(y, old, new)
           n == Len(y)
           T == {j \in 1..(n + 1) : R[Len(x) + j] = S[j]}
<1>1. /\ Len(old) \in Nat \ {0} /\ Len(x) \in Nat /\ n \in Nat
      /\ x \o y \in Seq(Tokens) /\ Len(x \o y) = Len(x) + n
      /\ \A i \in 1..Len(x) + n :
             (x \o y)[i] = IF i <= Len(x) THEN x[i] ELSE y[i - Len(x)]
    BY LenProperties, ConcatProperties, EmptySeq
<1>2. /\ R[Len(x) + n + 1] = <<>>
      /\ \A i \in 1..Len(x) + n :
             R[i] = IF Begins(x \o y, old, i) THEN new \o R[i + Len(old)]
                    ELSE <<(x \o y)[i]>> \o R[i + 1]
  <2> DEFINE z == x \o y
  <2>1. z \in Seq(Tokens)
    BY <1>1
  <2> HIDE DEF z
  <2>2. /\ Rewritten(z, old, new)[Len(z) + 1] = <<>>
        /\ \A i \in 1..Len(z) :
               Rewritten(z, old, new)[i] =
                   IF Begins(z, old, i) THEN new \o Rewritten(z, old, new)[i + Len(old)]
                   ELSE <<z[i]>> \o Rewritten(z, old, new)[i + 1]
    BY <2>1, RewrittenFrom
  <2> QED
    BY <1>1, <2>2 DEF z
<1>3. /\ S[n + 1] = <<>>
      /\ \A i \in 1..n :
             S[i] = IF Begins(y, old, i) THEN new \o S[i + Len(old)]
                    ELSE <<y[i]>> \o S[i + 1]
    BY <1>1, RewrittenFrom
<1>4. \A i \in 1..n : Begins(y, old, i) => i + Len(old) \in (i + 1)..(n + 1)
    BY <1>1 DEF Begins
<1>5. \A j \in 1..n : Begins(x \o y, old, Len(x) + j) <=> Begins(y, old, j)
  <2>1. ASSUME NEW j \in 1..n PROVE j \in Nat \ {0} /\ old \in Seq(Tokens)
    BY <1>1
  <2> QED
    BY <2>1, BeginsBehind
<1> HIDE DEF R, S, n
<1>6. n + 1 \in T
    BY <1>1, <1>2, <1>3
<1>7. ASSUME NEW j \in 1..n, (j + 1)..(n + 1) \subseteq T
      PROVE  j \in T
  <2>1. /\ Len(x) + j \in 1..Len(x) + n /\ (x \o y)[Len(x) + j] = y[j]
        /\ (Len(x) + j) + Len(old) = Len(x) + (j + Len(old))
        /\ (Len(x) + j) + 1 = Len(x) + (j + 1)
    BY <1>1
  <2>2. R[Len(x) + (j + 1)] = S[j + 1]
    BY <1>1, <1>7
  <2>3. Begins(y, old, j) => R[Len(x) + (j + Len(old))] = S[j + Len(old)]
    BY <1>4, <1>7
  <2>4. R[Len(x) + j] = S[j]
    <3>1. CASE Begins(y, old, j)
      <4>1. R[Len(x) + j] = new \o R[Len(x) + (j + Len(old))]
        BY <1>2, <1>5, <2>1, <3>1
      <4>2. S[j] = new \o S[j + Len(old)]
        BY <1>3, <3>1
      <4> QED
        BY <2>3, <3>1, <4>1, <4>2
    <3>2. CASE ~Begins(y, old, j)
      <4>1. R[Len(x) + j] = <<y[j]>> \o R[Len(x) + (j + 1)]
        BY <1>2, <1>5, <2>1, <3>2
      <4>2. S[j] = <<y[j]>> \o S[j + 1]
        BY <1>3, <3>2
      <4> QED
        BY <2>2, <4>1, <4>2
    <3> QED
      BY <3>1, <3>2
  <2> QED
    BY <1>1, <2>4
<1>8. 1..(n + 1) \subseteq T
  <2> HIDE DEF T
  <2> QED
    BY <1>1, <1>6, <1>7, DownInduction
<1> QED
    BY <1>8 DEF n, R, S

\* What is replaced is something: then a text is rewritten from its beginning.
LEMMA NotNothing ==
    ASSUME NEW text, NEW old, NEW new, old # <<>>
    PROVE  Replaced(text, old, new) = Rewritten(text, old, new)[1]
BY DEF Replaced

\* No occurrence of a text goes over the end of one text into the next.
Crosses(x, y, old) ==
    \E i \in 1..Len(x) : i + Len(old) - 1 > Len(x) /\ Begins(x \o y, old, i)

\* Texts can be put together in any order.
Associates(A) == \A u, t, v \in Seq(A) : (u \o t) \o v = u \o (t \o v)

\* Sequences are put together in that way.
LEMMA Associative == \A A : Associates(A)
BY ConcatAssociative DEF Associates

\* str.replace goes through two texts one after the other, if nothing that is
\* replaced lies in both.
LEMMA ReplacedConcat ==
    ASSUME NEW x \in Seq(Tokens), NEW y \in Seq(Tokens), NEW old \in Seq(Tokens) \ {<<>>},
           NEW new \in Seq(Tokens), ~Crosses(x, y, old)
    PROVE  Replaced(x \o y, old, new) = Replaced(x, old, new) \o Replaced(y, old, new)
<1> DEFINE R == Rewritten(x \o y, old, new)
           S == Rewritten(x, old, new)
           rest == Replaced(y, old, new)
           n == Len(x)
           T == {j \in 1..(n + 1) : R[j] = S[j] \o rest}
<1>1. /\ Len(old) \in Nat \ {0} /\ n \in Nat /\ Len(y) \in Nat
      /\ x \o y \in Seq(Tokens) /\ Len(x \o y) = n + Len(y)
      /\ \A i \in 1..n : (x \o y)[i] = x[i] /\ <<x[i]>> \in Seq(Tokens)
  <2>1. \A i \in 1..n : x[i] \in Tokens
    BY ElementOfSeq
  <2> QED
    BY <2>1, LenProperties, ConcatProperties, EmptySeq
<1>2. \A i \in 1..n :
          R[i] = IF Begins(x \o y, old, i) THEN new \o R[i + Len(old)]
                 ELSE <<x[i]>> \o R[i + 1]
  <2> DEFINE z == x \o y
  <2>1. z \in Seq(Tokens) /\ \A i \in 1..n : i \in 1..Len(z)
    BY <1>1
  <2> HIDE DEF z
  <2>2. \A i \in 1..Len(z) :
            Rewritten(z, old, new)[i] =
                IF Begins(z, old, i) THEN new \o Rewritten(z, old, new)[i + Len(old)]
                ELSE <<z[i]>> \o Rewritten(z, old, new)[i + 1]
    BY <2>1, RewrittenFrom
  <2> QED
    BY <1>1, <2>1, <2>2 DEF z
<1>3. /\ S \in [1..(n + 1) -> Seq(Tokens)]
      /\ S[n + 1] = <<>>
      /\ \A i \in 1..n :
             S[i] = IF Begins(x, old, i) THEN new \o S[i + Len(old)]
                    ELSE <<x[i]>> \o S[i + 1]
    BY <1>1, RewrittenFrom
<1>4. rest \in Seq(Tokens)
  <2>1. Rewritten(y, old, new) \in [1..Len(y) + 1 -> Seq(Tokens)] /\ 1 \in 1..Len(y) + 1
    BY <1>1, RewrittenFrom
  <2> QED
    BY <2>1, NotNothing
<1>5. \A i \in 1..n : Begins(x, old, i) => i + Len(old) \in (i + 1)..(n + 1)
    BY <1>1 DEF Begins
<1>6. \A i \in 1..n : Begins(x \o y, old, i) <=> Begins(x, old, i)
  <2> TAKE i \in 1..n
  <2>1. CASE i + Len(old) - 1 <= n
    <3>1. i \in Nat \ {0}
      BY <1>1
    <3> QED
      BY <2>1, <3>1, BeginsBefore
  <2>2. CASE ~(i + Len(old) - 1 <= n)
    <3>1. ~Begins(x \o y, old, i)
      BY <2>2 DEF Crosses
    <3>2. ~Begins(x, old, i)
      BY <2>2 DEF Begins
    <3> QED
      BY <3>1, <3>2
  <2> QED
    BY <2>1, <2>2
<1>7. R[n + 1] = rest
  <2>1. 1 \in 1..Len(y) + 1
    BY <1>1
  <2>2. Rewritten(x \o y, old, new)[Len(x) + 1] = Rewritten(y, old, new)[1]
    BY <2>1, RewrittenBehind
  <2> QED
    BY <2>2, NotNothing
<1> HIDE DEF R, S, n, rest
<1>12. \A u, t, v \in Seq(Tokens) : (u \o t) \o v = u \o (t \o v)
  <2>1. Associates(Tokens)
    BY Associative, Zenon
  <2> QED
    BY <2>1, Zenon DEF Associates
<1>8. n + 1 \in T
  <2>1. R[n + 1] = S[n + 1] \o rest
    BY <1>3, <1>4, <1>7, ConcatEmptySeq
  <2> QED
    BY <1>1, <2>1
<1>9. ASSUME NEW j \in 1..n, (j + 1)..(n + 1) \subseteq T
      PROVE  j \in T
  <2>1. j + 1 \in 1..(n + 1) /\ S[j + 1] \in Seq(Tokens) /\ R[j + 1] = S[j + 1] \o rest
    <3>1. j + 1 \in 1..(n + 1) /\ j + 1 \in T
      BY <1>1, <1>9
    <3>2. S[j + 1] \in Seq(Tokens)
      BY <1>3, <3>1, Zenon
    <3> QED
      BY <3>1, <3>2, Zenon
  <2>2. R[j] = S[j] \o rest
    <3>1. CASE Begins(x, old, j)
      <4>1. j + Len(old) \in T /\ j + Len(old) \in 1..(n + 1)
        BY <1>1, <1>5, <1>9, <3>1
      <4>2. S[j + Len(old)] \in Seq(Tokens) /\ R[j + Len(old)] = S[j + Len(old)] \o rest
        BY <1>3, <4>1
      <4>3. R[j] = new \o (S[j + Len(old)] \o rest)
        BY <1>2, <1>6, <3>1, <4>2
      <4>4. S[j] = new \o S[j + Len(old)]
        BY <1>3, <3>1
      <4> QED
        <5>1. (new \o S[j + Len(old)]) \o rest = new \o (S[j + Len(old)] \o rest)
          BY <1>4, <1>12, <4>2, Zenon
        <5> QED
          BY <4>3, <4>4, <5>1, Zenon
    <3>2. CASE ~Begins(x, old, j)
      <4>1. R[j] = <<x[j]>> \o (S[j + 1] \o rest)
        BY <1>2, <1>6, <2>1, <3>2
      <4>2. S[j] = <<x[j]>> \o S[j + 1]
        BY <1>3, <3>2
      <4> QED
        <5>1. <<x[j]>> \in Seq(Tokens)
          BY <1>1
        <5>2. (<<x[j]>> \o S[j + 1]) \o rest = <<x[j]>> \o (S[j + 1] \o rest)
          BY <1>4, <1>12, <2>1, <5>1, Zenon
        <5> QED
          BY <4>1, <4>2, <5>2, Zenon
    <3> QED
      BY <3>1, <3>2
  <2> QED
    BY <1>1, <2>2
<1>10. 1..(n + 1) \subseteq T
  <2> HIDE DEF T
  <2> QED
    BY <1>1, <1>8, <1>9, DownInduction
<1>11. R[1] = S[1] \o rest
    BY <1>1, <1>10
<1> QED
  <2>1. R[1] = Replaced(x \o y, old, new) /\ S[1] = Replaced(x, old, new)
    BY NotNothing DEF R, S
  <2> QED
    BY <1>11, <2>1, Zenon DEF rest

\* What is replaced has the tokens of the text and of what stands for the old ones.
LEMMA ReplacedType ==
    ASSUME NEW A, NEW text \in Seq(A), NEW old \in Seq(A) \ {<<>>}, NEW new \in Seq(A)
    PROVE  Replaced(text, old, new) \in Seq(A)
<1>1. 1 \in 1..Len(text) + 1
    BY LenProperties
<1>2. Rewritten(text, old, new) \in [1..Len(text) + 1 -> Seq(A)]
    BY RewrittenFrom
<1> QED
    BY <1>1, <1>2, NotNothing

\* A text in which nothing is to be replaced stays as it is.
LEMMA ReplacedNothing ==
    ASSUME NEW text \in Seq(Tokens), NEW old \in Seq(Tokens) \ {<<>>}, NEW new \in Seq(Tokens),
           ~Occurs(text, old)
    PROVE  Replaced(text, old, new) = text
<1> DEFINE R == Rewritten(text, old, new)
           n == Len(text)
           T == {i \in 1..(n + 1) : R[i] = SubSeq(text, i, n)}
<1>1. n \in Nat
    BY LenProperties
<1>2. /\ R[n + 1] = <<>>
      /\ \A i \in 1..n : R[i] = IF Begins(text, old, i) THEN new \o R[i + Len(old)]
                                ELSE <<text[i]>> \o R[i + 1]
    BY RewrittenFrom
<1>3. \A i \in 1..n : R[i] = <<text[i]>> \o R[i + 1]
  <2>1. \A i \in 1..n : ~Begins(text, old, i)
    BY <1>1 DEF Occurs
  <2> QED
    BY <1>2, <2>1
<1>4. SubSeq(text, n + 1, n) = <<>>
    BY <1>1, SubSeqEmpty
<1>5. \A i \in 1..n : SubSeq(text, i, n) = <<text[i]>> \o SubSeq(text, i + 1, n)
  <2> TAKE i \in 1..n
  <2>1. n \in i..Len(text)
    BY <1>1
  <2> QED
    BY <2>1, SubSeqRecursiveFirst
<1> HIDE DEF R, n
<1>6. n + 1 \in T
  <2>1. n + 1 \in 1..(n + 1)
    BY <1>1
  <2> QED
    BY <1>2, <1>4, <2>1, Zenon
<1>7. ASSUME NEW i \in 1..n, (i + 1)..(n + 1) \subseteq T
      PROVE  i \in T
  <2>1. i + 1 \in T /\ i \in 1..(n + 1)
    BY <1>1, <1>7
  <2>2. R[i + 1] = SubSeq(text, i + 1, n)
    BY <2>1
  <2> QED
    BY <1>3, <1>5, <2>1, <2>2
<1>8. 1..(n + 1) \subseteq T
  <2> HIDE DEF T
  <2> QED
    BY <1>1, <1>6, <1>7, DownInduction
<1>9. R[1] = SubSeq(text, 1, n)
    BY <1>1, <1>8
<1> QED
    BY <1>9, NotNothing, SubSeqFull DEF n, R

\* A text that is replaced once, at its beginning.
LEMMA ReplacedHead ==
    ASSUME NEW rest \in Seq(Tokens), NEW old \in Seq(Tokens) \ {<<>>}, NEW new \in Seq(Tokens),
           ~Occurs(rest, old)
    PROVE  Replaced(old \o rest, old, new) = new \o rest
<1>1. /\ Len(old) \in Nat \ {0} /\ Len(rest) \in Nat
      /\ old \o rest \in Seq(Tokens) /\ Len(old \o rest) = Len(old) + Len(rest)
      /\ \A k \in 1..Len(old) : (old \o rest)[k] = old[k]
    BY LenProperties, ConcatProperties, EmptySeq
<1>2. Begins(old \o rest, old, 1)
  <2> DEFINE z == old \o rest
  <2>1. z \in Seq(Tokens)
    BY <1>1
  <2> HIDE DEF z
  <2>2. Begins(z, old, 1) <=> /\ 1 + Len(old) - 1 <= Len(z)
                              /\ \A k \in 1..Len(old) : z[1 + k - 1] = old[k]
    BY <2>1, BeginsTokens
  <2> QED
    BY <1>1, <2>2 DEF z
<1>3. Rewritten(old \o rest, old, new)[1] = new \o Rewritten(old \o rest, old, new)[1 + Len(old)]
  <2> DEFINE z == old \o rest
  <2>1. z \in Seq(Tokens) /\ 1 \in 1..Len(z) /\ Begins(z, old, 1)
    BY <1>1, <1>2
  <2> HIDE DEF z
  <2>2. Rewritten(z, old, new)[1] = new \o Rewritten(z, old, new)[1 + Len(old)]
    BY <2>1, RewrittenFrom
  <2> QED
    BY <2>2 DEF z
<1>4. Rewritten(old \o rest, old, new)[Len(old) + 1] = Rewritten(rest, old, new)[1]
  <2>1. 1 \in 1..Len(rest) + 1
    BY <1>1
  <2> QED
    BY <2>1, RewrittenBehind
<1>5. Rewritten(rest, old, new)[1] = rest
    BY ReplacedNothing, NotNothing
<1>6. 1 + Len(old) = Len(old) + 1
    BY <1>1
<1> QED
    BY <1>3, <1>4, <1>5, <1>6, NotNothing

-------------------------------------------------------------------------------
(***************************************************************************)
(* The mappings, one after the other.                                      *)
(***************************************************************************)

\* What the recursive definition of Stages asks of a function, up to mapping k.
IsStaging(g, path, mappings, k) ==
    g = [n \in 0..k |-> IF n = 0 THEN path
                        ELSE Replaced(g[n - 1], mappings[n].emby, mappings[n].oppo)]

\* The mappings can be applied one after the other.
LEMMA StagingExists ==
    ASSUME NEW path, NEW mappings, NEW length \in Nat
    PROVE  \E g : IsStaging(g, path, mappings, length)
<1> DEFINE U == {k \in Nat : \E g : IsStaging(g, path, mappings, k)}
<1>1. 0 \in U
  <2> DEFINE g == [n \in 0..0 |-> path]
  <2>1. \A n \in 0..0 : n = 0
    OBVIOUS
  <2>2. IsStaging(g, path, mappings, 0)
    BY <2>1 DEF IsStaging
  <2> QED
    BY <2>2
<1>2. ASSUME NEW k \in Nat, k \in U PROVE k + 1 \in U
  <2> DEFINE Stage(g, n) == IF n = 0 THEN path
                           ELSE Replaced(g[n - 1], mappings[n].emby, mappings[n].oppo)
  <2>1. PICK g : IsStaging(g, path, mappings, k)
    BY <1>2
  <2>2. g = [n \in 0..k |-> Stage(g, n)]
    BY <2>1 DEF IsStaging
  <2> DEFINE h == [n \in 0..(k + 1) |-> IF n = k + 1 THEN Stage(g, k + 1) ELSE g[n]]
  <2>3. \A n \in 0..k : h[n] = g[n]
    OBVIOUS
  <2>4. \A n \in 0..(k + 1) : Stage(h, n) = Stage(g, n)
    <3> TAKE n \in 0..(k + 1)
    <3>1. n # 0 => n - 1 \in 0..k
      OBVIOUS
    <3> HIDE DEF h
    <3> QED
      BY <2>3, <3>1
  <2> HIDE DEF Stage
  <2>5. \A n \in 0..k : g[n] = Stage(g, n)
    BY <2>2
  <2>6. h = [n \in 0..(k + 1) |-> Stage(h, n)]
    BY <2>4, <2>5
  <2> HIDE DEF h
  <2>7. IsStaging(h, path, mappings, k + 1)
    BY <2>6, Zenon DEF IsStaging, Stage
  <2> QED
    BY <2>7
<1> HIDE DEF U
<1>3. Nat \subseteq U
    BY <1>1, <1>2, SetInduction
<1> QED
    BY <1>3 DEF U

\* What each mapping makes of what the ones before have made.
LEMMA StagesFrom ==
    ASSUME NEW path, NEW mappings, Len(mappings) \in Nat
    PROVE  /\ Stages(path, mappings)[0] = path
           /\ \A n \in 1..Len(mappings) :
                  Stages(path, mappings)[n] =
                      Replaced(Stages(path, mappings)[n - 1], mappings[n].emby, mappings[n].oppo)
<1> DEFINE S == Stages(path, mappings)
<1>1. S = CHOOSE g : IsStaging(g, path, mappings, Len(mappings))
    BY DEF Stages, IsStaging
<1>2. \E g : IsStaging(g, path, mappings, Len(mappings))
    BY StagingExists
<1>3. IsStaging(S, path, mappings, Len(mappings))
    BY <1>1, <1>2, Zenon
<1> HIDE DEF S
<1>4. \A n \in 0..Len(mappings) :
          S[n] = IF n = 0 THEN path
                 ELSE Replaced(S[n - 1], mappings[n].emby, mappings[n].oppo)
    BY <1>3, Zenon DEF IsStaging
<1>5. S[0] = path
  <2>1. 0 \in 0..Len(mappings)
    OBVIOUS
  <2> QED
    BY <1>4, <2>1, Zenon
<1>6. ASSUME NEW n \in 1..Len(mappings)
      PROVE  S[n] = Replaced(S[n - 1], mappings[n].emby, mappings[n].oppo)
  <2>1. n \in 0..Len(mappings) /\ n # 0
    OBVIOUS
  <2> QED
    BY <1>4, <2>1, Zenon
<1> QED
    BY <1>5, <1>6, Zenon DEF S

\* Nothing occurs in every text.
LEMMA EmptyOccurs ==
    ASSUME NEW text \in Seq(Tokens)
    PROVE  Occurs(text, <<>>)
<1>1. Len(text) \in Nat /\ Len(<<>>) = 0 /\ 1 + 0 - 1 = 0
    BY LenProperties
<1>2. SubSeq(text, 1, 0) = <<>>
    BY SubSeqEmpty
<1>3. Begins(text, <<>>, 1)
    BY <1>1, <1>2 DEF Begins
<1>4. 1 \in 1..Len(text) + 1
    BY <1>1
<1> QED
    BY <1>3, <1>4 DEF Occurs

\* A path is its beginning and what comes behind it.
LEMMA PrefixAndRest ==
    ASSUME NEW path \in Seq(Tokens), NEW old \in Seq(Tokens), IsPrefix(old, path)
    PROVE  LET rest == SubSeq(path, Len(old) + 1, Len(path))
           IN  /\ rest \in Seq(Tokens) /\ Len(rest) = Len(path) - Len(old)
               /\ path = old \o rest
<1> DEFINE rest == SubSeq(path, Len(old) + 1, Len(path))
<1>1. Len(old) \in Nat /\ Len(path) \in Nat /\ Len(old) <= Len(path)
    BY LenProperties DEF IsPrefix
<1>2. SubSeq(old, 1, Len(old)) = old
    BY SubSeqFull
<1>3. old = SubSeq(path, 1, Len(old))
    BY <1>2 DEF IsPrefix
<1>4. /\ rest \in Seq(Tokens) /\ Len(rest) = Len(path) - Len(old)
      /\ \A k \in 1..Len(path) - Len(old) : rest[k] = path[Len(old) + k]
  <2>1. \A k \in Len(old) + 1..Len(path) : path[k] \in Tokens
    BY <1>1, ElementOfSeq
  <2>2. Len(old) + 1 \in Int /\ Len(path) \in Int
    BY <1>1
  <2>3. /\ rest \in Seq(Tokens)
        /\ Len(rest) = IF Len(old) + 1 <= Len(path) THEN Len(path) - (Len(old) + 1) + 1 ELSE 0
        /\ \A k \in 1..Len(path) - (Len(old) + 1) + 1 : rest[k] = path[Len(old) + 1 + k - 1]
    BY <2>1, <2>2, SubSeqProperties
  <2> QED
    BY <1>1, <2>3
<1>5. \A k \in 1..Len(old) : path[k] = old[k]
  <2>1. \A k \in 1..Len(old) : SubSeq(path, 1, Len(old))[k] = path[k]
    <3>1. \A k \in 1..Len(old) : path[k] \in Tokens
      BY <1>1, ElementOfSeq
    <3>2. \A k \in 1..Len(old) - 1 + 1 : SubSeq(path, 1, Len(old))[k] = path[1 + k - 1]
      BY <1>1, <3>1, SubSeqProperties
    <3> QED
      BY <1>1, <3>2
  <2> QED
    BY <1>3, <2>1
<1> HIDE DEF rest
<1>6. /\ old \o rest \in Seq(Tokens) /\ Len(old \o rest) = Len(path)
      /\ \A k \in 1..Len(path) : (old \o rest)[k] = path[k]
  <2>1. /\ old \o rest \in Seq(Tokens) /\ Len(old \o rest) = Len(old) + Len(rest)
        /\ \A k \in 1..Len(old) + Len(rest) :
               (old \o rest)[k] = IF k <= Len(old) THEN old[k] ELSE rest[k - Len(old)]
    BY <1>4, ConcatProperties
  <2> QED
    BY <1>1, <1>4, <1>5, <2>1
<1>7. path = old \o rest
    BY <1>6, SeqEqual
<1> QED
    BY <1>4, <1>7 DEF rest

\* What the mappings make of a path of which they have nothing to replace but the
\* beginning.
LEMMA MappedAlone ==
    ASSUME NEW path \in Text, NEW mappings \in Seq(Mapping), NEW i \in DOMAIN mappings,
           IsPrefix(mappings[i].emby, path), Alone(path, i, mappings)
    PROVE  Mapped(path, mappings) = Exchanged(path, mappings[i])
<1> DEFINE S == Stages(path, mappings)
           mapping == mappings[i]
           rest == Remainder(path, mapping)
           last == Len(mappings)
           U == {n \in Nat : n <= last => S[n] = IF n < i THEN path ELSE Exchanged(path, mapping)}
<1>1. /\ last \in Nat /\ i \in 1..last
      /\ \A j \in 1..last : /\ j \in DOMAIN mappings /\ mappings[j] \in Mapping
                            /\ mappings[j].emby \in Text /\ mappings[j].oppo \in Text
  <2>1. last \in Nat /\ DOMAIN mappings = 1..last
    BY LenProperties
  <2>2. \A j \in 1..last : mappings[j] \in Mapping
    BY ElementOfSeq
  <2>3. \A m \in Mapping : m.emby \in Text /\ m.oppo \in Text
    BY DEF Mapping
  <2> HIDE DEF last
  <2> QED
    BY <2>1, <2>2, <2>3
<1>2. /\ S[0] = path
      /\ \A n \in 1..last : S[n] = Replaced(S[n - 1], mappings[n].emby, mappings[n].oppo)
    BY <1>1, StagesFrom
<1>3. rest \in Text /\ path = mapping.emby \o rest
  <2>1. mapping.emby \in Text /\ IsPrefix(mapping.emby, path)
    BY <1>1
  <2> HIDE DEF mapping
  <2> QED
    BY <2>1, PrefixAndRest DEF Text, Remainder
<1>4. Exchanged(path, mapping) = mapping.oppo \o rest /\ Exchanged(path, mapping) \in Text
  <2>1. mapping.oppo \in Text
    BY <1>1
  <2> HIDE DEF mapping
  <2>2. Exchanged(path, mapping) = mapping.oppo \o rest
    BY DEF Exchanged
  <2> HIDE DEF rest
  <2> QED
    BY <1>3, <2>1, <2>2, ConcatProperties DEF Text
<1>5. /\ ~Occurs(rest, mapping.emby)
      /\ \A j \in 1..last : /\ j < i => ~Occurs(path, mappings[j].emby)
                            /\ j > i => ~Occurs(Exchanged(path, mapping), mappings[j].emby)
    BY <1>1, Zenon DEF Alone
<1> HIDE DEF S, last, rest, mapping
<1>6. \A text \in Text : Occurs(text, <<>>)
    BY EmptyOccurs DEF Text
<1>7. 0 \in U
    BY <1>1, <1>2
<1>8. ASSUME NEW n \in Nat, n \in U PROVE n + 1 \in U
  <2> SUFFICES ASSUME n + 1 <= last
               PROVE  S[n + 1] = IF n + 1 < i THEN path ELSE Exchanged(path, mapping)
    OBVIOUS
  <2> DEFINE m == n + 1
  <2>1. m \in 1..last /\ m - 1 = n
    BY <1>1
  <2>2. S[n] = IF n < i THEN path ELSE Exchanged(path, mapping)
    BY <1>1, <1>8, <2>1
  <2>3. S[m] = Replaced(S[n], mappings[m].emby, mappings[m].oppo)
    BY <1>2, <2>1
  <2>4. mappings[m].emby \in Text /\ mappings[m].oppo \in Text
    BY <1>1, <2>1
  <2>5. m < i \/ m = i \/ m > i
    BY <1>1, <2>1
  <2>6. CASE m < i
    <3>1. ~Occurs(path, mappings[m].emby) /\ n < i
      BY <1>1, <1>5, <2>1, <2>6
    <3> DEFINE old == mappings[m].emby
               new == mappings[m].oppo
    <3>2. old \in Text \ {<<>>} /\ new \in Text
      BY <1>6, <2>4, <3>1
    <3>3. S[m] = Replaced(path, old, new) /\ ~Occurs(path, old)
      BY <2>2, <2>3, <3>1
    <3> HIDE DEF old, new, m
    <3>4. S[m] = path
      BY <3>2, <3>3, ReplacedNothing DEF Text
    <3> QED
      BY <2>6, <3>4 DEF m
  <2>7. CASE m = i
    <3>1. n < i /\ mappings[m] = mapping
      BY <1>1, <2>1, <2>7 DEF mapping
    <3> DEFINE old == mapping.emby
               new == mapping.oppo
    <3>2. old \in Text \ {<<>>} /\ new \in Text
      BY <1>3, <1>5, <1>6, <2>4, <3>1
    <3>3. S[m] = Replaced(old \o rest, old, new) /\ ~Occurs(rest, old)
      BY <1>3, <1>5, <2>2, <2>3, <3>1
    <3>4. Exchanged(path, mapping) = new \o rest
      BY <1>4
    <3> HIDE DEF old, new, m
    <3>5. S[m] = new \o rest
      BY <1>3, <3>2, <3>3, ReplacedHead DEF Text
    <3>6. ~(m < i)
      BY <1>1, <2>7
    <3> QED
      BY <3>4, <3>5, <3>6 DEF m
  <2>8. CASE m > i
    <3>1. ~Occurs(Exchanged(path, mapping), mappings[m].emby) /\ ~(n < i)
      BY <1>1, <1>5, <2>1, <2>8
    <3> DEFINE old == mappings[m].emby
               new == mappings[m].oppo
               text == Exchanged(path, mapping)
    <3>2. old \in Text \ {<<>>} /\ new \in Text /\ text \in Text
      BY <1>4, <1>6, <2>4, <3>1
    <3>3. S[m] = Replaced(text, old, new) /\ ~Occurs(text, old)
      BY <2>2, <2>3, <3>1
    <3>4. ~(m < i)
      BY <1>1, <2>8
    <3> HIDE DEF old, new, m, text
    <3>5. S[m] = text
      BY <3>2, <3>3, ReplacedNothing DEF Text
    <3> QED
      BY <3>4, <3>5 DEF m, text
  <2> QED
    BY <2>5, <2>6, <2>7, <2>8
<1>9. last \in U
  <2> HIDE DEF U
  <2> QED
    BY <1>1, <1>7, <1>8, SetInduction
<1>10. ~(last < i)
    BY <1>1
<1> QED
    BY <1>1, <1>9, <1>10 DEF Mapped, S, last, mapping

-------------------------------------------------------------------------------
(***************************************************************************)
(* Separators.                                                             *)
(***************************************************************************)

\* The short texts that are replaced, or put in.
LEMMA ShortTexts ==
    /\ <<"\\", "\\">> \in Seq(Tokens) \ {<<>>} /\ <<"\\">> \in Seq(Tokens)
    /\ <<"\\", "\\">> \in Seq(Separators) \ {<<>>} /\ <<"\\">> \in Seq(Separators)
    /\ Len(<<"\\", "\\">>) = 2 /\ <<"\\", "\\">>[1] = "\\" /\ <<"\\", "\\">>[2] = "\\"
    /\ Len(<<"\\">>) = 1 /\ <<"\\">>[1] = "\\"
    /\ <<>> \in Seq(Tokens)
    /\ Separators \subseteq Tokens /\ "/" \in Tokens /\ "test" \in Tokens
BY TokensAssumption DEF Separators

\* The first step of the normalization.
Single(path) == Replaced(path, <<"\\", "\\">>, <<"\\">>)

\* What is left of two backslashes is written with a slash.
LEMMA NormalizedTokens ==
    ASSUME NEW path \in Text
    PROVE  /\ Single(path) \in Text /\ Normalized(path) \in Text
           /\ Len(Normalized(path)) = Len(Single(path)) /\ Len(Single(path)) \in Nat
           /\ \A k \in 1..Len(Single(path)) :
                  Normalized(path)[k] = IF Single(path)[k] = "\\" THEN "/" ELSE Single(path)[k]
<1> DEFINE single == Single(path)
<1>1. <<"\\", "\\">> \in Seq(Tokens) \ {<<>>} /\ <<"\\">> \in Seq(Tokens)
    BY ShortTexts
<1>2. single \in Seq(Tokens)
    BY <1>1, ReplacedType DEF Single, Text
<1>3. Normalized(path) = [k \in 1..Len(single) |-> IF single[k] = "\\" THEN "/" ELSE single[k]]
    BY DEF Normalized, Single
<1> HIDE DEF single
<1>4. Len(single) \in Nat /\ \A k \in 1..Len(single) : single[k] \in Tokens
    BY <1>2, LenProperties, ElementOfSeq
<1> DEFINE Slashed(k) == IF single[k] = "\\" THEN "/" ELSE single[k]
<1>5. \A k \in 1..Len(single) : Slashed(k) \in Tokens
    BY <1>4, ShortTexts
<1> HIDE DEF Slashed
<1>6. [k \in 1..Len(single) |-> Slashed(k)] \in Seq(Tokens)
    BY <1>4, <1>5
<1>7. Len([k \in 1..Len(single) |-> Slashed(k)]) = Len(single)
    BY <1>4
<1>8. Normalized(path) = [k \in 1..Len(single) |-> Slashed(k)]
    BY <1>3 DEF Slashed
<1>9. \A k \in 1..Len(single) : Normalized(path)[k] = Slashed(k)
    BY <1>8
<1> QED
    BY <1>2, <1>4, <1>6, <1>7, <1>8, <1>9 DEF single, Slashed, Text

\* Two texts that are not joined by backslashes are normalized one after the other.
LEMMA NormalizedConcat ==
    ASSUME NEW x \in Text, NEW y \in Text,
           x # <<>> /\ y # <<>> => x[Len(x)] # "\\" \/ y[1] # "\\"
    PROVE  Normalized(x \o y) = Normalized(x) \o Normalized(y)
<1> DEFINE old == <<"\\", "\\">>
           new == <<"\\">>
<1>1. /\ old \in Seq(Tokens) \ {<<>>} /\ new \in Seq(Tokens)
      /\ Len(old) = 2 /\ old[1] = "\\" /\ old[2] = "\\"
    BY ShortTexts
<1>2. /\ x \in Seq(Tokens) /\ y \in Seq(Tokens) /\ Len(x) \in Nat /\ Len(y) \in Nat
      /\ x \o y \in Seq(Tokens) /\ Len(x \o y) = Len(x) + Len(y)
      /\ \A k \in 1..Len(x) + Len(y) :
             (x \o y)[k] = IF k <= Len(x) THEN x[k] ELSE y[k - Len(x)]
    BY LenProperties, ConcatProperties DEF Text
<1> HIDE DEF old, new
<1>3. ~Crosses(x, y, old)
  <2> SUFFICES ASSUME NEW i \in 1..Len(x), i + Len(old) - 1 > Len(x), Begins(x \o y, old, i)
               PROVE  FALSE
    BY DEF Crosses
  <2>1. i = Len(x) /\ i \in Nat \ {0}
    BY <1>1, <1>2
  <2> DEFINE z == x \o y
  <2>2. z \in Seq(Tokens) /\ Begins(z, old, i)
    BY <1>2
  <2>3. /\ i + 2 - 1 <= Len(z) /\ z[i + 1 - 1] = old[1] /\ z[i + 2 - 1] = old[2]
    <3> HIDE DEF z
    <3>1. Begins(z, old, i) <=> /\ i + Len(old) - 1 <= Len(z)
                                /\ \A k \in 1..Len(old) : z[i + k - 1] = old[k]
      <4>1. old \in Seq(Tokens) /\ z \in Seq(Tokens) /\ i \in Nat \ {0}
        BY <1>1, <2>1, <2>2
      <4> QED
        BY <4>1, BeginsTokens
    <3> QED
      BY <1>1, <2>2, <3>1
  <2>4. Len(y) >= 1 /\ x[Len(x)] = "\\" /\ y[1] = "\\"
    BY <1>1, <1>2, <2>1, <2>3
  <2>5. x # <<>> /\ y # <<>>
    BY <1>2, <2>4
  <2> QED
    BY <2>4, <2>5
<1>4. Single(x \o y) = Single(x) \o Single(y)
  <2>1. Replaced(x \o y, old, new) = Replaced(x, old, new) \o Replaced(y, old, new)
    BY <1>1, <1>2, <1>3, ReplacedConcat
  <2> QED
    BY <2>1 DEF Single, old, new
<1> DEFINE N == Normalized(x \o y)
           M == Normalized(x) \o Normalized(y)
<1>5. /\ Single(x) \in Text /\ Single(y) \in Text
      /\ Normalized(x) \in Text /\ Normalized(y) \in Text
      /\ Len(Normalized(x)) = Len(Single(x)) /\ Len(Single(x)) \in Nat
      /\ Len(Normalized(y)) = Len(Single(y)) /\ Len(Single(y)) \in Nat
      /\ \A k \in 1..Len(Single(x)) :
             Normalized(x)[k] = IF Single(x)[k] = "\\" THEN "/" ELSE Single(x)[k]
      /\ \A k \in 1..Len(Single(y)) :
             Normalized(y)[k] = IF Single(y)[k] = "\\" THEN "/" ELSE Single(y)[k]
    BY NormalizedTokens
<1>6. /\ N \in Text /\ Len(N) = Len(Single(x \o y))
      /\ \A k \in 1..Len(Single(x \o y)) :
             N[k] = IF Single(x \o y)[k] = "\\" THEN "/" ELSE Single(x \o y)[k]
    BY <1>2, NormalizedTokens DEF Text
<1>7. /\ Len(Single(x \o y)) = Len(Single(x)) + Len(Single(y))
      /\ \A k \in 1..Len(Single(x)) + Len(Single(y)) :
             Single(x \o y)[k] = IF k <= Len(Single(x)) THEN Single(x)[k]
                                 ELSE Single(y)[k - Len(Single(x))]
    BY <1>4, <1>5, ConcatProperties DEF Text
<1>8. /\ M \in Text /\ Len(M) = Len(Single(x)) + Len(Single(y))
      /\ \A k \in 1..Len(Single(x)) + Len(Single(y)) :
             M[k] = IF k <= Len(Single(x)) THEN Normalized(x)[k]
                    ELSE Normalized(y)[k - Len(Single(x))]
  <2> DEFINE u == Normalized(x)
             v == Normalized(y)
  <2>1. u \in Seq(Tokens) /\ v \in Seq(Tokens)
    BY <1>5 DEF Text
  <2> HIDE DEF u, v
  <2>2. /\ u \o v \in Seq(Tokens) /\ Len(u \o v) = Len(u) + Len(v)
        /\ \A k \in 1..Len(u) + Len(v) : (u \o v)[k] = IF k <= Len(u) THEN u[k] ELSE v[k - Len(u)]
    BY <2>1, ConcatProperties
  <2>3. M = u \o v
    BY DEF u, v
  <2> HIDE DEF M
  <2> QED
    BY <1>5, <2>2, <2>3 DEF u, v, Text
<1> HIDE DEF N, M
<1>9. ASSUME NEW k \in 1..Len(Single(x)) + Len(Single(y)) PROVE N[k] = M[k]
  <2>1. CASE k <= Len(Single(x))
    <3>1. k \in 1..Len(Single(x))
      BY <1>5, <2>1
    <3> QED
      BY <1>5, <1>6, <1>7, <1>8, <2>1, <3>1
  <2>2. CASE ~(k <= Len(Single(x)))
    <3>1. k - Len(Single(x)) \in 1..Len(Single(y))
      BY <1>5, <2>2
    <3> QED
      BY <1>5, <1>6, <1>7, <1>8, <2>2, <3>1
  <2> QED
    BY <2>1, <2>2
<1>10. N = M
    BY <1>6, <1>7, <1>8, <1>9, SeqEqual DEF Text
<1> QED
    BY <1>10 DEF N, M

\* Separators become slashes.
LEMMA NormalizedSeparators ==
    ASSUME NEW s \in Seq(Separators)
    PROVE  \A k \in 1..Len(Normalized(s)) : Normalized(s)[k] = "/"
<1>1. s \in Text
    BY ShortTexts, SeqMonotonic DEF Text
<1>2. Single(s) \in Seq(Separators)
    BY ShortTexts, ReplacedType DEF Single
<1>3. \A k \in 1..Len(Single(s)) : Single(s)[k] \in Separators
    BY <1>2, ElementOfSeq
<1> QED
    BY <1>1, <1>3, NormalizedTokens DEF Separators

\* What a normalized text begins with.
LEMMA NormalizedFirst ==
    ASSUME NEW z \in Text, z # <<>>
    PROVE  /\ Normalized(z) \in Text /\ Len(Normalized(z)) \in Nat \ {0}
           /\ Normalized(z)[1] = IF z[1] \in Separators THEN "/" ELSE z[1]
<1> DEFINE old == <<"\\", "\\">>
           new == <<"\\">>
           R == Rewritten(z, old, new)
<1>1. /\ old \in Seq(Tokens) \ {<<>>} /\ new \in Seq(Tokens)
      /\ Len(old) = 2 /\ old[1] = "\\" /\ Len(new) = 1 /\ new[1] = "\\"
    BY ShortTexts
<1>2. z \in Seq(Tokens) /\ Len(z) \in Nat \ {0} /\ z[1] \in Tokens
  <2>1. z \in Seq(Tokens) /\ Len(z) \in Nat \ {0}
    BY EmptySeq DEF Text
  <2> QED
    BY <2>1, ElementOfSeq
<1> HIDE DEF old, new
<1>3. /\ R \in [1..Len(z) + 1 -> Seq(Tokens)]
      /\ \A i \in 1..Len(z) : R[i] = IF Begins(z, old, i) THEN new \o R[i + Len(old)]
                                     ELSE <<z[i]>> \o R[i + 1]
  <2>1. old \in Seq(Tokens) \ {<<>>} /\ new \in Seq(Tokens) /\ z \in Seq(Tokens)
    BY <1>1, <1>2
  <2> QED
    BY <2>1, RewrittenFrom
<1>4. Single(z) = R[1]
    BY ShortTexts, NotNothing DEF Single, old, new
<1> HIDE DEF R
<1>5. Single(z) \in Seq(Tokens) /\ Len(Single(z)) \in Nat \ {0} /\ Single(z)[1] = z[1]
  <2>1. CASE Begins(z, old, 1)
    <3>1. 1 + Len(old) \in 1..Len(z) + 1
      BY <1>1, <1>2, <2>1 DEF Begins
    <3>2. R[1 + Len(old)] \in Seq(Tokens)
      BY <1>3, <3>1
    <3>3. Single(z) = new \o R[1 + Len(old)]
      <4>1. 1 \in 1..Len(z)
        BY <1>2
      <4> QED
        BY <1>3, <1>4, <2>1, <4>1, Zenon
    <3>4. z[1] = "\\"
      <4>1. old \in Seq(Tokens) /\ z \in Seq(Tokens) /\ 1 \in Nat \ {0}
        BY <1>1, <1>2
      <4>2. \A k \in 1..Len(old) : z[1 + k - 1] = old[k]
        BY <2>1, <4>1, BeginsTokens
      <4> QED
        BY <1>1, <4>2
    <3> QED
      BY <1>1, <3>2, <3>3, <3>4, ConcatProperties, LenProperties
  <2>2. CASE ~Begins(z, old, 1)
    <3>1. R[2] \in Seq(Tokens)
      BY <1>2, <1>3
    <3>2. Single(z) = <<z[1]>> \o R[2]
      <4>1. 1 \in 1..Len(z)
        BY <1>2
      <4>2. Single(z) = <<z[1]>> \o R[1 + 1]
        BY <1>3, <1>4, <2>2, <4>1, Zenon
      <4> QED
        BY <4>2
    <3>3. <<z[1]>> \in Seq(Tokens) /\ Len(<<z[1]>>) = 1 /\ <<z[1]>>[1] = z[1]
      BY <1>2
    <3> QED
      BY <3>1, <3>2, <3>3, ConcatProperties, LenProperties
  <2> QED
    BY <2>1, <2>2
<1>6. 1 \in 1..Len(Single(z))
    BY <1>5
<1> QED
    BY <1>5, <1>6, NormalizedTokens DEF Separators

\* A normalized text is empty only if the text is.
LEMMA NormalizedEmpty == Normalized(<<>>) = <<>>
<1>1. <<>> \in Text /\ <<"\\", "\\">> \in Seq(Tokens) \ {<<>>} /\ <<"\\">> \in Seq(Tokens)
    BY ShortTexts DEF Text
<1>2. ~Occurs(<<>>, <<"\\", "\\">>)
  <2>1. Len(<<>>) = 0 /\ Len(<<"\\", "\\">>) = 2
    OBVIOUS
  <2> QED
    BY <2>1 DEF Occurs, Begins
<1>3. Single(<<>>) = <<>>
    BY <1>1, <1>2, ReplacedNothing DEF Single, Text
<1>4. Len(Normalized(<<>>)) = 0 /\ Normalized(<<>>) \in Text
    BY <1>1, <1>3, NormalizedTokens
<1> QED
    BY <1>4, EmptySeq DEF Text

\* A text of one name stays as it is.
LEMMA NormalizedName ==
    ASSUME NEW c \in Tokens \ Separators
    PROVE  Normalized(<<c>>) = <<c>>
<1> DEFINE z == <<c>>
           old == <<"\\", "\\">>
           new == <<"\\">>
<1>1. z \in Seq(Tokens) /\ Len(z) = 1 /\ z[1] = c
    OBVIOUS
<1>2. old \in Seq(Tokens) \ {<<>>} /\ new \in Seq(Tokens) /\ Len(old) = 2
    BY ShortTexts
<1> HIDE DEF z, old, new
<1>3. ~Occurs(z, old)
    BY <1>1, <1>2 DEF Occurs, Begins
<1>4. Single(z) = z
  <2>1. Replaced(z, old, new) = z
    BY <1>1, <1>2, <1>3, ReplacedNothing
  <2> QED
    BY <2>1 DEF Single, old, new
<1>5. /\ Normalized(z) \in Seq(Tokens) /\ Len(Normalized(z)) = 1
      /\ Normalized(z)[1] = c
  <2>1. z \in Text
    BY <1>1 DEF Text
  <2>2. /\ Normalized(z) \in Text /\ Len(Normalized(z)) = Len(Single(z))
        /\ \A k \in 1..Len(Single(z)) :
               Normalized(z)[k] = IF Single(z)[k] = "\\" THEN "/" ELSE Single(z)[k]
    BY <2>1, NormalizedTokens
  <2>3. c # "\\"
    BY DEF Separators
  <2> QED
    BY <1>1, <1>4, <2>2, <2>3 DEF Text
<1>6. Normalized(z) = z
    BY <1>1, <1>5, SeqEqual
<1> QED
    BY <1>6 DEF z

\* The last name of a text stays the last.
LEMMA NormalizedLast ==
    ASSUME NEW z \in Text, z # <<>>, z[Len(z)] \notin Separators
    PROVE  /\ Len(Normalized(z)) \in Nat \ {0}
           /\ Normalized(z)[Len(Normalized(z))] = z[Len(z)]
<1> DEFINE n == Len(z)
           c == z[n]
           x == SubSeq(z, 1, n - 1)
           y == <<c>>
<1>1. z \in Seq(Tokens) /\ n \in Nat \ {0} /\ c \in Tokens \ Separators
  <2>1. z \in Seq(Tokens) /\ n \in Nat \ {0}
    BY EmptySeq DEF Text
  <2>2. n \in 1..Len(z)
    BY <2>1
  <2> QED
    BY <2>1, <2>2, ElementOfSeq
<1>2. z = x \o y /\ x \in Seq(Tokens)
  <2>1. 1 \in 1..Len(z) /\ n \in 1..Len(z)
    BY <1>1
  <2>2. SubSeq(z, 1, n) = SubSeq(z, 1, n - 1) \o <<z[n]>>
    BY <1>1, <2>1, SubSeqRecursiveSecond
  <2>3. SubSeq(z, 1, n) = z
    BY <1>1, SubSeqFull
  <2>4. x \in Seq(Tokens)
    <3>1. \A i \in 1..n - 1 : z[i] \in Tokens
      BY <1>1, ElementOfSeq
    <3> QED
      BY <1>1, <3>1, SubSeqProperties
  <2> QED
    BY <2>2, <2>3, <2>4
<1>3. Normalized(y) = y
    BY <1>1, NormalizedName
<1>4. y \in Seq(Tokens) /\ Len(y) = 1 /\ y[1] = c
    BY <1>1
<1> HIDE DEF n, c, x, y
<1>5. Normalized(z) = Normalized(x) \o Normalized(y)
  <2>1. y[1] # "\\"
    BY <1>1, <1>4 DEF Separators
  <2> QED
    BY <1>2, <1>4, <2>1, NormalizedConcat DEF Text
<1>6. Normalized(x) \in Seq(Tokens) /\ Len(Normalized(x)) \in Nat
    BY <1>2, NormalizedTokens DEF Text
<1> DEFINE u == Normalized(x)
<1>7. u \in Seq(Tokens) /\ Len(u) \in Nat /\ Normalized(z) = u \o y
    BY <1>3, <1>5, <1>6
<1> HIDE DEF u
<1>8. /\ Len(u \o y) = Len(u) + Len(y)
      /\ \A k \in 1..Len(u) + Len(y) : (u \o y)[k] = IF k <= Len(u) THEN u[k] ELSE y[k - Len(u)]
    BY <1>4, <1>7, ConcatProperties
<1> QED
    BY <1>4, <1>7, <1>8 DEF c, n

\* Of some numbers that are not too large, one is the greatest, and one the least.
LEMMA GreatestAndLeast ==
    ASSUME NEW n \in Nat, NEW S \in SUBSET (1..n), S # {}
    PROVE  /\ Max(S) \in S /\ \A x \in S : x <= Max(S)
           /\ Min(S) \in S /\ \A x \in S : Min(S) <= x
<1> DEFINE U == {k \in Nat : \A T \in SUBSET (1..k) : T # {} =>
                     /\ \E m \in T : \A x \in T : m >= x
                     /\ \E m \in T : \A x \in T : m =< x}
<1>1. 0 \in U
  <2>1. 1..0 = {}
    OBVIOUS
  <2>2. \A T \in SUBSET (1..0) : T = {}
    BY <2>1
  <2> QED
    BY <2>2
<1>2. ASSUME NEW k \in Nat, k \in U PROVE k + 1 \in U
  <2> SUFFICES ASSUME NEW T \in SUBSET (1..(k + 1)), T # {}
               PROVE  /\ \E m \in T : \A x \in T : m >= x
                      /\ \E m \in T : \A x \in T : m =< x
    OBVIOUS
  <2> DEFINE R == T \ {k + 1}
  <2>1. R \in SUBSET (1..k)
    OBVIOUS
  <2>2. CASE R = {}
    <3>1. T = {k + 1}
      BY <2>2
    <3> QED
      BY <3>1
  <2>3. CASE R # {}
    <3>1. /\ \E m \in R : \A x \in R : m >= x
          /\ \E m \in R : \A x \in R : m =< x
      BY <1>2, <2>1, <2>3
    <3>2. \E m \in T : \A x \in T : m >= x
      <4>1. CASE k + 1 \in T
        <5>1. \A x \in T : k + 1 >= x
          OBVIOUS
        <5> QED
          BY <4>1, <5>1
      <4>2. CASE k + 1 \notin T
        BY <3>1, <4>2
      <4> QED
        BY <4>1, <4>2
    <3>3. \E m \in T : \A x \in T : m =< x
      <4>1. PICK m \in R : \A x \in R : m =< x
        BY <3>1
      <4>2. m <= k + 1
        OBVIOUS
      <4>3. \A x \in T : m =< x
        BY <4>1, <4>2
      <4> QED
        BY <4>3
    <3> QED
      BY <3>2, <3>3
  <2> QED
    BY <2>2, <2>3
<1>3. n \in U
  <2> HIDE DEF U
  <2> QED
    BY <1>1, <1>2, SetInduction
<1>4. /\ \E m \in S : \A x \in S : m >= x
      /\ \E m \in S : \A x \in S : m =< x
    BY <1>3
<1>5. Max(S) \in S /\ \A x \in S : Max(S) >= x
    BY <1>4, Zenon DEF Max
<1>6. Min(S) \in S /\ \A x \in S : Min(S) =< x
    BY <1>4, Zenon DEF Min
<1> QED
    BY <1>5, <1>6

\* A text is one that ends with a name, if any, and separators behind it.
LEMMA EndSeparators ==
    ASSUME NEW x \in Text
    PROVE  \E w \in Text, s \in Seq(Separators) :
              x = w \o s /\ (w # <<>> => w[Len(w)] \notin Separators)
<1> DEFINE n == Len(x)
           names == {i \in 1..n : x[i] \notin Separators}
<1>1. x \in Seq(Tokens) /\ n \in Nat /\ \A i \in 1..n : x[i] \in Tokens
    BY LenProperties, ElementOfSeq DEF Text
<1>2. CASE names = {}
  <2>1. x \in Seq(Separators)
    <3>1. x \in [1..n -> Separators]
      <4>1. x \in [1..n -> Tokens]
        BY <1>1, LenProperties
      <4>2. \A i \in 1..n : x[i] \in Separators
        BY <1>2
      <4> HIDE DEF n
      <4> QED
        BY <4>1, <4>2
    <3> HIDE DEF n
    <3> QED
      BY <1>1, <3>1, SeqDef
  <2>2. <<>> \in Text /\ x = <<>> \o x
    BY <1>1, ShortTexts, ConcatEmptySeq DEF Text
  <2> QED
    BY <2>1, <2>2
<1>3. CASE names # {}
  <2> DEFINE m == Max(names)
             w == SubSeq(x, 1, m)
             s == SubSeq(x, m + 1, n)
  <2>1. m \in names /\ \A i \in names : i <= m
    <3>1. names \in SUBSET (1..n)
      OBVIOUS
    <3> HIDE DEF names, n
    <3> QED
      BY <1>1, <1>3, <3>1, GreatestAndLeast
  <2> HIDE DEF m
  <2>2. m \in 1..n /\ x[m] \notin Separators /\ \A i \in m + 1..n : x[i] \in Separators
    BY <1>1, <2>1
  <2> HIDE DEF names
  <2>3. w \in Text /\ Len(w) = m /\ w[m] = x[m]
    <3>1. \A i \in 1..m : x[i] \in Tokens
      BY <1>1, <2>2
    <3>2. /\ w \in Seq(Tokens) /\ Len(w) = IF 1 <= m THEN m - 1 + 1 ELSE 0
          /\ \A i \in 1..m - 1 + 1 : w[i] = x[1 + i - 1]
      BY <2>2, <3>1, SubSeqProperties
    <3> HIDE DEF w
    <3> QED
      BY <2>2, <3>2 DEF Text
  <2>4. s \in Seq(Separators)
    BY <1>1, <2>2, SubSeqProperties
  <2>5. x = w \o s
    <3>1. IsPrefix(w, x)
      <4>1. SubSeq(w, 1, Len(w)) = w
        BY <2>3, SubSeqFull DEF Text
      <4>2. SubSeq(x, 1, Len(w)) = w
        BY <2>3
      <4> HIDE DEF w
      <4> QED
        BY <1>1, <2>2, <2>3, <4>1, <4>2 DEF IsPrefix
    <3>2. w \in Seq(Tokens)
      BY <2>3 DEF Text
    <3> DEFINE rest == SubSeq(x, Len(w) + 1, Len(x))
    <3>3. rest = s
      BY <2>3
    <3> HIDE DEF w, s
    <3>4. x = w \o rest
      BY <1>1, <3>1, <3>2, PrefixAndRest
    <3> QED
      BY <3>3, <3>4
  <2> HIDE DEF w, s
  <2> QED
    BY <2>2, <2>3, <2>4, <2>5
<1> QED
    BY <1>2, <1>3

\* A path without the slashes at its end.
LEMMA CutBehind ==
    ASSUME NEW a \in Text, NEW b \in Text, a # <<>> => a[Len(a)] # "/",
           \A k \in 1..Len(b) : b[k] = "/"
    PROVE  Cut(a \o b) = a
<1> DEFINE z == a \o b
           names == Names(z)
<1>1. /\ a \in Seq(Tokens) /\ b \in Seq(Tokens) /\ Len(a) \in Nat /\ Len(b) \in Nat
      /\ z \in Seq(Tokens) /\ Len(z) = Len(a) + Len(b)
      /\ \A k \in 1..Len(a) + Len(b) : z[k] = IF k <= Len(a) THEN a[k] ELSE b[k - Len(a)]
    BY LenProperties, ConcatProperties DEF Text
<1>2. Cut(z) = IF names = {} THEN <<>> ELSE SubSeq(z, 1, Max(names))
    BY DEF Cut
<1>3. names = {k \in 1..Len(z) : z[k] # "/"}
    BY DEF Names
<1> HIDE DEF z, names
<1>4. \A k \in names : k \in 1..Len(a)
  <2> TAKE k \in names
  <2>1. k \in 1..Len(z) /\ z[k] # "/"
    BY <1>3
  <2>2. CASE k <= Len(a)
    BY <1>1, <2>1, <2>2
  <2>3. CASE ~(k <= Len(a))
    <3>1. k - Len(a) \in 1..Len(b) /\ z[k] = b[k - Len(a)]
      BY <1>1, <2>1, <2>3
    <3> QED
      BY <2>1, <3>1
  <2> QED
    BY <2>2, <2>3
<1>5. CASE a = <<>>
  <2>1. names = {}
    BY <1>4, <1>5
  <2> QED
    BY <1>2, <1>5, <2>1 DEF z
<1>6. CASE a # <<>>
  <2>1. Len(a) \in Nat \ {0}
    BY <1>1, <1>6, EmptySeq
  <2>2. Len(a) \in names
    BY <1>1, <1>3, <1>6, <2>1
  <2>3. Max(names) = Len(a)
    <3>1. names \in SUBSET (1..Len(a)) /\ names # {}
      BY <1>4, <2>2
    <3>2. Max(names) \in names /\ \A k \in names : k <= Max(names)
      BY <2>1, <3>1, GreatestAndLeast
    <3>3. Max(names) \in 1..Len(a) /\ Len(a) <= Max(names)
      BY <1>4, <2>2, <3>2
    <3> QED
      BY <2>1, <3>3
  <2>4. SubSeq(z, 1, Len(a)) = a
    <3> DEFINE t == SubSeq(z, 1, Len(a))
    <3>1. /\ t \in Seq(Tokens) /\ Len(t) = IF 1 <= Len(a) THEN Len(a) - 1 + 1 ELSE 0
          /\ \A k \in 1..Len(a) - 1 + 1 : t[k] = z[1 + k - 1]
      <4>1. \A k \in 1..Len(a) : z[k] \in Tokens
        BY <1>1, ElementOfSeq
      <4> QED
        BY <2>1, <4>1, SubSeqProperties
    <3> HIDE DEF t
    <3>2. Len(t) = Len(a) /\ \A k \in 1..Len(a) : t[k] = a[k]
      BY <1>1, <2>1, <3>1
    <3>3. t = a
      BY <1>1, <3>1, <3>2, SeqEqual
    <3> QED
      BY <3>3 DEF t
  <2> QED
    BY <1>2, <2>2, <2>3, <2>4 DEF z
<1> QED
    BY <1>5, <1>6

\* Texts that end with separators, and no others, are normalized to such that end
\* with a slash.
LEMMA NormalizedEnd ==
    ASSUME NEW x \in Text, x # <<>>
    PROVE  /\ Normalized(x) # <<>>
           /\ Last(Normalized(x)) = "/" <=> x[Len(x)] \in Separators
<1>1. /\ Normalized(x) \in Seq(Tokens) /\ Len(Normalized(x)) \in Nat \ {0}
      /\ x \in Seq(Tokens) /\ Len(x) \in Nat \ {0} /\ x[Len(x)] \in Tokens
  <2>1. x \in Seq(Tokens) /\ Len(x) \in Nat \ {0}
    BY EmptySeq DEF Text
  <2>2. Len(x) \in 1..Len(x)
    BY <2>1
  <2> QED
    BY <2>1, <2>2, NormalizedFirst, ElementOfSeq DEF Text
<1>2. Normalized(x) # <<>>
    BY <1>1
<1>3. CASE x[Len(x)] \notin Separators
  <2>1. Normalized(x)[Len(Normalized(x))] = x[Len(x)]
    BY <1>3, NormalizedLast
  <2>2. x[Len(x)] # "/"
    BY <1>3 DEF Separators
  <2> QED
    BY <1>2, <1>3, <2>1, <2>2 DEF Last
<1>4. CASE x[Len(x)] \in Separators
  <2>1. PICK w \in Text, s \in Seq(Separators) :
            x = w \o s /\ (w # <<>> => w[Len(w)] \notin Separators)
    BY EndSeparators
  <2>2. s \in Text
    BY ShortTexts, SeqMonotonic DEF Text
  <2>3. s # <<>>
    <3> SUFFICES ASSUME s = <<>> PROVE FALSE
      OBVIOUS
    <3>1. x = w
      BY <2>1, ConcatEmptySeq DEF Text
    <3> QED
      BY <1>4, <2>1, <3>1
  <2>4. Normalized(x) = Normalized(w) \o Normalized(s)
    BY <2>1, <2>2, NormalizedConcat DEF Separators
  <2>5. Normalized(s) \in Seq(Tokens) /\ Len(Normalized(s)) \in Nat \ {0}
    BY <2>2, <2>3, NormalizedFirst DEF Text
  <2>6. \A k \in 1..Len(Normalized(s)) : Normalized(s)[k] = "/"
    BY NormalizedSeparators
  <2>7. Normalized(w) \in Seq(Tokens) /\ Len(Normalized(w)) \in Nat
    BY NormalizedTokens DEF Text
  <2> DEFINE u == Normalized(w)
             v == Normalized(s)
  <2>8. (u \o v)[Len(u \o v)] = "/"
    <3>1. /\ u \in Seq(Tokens) /\ v \in Seq(Tokens) /\ Len(u) \in Nat
          /\ Len(v) \in Nat \ {0} /\ \A k \in 1..Len(v) : v[k] = "/"
      BY <2>5, <2>6, <2>7
    <3> HIDE DEF u, v
    <3>2. /\ Len(u \o v) = Len(u) + Len(v)
          /\ \A k \in 1..Len(u) + Len(v) : (u \o v)[k] = IF k <= Len(u) THEN u[k] ELSE v[k - Len(u)]
      BY <3>1, ConcatProperties
    <3>3. Len(u) + Len(v) \in 1..Len(u) + Len(v) /\ ~(Len(u) + Len(v) <= Len(u))
          /\ (Len(u) + Len(v)) - Len(u) = Len(v) /\ Len(v) \in 1..Len(v)
      BY <3>1
    <3> QED
      BY <3>1, <3>2, <3>3
  <2> QED
    BY <1>2, <1>4, <2>4, <2>8 DEF Last
<1> QED
    BY <1>3, <1>4

\* A text goes on from a folder: with a slash, and up to a name.
GoesOn(text, folder) ==
    \E q \in Text : text = folder \o q /\ q # <<>> /\ q[1] = "/" /\ Last(q) # "/"

\* What is played of a path below the folder of a mapping: the folder of the test, and
\* a text that begins with a slash and ends with a name.
LEMMA TextBelow ==
    ASSUME NEW emby \in Text, NEW oppo \in Text, NEW rest \in Text,
           emby # <<>>, oppo # <<>>,
           Last(emby \o rest) \notin Separators,
           IsPrefix(Append(Cut(Normalized(emby)), "/"), Normalized(emby \o rest)),
           (Last(Normalized(emby)) = "/") = (Last(Normalized(oppo)) = "/")
    PROVE  /\ Cut(Normalized(oppo)) \in Text
           /\ Cut(Normalized(oppo)) # <<>> => Last(Cut(Normalized(oppo))) # "/"
           /\ GoesOn(Normalized(oppo \o rest), Cut(Normalized(oppo)))
<1>1. PICK w \in Text, s \in Seq(Separators) :
          oppo = w \o s /\ (w # <<>> => w[Len(w)] \notin Separators)
    BY EndSeparators
<1>2. s \in Text
    BY ShortTexts, SeqMonotonic DEF Text
<1>3. Normalized(oppo) = Normalized(w) \o Normalized(s)
    BY <1>1, <1>2, NormalizedConcat DEF Separators
<1>4. Normalized(w) \in Text /\ Normalized(s) \in Text /\ Normalized(rest) \in Text
    BY <1>2, NormalizedTokens
<1>5. Normalized(w) # <<>> => Last(Normalized(w)) # "/" /\ Normalized(w)[Len(Normalized(w))] # "/"
  <2>1. w # <<>> => Normalized(w)[Len(Normalized(w))] = w[Len(w)]
    BY <1>1, NormalizedLast
  <2> QED
    BY <1>1, <2>1, NormalizedEmpty DEF Last, Separators
<1>6. Cut(Normalized(oppo)) = Normalized(w)
  <2>1. \A k \in 1..Len(Normalized(s)) : Normalized(s)[k] = "/"
    BY NormalizedSeparators
  <2> QED
    BY <1>3, <1>4, <1>5, <2>1, CutBehind
<1>7. Len(emby) \in Nat \ {0} /\ Len(oppo) \in Nat \ {0} /\ Len(rest) \in Nat
    BY EmptySeq, LenProperties DEF Text
<1>8. /\ Len(emby \o rest) = Len(emby) + Len(rest)
      /\ \A k \in 1..Len(emby) + Len(rest) :
             (emby \o rest)[k] = IF k <= Len(emby) THEN emby[k] ELSE rest[k - Len(emby)]
    BY ConcatProperties DEF Text
<1>9. rest # <<>> => rest[Len(rest)] \notin Separators
  <2> SUFFICES ASSUME rest # <<>> PROVE rest[Len(rest)] \notin Separators
    OBVIOUS
  <2>1. Len(rest) \in Nat \ {0}
    BY EmptySeq DEF Text
  <2>2. (emby \o rest)[Len(emby) + Len(rest)] = rest[Len(rest)]
    BY <1>7, <1>8, <2>1
  <2> QED
    BY <1>8, <2>2 DEF Last
<1>10. CASE Last(Normalized(oppo)) = "/"
  <2>1. oppo[Len(oppo)] \in Separators /\ emby[Len(emby)] \in Separators
    BY <1>10, NormalizedEnd
  <2>2. s # <<>>
    <3> SUFFICES ASSUME s = <<>> PROVE FALSE
      OBVIOUS
    <3>1. oppo = w
      BY <1>1, ConcatEmptySeq DEF Text
    <3> QED
      BY <1>1, <2>1, <3>1
  <2>3. rest # <<>>
    <3> SUFFICES ASSUME rest = <<>> PROVE FALSE
      OBVIOUS
    <3>1. emby \o rest = emby
      BY ConcatEmptySeq DEF Text
    <3> QED
      BY <2>1, <3>1 DEF Last
  <2> DEFINE z == s \o rest
  <2>4. /\ z \in Text /\ z # <<>> /\ z[1] \in Separators /\ z[Len(z)] \notin Separators
    <3>1. /\ Len(s) \in Nat \ {0} /\ s[1] \in Separators /\ Len(rest) \in Nat \ {0}
      <4>1. Len(s) \in Nat \ {0} /\ Len(rest) \in Nat \ {0}
        BY <1>2, <2>2, <2>3, EmptySeq DEF Text
      <4> QED
        BY <4>1, ElementOfSeq
    <3>2. /\ z \in Seq(Tokens) /\ Len(z) = Len(s) + Len(rest)
          /\ \A k \in 1..Len(s) + Len(rest) :
                 z[k] = IF k <= Len(s) THEN s[k] ELSE rest[k - Len(s)]
      BY <1>2, ConcatProperties DEF Text
    <3> HIDE DEF z
    <3>3. z[1] = s[1] /\ z[Len(z)] = rest[Len(rest)] /\ z # <<>>
      BY <3>1, <3>2
    <3> QED
      BY <1>9, <2>3, <3>1, <3>2, <3>3 DEF Text
  <2>5. oppo \o rest = w \o z
    <3>1. w \in Seq(Tokens) /\ s \in Seq(Tokens) /\ rest \in Seq(Tokens)
      BY <1>2 DEF Text
    <3>2. Associates(Tokens)
      BY Associative, Zenon
    <3>3. (w \o s) \o rest = w \o (s \o rest)
      BY <3>1, <3>2, Zenon DEF Associates
    <3> QED
      BY <1>1, <3>3
  <2> HIDE DEF z
  <2>6. Normalized(w \o z) = Normalized(w) \o Normalized(z)
    BY <1>1, <2>4, NormalizedConcat DEF Separators
  <2>7. /\ Normalized(z) \in Text /\ Normalized(z) # <<>> /\ Normalized(z)[1] = "/"
        /\ Last(Normalized(z)) # "/"
    BY <2>4, NormalizedFirst, NormalizedEnd
  <2> QED
    BY <1>4, <1>5, <1>6, <2>5, <2>6, <2>7 DEF GoesOn
<1>11. CASE Last(Normalized(oppo)) # "/"
  <2>1. oppo[Len(oppo)] \notin Separators /\ emby[Len(emby)] \notin Separators
    BY <1>11, NormalizedEnd
  <2>2. /\ Normalized(oppo \o rest) = Normalized(oppo) \o Normalized(rest)
        /\ Normalized(emby \o rest) = Normalized(emby) \o Normalized(rest)
    BY <2>1, NormalizedConcat DEF Separators
  <2>3. Normalized(emby) \in Text /\ Normalized(oppo) \in Text
    BY NormalizedTokens
  <2>4. Cut(Normalized(emby)) = Normalized(emby) /\ Cut(Normalized(oppo)) = Normalized(oppo)
    <3>1. \A z \in Text : Normalized(z) \in Text
      BY NormalizedTokens
    <3>2. ASSUME NEW a \in Text, a # <<>> => a[Len(a)] # "/"
          PROVE  Cut(a) = a
      <4>1. <<>> \in Text /\ Len(<<>>) = 0
        BY ShortTexts DEF Text
      <4> DEFINE b == <<>>
      <4>2. b \in Text /\ \A k \in 1..Len(b) : b[k] = "/"
        BY <4>1
      <4> HIDE DEF b
      <4>4. Cut(a \o b) = a
        BY <3>2, <4>2, CutBehind
      <4>3. a \o <<>> = a
        BY ConcatEmptySeq DEF Text
      <4> QED
        BY <4>3, <4>4 DEF b
    <3> QED
      BY <1>11, <2>3, <3>2 DEF Last
  <2>5. Normalized(rest) # <<>> /\ Normalized(rest)[1] = "/"
    <3> DEFINE a == Normalized(emby)
               b == Normalized(rest)
               c == Append(a, "/")
    <3>1. a \in Seq(Tokens) /\ b \in Seq(Tokens) /\ "/" \in Tokens /\ IsPrefix(c, a \o b)
      BY <1>4, <2>2, <2>3, <2>4, ShortTexts DEF Text
    <3> HIDE DEF a, b
    <3>2. /\ c \in Seq(Tokens) /\ Len(c) = Len(a) + 1 /\ c[Len(a) + 1] = "/"
          /\ Len(a) \in Nat /\ Len(b) \in Nat
      BY <3>1, AppendProperties, LenProperties
    <3> HIDE DEF c
    <3>3. /\ a \o b \in Seq(Tokens) /\ Len(a \o b) = Len(a) + Len(b)
          /\ \A k \in 1..Len(a) + Len(b) : (a \o b)[k] = IF k <= Len(a) THEN a[k] ELSE b[k - Len(a)]
      BY <3>1, ConcatProperties
    <3>4. Len(b) >= 1
      BY <3>1, <3>2, <3>3 DEF IsPrefix
    <3>5. a \o b = c \o SubSeq(a \o b, Len(c) + 1, Len(a \o b))
          /\ SubSeq(a \o b, Len(c) + 1, Len(a \o b)) \in Seq(Tokens)
      <4> DEFINE d == a \o b
      <4>1. d \in Seq(Tokens) /\ IsPrefix(c, d)
        BY <3>1, <3>3
      <4> HIDE DEF d
      <4>2. /\ SubSeq(d, Len(c) + 1, Len(d)) \in Seq(Tokens)
            /\ d = c \o SubSeq(d, Len(c) + 1, Len(d))
        BY <3>2, <4>1, PrefixAndRest
      <4> QED
        BY <4>2 DEF d
    <3>6. (a \o b)[Len(a) + 1] = "/"
      <4> DEFINE d == SubSeq(a \o b, Len(c) + 1, Len(a \o b))
      <4>1. d \in Seq(Tokens) /\ a \o b = c \o d
        BY <3>5
      <4> HIDE DEF d
      <4>2. (c \o d)[Len(a) + 1] = c[Len(a) + 1]
        <5>1. /\ Len(d) \in Nat
              /\ \A k \in 1..Len(c) + Len(d) : (c \o d)[k] = IF k <= Len(c) THEN c[k] ELSE d[k - Len(c)]
          BY <3>2, <4>1, ConcatProperties, LenProperties
        <5> QED
          BY <3>2, <5>1
      <4> QED
        BY <3>2, <4>1, <4>2
    <3> QED
      BY <3>2, <3>3, <3>4, <3>6 DEF b
  <2>6. rest # <<>>
    BY <2>5, NormalizedEmpty
  <2>7. Last(Normalized(rest)) # "/"
    BY <1>9, <2>6, NormalizedEnd
  <2>8. Normalized(oppo) # <<>> => Last(Normalized(oppo)) # "/"
    BY <1>11
  <2> QED
    BY <1>4, <2>2, <2>3, <2>4, <2>5, <2>7, <2>8 DEF GoesOn
<1> QED
    BY <1>10, <1>11

-------------------------------------------------------------------------------
(***************************************************************************)
(* Server, folder and file.                                                *)
(***************************************************************************)

\* A path with something behind it is stripped at its beginning only.
LEMMA StrippedBehind ==
    ASSUME NEW c \in Text, NEW q \in Text, c # <<>>, Last(c) # "/", q # <<>>, Last(q) # "/"
    PROVE  LET d == SubSeq(c, Min(Names(c)), Len(c))
           IN  /\ d \in Text /\ d # <<>> /\ d[1] # "/" /\ d[Len(d)] # "/"
               /\ Stripped(c \o q) = d \o q
<1> DEFINE z == c \o q
           first == Min(Names(c))
           d == SubSeq(c, first, Len(c))
<1>1. /\ c \in Seq(Tokens) /\ q \in Seq(Tokens) /\ Len(c) \in Nat \ {0} /\ Len(q) \in Nat \ {0}
      /\ z \in Seq(Tokens) /\ Len(z) = Len(c) + Len(q)
      /\ \A k \in 1..Len(c) + Len(q) : z[k] = IF k <= Len(c) THEN c[k] ELSE q[k - Len(c)]
    BY EmptySeq, ConcatProperties DEF Text
<1>2. Names(c) \in SUBSET (1..Len(c)) /\ Len(c) \in Names(c)
    BY <1>1 DEF Names, Last
<1>3. /\ first \in 1..Len(c) /\ c[first] # "/"
      /\ \A k \in 1..Len(c) : c[k] # "/" => first <= k
  <2>1. Min(Names(c)) \in Names(c) /\ \A k \in Names(c) : Min(Names(c)) <= k
    BY <1>1, <1>2, GreatestAndLeast
  <2> QED
    BY <2>1 DEF Names
<1> HIDE DEF first
<1>4. /\ d \in Seq(Tokens) /\ Len(d) = Len(c) - first + 1
      /\ \A k \in 1..Len(c) - first + 1 : d[k] = c[first + k - 1]
  <2>1. \A k \in first..Len(c) : c[k] \in Tokens
    BY <1>1, <1>3, ElementOfSeq
  <2>2. /\ d \in Seq(Tokens) /\ Len(d) = IF first <= Len(c) THEN Len(c) - first + 1 ELSE 0
        /\ \A k \in 1..Len(c) - first + 1 : d[k] = c[first + k - 1]
    BY <1>1, <1>3, <2>1, SubSeqProperties
  <2> QED
    BY <1>1, <1>3, <2>2
<1> HIDE DEF d
<1>5. d # <<>> /\ d[1] # "/" /\ d[Len(d)] # "/"
    BY <1>1, <1>3, <1>4 DEF Last
<1> HIDE DEF z
<1>6. Names(z) \in SUBSET (1..Len(z)) /\ Len(z) \in Names(z)
    BY <1>1 DEF Names, Last
<1>7. /\ Max(Names(z)) \in Names(z) /\ \A k \in Names(z) : k <= Max(Names(z))
      /\ Min(Names(z)) \in Names(z) /\ \A k \in Names(z) : Min(Names(z)) <= k
  <2>1. Names(z) \in SUBSET (1..Len(z)) /\ Names(z) # {} /\ Len(z) \in Nat
    BY <1>1, <1>6
  <2> QED
    BY <2>1, GreatestAndLeast
<1>8. Max(Names(z)) = Len(z)
    BY <1>1, <1>6, <1>7
<1>9. Min(Names(z)) = first
  <2>1. first \in Names(z)
    BY <1>1, <1>3 DEF Names
  <2>2. ASSUME NEW k \in Names(z) PROVE first <= k
    <3>1. k \in 1..Len(z) /\ z[k] # "/"
      BY DEF Names
    <3>2. CASE k <= Len(c)
      BY <1>1, <1>3, <3>1, <3>2
    <3>3. CASE ~(k <= Len(c))
      BY <1>1, <1>3, <3>1, <3>3
    <3> QED
      BY <3>2, <3>3
  <2>3. first <= Min(Names(z)) /\ Min(Names(z)) <= first /\ Min(Names(z)) \in 1..Len(z)
    BY <1>6, <1>7, <2>1, <2>2
  <2> QED
    BY <1>1, <1>3, <2>3
<1>10. Stripped(z) = SubSeq(z, first, Len(z))
    BY <1>6, <1>8, <1>9 DEF Stripped
<1> DEFINE t == SubSeq(z, first, Len(z))
           u == d \o q
<1>11. /\ t \in Seq(Tokens) /\ Len(t) = Len(z) - first + 1
       /\ \A k \in 1..Len(z) - first + 1 : t[k] = z[first + k - 1]
  <2>1. \A k \in first..Len(z) : z[k] \in Tokens
    BY <1>1, <1>3, ElementOfSeq
  <2>2. /\ t \in Seq(Tokens) /\ Len(t) = IF first <= Len(z) THEN Len(z) - first + 1 ELSE 0
        /\ \A k \in 1..Len(z) - first + 1 : t[k] = z[first + k - 1]
    BY <1>1, <1>3, <2>1, SubSeqProperties
  <2> QED
    BY <1>1, <1>3, <2>2
<1>12. /\ u \in Seq(Tokens) /\ Len(u) = Len(d) + Len(q)
       /\ \A k \in 1..Len(d) + Len(q) : u[k] = IF k <= Len(d) THEN d[k] ELSE q[k - Len(d)]
    BY <1>1, <1>4, ConcatProperties
<1> HIDE DEF t, u
<1>13. Len(t) = Len(u)
    BY <1>1, <1>3, <1>4, <1>11, <1>12
<1>14. ASSUME NEW k \in 1..Len(t) PROVE t[k] = u[k]
  <2>1. t[k] = z[first + k - 1] /\ first + k - 1 \in 1..Len(c) + Len(q)
    BY <1>1, <1>3, <1>11
  <2>2. CASE k <= Len(d)
    <3>1. u[k] = d[k] /\ d[k] = c[first + k - 1] /\ first + k - 1 <= Len(c)
      BY <1>1, <1>3, <1>4, <1>12, <1>13, <2>2
    <3> QED
      BY <1>1, <2>1, <3>1
  <2>3. CASE ~(k <= Len(d))
    <3>1. /\ u[k] = q[k - Len(d)] /\ ~(first + k - 1 <= Len(c))
          /\ (first + k - 1) - Len(c) = k - Len(d)
      BY <1>1, <1>3, <1>4, <1>12, <1>13, <2>3
    <3> QED
      BY <1>1, <2>1, <3>1
  <2> QED
    BY <2>2, <2>3
<1>15. t = u
    BY <1>11, <1>12, <1>13, <1>14, SeqEqual
<1> QED
    BY <1>4, <1>5, <1>10, <1>15 DEF t, u, d, z, first, Text

\* A text of two parts is split at a slash in the first, and at the last one that the
\* second has.
SplitsAfter(d, q, f) ==
    \E l \in Len(d) + 1..Len(d \o q) :
        /\ (d \o q)[l] = "/"
        /\ Split(d \o q) = [server |-> SubSeq(d \o q, 1, f - 1),
                            folder |-> SubSeq(d \o q, f + 1, l - 1),
                            file   |-> SubSeq(d \o q, l + 1, Len(d \o q))]

\* A text that has a slash in its first part is split at the first of them.
LEMMA SplitBehind ==
    ASSUME NEW d \in Text, NEW q \in Text, NEW f \in 1..Len(d), d[f] = "/",
           \A k \in 1..Len(d) : d[k] = "/" => f <= k,
           q # <<>>, q[1] = "/"
    PROVE  SplitsAfter(d, q, f)
<1> DEFINE z == d \o q
<1>1. /\ d \in Seq(Tokens) /\ q \in Seq(Tokens) /\ Len(d) \in Nat /\ Len(q) \in Nat \ {0}
      /\ z \in Seq(Tokens) /\ Len(z) = Len(d) + Len(q)
      /\ \A k \in 1..Len(d) + Len(q) : z[k] = IF k <= Len(d) THEN d[k] ELSE q[k - Len(d)]
    BY EmptySeq, LenProperties, ConcatProperties DEF Text
<1> HIDE DEF z
<1>2. f \in Slashes(z) /\ Len(d) + 1 \in Slashes(z) /\ f < Len(d) + 1
    BY <1>1 DEF Slashes
<1>3. /\ Max(Slashes(z)) \in Slashes(z) /\ \A k \in Slashes(z) : k <= Max(Slashes(z))
      /\ Min(Slashes(z)) \in Slashes(z) /\ \A k \in Slashes(z) : Min(Slashes(z)) <= k
  <2>1. Slashes(z) \in SUBSET (1..Len(z)) /\ Slashes(z) # {} /\ Len(z) \in Nat
    BY <1>1, <1>2 DEF Slashes
  <2> QED
    BY <2>1, GreatestAndLeast
<1>4. Min(Slashes(z)) = f
  <2>1. Min(Slashes(z)) \in 1..Len(z) /\ z[Min(Slashes(z))] = "/" /\ Min(Slashes(z)) <= f
    BY <1>2, <1>3 DEF Slashes
  <2>2. Min(Slashes(z)) \in 1..Len(d) /\ d[Min(Slashes(z))] = "/"
    BY <1>1, <2>1
  <2>3. f <= Min(Slashes(z))
    BY <2>2
  <2> QED
    BY <1>1, <2>1, <2>3
<1> DEFINE l == Max(Slashes(z))
<1>5. l \in Len(d) + 1..Len(z) /\ z[l] = "/"
  <2>1. l \in 1..Len(z) /\ z[l] = "/" /\ Len(d) + 1 <= l
    BY <1>2, <1>3 DEF Slashes
  <2> QED
    BY <1>1, <2>1
<1>6. Split(z) = [server |-> SubSeq(z, 1, f - 1), folder |-> SubSeq(z, f + 1, l - 1),
                  file |-> SubSeq(z, l + 1, Len(z))]
  <2>1. \E i, j \in Slashes(z) : i < j
    BY <1>2
  <2> QED
    BY <1>4, <2>1, Zenon DEF Split
<1> HIDE DEF l
<1> QED
    BY <1>5, <1>6, Zenon DEF z, SplitsAfter

\* A part of a path is a path.
LEMMA Slice ==
    ASSUME NEW z \in Seq(Tokens), NEW a \in Nat \ {0}, NEW b \in Nat, b <= Len(z)
    PROVE  /\ SubSeq(z, a, b) \in Seq(Tokens)
           /\ Len(SubSeq(z, a, b)) = IF a <= b THEN b - a + 1 ELSE 0
           /\ \A k \in 1..b - a + 1 : SubSeq(z, a, b)[k] = z[a + k - 1]
<1>1. \A k \in a..b : z[k] \in Tokens
  <2>1. ASSUME NEW k \in a..b PROVE k \in 1..Len(z)
    BY LenProperties
  <2> QED
    BY <2>1, ElementOfSeq
<1>2. a \in Int /\ b \in Int
    OBVIOUS
<1> QED
    BY <1>1, <1>2, SubSeqProperties

\* Texts that begin alike have the same parts there.
LEMMA SameSlice ==
    ASSUME NEW y \in Seq(Tokens), NEW z \in Seq(Tokens), NEW a \in Nat \ {0}, NEW b \in Nat,
           b <= Len(y), b <= Len(z), \A k \in 1..b : y[k] = z[k]
    PROVE  SubSeq(y, a, b) = SubSeq(z, a, b)
<1> DEFINE s == SubSeq(y, a, b)
           t == SubSeq(z, a, b)
<1>1. /\ s \in Seq(Tokens) /\ Len(s) = IF a <= b THEN b - a + 1 ELSE 0
      /\ \A k \in 1..b - a + 1 : s[k] = y[a + k - 1]
    BY Slice
<1>2. /\ t \in Seq(Tokens) /\ Len(t) = IF a <= b THEN b - a + 1 ELSE 0
      /\ \A k \in 1..b - a + 1 : t[k] = z[a + k - 1]
    BY Slice
<1> HIDE DEF s, t
<1>3. ASSUME NEW k \in 1..Len(s) PROVE s[k] = t[k]
  <2>1. k \in 1..b - a + 1 /\ a + k - 1 \in 1..b
    BY <1>1
  <2> QED
    BY <1>1, <1>2, <2>1
<1>4. s = t
    BY <1>1, <1>2, <1>3, SeqEqual
<1> QED
    BY <1>4 DEF s, t

\* The test of a path that consists of slashes does not find a folder.
LEMMA NothingTested == Split(Stripped(<<>> \o <<"/", "test">>)) = NoLocation
<1> DEFINE e == <<"/", "test">>
           s == SubSeq(e, Min(Names(e)), Max(Names(e)))
<1>1. e \in Seq(Tokens) /\ Len(e) = 2 /\ e[1] = "/" /\ e[2] = "test" /\ <<>> \o e = e
    BY ShortTexts
<1> HIDE DEF e
<1>2. Names(e) \in SUBSET (1..2) /\ 2 \in Names(e) /\ 1 \notin Names(e)
    BY <1>1 DEF Names
<1>3. Min(Names(e)) = 2 /\ Max(Names(e)) = 2
  <2>1. Names(e) # {} /\ 2 \in Nat
    BY <1>2
  <2>2. Min(Names(e)) \in Names(e) /\ Max(Names(e)) \in Names(e)
    BY <1>2, <2>1, GreatestAndLeast
  <2> QED
    BY <1>2, <2>2
<1>4. Len(s) = 1
  <2>1. Len(SubSeq(e, 2, 2)) = IF 2 <= 2 THEN 2 - 2 + 1 ELSE 0
    BY <1>1, Slice
  <2> QED
    BY <1>3, <2>1
<1>5. Stripped(e) = s
    BY <1>2 DEF Stripped
<1> HIDE DEF s
<1>6. ~\E i, j \in Slashes(s) : i < j
    BY <1>4 DEF Slashes
<1>7. Split(s) = NoLocation
    BY <1>6, Zenon DEF Split
<1> QED
    BY <1>1, <1>5, <1>7 DEF e

\* What is played of a text behind the path of a mapping is on the server and below the
\* folder that the test of the mapping finds.
LEMMA OneFolder ==
    ASSUME NEW c \in Text, NEW q \in Text, c # <<>> => Last(c) # "/",
           q # <<>>, q[1] = "/", Last(q) # "/",
           Split(Stripped(c \o <<"/", "test">>)) # NoLocation
    PROVE  LET tested == Split(Stripped(c \o <<"/", "test">>))
               played == Location(c \o q)
           IN  /\ played # NoLocation
               /\ played.server = tested.server
               /\ Within(played.folder, tested.folder)
<1> DEFINE e == <<"/", "test">>
           d == SubSeq(c, Min(Names(c)), Len(c))
           y == d \o q
           z == d \o e
<1>1. /\ e \in Text /\ e # <<>> /\ Len(e) = 2 /\ e[1] = "/" /\ e[2] = "test" /\ Last(e) # "/"
    BY ShortTexts DEF Text, Last
<1>2. c # <<>>
    BY NothingTested
<1> HIDE DEF e
<1>3. /\ d \in Text /\ d # <<>> /\ d[Len(d)] # "/"
      /\ Stripped(c \o q) = y /\ Stripped(c \o e) = z
    BY <1>1, <1>2, StrippedBehind
<1> HIDE DEF d
<1>4. /\ d \in Seq(Tokens) /\ q \in Seq(Tokens) /\ Len(d) \in Nat \ {0} /\ Len(q) \in Nat \ {0}
      /\ y \in Seq(Tokens) /\ Len(y) = Len(d) + Len(q)
      /\ \A k \in 1..Len(d) + Len(q) : y[k] = IF k <= Len(d) THEN d[k] ELSE q[k - Len(d)]
    BY <1>3, EmptySeq, LenProperties, ConcatProperties DEF Text
<1>5. /\ z \in Seq(Tokens) /\ Len(z) = Len(d) + 2
      /\ \A k \in 1..Len(d) + 2 : z[k] = IF k <= Len(d) THEN d[k] ELSE e[k - Len(d)]
  <2>1. e \in Seq(Tokens)
    BY <1>1 DEF Text
  <2>2. /\ z \in Seq(Tokens) /\ Len(z) = Len(d) + Len(e)
        /\ \A k \in 1..Len(d) + Len(e) : z[k] = IF k <= Len(d) THEN d[k] ELSE e[k - Len(d)]
    BY <1>4, <2>1, ConcatProperties
  <2> HIDE DEF z
  <2> QED
    BY <1>1, <2>2
<1>6. Slashes(d) \in SUBSET (1..Len(d)) /\ Slashes(d) # {}
  <2>1. Split(z) # NoLocation
    BY <1>3 DEF e
  <2> HIDE DEF z
  <2>2. PICK i \in Slashes(z), j \in Slashes(z) : i < j
    BY <2>1, Zenon DEF Split
  <2>3. i \in 1..Len(z) /\ j \in 1..Len(z) /\ z[i] = "/" /\ z[j] = "/"
    BY DEF Slashes
  <2>4. j # Len(d) + 2
    BY <1>1, <1>4, <1>5, <2>3
  <2>5. i \in 1..Len(d)
    BY <1>4, <1>5, <2>2, <2>3, <2>4
  <2>6. d[i] = "/"
    BY <1>4, <1>5, <2>3, <2>5
  <2> QED
    BY <2>5, <2>6 DEF Slashes
<1> HIDE DEF y, z
<1> DEFINE f == Min(Slashes(d))
<1>7. /\ f \in 1..Len(d) /\ d[f] = "/" /\ f # Len(d)
      /\ \A k \in 1..Len(d) : d[k] = "/" => f <= k
  <2>1. Len(d) \in Nat
    BY <1>4
  <2>2. Min(Slashes(d)) \in Slashes(d) /\ \A x \in Slashes(d) : Min(Slashes(d)) <= x
    BY <1>6, <2>1, GreatestAndLeast
  <2> QED
    BY <1>3, <2>2 DEF Slashes
<1> HIDE DEF f
<1>8. PICK l \in Len(d) + 1..Len(y) :
          /\ y[l] = "/"
          /\ Split(y) = [server |-> SubSeq(y, 1, f - 1), folder |-> SubSeq(y, f + 1, l - 1),
                         file |-> SubSeq(y, l + 1, Len(y))]
  <2>1. SplitsAfter(d, q, f)
    <3>1. q # <<>> /\ q[1] = "/" /\ d \in Text /\ q \in Text
      BY <1>3
    <3>2. f \in 1..Len(d) /\ d[f] = "/" /\ \A k \in 1..Len(d) : d[k] = "/" => f <= k
      BY <1>7
    <3> QED
      BY <3>1, <3>2, SplitBehind, Zenon
  <2> QED
    BY <2>1, Zenon DEF y, SplitsAfter
<1>9. PICK m \in Len(d) + 1..Len(z) :
          /\ z[m] = "/"
          /\ Split(z) = [server |-> SubSeq(z, 1, f - 1), folder |-> SubSeq(z, f + 1, m - 1),
                         file |-> SubSeq(z, m + 1, Len(z))]
  <2>1. SplitsAfter(d, e, f)
    <3>1. f \in 1..Len(d) /\ d[f] = "/" /\ \A k \in 1..Len(d) : d[k] = "/" => f <= k
      BY <1>7
    <3> QED
      BY <1>1, <1>3, <3>1, SplitBehind, Zenon
  <2> QED
    BY <2>1, Zenon DEF z, SplitsAfter
<1>10. m - 1 = Len(d)
    BY <1>1, <1>4, <1>5, <1>9
<1> DEFINE outer == SubSeq(z, f + 1, Len(d))
           folder == SubSeq(y, f + 1, l - 1)
           server == SubSeq(y, 1, f - 1)
           file == SubSeq(y, l + 1, Len(y))
<1>11. \A k \in 1..Len(d) : y[k] = z[k]
    BY <1>4, <1>5
<1>12. server = SubSeq(z, 1, f - 1)
  <2>1. 1 \in Nat \ {0} /\ f - 1 \in Nat /\ f - 1 <= Len(y) /\ f - 1 <= Len(z)
        /\ \A k \in 1..f - 1 : y[k] = z[k]
    BY <1>4, <1>5, <1>7, <1>11
  <2> QED
    BY <1>4, <1>5, <2>1, SameSlice
<1>13. SubSeq(y, f + 1, Len(d)) = outer
  <2>1. f + 1 \in Nat \ {0} /\ Len(d) \in Nat /\ Len(d) <= Len(y) /\ Len(d) <= Len(z)
    BY <1>4, <1>5, <1>7
  <2> QED
    BY <1>4, <1>5, <1>11, <2>1, SameSlice
<1>14. /\ folder \in Seq(Tokens) /\ Len(folder) = l - 1 - f
       /\ \A k \in 1..l - 1 - f : folder[k] = y[f + k]
  <2>1. f + 1 \in Nat \ {0} /\ l - 1 \in Nat /\ l - 1 <= Len(y) /\ f + 1 <= l - 1
    BY <1>4, <1>7, <1>8
  <2>2. /\ folder \in Seq(Tokens)
        /\ Len(folder) = IF f + 1 <= l - 1 THEN (l - 1) - (f + 1) + 1 ELSE 0
        /\ \A k \in 1..(l - 1) - (f + 1) + 1 : folder[k] = y[f + 1 + k - 1]
    BY <1>4, <2>1, Slice
  <2> HIDE DEF folder
  <2>3. (l - 1) - (f + 1) + 1 = l - 1 - f
    BY <1>7, <2>1
  <2>4. \A k \in 1..l - 1 - f : f + 1 + k - 1 = f + k
    BY <1>7
  <2> QED
    BY <2>1, <2>2, <2>3, <2>4
<1>15. /\ outer \in Seq(Tokens) /\ Len(outer) = Len(d) - f
       /\ \A k \in 1..Len(d) - f : outer[k] = z[f + k]
  <2>1. f + 1 \in Nat \ {0} /\ Len(d) \in Nat /\ Len(d) <= Len(z) /\ f + 1 <= Len(d)
    BY <1>4, <1>5, <1>7
  <2>2. /\ outer \in Seq(Tokens)
        /\ Len(outer) = IF f + 1 <= Len(d) THEN Len(d) - (f + 1) + 1 ELSE 0
        /\ \A k \in 1..Len(d) - (f + 1) + 1 : outer[k] = z[f + 1 + k - 1]
    BY <1>5, <2>1, Slice
  <2> HIDE DEF outer
  <2>3. Len(d) - (f + 1) + 1 = Len(d) - f
    BY <1>7, <2>1
  <2>4. \A k \in 1..Len(d) - f : f + 1 + k - 1 = f + k
    BY <1>7
  <2> QED
    BY <2>1, <2>2, <2>3, <2>4
<1>16. server \in Seq(Tokens) /\ file \in Seq(Tokens)
  <2>1. f - 1 \in Nat /\ f - 1 <= Len(y) /\ l + 1 \in Nat \ {0} /\ Len(y) \in Nat /\ 1 \in Nat \ {0}
    BY <1>4, <1>7, <1>8
  <2>2. server \in Seq(Tokens)
    BY <1>4, <2>1, Slice
  <2>3. file \in Seq(Tokens)
    BY <1>4, <2>1, Slice
  <2> QED
    BY <2>2, <2>3
<1> HIDE DEF server, file
<1>17. Within(folder, outer)
  <2>1. CASE l = Len(d) + 1
    <3>1. l - 1 = Len(d)
      BY <1>4, <2>1
    <3>2. folder = outer
      BY <1>13, <3>1
    <3> QED
      BY <3>2 DEF Within
  <2>2. CASE l # Len(d) + 1
    <3> DEFINE a == Append(outer, "/")
               n == Len(d) - f + 1
               b == SubSeq(folder, 1, n)
    <3>1. n \in Nat /\ n <= Len(folder) /\ 1 <= n /\ 1 \in Nat \ {0}
      <4> HIDE DEF folder
      <4> QED
        <5>1. Len(d) \in Nat /\ f \in Nat /\ f <= Len(d) /\ l \in Nat /\ Len(d) + 2 <= l
          <6>1. l \in Len(d) + 1..Len(y)
            BY <1>8
          <6>2. Len(d) \in Nat /\ Len(y) \in Nat /\ f \in 1..Len(d)
            BY <1>4, <1>7
          <6> QED
            BY <2>2, <6>1, <6>2
        <5> QED
          BY <1>14, <5>1
    <3>2. /\ a \in Seq(Tokens) /\ Len(a) = n /\ a[n] = "/"
          /\ \A k \in 1..Len(d) - f : a[k] = outer[k]
      <4>1. "/" \in Tokens
        BY ShortTexts
      <4> HIDE DEF outer
      <4> QED
        BY <1>15, <4>1, AppendProperties
    <3>3. b \in Seq(Tokens) /\ Len(b) = n /\ \A k \in 1..n : b[k] = folder[k]
      <4>1. /\ b \in Seq(Tokens) /\ Len(b) = IF 1 <= n THEN n - 1 + 1 ELSE 0
            /\ \A k \in 1..n - 1 + 1 : b[k] = folder[1 + k - 1]
        <5> HIDE DEF n, folder
        <5> QED
          BY <1>14, <3>1, Slice
      <4> HIDE DEF b, n, folder
      <4>2. \A k \in 1..n : 1 + k - 1 = k /\ k \in 1..n - 1 + 1
        BY <3>1
      <4> QED
        BY <3>1, <4>1, <4>2
    <3> HIDE DEF a, b, outer, folder
    <3>4. ASSUME NEW k \in 1..Len(a) PROVE a[k] = b[k]
      <4>1. k \in 1..n /\ b[k] = folder[k] /\ k \in 1..l - 1 - f /\ folder[k] = y[f + k]
        BY <1>14, <3>1, <3>2, <3>3
      <4>2. CASE k \in 1..Len(d) - f
        <5>1. a[k] = z[f + k] /\ f + k \in 1..Len(d)
          BY <1>4, <1>7, <1>15, <3>2, <4>2
        <5> QED
          BY <1>11, <4>1, <5>1
      <4>3. CASE k \notin 1..Len(d) - f
        <5>1. k = n /\ f + k = Len(d) + 1
          <6>1. n \in Nat /\ Len(d) \in Nat /\ f \in Nat /\ k \in 1..n
            BY <1>4, <1>7, <3>1, <4>1
          <6>2. k = n
            BY <4>3, <6>1
          <6> QED
            BY <6>1, <6>2
        <5>2. y[Len(d) + 1] = "/"
          <6>1. ~(Len(d) + 1 <= Len(d)) /\ Len(d) + 1 - Len(d) = 1 /\ Len(d) + 1 \in 1..Len(d) + Len(q)
            BY <1>4
          <6> QED
            BY <1>4, <6>1
        <5> QED
          BY <3>2, <4>1, <5>1, <5>2
      <4> QED
        BY <4>2, <4>3
    <3>5. a = b
      BY <3>2, <3>3, <3>4, SeqEqual
    <3>6. IsPrefix(a, folder)
      BY <3>1, <3>2, <3>5 DEF IsPrefix, b
    <3> QED
      BY <3>6 DEF Within, a
  <2> QED
    BY <2>1, <2>2
<1>18. folder # <<>>
  <2>1. Len(folder) # 0
    BY <1>4, <1>7, <1>8, <1>14
  <2> HIDE DEF folder
  <2> QED
    BY <2>1
<1> HIDE DEF folder, outer
<1> DEFINE played == [server |-> server, folder |-> folder, file |-> file]
<1>19. Split(y) = played
    BY <1>8 DEF server, folder, file
<1>20. played # NoLocation /\ played.folder = folder /\ played.server = server
  <2>1. played \in Place
    BY <1>14, <1>16 DEF Place, Text
  <2> QED
    BY <2>1, NoLocationAssumption
<1> HIDE DEF played
<1>21. Location(c \o q) = played
    BY <1>3, <1>18, <1>19, <1>20 DEF Location
<1>22. Split(z).server = server /\ Split(z).folder = outer
  <2>1. Split(z) = [server |-> SubSeq(z, 1, f - 1), folder |-> SubSeq(z, f + 1, Len(d)),
                    file |-> SubSeq(z, m + 1, Len(z))]
    BY <1>9, <1>10, Zenon
  <2>2. Split(z) = [server |-> server, folder |-> outer, file |-> SubSeq(z, m + 1, Len(z))]
    BY <1>12, <2>1, Zenon DEF outer
  <2> QED
    BY <2>2
<1>23. Split(Stripped(c \o e)) = Split(z)
    BY <1>3
<1> QED
    BY <1>17, <1>20, <1>21, <1>22, <1>23 DEF e

\* Where only the beginning of a path is replaced, what is played of it is where the
\* test of the mapping looks.
LEMMA PlayedWhereTested ==
    ASSUME NEW path \in Text \ {<<>>}, Last(path) \notin Separators,
           NEW mappings \in Seq(Mapping), NEW i \in DOMAIN mappings,
           Plain(path, i, mappings),
           TestedLocation(mappings[i]) # NoLocation
    PROVE  LET tested == TestedLocation(mappings[i])
               played == PlayedLocation(path, mappings)
           IN  /\ played # NoLocation
               /\ played.server = tested.server
               /\ Within(played.folder, tested.folder)
<1> DEFINE emby == mappings[i].emby
           oppo == mappings[i].oppo
           rest == Remainder(path, mappings[i])
           c == Cut(Normalized(oppo))
<1>1. mappings[i] \in Mapping
  <2>1. i \in 1..Len(mappings)
    BY LenProperties
  <2> QED
    BY <2>1, ElementOfSeq
<1>2. emby \in Text /\ oppo \in Text
    BY <1>1 DEF Mapping
<1>3. /\ IsPrefix(emby, path)
      /\ IsPrefix(Append(Cut(Normalized(emby)), "/"), Normalized(path))
      /\ (Last(Normalized(emby)) = "/") = (Last(Normalized(oppo)) = "/")
      /\ Alone(path, i, mappings) /\ ~Occurs(rest, emby)
    BY DEF Plain, InFolder, EndsAlike, Alone
<1>4. rest \in Text /\ path = emby \o rest
    BY <1>2, <1>3, PrefixAndRest DEF Text, Remainder
<1>5. Mapped(path, mappings) = oppo \o rest
  <2>1. Mapped(path, mappings) = Exchanged(path, mappings[i])
    BY <1>3, MappedAlone
  <2> QED
    BY <2>1 DEF Exchanged
<1>6. emby # <<>>
    BY <1>3, <1>4, EmptyOccurs DEF Text
<1>7. /\ TestedLocation(mappings[i]) = Split(Stripped(c \o <<"/", "test">>))
      /\ Normalized(oppo) # <<>>
    BY DEF TestedLocation
<1>8. oppo # <<>>
    BY <1>7, NormalizedEmpty
<1>9. PlayedLocation(path, mappings) = Location(Normalized(oppo \o rest))
    BY <1>5 DEF PlayedLocation
<1> HIDE DEF rest, emby, oppo
<1>10. Last(emby \o rest) \notin Separators
    BY <1>4
<1>11. /\ c \in Text /\ (c # <<>> => Last(c) # "/")
       /\ GoesOn(Normalized(oppo \o rest), c)
  <2>1. IsPrefix(Append(Cut(Normalized(emby)), "/"), Normalized(emby \o rest))
    BY <1>3, <1>4
  <2> QED
    BY <1>2, <1>3, <1>4, <1>6, <1>8, <1>10, <2>1, TextBelow
<1> HIDE DEF c
<1>12. PICK q \in Text : /\ Normalized(oppo \o rest) = c \o q
                         /\ q # <<>> /\ q[1] = "/" /\ Last(q) # "/"
    BY <1>11 DEF GoesOn
<1>13. Split(Stripped(c \o <<"/", "test">>)) # NoLocation
    BY <1>7
<1> QED
    BY <1>7, <1>9, <1>11, <1>12, <1>13, OneFolder

-------------------------------------------------------------------------------
(***************************************************************************)
(* The startup and the test.                                               *)
(***************************************************************************)

\* Every step keeps the types.
LEMMA TypingStep ==
    ASSUME IInv, [WebNext]_allVars
    PROVE  WebTypeOK'
<1> USE BoundsAssumption DEF IInv, WebTypeOK, TypeOK, AttemptFacts, StartVerdicts, bridge, player, history, vars, web, startup
<1>1. ASSUME ProbeForItem PROVE WebTypeOK'
  <2>1. /\ pc' = "locate" /\ lostProbe' = FALSE
        /\ UNCHANGED <<attempts, optical, reconciling, polls, verdict, api, mounted,
                       pending, plays, command, begun, foreign>>
    BY <1>1, Zenon DEF ProbeForItem, ProbeSucceeds
  <2>2. located' \in Located /\ test' = test /\ seen' = seen /\ listed' = listed
    BY <1>1, Zenon DEF ProbeForItem
  <2> QED
    BY <2>1, <2>2, ZenonT(60)
<1>2. ASSUME LocateIt PROVE WebTypeOK'
    BY <1>2 DEF LocateIt, Locate, LocateRaises, End
<1>3. ASSUME ProbeFails /\ UNCHANGED web PROVE WebTypeOK'
    BY <1>3 DEF ProbeFails
<1>4. ASSUME Notify /\ UNCHANGED web PROVE WebTypeOK'
  <2>1. api' \in BOOLEAN
    BY <1>4, Zenon DEF Notify
  <2> QED
    BY <1>4, <2>1 DEF Notify
<1>5. ASSUME GiveUpApi /\ UNCHANGED web PROVE WebTypeOK'
    BY <1>5 DEF GiveUpApi
<1>6. ASSUME Raise /\ UNCHANGED web PROVE WebTypeOK'
    BY <1>6, ZenonT(60) DEF Raise, End, MountEffect, PlayEffect
<1>7. ASSUME Connect /\ UNCHANGED web PROVE WebTypeOK'
    BY <1>7 DEF Connect
<1>8. ASSUME MountNamesPath /\ UNCHANGED web PROVE WebTypeOK'
    BY <1>8 DEF MountNamesPath
<1>9. ASSUME MountFails /\ UNCHANGED web PROVE WebTypeOK'
  <2>1. mounted' \in BOOLEAN /\ pending' \in BOOLEAN /\ reconciling' \in BOOLEAN
    BY <1>9, Zenon DEF MountFails, MountEffect
  <2> QED
    BY <1>9, <2>1 DEF MountFails, End, MountEffect
<1>10. ASSUME PlayAccepted /\ UNCHANGED web PROVE WebTypeOK'
    BY <1>10 DEF PlayAccepted
<1>11. ASSUME PlayFails /\ UNCHANGED web PROVE WebTypeOK'
    BY <1>11 DEF PlayFails, End, PlayEffect
<1>12. ASSUME PollActive /\ UNCHANGED web PROVE WebTypeOK'
    BY <1>12 DEF PollActive, End, Polled, Category
<1>13. ASSUME PollInactive /\ UNCHANGED web PROVE WebTypeOK'
    BY <1>13 DEF PollInactive, Polled, Category
<1>14. ASSUME NotifyWaiting /\ UNCHANGED web PROVE WebTypeOK'
    BY <1>14 DEF NotifyWaiting
<1>15. ASSUME DeadlinePasses /\ UNCHANGED web PROVE WebTypeOK'
    BY <1>15 DEF DeadlinePasses, End
<1>16. ASSUME TestProbes PROVE WebTypeOK'
  <2>1. api' \in BOOLEAN
    BY <1>16, Zenon DEF TestProbes
  <2> QED
    BY <1>16, <2>1 DEF TestProbes, Goes, Answers
<1>17. ASSUME ReadList PROVE WebTypeOK'
    BY <1>17 DEF ReadList, Goes
<1>18. ASSUME Eject PROVE WebTypeOK'
    BY <1>18 DEF Eject, Goes
<1>19. ASSUME ReadListAgain PROVE WebTypeOK'
    BY <1>19 DEF ReadListAgain
<1>20. ASSUME DevicesSeen PROVE WebTypeOK'
    BY <1>20 DEF DevicesSeen, Goes
<1>21. ASSUME Login PROVE WebTypeOK'
    BY <1>21 DEF Login, Goes
<1>22. ASSUME MountTested PROVE WebTypeOK'
    BY <1>22 DEF MountTested, Goes, Answers, Mounts
<1>23. ASSUME UnmountTested PROVE WebTypeOK'
    BY <1>23 DEF UnmountTested, Answers, Unmounts
<1>24. ASSUME TestRaises PROVE WebTypeOK'
    BY <1>24 DEF TestRaises, Answers, Mounts
<1>25. ASSUME NavigateFolder PROVE WebTypeOK'
    BY <1>25 DEF NavigateFolder, Mounts
<1>26. ASSUME DevicesChange PROVE WebTypeOK'
    BY <1>26 DEF DevicesChange
<1>27. ASSUME PlayerLoads /\ UNCHANGED web PROVE WebTypeOK'
  <2>1. begun' \in BOOLEAN /\ foreign' \in BOOLEAN /\ pending' \in BOOLEAN
    BY <1>27 DEF PlayerLoads, PlayerMoves
  <2>2. /\ plays' = "loading" /\ UNCHANGED web
        /\ UNCHANGED <<pc, bridge, api, mounted, command, lostProbe>>
    BY <1>27, Zenon DEF PlayerLoads, PlayerMoves
  <2> QED
    BY <2>1, <2>2
<1>28. ASSUME PlayerBegins /\ UNCHANGED web PROVE WebTypeOK'
    BY <1>28 DEF PlayerBegins, PlayerMoves
<1>29. ASSUME ViewerActs /\ UNCHANGED web PROVE WebTypeOK'
    BY <1>29 DEF ViewerActs, PlayerMoves
<1>30. ASSUME NEW mapping \in Mappings, StartTest(mapping) PROVE WebTypeOK'
    BY <1>30 DEF StartTest, Goes, Answers
<1>31. ASSUME UNCHANGED allVars PROVE WebTypeOK'
    BY <1>31 DEF allVars, vars
<1> QED
    BY <1>1, <1>2, <1>3, <1>4, <1>5, <1>6, <1>7, <1>8, <1>9, <1>10, <1>11, <1>12, <1>13, <1>14, <1>15, <1>16, <1>17, <1>18, <1>19, <1>20, <1>21, <1>22, <1>23, <1>24, <1>25, <1>26, <1>27, <1>28, <1>29, <1>30, <1>31
       DEF WebNext, Startup, Test, TestGoesOn, Asks, Others

\* Every step keeps the verdict true to the command.
LEMMA CommandStep ==
    ASSUME IInv, [WebNext]_allVars
    PROVE  CommandFacts'
<1> USE BoundsAssumption DEF IInv, WebTypeOK, TypeOK, CommandFacts, bridge, player, history, vars, web, startup
<1>1. ASSUME ProbeForItem PROVE CommandFacts'
    BY <1>1 DEF ProbeForItem, ProbeSucceeds
<1>2. ASSUME LocateIt PROVE CommandFacts'
    BY <1>2 DEF LocateIt, Locate, LocateRaises, End
<1>3. ASSUME ProbeFails /\ UNCHANGED web PROVE CommandFacts'
    BY <1>3 DEF ProbeFails
<1>4. ASSUME Notify /\ UNCHANGED web PROVE CommandFacts'
    BY <1>4 DEF Notify
<1>5. ASSUME GiveUpApi /\ UNCHANGED web PROVE CommandFacts'
    BY <1>5 DEF GiveUpApi
<1>6. ASSUME Raise /\ UNCHANGED web PROVE CommandFacts'
    BY <1>6 DEF Raise, End, MountEffect, PlayEffect
<1>7. ASSUME Connect /\ UNCHANGED web PROVE CommandFacts'
    BY <1>7 DEF Connect
<1>8. ASSUME MountNamesPath /\ UNCHANGED web PROVE CommandFacts'
    BY <1>8 DEF MountNamesPath
<1>9. ASSUME MountFails /\ UNCHANGED web PROVE CommandFacts'
    BY <1>9 DEF MountFails, End, MountEffect
<1>10. ASSUME PlayAccepted /\ UNCHANGED web PROVE CommandFacts'
    BY <1>10 DEF PlayAccepted
<1>11. ASSUME PlayFails /\ UNCHANGED web PROVE CommandFacts'
    BY <1>11 DEF PlayFails, End, PlayEffect
<1>12. ASSUME PollActive /\ UNCHANGED web PROVE CommandFacts'
    BY <1>12 DEF PollActive, End, Polled, Category
<1>13. ASSUME PollInactive /\ UNCHANGED web PROVE CommandFacts'
    BY <1>13 DEF PollInactive, Polled, Category
<1>14. ASSUME NotifyWaiting /\ UNCHANGED web PROVE CommandFacts'
    BY <1>14 DEF NotifyWaiting
<1>15. ASSUME DeadlinePasses /\ UNCHANGED web PROVE CommandFacts'
    BY <1>15 DEF DeadlinePasses, End
<1>16. ASSUME TestProbes PROVE CommandFacts'
    BY <1>16 DEF TestProbes, Goes, Answers
<1>17. ASSUME ReadList PROVE CommandFacts'
    BY <1>17 DEF ReadList, Goes
<1>18. ASSUME Eject PROVE CommandFacts'
    BY <1>18 DEF Eject, Goes
<1>19. ASSUME ReadListAgain PROVE CommandFacts'
    BY <1>19 DEF ReadListAgain
<1>20. ASSUME DevicesSeen PROVE CommandFacts'
    BY <1>20 DEF DevicesSeen, Goes
<1>21. ASSUME Login PROVE CommandFacts'
    BY <1>21 DEF Login, Goes
<1>22. ASSUME MountTested PROVE CommandFacts'
    BY <1>22 DEF MountTested, Goes, Answers, Mounts
<1>23. ASSUME UnmountTested PROVE CommandFacts'
    BY <1>23 DEF UnmountTested, Answers, Unmounts
<1>24. ASSUME TestRaises PROVE CommandFacts'
    BY <1>24 DEF TestRaises, Answers, Mounts
<1>25. ASSUME NavigateFolder PROVE CommandFacts'
    BY <1>25 DEF NavigateFolder, Mounts
<1>26. ASSUME DevicesChange PROVE CommandFacts'
    BY <1>26 DEF DevicesChange
<1>27. ASSUME PlayerLoads /\ UNCHANGED web PROVE CommandFacts'
    BY <1>27 DEF PlayerLoads, PlayerMoves
<1>28. ASSUME PlayerBegins /\ UNCHANGED web PROVE CommandFacts'
    BY <1>28 DEF PlayerBegins, PlayerMoves
<1>29. ASSUME ViewerActs /\ UNCHANGED web PROVE CommandFacts'
    BY <1>29 DEF ViewerActs, PlayerMoves
<1>30. ASSUME NEW mapping \in Mappings, StartTest(mapping) PROVE CommandFacts'
    BY <1>30 DEF StartTest, Goes, Answers
<1>31. ASSUME UNCHANGED allVars PROVE CommandFacts'
    BY <1>31 DEF allVars, vars
<1> QED
    BY <1>1, <1>2, <1>3, <1>4, <1>5, <1>6, <1>7, <1>8, <1>9, <1>10, <1>11, <1>12, <1>13, <1>14, <1>15, <1>16, <1>17, <1>18, <1>19, <1>20, <1>21, <1>22, <1>23, <1>24, <1>25, <1>26, <1>27, <1>28, <1>29, <1>30, <1>31
       DEF WebNext, Startup, Test, TestGoesOn, Asks, Others

\* Every step keeps the history true to what plays.
LEMMA HistoryStep ==
    ASSUME IInv, [WebNext]_allVars
    PROVE  HistoryFacts'
<1> USE BoundsAssumption DEF IInv, WebTypeOK, TypeOK, HistoryFacts, bridge, player, history, vars, web, startup
<1>1. ASSUME ProbeForItem PROVE HistoryFacts'
    BY <1>1 DEF ProbeForItem, ProbeSucceeds
<1>2. ASSUME LocateIt PROVE HistoryFacts'
    BY <1>2 DEF LocateIt, Locate, LocateRaises, End
<1>3. ASSUME ProbeFails /\ UNCHANGED web PROVE HistoryFacts'
    BY <1>3 DEF ProbeFails
<1>4. ASSUME Notify /\ UNCHANGED web PROVE HistoryFacts'
    BY <1>4 DEF Notify
<1>5. ASSUME GiveUpApi /\ UNCHANGED web PROVE HistoryFacts'
    BY <1>5 DEF GiveUpApi
<1>6. ASSUME Raise /\ UNCHANGED web PROVE HistoryFacts'
    BY <1>6 DEF Raise, End, MountEffect, PlayEffect
<1>7. ASSUME Connect /\ UNCHANGED web PROVE HistoryFacts'
    BY <1>7 DEF Connect
<1>8. ASSUME MountNamesPath /\ UNCHANGED web PROVE HistoryFacts'
    BY <1>8 DEF MountNamesPath
<1>9. ASSUME MountFails /\ UNCHANGED web PROVE HistoryFacts'
    BY <1>9 DEF MountFails, End, MountEffect
<1>10. ASSUME PlayAccepted /\ UNCHANGED web PROVE HistoryFacts'
    BY <1>10 DEF PlayAccepted
<1>11. ASSUME PlayFails /\ UNCHANGED web PROVE HistoryFacts'
    BY <1>11 DEF PlayFails, End, PlayEffect
<1>12. ASSUME PollActive /\ UNCHANGED web PROVE HistoryFacts'
    BY <1>12 DEF PollActive, End, Polled, Category
<1>13. ASSUME PollInactive /\ UNCHANGED web PROVE HistoryFacts'
    BY <1>13 DEF PollInactive, Polled, Category
<1>14. ASSUME NotifyWaiting /\ UNCHANGED web PROVE HistoryFacts'
    BY <1>14 DEF NotifyWaiting
<1>15. ASSUME DeadlinePasses /\ UNCHANGED web PROVE HistoryFacts'
    BY <1>15 DEF DeadlinePasses, End
<1>16. ASSUME TestProbes PROVE HistoryFacts'
    BY <1>16 DEF TestProbes, Goes, Answers
<1>17. ASSUME ReadList PROVE HistoryFacts'
    BY <1>17 DEF ReadList, Goes
<1>18. ASSUME Eject PROVE HistoryFacts'
    BY <1>18 DEF Eject, Goes
<1>19. ASSUME ReadListAgain PROVE HistoryFacts'
    BY <1>19 DEF ReadListAgain
<1>20. ASSUME DevicesSeen PROVE HistoryFacts'
    BY <1>20 DEF DevicesSeen, Goes
<1>21. ASSUME Login PROVE HistoryFacts'
    BY <1>21 DEF Login, Goes
<1>22. ASSUME MountTested PROVE HistoryFacts'
    BY <1>22 DEF MountTested, Goes, Answers, Mounts
<1>23. ASSUME UnmountTested PROVE HistoryFacts'
    BY <1>23 DEF UnmountTested, Answers, Unmounts
<1>24. ASSUME TestRaises PROVE HistoryFacts'
    BY <1>24 DEF TestRaises, Answers, Mounts
<1>25. ASSUME NavigateFolder PROVE HistoryFacts'
    BY <1>25 DEF NavigateFolder, Mounts
<1>26. ASSUME DevicesChange PROVE HistoryFacts'
    BY <1>26 DEF DevicesChange
<1>27. ASSUME PlayerLoads /\ UNCHANGED web PROVE HistoryFacts'
    BY <1>27 DEF PlayerLoads, PlayerMoves
<1>28. ASSUME PlayerBegins /\ UNCHANGED web PROVE HistoryFacts'
    BY <1>28 DEF PlayerBegins, PlayerMoves
<1>29. ASSUME ViewerActs /\ UNCHANGED web PROVE HistoryFacts'
    BY <1>29 DEF ViewerActs, PlayerMoves
<1>30. ASSUME NEW mapping \in Mappings, StartTest(mapping) PROVE HistoryFacts'
    BY <1>30 DEF StartTest, Goes, Answers
<1>31. ASSUME UNCHANGED allVars PROVE HistoryFacts'
    BY <1>31 DEF allVars, vars
<1> QED
    BY <1>1, <1>2, <1>3, <1>4, <1>5, <1>6, <1>7, <1>8, <1>9, <1>10, <1>11, <1>12, <1>13, <1>14, <1>15, <1>16, <1>17, <1>18, <1>19, <1>20, <1>21, <1>22, <1>23, <1>24, <1>25, <1>26, <1>27, <1>28, <1>29, <1>30, <1>31
       DEF WebNext, Startup, Test, TestGoesOn, Asks, Others

\* Every step leaves an attempt for the probe that follows a notification.
LEMMA AttemptStep ==
    ASSUME IInv, [WebNext]_allVars
    PROVE  AttemptFacts'
<1> USE BoundsAssumption DEF IInv, WebTypeOK, TypeOK, AttemptFacts, bridge, player, history, vars, web, startup
<1>1. ASSUME ProbeForItem PROVE AttemptFacts'
    BY <1>1 DEF ProbeForItem, ProbeSucceeds
<1>2. ASSUME LocateIt PROVE AttemptFacts'
    BY <1>2 DEF LocateIt, Locate, LocateRaises, End
<1>3. ASSUME ProbeFails /\ UNCHANGED web PROVE AttemptFacts'
    BY <1>3 DEF ProbeFails
<1>4. ASSUME Notify /\ UNCHANGED web PROVE AttemptFacts'
    BY <1>4 DEF Notify
<1>5. ASSUME GiveUpApi /\ UNCHANGED web PROVE AttemptFacts'
    BY <1>5 DEF GiveUpApi
<1>6. ASSUME Raise /\ UNCHANGED web PROVE AttemptFacts'
    BY <1>6 DEF Raise, End, MountEffect, PlayEffect
<1>7. ASSUME Connect /\ UNCHANGED web PROVE AttemptFacts'
    BY <1>7 DEF Connect
<1>8. ASSUME MountNamesPath /\ UNCHANGED web PROVE AttemptFacts'
    BY <1>8 DEF MountNamesPath
<1>9. ASSUME MountFails /\ UNCHANGED web PROVE AttemptFacts'
    BY <1>9 DEF MountFails, End, MountEffect
<1>10. ASSUME PlayAccepted /\ UNCHANGED web PROVE AttemptFacts'
    BY <1>10 DEF PlayAccepted
<1>11. ASSUME PlayFails /\ UNCHANGED web PROVE AttemptFacts'
    BY <1>11 DEF PlayFails, End, PlayEffect
<1>12. ASSUME PollActive /\ UNCHANGED web PROVE AttemptFacts'
    BY <1>12 DEF PollActive, End, Polled, Category
<1>13. ASSUME PollInactive /\ UNCHANGED web PROVE AttemptFacts'
    BY <1>13 DEF PollInactive, Polled, Category
<1>14. ASSUME NotifyWaiting /\ UNCHANGED web PROVE AttemptFacts'
    BY <1>14 DEF NotifyWaiting
<1>15. ASSUME DeadlinePasses /\ UNCHANGED web PROVE AttemptFacts'
    BY <1>15 DEF DeadlinePasses, End
<1>16. ASSUME TestProbes PROVE AttemptFacts'
    BY <1>16 DEF TestProbes, Goes, Answers
<1>17. ASSUME ReadList PROVE AttemptFacts'
    BY <1>17 DEF ReadList, Goes
<1>18. ASSUME Eject PROVE AttemptFacts'
    BY <1>18 DEF Eject, Goes
<1>19. ASSUME ReadListAgain PROVE AttemptFacts'
    BY <1>19 DEF ReadListAgain
<1>20. ASSUME DevicesSeen PROVE AttemptFacts'
    BY <1>20 DEF DevicesSeen, Goes
<1>21. ASSUME Login PROVE AttemptFacts'
    BY <1>21 DEF Login, Goes
<1>22. ASSUME MountTested PROVE AttemptFacts'
    BY <1>22 DEF MountTested, Goes, Answers, Mounts
<1>23. ASSUME UnmountTested PROVE AttemptFacts'
    BY <1>23 DEF UnmountTested, Answers, Unmounts
<1>24. ASSUME TestRaises PROVE AttemptFacts'
    BY <1>24 DEF TestRaises, Answers, Mounts
<1>25. ASSUME NavigateFolder PROVE AttemptFacts'
    BY <1>25 DEF NavigateFolder, Mounts
<1>26. ASSUME DevicesChange PROVE AttemptFacts'
    BY <1>26 DEF DevicesChange
<1>27. ASSUME PlayerLoads /\ UNCHANGED web PROVE AttemptFacts'
    BY <1>27 DEF PlayerLoads, PlayerMoves
<1>28. ASSUME PlayerBegins /\ UNCHANGED web PROVE AttemptFacts'
    BY <1>28 DEF PlayerBegins, PlayerMoves
<1>29. ASSUME ViewerActs /\ UNCHANGED web PROVE AttemptFacts'
    BY <1>29 DEF ViewerActs, PlayerMoves
<1>30. ASSUME NEW mapping \in Mappings, StartTest(mapping) PROVE AttemptFacts'
    BY <1>30 DEF StartTest, Goes, Answers
<1>31. ASSUME UNCHANGED allVars PROVE AttemptFacts'
    BY <1>31 DEF allVars, vars
<1> QED
    BY <1>1, <1>2, <1>3, <1>4, <1>5, <1>6, <1>7, <1>8, <1>9, <1>10, <1>11, <1>12, <1>13, <1>14, <1>15, <1>16, <1>17, <1>18, <1>19, <1>20, <1>21, <1>22, <1>23, <1>24, <1>25, <1>26, <1>27, <1>28, <1>29, <1>30, <1>31
       DEF WebNext, Startup, Test, TestGoesOn, Asks, Others

\* Only the probe that lets a startup go on brings it to the location of an item.
LEMMA LocatedStep ==
    ASSUME IInv, [WebNext]_allVars
    PROVE  LocatedFacts'
<1> USE DEF LocatedFacts
<1>1. ASSUME ProbeForItem PROVE LocatedFacts'
    BY <1>1, Zenon DEF ProbeForItem
<1>2. ASSUME LocateIt PROVE LocatedFacts'
    BY <1>2 DEF LocateIt, Locate, LocateRaises, End
<1>3. ASSUME ProbeFails \/ Notify \/ GiveUpApi \/ Raise PROVE pc' # "locate"
    BY <1>3 DEF ProbeFails, Notify, GiveUpApi, Raise, End
<1>4. ASSUME Connect \/ MountNamesPath \/ MountFails \/ PlayAccepted \/ PlayFails PROVE pc' # "locate"
    BY <1>4 DEF Connect, MountNamesPath, MountFails, PlayAccepted, PlayFails, End
<1>5. ASSUME PollActive \/ PollInactive \/ NotifyWaiting \/ DeadlinePasses PROVE pc' # "locate"
    BY <1>5 DEF PollActive, PollInactive, NotifyWaiting, DeadlinePasses, End
<1>6. ASSUME UNCHANGED <<pc, located>> PROVE LocatedFacts'
    BY <1>6 DEF IInv
<1>7. ASSUME Test PROVE UNCHANGED <<pc, located>>
    BY <1>7 DEF Test, TestGoesOn, TestProbes, ReadList, Eject, ReadListAgain, DevicesSeen, Login,
           MountTested, UnmountTested, TestRaises, startup
<1>8. ASSUME Asks PROVE UNCHANGED <<pc, located>>
    BY <1>8 DEF Asks, NavigateFolder, StartTest, startup
<1>9. ASSUME DevicesChange \/ Others \/ UNCHANGED allVars PROVE UNCHANGED <<pc, located>>
    BY <1>9 DEF DevicesChange, Others, PlayerLoads, PlayerBegins, ViewerActs, PlayerMoves, bridge,
           allVars, vars, web
<1> QED
    BY <1>1, <1>2, <1>3, <1>4, <1>5, <1>6, <1>7, <1>8, <1>9 DEF WebNext, Startup

\* What the action property asks of one step.
GivenUpRightly ==
    verdict' = "unavailable" /\ verdict' # verdict => ~api' \/ lostProbe'

\* No other step gives a player up, and that one only at a closed port.
LEMMA GiveUpStep ==
    ASSUME IInv, [WebNext]_allVars
    PROVE  GivenUpRightly
<1> USE BoundsAssumption DEF IInv, WebTypeOK, TypeOK, GivenUpRightly, StartVerdicts, bridge, player, history, vars, web, startup
<1>1. ASSUME ProbeForItem PROVE GivenUpRightly
    BY <1>1 DEF ProbeForItem, ProbeSucceeds
<1>2. ASSUME LocateIt PROVE GivenUpRightly
    BY <1>2 DEF LocateIt, Locate, LocateRaises, End
<1>3. ASSUME ProbeFails /\ UNCHANGED web PROVE GivenUpRightly
    BY <1>3 DEF ProbeFails
<1>4. ASSUME Notify /\ UNCHANGED web PROVE GivenUpRightly
    BY <1>4 DEF Notify
<1>5. ASSUME GiveUpApi /\ UNCHANGED web PROVE GivenUpRightly
    BY <1>5 DEF GiveUpApi
<1>6. ASSUME Raise /\ UNCHANGED web PROVE GivenUpRightly
    BY <1>6 DEF Raise, End, MountEffect, PlayEffect
<1>7. ASSUME Connect /\ UNCHANGED web PROVE GivenUpRightly
    BY <1>7 DEF Connect
<1>8. ASSUME MountNamesPath /\ UNCHANGED web PROVE GivenUpRightly
    BY <1>8 DEF MountNamesPath
<1>9. ASSUME MountFails /\ UNCHANGED web PROVE GivenUpRightly
    BY <1>9 DEF MountFails, End, MountEffect
<1>10. ASSUME PlayAccepted /\ UNCHANGED web PROVE GivenUpRightly
    BY <1>10 DEF PlayAccepted
<1>11. ASSUME PlayFails /\ UNCHANGED web PROVE GivenUpRightly
    BY <1>11 DEF PlayFails, End, PlayEffect
<1>12. ASSUME PollActive /\ UNCHANGED web PROVE GivenUpRightly
    BY <1>12 DEF PollActive, End, Polled, Category
<1>13. ASSUME PollInactive /\ UNCHANGED web PROVE GivenUpRightly
    BY <1>13 DEF PollInactive, Polled, Category
<1>14. ASSUME NotifyWaiting /\ UNCHANGED web PROVE GivenUpRightly
    BY <1>14 DEF NotifyWaiting
<1>15. ASSUME DeadlinePasses /\ UNCHANGED web PROVE GivenUpRightly
    BY <1>15 DEF DeadlinePasses, End
<1>16. ASSUME TestProbes PROVE GivenUpRightly
    BY <1>16 DEF TestProbes, Goes, Answers
<1>17. ASSUME ReadList PROVE GivenUpRightly
    BY <1>17 DEF ReadList, Goes
<1>18. ASSUME Eject PROVE GivenUpRightly
    BY <1>18 DEF Eject, Goes
<1>19. ASSUME ReadListAgain PROVE GivenUpRightly
    BY <1>19 DEF ReadListAgain
<1>20. ASSUME DevicesSeen PROVE GivenUpRightly
    BY <1>20 DEF DevicesSeen, Goes
<1>21. ASSUME Login PROVE GivenUpRightly
    BY <1>21 DEF Login, Goes
<1>22. ASSUME MountTested PROVE GivenUpRightly
    BY <1>22 DEF MountTested, Goes, Answers, Mounts
<1>23. ASSUME UnmountTested PROVE GivenUpRightly
    BY <1>23 DEF UnmountTested, Answers, Unmounts
<1>24. ASSUME TestRaises PROVE GivenUpRightly
    BY <1>24 DEF TestRaises, Answers, Mounts
<1>25. ASSUME NavigateFolder PROVE GivenUpRightly
    BY <1>25 DEF NavigateFolder, Mounts
<1>26. ASSUME DevicesChange PROVE GivenUpRightly
    BY <1>26 DEF DevicesChange
<1>27. ASSUME PlayerLoads /\ UNCHANGED web PROVE GivenUpRightly
    BY <1>27 DEF PlayerLoads, PlayerMoves
<1>28. ASSUME PlayerBegins /\ UNCHANGED web PROVE GivenUpRightly
    BY <1>28 DEF PlayerBegins, PlayerMoves
<1>29. ASSUME ViewerActs /\ UNCHANGED web PROVE GivenUpRightly
    BY <1>29 DEF ViewerActs, PlayerMoves
<1>30. ASSUME NEW mapping \in Mappings, StartTest(mapping) PROVE GivenUpRightly
    BY <1>30 DEF StartTest, Goes, Answers
<1>31. ASSUME UNCHANGED allVars PROVE GivenUpRightly
    BY <1>31 DEF allVars, vars
<1> QED
    BY <1>1, <1>2, <1>3, <1>4, <1>5, <1>6, <1>7, <1>8, <1>9, <1>10, <1>11, <1>12, <1>13, <1>14, <1>15, <1>16, <1>17, <1>18, <1>19, <1>20, <1>21, <1>22, <1>23, <1>24, <1>25, <1>26, <1>27, <1>28, <1>29, <1>30, <1>31
       DEF WebNext, Startup, Test, TestGoesOn, Asks, Others

\* The inductive invariant holds of every run.
THEOREM Invariance == WebSpec => []IInv
<1>1. WebInit => IInv
  <2> SUFFICES ASSUME WebInit PROVE IInv
    OBVIOUS
  <2>1. /\ pc = IF MaxAttempts = 0 THEN "last_probe" ELSE "probe"
        /\ attempts = 0 /\ polls = 0 /\ verdict = "none" /\ command = "none"
        /\ plays \in {"nothing", "other"}
    BY DEF WebInit, Init
  <2>2. foreign \in BOOLEAN /\ (plays = "other" => foreign)
    BY Zenon DEF WebInit, Init
  <2>3. /\ {optical, reconciling, api, mounted, pending} \subseteq BOOLEAN
        /\ {begun, foreign, lostProbe} \subseteq BOOLEAN
    BY <2>2 DEF WebInit, Init
  <2>4. TypeOK
    BY <2>1, <2>3, BoundsAssumption DEF TypeOK
  <2>5. WebTypeOK
    BY <2>4 DEF WebInit, WebTypeOK
  <2> QED
    BY <2>1, <2>2, <2>5, BoundsAssumption DEF IInv, AttemptFacts, CommandFacts, HistoryFacts, LocatedFacts
<1>2. IInv /\ [WebNext]_allVars => IInv'
    BY TypingStep, AttemptStep, CommandStep, HistoryStep, LocatedStep DEF IInv
<1> QED
    BY <1>1, <1>2, PTL DEF WebSpec

\* The state of the startup, of the player and of the test keeps its type.
THEOREM TypeCorrect == WebSpec => []WebTypeOK
<1>1. IInv => WebTypeOK
    BY DEF IInv
<1> QED
    BY <1>1, Invariance, PTL

\* The orchestrator's recovery can rely on the verdict for what the player may
\* have been made to do (start_playback).
THEOREM VerdictFits == WebSpec => []VerdictFitsCommand
<1>1. IInv => VerdictFitsCommand
    BY DEF IInv, WebTypeOK, TypeOK, CommandFacts, VerdictFitsCommand, StartVerdicts, StartCommands
<1> QED
    BY <1>1, Invariance, PTL

\* A start that is announced has begun, or something else was playing
\* (wait_until_oppo_reports_active_playback).
THEOREM StartedBegun == WebSpec => []StartedIsTheItem
<1>1. IInv => StartedIsTheItem
    BY DEF IInv, HistoryFacts, StartedIsTheItem
<1> QED
    BY <1>1, Invariance, PTL

\* No player is given up while its API is open and can be reached
\* (ensure_control_api_available).
THEOREM ApiUsed == WebSpec => OpenApiIsUsed
<1>1. IInv /\ [WebNext]_allVars => [GivenUpRightly]_vars
    BY GiveUpStep
<1> QED
    BY <1>1, Invariance, PTL DEF WebSpec, OpenApiIsUsed, GivenUpRightly

\* Whatever the paths and the mappings are: below the path of a mapping, and where the
\* mappings do not get in each other's way, an item is played from the server and the
\* folder that the test of the mapping mounts (resolve_player_media_file_location,
\* get_mount_path).
THEOREM TestedFolderPlayed == WebSpec => []TestedFolderIsPlayed
<1>1. ASSUME IInv PROVE TestedFolderIsPlayed
  <2> SUFFICES ASSUME pc = "locate",
                      NEW i \in DOMAIN located.mappings,
                      Plain(located.path, i, located.mappings),
                      TestedLocation(located.mappings[i]) # NoLocation
               PROVE  LET tested == TestedLocation(located.mappings[i])
                          played == PlayedLocation(located.path, located.mappings)
                      IN  /\ played # NoLocation
                          /\ played.server = tested.server
                          /\ Within(played.folder, tested.folder)
    BY DEF TestedFolderIsPlayed
  <2>1. located.path \in Paths /\ located.mappings \in MappingLists
    BY <1>1 DEF IInv, LocatedFacts, Located
  <2>2. /\ located.path \in Text \ {<<>>} /\ Last(located.path) \notin Separators
        /\ located.mappings \in Seq(Mapping)
    BY <2>1, PathsAssumption
  <2> QED
    BY <2>2, PlayedWhereTested
<1> QED
    BY <1>1, Invariance, PTL

===============================================================================
