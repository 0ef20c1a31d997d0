------------------------- MODULE FileTransferProofs -------------------------
(***************************************************************************)
(* Theorems about the File Transfer server and the card it serves.         *)
(***************************************************************************)
EXTENDS FileTransfer, SequenceTheorems, FiniteSetTheorems, WellFoundedInduction, TLAPS

(***************************************************************************)
(* Paths.  A path below p is p \o s; most of what follows about trees is   *)
(* said of the rest s, because a rename or a copy changes p and keeps s.   *)
(***************************************************************************)
LEMMA ConcatType ==
  ASSUME NEW S, NEW p \in Seq(S), NEW s \in Seq(S)
  PROVE  /\ p \o s \in Seq(S)
         /\ Len(p \o s) = Len(p) + Len(s)
         /\ Len(p) \in Nat /\ Len(s) \in Nat
         /\ DOMAIN p = 1 .. Len(p) /\ DOMAIN s = 1 .. Len(s)
         /\ DOMAIN (p \o s) = 1 .. Len(p) + Len(s)
         /\ \A i \in 1 .. Len(p) : (p \o s)[i] = p[i]
         /\ \A i \in 1 .. Len(s) : (p \o s)[Len(p) + i] = s[i]
  BY ConcatProperties, LenProperties

LEMMA PrefixConcat ==
  ASSUME NEW S, NEW p \in Seq(S), NEW s \in Seq(S)
  PROVE  IsPrefix(p, p \o s)
<1>1. SubSeq(p, 1, Len(p)) = p
  BY SubSeqFull
<1>2. SubSeq(p \o s, 1, Len(p)) = p
  <2> DEFINE q == p \o s
  <2>1. \A i \in 1 .. Len(p) : q[i] \in S
    BY ConcatType, ElementOfSeq
  <2>2. /\ SubSeq(q, 1, Len(p)) \in Seq(S)
        /\ Len(SubSeq(q, 1, Len(p))) = Len(p)
        /\ \A i \in 1 .. Len(p) : SubSeq(q, 1, Len(p))[i] = q[i]
    <3> HIDE DEF q
    <3> QED BY <2>1, SubSeqProperties, LenProperties
  <2>3. \A i \in 1 .. Len(p) : q[i] = p[i]
    BY ConcatType
  <2> HIDE DEF q
  <2>4. \A i \in 1 .. Len(SubSeq(q, 1, Len(p))) : SubSeq(q, 1, Len(p))[i] = p[i]
    BY <2>2, <2>3
  <2>5. SubSeq(q, 1, Len(p)) = p
    <3> DEFINE t == SubSeq(q, 1, Len(p))
    <3> HIDE DEF t
    <3> SUFFICES t = p  BY DEF t
    <3>1. t \in Seq(S) /\ Len(t) = Len(p) /\ \A i \in 1 .. Len(t) : t[i] = p[i]
      BY <2>2, <2>4 DEF t
    <3> QED BY <3>1, SeqEqual
  <2> QED BY <2>5 DEF q
<1> QED BY <1>1, <1>2, ConcatType DEF IsPrefix

LEMMA PrefixRest ==
  ASSUME NEW S, NEW p \in Seq(S), NEW q \in Seq(S), IsPrefix(p, q)
  PROVE  \E s \in Seq(S) : q = p \o s
<1>1. Len(p) \in Nat /\ Len(q) \in Nat /\ Len(p) <= Len(q)
  BY LenProperties DEF IsPrefix
<1>2. SubSeq(q, 1, Len(p)) = p
  BY SubSeqFull DEF IsPrefix
<1>3. SubSeq(q, 1, Len(p)) \o SubSeq(q, Len(p) + 1, Len(q)) = SubSeq(q, 1, Len(q))
  <2>1. 1 \in 1 .. Len(q) + 1 /\ Len(p) \in 1 - 1 .. Len(q) /\ Len(q) \in Len(p) .. Len(q)
    BY <1>1
  <2> QED BY ONLY <2>1, q \in Seq(S), ConcatAdjacentSubSeq
<1>4. SubSeq(q, Len(p) + 1, Len(q)) \in Seq(S)
  BY <1>1, SubSeqProperties, ElementOfSeq
<1> QED BY <1>2, <1>3, <1>4, SubSeqFull

LEMMA RestOfConcat ==
  ASSUME NEW S, NEW p \in Seq(S), NEW s \in Seq(S)
  PROVE  SubSeq(p \o s, Len(p) + 1, Len(p \o s)) = s
<1> DEFINE q == p \o s
          t == SubSeq(q, Len(p) + 1, Len(q))
<1>1. q \in Seq(S) /\ Len(q) = Len(p) + Len(s) /\ Len(p) \in Nat /\ Len(s) \in Nat
  BY ConcatType
<1>2. \A i \in 1 .. Len(s) : q[Len(p) + i] = s[i]
  BY ConcatType
<1>3. t \in Seq(S) /\ Len(t) = Len(s) /\ \A i \in 1 .. Len(s) : t[i] = q[Len(p) + i]
  <2> HIDE DEF q
  <2>1. \A i \in Len(p) + 1 .. Len(q) : q[i] \in S
    BY <1>1, ElementOfSeq
  <2>2. Len(p) + 1 \in Int /\ Len(q) \in Int
    BY <1>1
  <2>3. /\ t \in Seq(S)
        /\ Len(t) = IF Len(p) + 1 <= Len(q) THEN Len(q) - (Len(p) + 1) + 1 ELSE 0
        /\ \A i \in 1 .. Len(q) - (Len(p) + 1) + 1 : t[i] = q[Len(p) + 1 + i - 1]
    BY ONLY <2>1, <2>2, SubSeqProperties
  <2> HIDE DEF t
  <2>4. Len(t) = Len(s) /\ Len(q) - (Len(p) + 1) + 1 = Len(s)
    BY <1>1, <2>3
  <2>5. \A i \in 1 .. Len(s) : Len(p) + 1 + i - 1 = Len(p) + i
    BY <1>1
  <2> QED BY <2>3, <2>4, <2>5
<1> HIDE DEF q, t
<1>4. t = s
  BY <1>2, <1>3, SeqEqual
<1> QED BY <1>4 DEF t, q

LEMMA CancelLeft ==
  ASSUME NEW S, NEW p \in Seq(S), NEW s \in Seq(S), NEW t \in Seq(S), p \o s = p \o t
  PROVE  s = t
  BY RestOfConcat

LEMMA PrefixIff ==
  ASSUME NEW S, NEW p \in Seq(S), NEW q \in Seq(S)
  PROVE  IsPrefix(p, q) <=> \E s \in Seq(S) : q = p \o s
  BY PrefixConcat, PrefixRest

LEMMA PrefixPoints ==
  ASSUME NEW S, NEW p \in Seq(S), NEW q \in Seq(S)
  PROVE  /\ Len(p) \in Nat /\ Len(q) \in Nat
         /\ IsPrefix(p, q) <=> Len(p) <= Len(q) /\ \A i \in 1 .. Len(p) : p[i] = q[i]
<1>1. Len(p) \in Nat /\ Len(q) \in Nat
  BY LenProperties
<1>2. ASSUME IsPrefix(p, q) PROVE Len(p) <= Len(q) /\ \A i \in 1 .. Len(p) : p[i] = q[i]
  <2>1. PICK s \in Seq(S) : q = p \o s
    BY <1>2, PrefixRest
  <2> QED BY <2>1, ConcatType
<1>3. ASSUME Len(p) <= Len(q), \A i \in 1 .. Len(p) : p[i] = q[i] PROVE IsPrefix(p, q)
  <2> DEFINE t == SubSeq(q, 1, Len(p))
  <2>1. \A i \in 1 .. Len(p) : q[i] \in S
    BY <1>1, <1>3, ElementOfSeq
  <2>2. 1 \in Int /\ Len(p) \in Int
    BY <1>1
  <2>3. /\ t \in Seq(S) /\ Len(t) = IF 1 <= Len(p) THEN Len(p) - 1 + 1 ELSE 0
        /\ \A i \in 1 .. Len(p) - 1 + 1 : t[i] = q[1 + i - 1]
    BY ONLY <2>1, <2>2, SubSeqProperties
  <2> HIDE DEF t
  <2>4. Len(t) = Len(p) /\ Len(p) - 1 + 1 = Len(p)
    BY <1>1, <2>3
  <2>5. \A i \in 1 .. Len(p) : 1 + i - 1 = i
    BY <1>1
  <2>6. \A i \in 1 .. Len(t) : t[i] = p[i]
    BY <1>3, <2>3, <2>4, <2>5
  <2>7. t = p
    BY <2>3, <2>4, <2>6, SeqEqual
  <2> QED BY <1>3, <2>7, SubSeqFull DEF t, IsPrefix
<1> QED BY <1>1, <1>2, <1>3

LEMMA PrefixOrder ==
  ASSUME NEW S
  PROVE  /\ \A p \in Seq(S) : IsPrefix(p, p) /\ IsPrefix(<<>>, p)
         /\ \A p, q, r \in Seq(S) : IsPrefix(p, q) /\ IsPrefix(q, r) => IsPrefix(p, r)
         /\ \A p, q \in Seq(S) : IsPrefix(p, q) /\ IsPrefix(q, p) => p = q
         /\ \A p, q, r \in Seq(S) :
              IsPrefix(p, r) /\ IsPrefix(q, r) => IsPrefix(p, q) \/ IsPrefix(q, p)
         /\ \A p, q \in Seq(S) : IsPrefix(p, q) => Len(p) <= Len(q) /\ (Len(p) = Len(q) => p = q)
<1>1. \A p, q \in Seq(S) :
         /\ Len(p) \in Nat /\ Len(q) \in Nat
         /\ IsPrefix(p, q) <=> Len(p) <= Len(q) /\ \A i \in 1 .. Len(p) : p[i] = q[i]
  BY PrefixPoints
<1>2. <<>> \in Seq(S) /\ Len(<<>>) = 0
  BY EmptySeq
<1>3. \A p, q \in Seq(S) : IsPrefix(p, q) /\ Len(p) = Len(q) => p = q
  <2> SUFFICES ASSUME NEW p \in Seq(S), NEW q \in Seq(S), IsPrefix(p, q), Len(p) = Len(q)
               PROVE  p = q
    OBVIOUS
  <2> QED BY <1>1, SeqEqual
<1>4. \A p, q \in Seq(S) : IsPrefix(p, q) /\ IsPrefix(q, p) => p = q
  BY <1>1, <1>3
<1>5. \A p \in Seq(S) : IsPrefix(p, p) /\ IsPrefix(<<>>, p)
  <2> TAKE p \in Seq(S)
  <2>1. IsPrefix(p, p)
    BY <1>1
  <2>2. 0 <= Len(p) /\ \A i \in 1 .. 0 : <<>>[i] = p[i]
    BY <1>1
  <2>3. IsPrefix(<<>>, p)
    BY ONLY <1>2, <2>2, p \in Seq(S), PrefixPoints
  <2> QED BY <2>1, <2>3
<1>6. \A p, q, r \in Seq(S) : IsPrefix(p, q) /\ IsPrefix(q, r) => IsPrefix(p, r)
  BY <1>1
<1>7. \A p, q, r \in Seq(S) :
         IsPrefix(p, r) /\ IsPrefix(q, r) => IsPrefix(p, q) \/ IsPrefix(q, p)
  <2> SUFFICES ASSUME NEW p \in Seq(S), NEW q \in Seq(S), NEW r \in Seq(S),
                      IsPrefix(p, r), IsPrefix(q, r)
               PROVE  IsPrefix(p, q) \/ IsPrefix(q, p)
    OBVIOUS
  <2>1. CASE Len(p) <= Len(q)
    BY <1>1, <2>1
  <2>2. CASE Len(q) <= Len(p)
    BY <1>1, <2>2
  <2> QED BY <1>1, <2>1, <2>2
<1> QED BY <1>1, <1>3, <1>4, <1>5, <1>6, <1>7

LEMMA FrontIs ==
  ASSUME NEW S, NEW q \in Seq(S), q # <<>>
  PROVE  /\ Front(q) \in Seq(S) /\ Last(q) \in S
         /\ Len(q) \in Nat \ {0} /\ Len(Front(q)) = Len(q) - 1
         /\ q = Append(Front(q), Last(q))
         /\ \A i \in 1 .. Len(q) - 1 : Front(q)[i] = q[i]
         /\ IsStrictPrefix(Front(q), q)
         /\ \A p \in Seq(S) : IsStrictPrefix(p, q) <=> IsPrefix(p, Front(q))
<1>1. Len(q) \in Nat \ {0}
  BY EmptySeq
<1>2. Last(q) \in S
  BY <1>1, ElementOfSeq DEF Last
<1>3. \A i \in 1 .. Len(q) - 1 : q[i] \in S
  BY <1>1, ElementOfSeq
<1>4. 1 \in Int /\ Len(q) - 1 \in Int
  BY <1>1
<1>5. /\ Front(q) \in Seq(S)
      /\ Len(Front(q)) = IF 1 <= Len(q) - 1 THEN Len(q) - 1 - 1 + 1 ELSE 0
      /\ \A i \in 1 .. Len(q) - 1 - 1 + 1 : Front(q)[i] = q[1 + i - 1]
  BY ONLY <1>3, <1>4, SubSeqProperties DEF Front
<1>6. Len(Front(q)) = Len(q) - 1 /\ Len(q) - 1 - 1 + 1 = Len(q) - 1
  <2>1. \A n \in Nat \ {0} :
           (IF 1 <= n - 1 THEN n - 1 - 1 + 1 ELSE 0) = n - 1 /\ n - 1 - 1 + 1 = n - 1
    OBVIOUS
  <2> QED BY ONLY <1>1, <1>5, <2>1
<1>7. \A i \in 1 .. Len(q) - 1 : 1 + i - 1 = i
  BY <1>1
<1>8. \A i \in 1 .. Len(q) - 1 : Front(q)[i] = q[i]
  BY <1>5, <1>6, <1>7
<1>9. q = Append(Front(q), Last(q))
  <2>1. /\ Append(Front(q), Last(q)) \in Seq(S)
        /\ Len(Append(Front(q), Last(q))) = Len(q)
        /\ \A i \in 1 .. Len(q) - 1 : Append(Front(q), Last(q))[i] = Front(q)[i]
        /\ Append(Front(q), Last(q))[Len(q)] = Last(q)
    BY <1>1, <1>2, <1>5, <1>6, AppendProperties
  <2>2. \A i \in 1 .. Len(q) : q[i] = Append(Front(q), Last(q))[i]
    BY <1>1, <1>8, <2>1 DEF Last
  <2> QED BY <2>1, <2>2, SeqEqual
<1>10. IsPrefix(Front(q), q) /\ Front(q) # q
  BY <1>1, <1>5, <1>6, <1>8, PrefixPoints
<1>11. ASSUME NEW p \in Seq(S), IsStrictPrefix(p, q) PROVE IsPrefix(p, Front(q))
  <2>1. IsPrefix(p, q) /\ p # q
    BY <1>11 DEF IsStrictPrefix
  <2>2. Len(p) \in Nat /\ Len(p) <= Len(q) /\ Len(p) # Len(q)
    BY <2>1, PrefixOrder, LenProperties
  <2>3. Len(p) <= Len(q) - 1
    BY <1>1, <2>2
  <2>4. \A i \in 1 .. Len(p) : p[i] = q[i]
    BY <2>1, PrefixPoints
  <2>5. \A i \in 1 .. Len(p) : p[i] = Front(q)[i]
    BY <1>1, <1>8, <2>2, <2>3, <2>4
  <2> QED BY <1>5, <1>6, <2>3, <2>5, PrefixPoints
<1>12. ASSUME NEW p \in Seq(S), IsPrefix(p, Front(q)) PROVE IsStrictPrefix(p, q)
  <2>1. IsPrefix(p, q)
    BY <1>5, <1>10, <1>12, PrefixOrder
  <2>2. p # q
    BY <1>5, <1>10, <1>12, PrefixOrder
  <2> QED BY <2>1, <2>2 DEF IsStrictPrefix
<1> QED BY <1>1, <1>2, <1>5, <1>6, <1>8, <1>9, <1>10, <1>11, <1>12 DEF IsStrictPrefix

LEMMA AppendIs ==
  ASSUME NEW S, NEW p \in Seq(S), NEW x \in S
  PROVE  /\ Append(p, x) \in Seq(S) /\ Append(p, x) # <<>> /\ Append(p, x) = p \o <<x>>
         /\ Front(Append(p, x)) = p /\ Last(Append(p, x)) = x
<1>1. Append(p, x) \in Seq(S) /\ Append(p, x) # <<>>
  BY AppendProperties
<1>2. /\ Append(p, x) = Append(Front(Append(p, x)), Last(Append(p, x)))
      /\ Front(Append(p, x)) \in Seq(S) /\ Last(Append(p, x)) \in S
  BY <1>1, FrontIs
<1>3. Front(Append(p, x)) = p /\ Last(Append(p, x)) = x
  BY <1>2, AppendInjective
<1> QED BY <1>1, <1>3, AppendIsConcat

LEMMA PrefixesAre ==
  ASSUME NEW S, NEW p \in Seq(S)
  PROVE  Prefixes(p) = {q \in Seq(S) : IsPrefix(q, p)}
<1>1. ASSUME NEW n \in 0 .. Len(p)
      PROVE  SubSeq(p, 1, n) \in Seq(S) /\ IsPrefix(SubSeq(p, 1, n), p)
  <2>1. Len(p) \in Nat /\ n \in Nat /\ n <= Len(p)
    BY LenProperties
  <2>2. \A i \in 1 .. n : p[i] \in S
    BY <2>1, ElementOfSeq
  <2>3. 1 \in Int /\ n \in Int
    BY <2>1
  <2>4. /\ SubSeq(p, 1, n) \in Seq(S)
        /\ Len(SubSeq(p, 1, n)) = IF 1 <= n THEN n - 1 + 1 ELSE 0
        /\ \A i \in 1 .. n - 1 + 1 : SubSeq(p, 1, n)[i] = p[1 + i - 1]
    BY ONLY <2>2, <2>3, SubSeqProperties
  <2>5. Len(SubSeq(p, 1, n)) = n /\ n - 1 + 1 = n /\ \A i \in 1 .. n : 1 + i - 1 = i
    BY <2>1, <2>4
  <2>6. \A i \in 1 .. n : SubSeq(p, 1, n)[i] = p[i]
    BY <2>4, <2>5
  <2> QED BY <2>1, <2>4, <2>5, <2>6, PrefixPoints
<1>2. ASSUME NEW q \in Seq(S), IsPrefix(q, p) PROVE q \in Prefixes(p)
  <2>1. Len(q) \in 0 .. Len(p)
    BY <1>2, PrefixPoints
  <2>2. q = SubSeq(p, 1, Len(q))
    BY <1>2, SubSeqFull DEF IsPrefix
  <2> QED BY <2>1, <2>2 DEF Prefixes
<1> QED BY <1>1, <1>2 DEF Prefixes

LEMMA RebaseIs ==
  ASSUME NEW S, NEW from \in Seq(S), NEW to \in Seq(S), NEW s \in Seq(S)
  PROVE  Rebase(from \o s, from, to) = to \o s
  BY RestOfConcat DEF Rebase

-----------------------------------------------------------------------------
(***************************************************************************)
(* Cards.  An entry's ancestors are directories, so a file has nothing     *)
(* below it, and every operation on a card leaves a card.                  *)
(***************************************************************************)
Path == Seq(Names)

LEMMA PathsAre == Paths = {p \in Path : Len(p) <= MaxDepth}
<1>1. MaxDepth \in Nat
  BY NamesAssumption
<1>2. ASSUME NEW p \in Paths PROVE p \in Path /\ Len(p) <= MaxDepth
  <2>1. PICK m \in 0 .. MaxDepth : p \in [1 .. m -> Names]
    BY DEF Paths, BoundedSeq, SeqOf
  <2>2. m \in Nat /\ m <= MaxDepth
    BY <1>1, <2>1
  <2>3. p \in Path
    BY <2>1, <2>2, SeqDef DEF Path
  <2>4. DOMAIN p = 1 .. Len(p) /\ Len(p) \in Nat /\ DOMAIN p = 1 .. m
    BY <2>1, <2>3, LenProperties DEF Path
  <2>5. Len(p) = m
    <3>1. \A k, n \in Nat : 1 .. k = 1 .. n => k = n
      OBVIOUS
    <3> QED BY ONLY <2>2, <2>4, <3>1
  <2> QED BY <2>2, <2>3, <2>5
<1>3. ASSUME NEW p \in Path, Len(p) <= MaxDepth PROVE p \in Paths
  <2>1. Len(p) \in 0 .. MaxDepth /\ p \in [1 .. Len(p) -> Names]
    BY <1>1, <1>3, LenProperties DEF Path
  <2> QED BY <2>1 DEF Paths, BoundedSeq, SeqOf
<1> QED BY <1>2, <1>3

LEMMA CardIs ==
  ASSUME NEW c, IsCard(c)
  PROVE  /\ DOMAIN c \subseteq Paths /\ DOMAIN c \subseteq Path
         /\ c = [p \in DOMAIN c |-> c[p]]
         /\ Root \in Path /\ Root \in DOMAIN c /\ c[Root].dir
         /\ \A p \in DOMAIN c :
              c[p] \in Nodes /\ c[p].dir \in BOOLEAN /\ c[p].open \in BOOLEAN
                /\ c[p].data \in Seq(Blocks) /\ (c[p].dir => c[p].data = <<>>)
         /\ \A p \in DOMAIN c \ {Root} : Front(p) \in DOMAIN c /\ c[Front(p)].dir
  BY PathsAre, EmptySeq DEF IsCard, IsDir, Has, Nodes, Root, Path

LEMMA Closed ==
  ASSUME NEW c, IsCard(c), NEW q \in DOMAIN c, NEW p \in Path, IsPrefix(p, q)
  PROVE  p \in DOMAIN c /\ (p # q => c[p].dir)
<1>1. q \in Path
  BY CardIs
<1> DEFINE Bad(r) == r \in Path /\ IsPrefix(r, q) /\ ~(r \in DOMAIN c /\ (r # q => c[r].dir))
           T == {m \in Nat : \E r \in Path : Bad(r) /\ m = Len(q) - Len(r)}
<1>2. SUFFICES ASSUME Bad(p) PROVE FALSE
  OBVIOUS
<1>3. \A r \in Path : IsPrefix(r, q) => Len(r) \in Nat /\ Len(q) \in Nat /\ Len(r) <= Len(q)
  BY <1>1, PrefixOrder, LenProperties DEF Path
<1>4. Len(q) - Len(p) \in T
  BY <1>2, <1>3
<1>5. T \subseteq Nat /\ T # {}
  BY <1>4
<1>6. PICK n \in T : \A m \in T : <<m, n>> \notin OpToRel(<, Nat)
  <2> HIDE DEF T
  <2> QED BY <1>5, NatLessThanWellFounded, WFMin
<1>7. \A m \in T : ~(m < n)
  BY <1>5, <1>6 DEF OpToRel
<1>8. PICK r \in Path : Bad(r) /\ n = Len(q) - Len(r)
  BY <1>6
<1>9. r # q
  BY <1>8
<1>10. PICK s \in Path : q = r \o s
  BY <1>1, <1>8, PrefixRest DEF Path
<1>11. s # <<>>
  BY <1>1, <1>8, <1>9, <1>10, ConcatEmptySeq DEF Path
<1>12. Len(s) \in Nat \ {0} /\ s[1] \in Names
  BY <1>11, EmptySeq, ElementOfSeq DEF Path
<1> DEFINE t == Append(r, s[1])
<1>13. t \in Path /\ t # <<>> /\ Front(t) = r /\ Len(t) = Len(r) + 1
  <2>1. r \in Seq(Names) /\ s[1] \in Names
    BY <1>8, <1>12 DEF Path
  <2>2. t \in Seq(Names) /\ t # <<>> /\ Front(t) = r
    BY ONLY <2>1, AppendIs
  <2>3. Len(t) = Len(r) + 1
    BY ONLY <2>1, AppendProperties
  <2> QED BY <2>2, <2>3 DEF Path
<1>14. IsPrefix(t, q)
  <2>1. /\ \A i \in 1 .. Len(r) : t[i] = r[i] /\ q[i] = r[i]
        /\ t[Len(r) + 1] = s[1] /\ q[Len(r) + 1] = s[1] /\ Len(r) \in Nat
        /\ Len(q) = Len(r) + Len(s)
    BY <1>10, <1>12, AppendProperties, ConcatType DEF Path
  <2>2. Len(t) <= Len(q) /\ \A i \in 1 .. Len(t) : t[i] = q[i]
    <3> HIDE DEF t
    <3> QED BY <1>12, <1>13, <2>1
  <2> HIDE DEF t
  <2> QED BY <1>1, <1>13, <2>2, PrefixPoints DEF Path
<1> HIDE DEF t
<1>15. ~Bad(t)
  <2>1. SUFFICES ASSUME Bad(t) PROVE FALSE
    OBVIOUS
  <2>2. Len(q) - Len(t) \in Nat /\ Len(q) - Len(t) < n
    BY <1>3, <1>8, <1>13, <1>14
  <2>3. Len(q) - Len(t) \in T
    BY <1>13, <2>1, <2>2
  <2> HIDE DEF T
  <2> QED BY <1>7, <2>2, <2>3
<1>16. t \in DOMAIN c \ {Root}
  BY <1>13, <1>14, <1>15 DEF Root
<1>17. r \in DOMAIN c /\ c[r].dir
  BY <1>13, <1>16, CardIs
<1> QED BY <1>8, <1>17

LEMMA PathOrder ==
  /\ Root \in Path
  /\ \A p \in Path : IsPrefix(p, p) /\ IsPrefix(Root, p)
  /\ \A p, q \in Path : IsStrictPrefix(p, q) <=> IsPrefix(p, q) /\ p # q
  /\ \A p, q, r \in Path : IsPrefix(p, q) /\ IsPrefix(q, r) => IsPrefix(p, r)
  /\ \A p, q \in Path : IsPrefix(p, q) /\ IsPrefix(q, p) => p = q
  /\ \A p, q, r \in Path : IsPrefix(p, r) /\ IsPrefix(q, r) => IsPrefix(p, q) \/ IsPrefix(q, p)
  /\ \A q \in Path \ {Root} :
       /\ Front(q) \in Path /\ IsPrefix(Front(q), q) /\ Front(q) # q
       /\ \A p \in Path : IsPrefix(p, q) /\ p # q <=> IsPrefix(p, Front(q))
  /\ \A p \in Path : Len(p) \in Nat /\ (Len(p) = 0 <=> p = Root)
  /\ \A p, q \in Path : IsPrefix(p, q) => Len(p) <= Len(q)
  /\ \A q \in Path \ {Root} : Len(Front(q)) = Len(q) - 1
<1>1. Root \in Path
  BY EmptySeq DEF Path, Root
<1>2. \A q \in Path \ {Root} :
       /\ Front(q) \in Path /\ IsPrefix(Front(q), q) /\ Front(q) # q
       /\ \A p \in Path : IsPrefix(p, q) /\ p # q <=> IsPrefix(p, Front(q))
       /\ Len(Front(q)) = Len(q) - 1
  <2> TAKE q \in Path \ {Root}
  <2>1. q \in Seq(Names) /\ q # <<>>
    BY DEF Path, Root
  <2>2. /\ Front(q) \in Seq(Names) /\ Len(Front(q)) = Len(q) - 1 /\ IsStrictPrefix(Front(q), q)
        /\ \A p \in Seq(Names) : IsStrictPrefix(p, q) <=> IsPrefix(p, Front(q))
    BY ONLY <2>1, FrontIs
  <2> QED BY <2>2 DEF Path, IsStrictPrefix
<1>3. \A p \in Path : Len(p) \in Nat /\ (Len(p) = 0 <=> p = Root)
  BY EmptySeq, LenProperties DEF Path, Root
<1> QED BY <1>1, <1>2, <1>3, PrefixOrder DEF Path, IsStrictPrefix, Root

LEMMA PathConcat ==
  /\ \A p, s \in Path : p \o s \in Path /\ IsPrefix(p, p \o s) /\ (p \o s = p <=> s = Root)
                          /\ (p \o s = Root <=> p = Root /\ s = Root)
                          /\ Len(p \o s) = Len(p) + Len(s)
  /\ \A p \in Path : p \o Root = p /\ Root \o p = p
  /\ \A p, q \in Path : IsPrefix(p, q) <=> \E s \in Path : q = p \o s
  /\ \A p, s, t \in Path : (p \o s = p \o t <=> s = t) /\ (p \o s) \o t = p \o (s \o t)
  /\ \A p, s, t \in Path : IsPrefix(p \o s, p \o t) <=> IsPrefix(s, t)
  /\ \A p \in Path, s \in Path \ {Root} : Front(p \o s) = p \o Front(s)
<1>1. \A p, s \in Path : p \o s \in Path /\ IsPrefix(p, p \o s) /\ (p \o s = p <=> s = Root)
                          /\ (p \o s = Root <=> p = Root /\ s = Root)
                          /\ Len(p \o s) = Len(p) + Len(s)
  <2> TAKE p, s \in Path
  <2>1. p \in Seq(Names) /\ s \in Seq(Names)
    BY DEF Path
  <2>2. p \o s \in Seq(Names) /\ Len(p \o s) = Len(p) + Len(s)
    BY ONLY <2>1, ConcatType
  <2>3. IsPrefix(p, p \o s)
    BY ONLY <2>1, PrefixConcat
  <2>4. (p \o s = p <=> s = <<>>) /\ (p \o s = <<>> <=> p = <<>> /\ s = <<>>)
    BY ONLY <2>1, ConcatEqualIffEmpty
  <2> QED BY <2>2, <2>3, <2>4 DEF Path, Root
<1>2. \A p \in Path : p \o Root = p /\ Root \o p = p
  BY ConcatEmptySeq DEF Path, Root
<1>3. \A p, q \in Path : IsPrefix(p, q) <=> \E s \in Path : q = p \o s
  BY PrefixIff DEF Path
<1>4. \A p, s, t \in Path : (p \o s) \o t = p \o (s \o t)
  <2> TAKE p, s, t \in Path
  <2>1. p \in Seq(Names) /\ s \in Seq(Names) /\ t \in Seq(Names)
    BY DEF Path
  <2> QED BY ONLY <2>1, ConcatAssociative
<1>7. \A p, s, t \in Path : p \o s = p \o t => s = t
  <2> TAKE p, s, t \in Path
  <2>1. p \in Seq(Names) /\ s \in Seq(Names) /\ t \in Seq(Names)
    BY DEF Path
  <2> QED BY ONLY <2>1, CancelLeft
<1>5. \A p, s, t \in Path : IsPrefix(p \o s, p \o t) <=> IsPrefix(s, t)
  <2> TAKE p, s, t \in Path
  <2>1. ASSUME IsPrefix(s, t) PROVE IsPrefix(p \o s, p \o t)
    <3>1. PICK u \in Path : t = s \o u
      BY <1>3, <2>1
    <3>2. p \o t = (p \o s) \o u
      BY <1>4, <3>1
    <3> QED BY <1>1, <1>3, <3>1, <3>2
  <2>2. ASSUME IsPrefix(p \o s, p \o t) PROVE IsPrefix(s, t)
    <3>1. p \o s \in Path /\ p \o t \in Path
      BY <1>1
    <3>2. PICK u \in Path : p \o t = (p \o s) \o u
      <4> DEFINE a == p \o s
                 b == p \o t
      <4> HIDE DEF a, b
      <4>1. a \in Path /\ b \in Path /\ IsPrefix(a, b)
        BY <2>2, <3>1 DEF a, b
      <4>2. PICK u \in Path : b = a \o u
        BY <1>3, <4>1
      <4> QED BY <4>2 DEF a, b
    <3>3. s \o u \in Path /\ (p \o s) \o u = p \o (s \o u)
      <4>1. s \o u \in Path
        BY <1>1
      <4>2. (p \o s) \o u = p \o (s \o u)
        BY <1>4, Zenon
      <4> QED BY <4>1, <4>2
    <3>4. p \o t = p \o (s \o u)
      BY <3>2, <3>3
    <3>5. t = s \o u
      <4> DEFINE v == s \o u
      <4> HIDE DEF v
      <4>1. v \in Path /\ p \o t = p \o v
        BY <3>3, <3>4 DEF v
      <4>2. t = v
        BY <1>7, <4>1, Zenon
      <4> QED BY <4>2 DEF v
    <3> QED BY <1>3, <3>5
  <2> QED BY <2>1, <2>2
<1>6. \A p \in Path, s \in Path \ {Root} : Front(p \o s) = p \o Front(s)
  <2> TAKE p \in Path, s \in Path \ {Root}
  <2>1. /\ s \in Seq(Names) /\ Front(s) \in Seq(Names) /\ Last(s) \in Names
        /\ s = Append(Front(s), Last(s))
    BY FrontIs DEF Path, Root
  <2>2. s = Front(s) \o <<Last(s)>> /\ <<Last(s)>> \in Seq(Names)
    BY <2>1, AppendIsConcat
  <2>3. p \o s = (p \o Front(s)) \o <<Last(s)>>
    <3> DEFINE f == Front(s)
               l == <<Last(s)>>
    <3> HIDE DEF f, l
    <3>1. f \in Path /\ l \in Path /\ s = f \o l
      BY <2>1, <2>2 DEF f, l, Path
    <3>2. p \o (f \o l) = (p \o f) \o l
      BY <1>4, <3>1, Zenon
    <3> QED BY <3>1, <3>2 DEF f, l
  <2>4. p \o Front(s) \in Seq(Names)
    BY <1>1, <2>1 DEF Path
  <2>5. p \o s = Append(p \o Front(s), Last(s))
    BY ONLY <2>1, <2>3, <2>4, AppendIsConcat
  <2>6. Front(Append(p \o Front(s), Last(s))) = p \o Front(s)
    BY ONLY <2>1, <2>4, AppendIs
  <2> QED BY <2>5, <2>6
<1>8. \A p, s, t \in Path : (p \o s = p \o t <=> s = t) /\ (p \o s) \o t = p \o (s \o t)
  <2> TAKE p, s, t \in Path
  <2>1. (p \o s) \o t = p \o (s \o t)
    BY <1>4, Zenon
  <2>2. p \o s = p \o t => s = t
    BY <1>7, Zenon
  <2>3. s = t => p \o s = p \o t
    OBVIOUS
  <2> QED BY <2>1, <2>2, <2>3
<1> QED BY ONLY <1>1, <1>2, <1>3, <1>5, <1>6, <1>8, Zenon

(***************************************************************************)
(* The same of Join, which the provers do not take apart.                  *)
(***************************************************************************)
Join(p, s) == p \o s

LEMMA PathJoin ==
  /\ \A p, s \in Path : Join(p, s) \in Path /\ IsPrefix(p, Join(p, s))
                          /\ (Join(p, s) = p <=> s = Root)
                          /\ (Join(p, s) = Root <=> p = Root /\ s = Root)
                          /\ Len(Join(p, s)) = Len(p) + Len(s)
  /\ \A p \in Path : Join(p, Root) = p /\ Join(Root, p) = p
  /\ \A p, q \in Path : IsPrefix(p, q) <=> \E s \in Path : q = Join(p, s)
  /\ \A p, s, t \in Path : (Join(p, s) = Join(p, t) <=> s = t)
                             /\ Join(Join(p, s), t) = Join(p, Join(s, t))
  /\ \A p, s, t \in Path : IsPrefix(Join(p, s), Join(p, t)) <=> IsPrefix(s, t)
  /\ \A p \in Path, s \in Path \ {Root} : Front(Join(p, s)) = Join(p, Front(s))
  BY PathConcat, Zenon DEF Join

LEMMA JoinRoot ==
  Root \in Path /\ \A p \in Path : Join(p, Root) = p /\ Join(Root, p) = p
  BY PathJoin, PathOrder, Zenon

LEMMA JoinRebase ==
  \A from, to, s \in Path : Rebase(Join(from, s), from, to) = Join(to, s)
  BY RebaseIs DEF Join, Path

LEMMA JoinChild ==
  \A p \in Path, x \in Names :
    /\ Child(p, x) \in Path /\ Child(p, x) # Root /\ Child(p, x) = Join(p, <<x>>)
    /\ <<x>> \in Path /\ <<x>> # Root /\ Front(Child(p, x)) = p
  <1> TAKE p \in Path, x \in Names
  <1>1. p \in Seq(Names)
    BY DEF Path
  <1>2. /\ Append(p, x) \in Seq(Names) /\ Append(p, x) # <<>> /\ Append(p, x) = p \o <<x>>
        /\ Front(Append(p, x)) = p
    BY ONLY <1>1, AppendIs, x \in Names
  <1>3. <<x>> \in Seq(Names) /\ <<x>> # <<>>
    OBVIOUS
  <1> QED BY <1>2, <1>3 DEF Path, Root, Join, Child

-----------------------------------------------------------------------------
(***************************************************************************)
(* The operations of the card.                                             *)
(***************************************************************************)
LEMMA UnderIs ==
  ASSUME NEW c, IsCard(c), NEW p \in Path
  PROVE  Under(c, p) = {q \in DOMAIN c : IsPrefix(p, q)}
         /\ (~Has(c, p) => Under(c, p) = {})
         /\ (Has(c, p) /\ ~c[p].dir => Under(c, p) = {p})
<1>1. \A q \in Under(c, p) : Has(c, p) /\ (p # q => c[p].dir)
  BY Closed DEF Under, Has
<1>2. Has(c, p) => p \in Under(c, p)
  BY PathOrder DEF Under, Has
<1> QED BY <1>1, <1>2 DEF Under

LEMMA BlockedIs ==
  ASSUME NEW c, IsCard(c), NEW p \in Path
  PROVE  Blocked(c, p) <=> \E q \in DOMAIN c : IsPrefix(q, p) /\ q # p /\ ~c[q].dir
<1>1. Under(c, Root) = DOMAIN c
  BY CardIs, PathOrder DEF Under
<1> QED BY <1>1, CardIs, PathOrder DEF Blocked

(***************************************************************************)
(* What HalStorage::mkdir adds: ancestors of p, all of them directories.   *)
(***************************************************************************)
LEMMA MkdirIs ==
  ASSUME NEW c, IsCard(c), NEW p \in Path
  PROVE  LET d == Mkdir(c, p) IN
         /\ IsCard(d)
         /\ DOMAIN c \subseteq DOMAIN d
         /\ \A q \in DOMAIN c : d[q] = c[q]
         /\ \A q \in DOMAIN d \ DOMAIN c : IsPrefix(q, p) /\ d[q] = DirNode
         /\ (MkdirOk(c, p) => Has(d, p))
         /\ (Has(c, p) => d = c)
<1> DEFINE made == {q \in Prefixes(p) : q \in Paths /\ ~Has(c, q) /\ ~Blocked(c, q)}
           d == Mkdir(c, p)
<1>1. made = {q \in Path : IsPrefix(q, p) /\ q \in Paths /\ ~Has(c, q) /\ ~Blocked(c, q)}
  BY PrefixesAre, Zenon DEF Path
<1>2. /\ DOMAIN d = DOMAIN c \cup made
      /\ d = [q \in DOMAIN d |-> d[q]]
      /\ \A q \in DOMAIN d : d[q] = IF q \in made THEN DirNode ELSE c[q]
  BY DEF Mkdir
<1> HIDE DEF d, made
<1>3. \A q \in made : q \notin DOMAIN c
  BY <1>1 DEF Has
<1>4. \A q \in DOMAIN c : d[q] = c[q]
  BY <1>2, <1>3
<1>5. \A q \in DOMAIN d \ DOMAIN c : q \in made /\ IsPrefix(q, p) /\ d[q] = DirNode
  BY <1>1, <1>2
<1>6. DirNode \in Nodes /\ DirNode.dir = TRUE /\ DirNode.data = <<>>
  BY EmptySeq DEF DirNode, Nodes
<1>7. DOMAIN d \subseteq Paths /\ \A q \in DOMAIN d : d[q] \in Nodes
  BY <1>1, <1>2, <1>3, <1>4, <1>6, CardIs
<1>8. ASSUME NEW q \in DOMAIN d \ {Root} PROVE IsDir(d, Front(q))
  <2>1. CASE q \in DOMAIN c
    BY <1>2, <1>4, <2>1, CardIs DEF IsDir, Has
  <2>2. CASE q \in made
    <3>1. /\ q \in Path /\ IsPrefix(q, p) /\ q \in Paths /\ ~Blocked(c, q)
          /\ Front(q) \in Path /\ IsPrefix(Front(q), q) /\ Front(q) # q
          /\ IsPrefix(Front(q), p) /\ Len(Front(q)) = Len(q) - 1
      BY <1>1, <2>2, PathOrder
    <3>2. Len(Front(q)) <= MaxDepth
      BY <3>1, PathsAre, PathOrder, NamesAssumption
    <3>3. Front(q) \in Paths
      BY <3>1, <3>2, PathsAre
    <3>4. CASE Front(q) \in DOMAIN c
      BY <1>2, <1>4, <3>1, <3>4, BlockedIs DEF IsDir, Has
    <3>5. CASE Front(q) \notin DOMAIN c
      <4>1. ~Blocked(c, Front(q))
        <5>1. SUFFICES ASSUME NEW r \in DOMAIN c, IsPrefix(r, Front(q)), r # Front(q), ~c[r].dir
                       PROVE  FALSE
          BY <3>1, BlockedIs
        <5>2. r \in Path /\ IsPrefix(r, q) /\ r # q
          BY <3>1, <5>1, CardIs, PathOrder
        <5> QED BY <3>1, <5>1, <5>2, BlockedIs
      <4>2. Front(q) \in made
        BY <1>1, <3>1, <3>3, <3>5, <4>1 DEF Has
      <4> QED BY <1>2, <1>6, <4>2 DEF IsDir, Has
    <3> QED BY <3>4, <3>5
  <2> QED BY <1>2, <2>1, <2>2
<1>9. IsDir(d, Root)
  BY <1>2, <1>4, CardIs DEF IsDir, Has
<1>10. \A q \in DOMAIN d : d[q].dir => d[q].data = <<>>
  BY <1>2, <1>4, <1>6, CardIs
<1>11. d \in [DOMAIN d -> Nodes]
  BY <1>2, <1>7
<1>12. IsCard(d)
  BY <1>7, <1>8, <1>9, <1>10, <1>11 DEF IsCard
<1>13. MkdirOk(c, p) => Has(d, p)
  BY <1>1, <1>2, PathOrder DEF MkdirOk, Has
<1>14. Has(c, p) => d = c
  <2>1. SUFFICES ASSUME Has(c, p) PROVE d = c
    OBVIOUS
  <2>2. made = {}
    BY <1>1, <2>1, Closed DEF Has
  <2> QED BY <1>2, <1>4, <2>2, CardIs
<1> QED BY <1>2, <1>4, <1>5, <1>12, <1>13, <1>14 DEF d

LEMMA EnsureParentsIs ==
  ASSUME NEW c, IsCard(c), NEW p \in Path \ {Root}
  PROVE  LET e == EnsureParents(c, p) IN
         /\ IsCard(e)
         /\ DOMAIN c \subseteq DOMAIN e
         /\ \A q \in DOMAIN c : e[q] = c[q]
         /\ \A q \in DOMAIN e \ DOMAIN c : IsPrefix(q, Front(p)) /\ e[q] = DirNode
         /\ \A q \in DOMAIN e \ DOMAIN c : IsPrefix(q, p) /\ q # p
         /\ (Has(e, p) <=> Has(c, p))
         /\ (Has(c, p) => e = c)
<1> DEFINE e == EnsureParents(c, p)
<1>1. Front(p) \in Path
  BY PathOrder
<1>2. /\ IsCard(e) /\ DOMAIN c \subseteq DOMAIN e /\ \A q \in DOMAIN c : e[q] = c[q]
      /\ \A q \in DOMAIN e \ DOMAIN c : IsPrefix(q, Front(p)) /\ e[q] = DirNode
      /\ (Has(c, Front(p)) => e = c)
  BY <1>1, MkdirIs DEF EnsureParents
<1> HIDE DEF e
<1>3. \A q \in DOMAIN e \ DOMAIN c : IsPrefix(q, p) /\ q # p
  BY <1>2, CardIs, PathOrder
<1>4. Has(e, p) <=> Has(c, p)
  BY <1>2, <1>3 DEF Has
<1>5. Has(c, p) => Has(c, Front(p))
  BY <1>1, PathOrder, Closed DEF Has
<1> QED BY <1>2, <1>3, <1>4, <1>5 DEF e

FileOpened(c, p) == OpenWriteOk(c, p) /\ ~IsDir(EnsureParents(c, p), p)

LEMMA OpenWriteIs ==
  ASSUME NEW c, IsCard(c), NEW p \in Path \ {Root}
  PROVE  LET d == OpenWrite(c, p) IN
         /\ IsCard(d)
         /\ DOMAIN c \subseteq DOMAIN d
         /\ \A q \in DOMAIN c : q # p => d[q] = c[q]
         /\ \A q \in DOMAIN d \ DOMAIN c : q # p => IsPrefix(q, p) /\ d[q] = DirNode
         /\ \A q \in DOMAIN d : d[q].open => q \in DOMAIN c /\ c[q].open
         /\ (FileOpened(c, p) => Has(d, p) /\ ~d[p].dir /\ d[p].data = <<>>
                                   /\ (Has(c, p) => ~c[p].dir))
         /\ (~FileOpened(c, p) /\ Has(d, p) => Has(c, p) /\ d[p] = c[p])
<1> DEFINE e == EnsureParents(c, p)
           new == [FileNode(<<>>) EXCEPT !.open = Has(e, p) /\ e[p].open]
           d == OpenWrite(c, p)
<1>1. /\ IsCard(e) /\ DOMAIN c \subseteq DOMAIN e /\ \A q \in DOMAIN c : e[q] = c[q]
      /\ \A q \in DOMAIN e \ DOMAIN c : IsPrefix(q, p) /\ q # p /\ e[q] = DirNode
      /\ (Has(e, p) <=> Has(c, p))
  BY EnsureParentsIs
<1>2. d = IF FileOpened(c, p) THEN Set(e, p, new) ELSE e
  BY DEF OpenWrite, FileOpened
<1>3. FileOpened(c, p) => p \in Paths /\ IsDir(e, Front(p)) /\ ~IsDir(e, p)
  BY DEF FileOpened, OpenWriteOk
<1> DEFINE busy == Has(e, p) /\ e[p].open
<1>4. busy \in BOOLEAN /\ new = [dir |-> FALSE, open |-> busy, data |-> <<>>]
  <2>1. busy \in BOOLEAN
    BY <1>1, CardIs DEF Has
  <2>2. new = [FileNode(<<>>) EXCEPT !.open = busy]
    OBVIOUS
  <2> HIDE DEF busy, new
  <2> QED BY <2>1, <2>2 DEF FileNode
<1>5. new \in Nodes /\ new.dir = FALSE /\ new.data = <<>> /\ new.open = busy
  BY <1>4, EmptySeq DEF Nodes
<1>6. (busy => p \in DOMAIN c /\ c[p].open) /\ ~DirNode.open
  BY <1>1 DEF Has, DirNode
<1> HIDE DEF e, d, new, busy
<1>7. CASE ~FileOpened(c, p)
  BY <1>1, <1>2, <1>6, <1>7 DEF Has, d
<1>8. CASE FileOpened(c, p)
  <2>1. d = Set(e, p, new)
    BY <1>2, <1>8
  <2>2. /\ DOMAIN d = DOMAIN e \cup {p} /\ d = [q \in DOMAIN d |-> d[q]]
        /\ \A q \in DOMAIN d : d[q] = IF q = p THEN new ELSE e[q]
    BY <2>1 DEF Set
  <2>3. /\ p \in Paths /\ IsDir(e, Front(p)) /\ ~IsDir(e, p)
    BY <1>3, <1>8
  <2>4. /\ DOMAIN d \subseteq Paths /\ \A q \in DOMAIN d : d[q] \in Nodes
        /\ \A q \in DOMAIN d : d[q].dir => d[q].data = <<>>
    BY <1>1, <1>5, <2>2, <2>3, CardIs
  <2>5. ASSUME NEW q \in DOMAIN d \ {Root} PROVE IsDir(d, Front(q))
    <3>1. Front(q) \in DOMAIN e /\ e[Front(q)].dir
      BY <1>1, <2>2, <2>3, CardIs DEF IsDir, Has
    <3>2. Front(q) # p
      BY <2>3, <3>1 DEF IsDir, Has
    <3> QED BY <2>2, <3>1, <3>2 DEF IsDir, Has
  <2>6. IsDir(d, Root)
    BY <1>1, <2>2, CardIs DEF IsDir, Has
  <2>7. d \in [DOMAIN d -> Nodes]
    BY <2>2, <2>4
  <2>8. IsCard(d)
    BY <2>4, <2>5, <2>6, <2>7 DEF IsCard
  <2>9. Has(c, p) => ~c[p].dir
    BY <1>1, <2>3 DEF IsDir, Has
  <2>10. \A q \in DOMAIN d : d[q].open => q \in DOMAIN c /\ c[q].open
    BY <1>1, <1>5, <1>6, <2>2
  <2>11. DOMAIN c \subseteq DOMAIN d /\ \A q \in DOMAIN c : q # p => d[q] = c[q]
    BY <1>1, <2>2
  <2>12. \A q \in DOMAIN d \ DOMAIN c : q # p => IsPrefix(q, p) /\ d[q] = DirNode
    BY <1>1, <2>2
  <2>13. Has(d, p) /\ ~d[p].dir /\ d[p].data = <<>>
    BY <1>5, <2>2 DEF Has
  <2> QED BY <1>8, <2>8, <2>9, <2>10, <2>11, <2>12, <2>13 DEF d
<1> QED BY <1>7, <1>8

LEMMA WriteToIs ==
  ASSUME NEW c, IsCard(c), NEW p \in DOMAIN c, ~c[p].dir, NEW b \in Seq(Blocks)
  PROVE  LET d == WriteTo(c, p, b) IN
         /\ IsCard(d)
         /\ DOMAIN d = DOMAIN c
         /\ \A q \in DOMAIN c : q # p => d[q] = c[q]
         /\ d[p].dir = c[p].dir /\ d[p].open = c[p].open /\ d[p].data = c[p].data \o b
<1> DEFINE new == [c[p] EXCEPT !.data = @ \o b]
           d == WriteTo(c, p, b)
<1>1. c[p] \in Nodes
  BY CardIs
<1>2. new \in Nodes /\ new.dir = c[p].dir /\ new.open = c[p].open /\ new.data = c[p].data \o b
  <2>1. c[p].data \o b \in Seq(Blocks)
    BY CardIs, ConcatProperties
  <2> QED BY <1>1, <2>1 DEF Nodes
<1>3. d = [c EXCEPT ![p] = new]
  BY DEF WriteTo
<1> HIDE DEF new, d
<1>4. /\ DOMAIN d = DOMAIN c /\ d = [q \in DOMAIN d |-> d[q]]
      /\ \A q \in DOMAIN c : d[q] = IF q = p THEN new ELSE c[q]
  BY <1>3, CardIs
<1>5. \A q \in DOMAIN d : d[q] \in Nodes /\ d[q].dir = c[q].dir
  BY <1>2, <1>4, CardIs
<1>6. \A q \in DOMAIN d : d[q].dir => d[q].data = <<>>
  <2>1. ~d[p].dir
    BY <1>5, <1>4
  <2>2. \A q \in DOMAIN c : c[q].dir => c[q].data = <<>>
    BY CardIs
  <2> QED BY <1>4, <2>1, <2>2
<1>7. d \in [DOMAIN d -> Nodes] /\ DOMAIN d \subseteq Paths
  BY <1>4, <1>5, CardIs
<1>8. IsDir(d, Root) /\ \A q \in DOMAIN d \ {Root} : IsDir(d, Front(q))
  BY <1>4, <1>5, CardIs DEF IsDir, Has
<1>9. IsCard(d)
  BY <1>6, <1>7, <1>8 DEF IsCard
<1>10. d[p].dir = c[p].dir /\ d[p].open = c[p].open /\ d[p].data = c[p].data \o b
  BY <1>2, <1>4, Zenon
<1>11. DOMAIN d = DOMAIN c /\ \A q \in DOMAIN c : q # p => d[q] = c[q]
  BY <1>4
<1> QED BY <1>9, <1>10, <1>11 DEF d

LEMMA WithoutIs ==
  ASSUME NEW c, IsCard(c), NEW gone, Root \notin gone,
         \A q \in gone, r \in DOMAIN c : IsPrefix(q, r) => r \in gone
  PROVE  LET d == Without(c, gone) IN
         IsCard(d) /\ DOMAIN d = DOMAIN c \ gone /\ \A q \in DOMAIN d : d[q] = c[q]
<1> DEFINE d == Without(c, gone)
<1>1. /\ DOMAIN d = DOMAIN c \ gone /\ \A q \in DOMAIN d : d[q] = c[q]
      /\ d = [q \in DOMAIN d |-> d[q]]
  BY DEF Without
<1> HIDE DEF d
<1>2. DOMAIN d \subseteq Paths /\ \A q \in DOMAIN d : d[q] \in Nodes
  BY <1>1, CardIs
<1>3. d \in [DOMAIN d -> Nodes]
  BY <1>1, <1>2
<1>4. ASSUME NEW q \in DOMAIN d \ {Root} PROVE IsDir(d, Front(q))
  <2>1. q \in DOMAIN c \ {Root} /\ q \in Path /\ q \notin gone
    BY <1>1, CardIs
  <2>2. Front(q) \in DOMAIN c /\ c[Front(q)].dir /\ IsPrefix(Front(q), q)
    BY <2>1, CardIs, PathOrder
  <2>3. Front(q) \notin gone
    BY <2>1, <2>2
  <2> QED BY <1>1, <2>2, <2>3 DEF IsDir, Has
<1>5. IsDir(d, Root) /\ \A q \in DOMAIN d : d[q].dir => d[q].data = <<>>
  BY <1>1, CardIs DEF IsDir, Has
<1>6. IsCard(d)
  BY <1>2, <1>3, <1>4, <1>5 DEF IsCard
<1> QED BY <1>1, <1>6 DEF d

LEMMA UnlinkIs ==
  ASSUME NEW c, IsCard(c), NEW p \in Path
  PROVE  LET d == Unlink(c, p) IN
         /\ IsCard(d)
         /\ DOMAIN d = (IF UnlinkOk(c, p) THEN DOMAIN c \ {p} ELSE DOMAIN c)
         /\ \A q \in DOMAIN d : d[q] = c[q]
<1>1. CASE UnlinkOk(c, p)
  <2>1. p # Root /\ \A q \in DOMAIN c : IsPrefix(p, q) => q \in {p}
    BY <1>1 DEF UnlinkOk, Under
  <2>2. \A q \in {p}, r \in DOMAIN c : IsPrefix(q, r) => r \in {p}
    BY <2>1
  <2>3. Root \notin {p}
    BY <2>1
  <2> DEFINE d == Without(c, {p})
  <2>4. IsCard(d) /\ DOMAIN d = DOMAIN c \ {p} /\ \A q \in DOMAIN d : d[q] = c[q]
    <3> HIDE DEF d
    <3> QED BY <2>2, <2>3, WithoutIs DEF d
  <2> QED BY <1>1, <2>4 DEF Unlink
<1>2. CASE ~UnlinkOk(c, p)
  BY <1>2 DEF Unlink
<1> QED BY <1>1, <1>2

LEMMA RemoveTreeIs ==
  ASSUME NEW c, IsCard(c), NEW p \in Path \ {Root}
  PROVE  LET d == RemoveTree(c, p) IN
         /\ IsCard(d)
         /\ DOMAIN d \subseteq DOMAIN c /\ \A q \in DOMAIN d : d[q] = c[q]
         /\ \A q \in DOMAIN c : ~IsPrefix(p, q) => q \in DOMAIN d
         /\ \A q \in DOMAIN c : \A i \in Len(p) + 1 .. Len(q) : q[i] \in Dotted => q \in DOMAIN d
         /\ (RemoveTreeOk(c, p) \/ ~Has(c, p) => Under(d, p) = {})
<1> DEFINE gone == Under(c, p) \ Survivors(c, p)
           d == RemoveTree(c, p)
<1>1. \A q \in Under(c, p) : q \in DOMAIN c /\ q \in Path /\ IsPrefix(p, q)
  BY CardIs, UnderIs
<1>2. \A q \in DOMAIN c : IsPrefix(p, q) => q \in Under(c, p)
  BY UnderIs
<1>3. \A q \in DOMAIN c : \A i \in Len(p) + 1 .. Len(q) :
         q[i] \in Dotted /\ IsPrefix(p, q) => q \in Survivors(c, p)
  <2> SUFFICES ASSUME NEW q \in DOMAIN c, NEW i \in Len(p) + 1 .. Len(q), q[i] \in Dotted,
                      IsPrefix(p, q)
               PROVE  q \in Survivors(c, p)
    OBVIOUS
  <2>1. q \in Under(c, p) /\ q \in Under(c, q)
    BY UnderIs, CardIs, PathOrder
  <2> QED BY <2>1 DEF Survivors
<1>4. CASE IsDir(c, p)
  <2>1. d = Without(c, gone)
    BY <1>4 DEF RemoveTree
  <2>2. Root \notin gone
    BY <1>1, PathOrder
  <2>3. ASSUME NEW q \in gone, NEW r \in DOMAIN c, IsPrefix(q, r) PROVE r \in gone
    <3>1. /\ q \in DOMAIN c /\ q \in Path /\ IsPrefix(p, q) /\ q \notin Survivors(c, p)
          /\ r \in Path
      BY <1>1, <2>3, CardIs
    <3>2. r \in Under(c, p)
      BY <1>2, <2>3, <3>1, PathOrder
    <3>3. SUFFICES ASSUME r \in Survivors(c, p) PROVE FALSE
      BY <3>2
    <3>4. PICK t \in Under(c, r) : \E i \in Len(p) + 1 .. Len(t) : t[i] \in Dotted
      BY <3>3 DEF Survivors
    <3>5. t \in DOMAIN c /\ t \in Path /\ IsPrefix(r, t)
      BY <3>1, <3>4, UnderIs, CardIs
    <3>6. t \in Under(c, q)
      BY <2>3, <3>1, <3>5, UnderIs, PathOrder
    <3> QED BY <1>2, <3>1, <3>4, <3>6 DEF Survivors
  <2> HIDE DEF d, gone
  <2>4. IsCard(d) /\ DOMAIN d = DOMAIN c \ gone /\ \A q \in DOMAIN d : d[q] = c[q]
    BY <2>1, <2>2, <2>3, WithoutIs
  <2>5. \A q \in DOMAIN c : ~IsPrefix(p, q) => q \in DOMAIN d
    BY <1>1, <2>4 DEF gone
  <2>6. \A q \in DOMAIN c : \A i \in Len(p) + 1 .. Len(q) : q[i] \in Dotted => q \in DOMAIN d
    BY <1>1, <1>3, <2>4 DEF gone
  <2>7. ASSUME RemoveTreeOk(c, p) PROVE Under(d, p) = {}
    <3>1. gone = Under(c, p)
      BY <2>7 DEF RemoveTreeOk, gone
    <3> QED BY <1>2, <2>4, <3>1 DEF Under
  <2>8. Has(c, p)
    BY <1>4 DEF IsDir
  <2> QED BY <2>4, <2>5, <2>6, <2>7, <2>8 DEF d
<1>5. CASE ~IsDir(c, p)
  <2>1. d = Unlink(c, p)
    BY <1>5 DEF RemoveTree
  <2> HIDE DEF d
  <2>2. /\ IsCard(d) /\ \A q \in DOMAIN d : d[q] = c[q]
        /\ DOMAIN d = (IF UnlinkOk(c, p) THEN DOMAIN c \ {p} ELSE DOMAIN c)
    BY <2>1, UnlinkIs
  <2>3. \A q \in Under(c, p) : q = p
    BY <1>5, UnderIs DEF IsDir
  <2>4. DOMAIN d \subseteq DOMAIN c /\ \A q \in DOMAIN c : q # p => q \in DOMAIN d
    BY <2>2
  <2>5. \A q \in DOMAIN c : ~IsPrefix(p, q) => q \in DOMAIN d
    BY <2>4, PathOrder
  <2>6. \A q \in DOMAIN c : \A i \in Len(p) + 1 .. Len(q) : q[i] \in Dotted => q \in DOMAIN d
    <3>1. Len(p) \in Nat
      BY PathOrder
    <3>2. \A i \in Len(p) + 1 .. Len(p) : FALSE
      BY <3>1
    <3> QED BY <2>4, <3>2
  <2>7. Under(d, p) \subseteq Under(c, p)
    BY <2>4 DEF Under
  <2>8. ASSUME Has(c, p) PROVE Under(d, p) = {}
    <3>1. Under(c, p) = {p}
      BY <1>5, <2>8, UnderIs DEF IsDir
    <3>2. UnlinkOk(c, p)
      BY <3>1 DEF UnlinkOk
    <3> QED BY <2>2, <2>7, <3>1, <3>2 DEF Under
  <2>9. ~Has(c, p) => Under(d, p) = {}
    BY <2>7, UnderIs
  <2> QED BY <2>2, <2>4, <2>5, <2>6, <2>8, <2>9 DEF d
<1> QED BY <1>4, <1>5

(***************************************************************************)
(* A rename moves everything below the old path to below the new one, and  *)
(* where nothing was below the new one but an empty directory or a file.   *)
(***************************************************************************)
Fits(c, from, to) == \A q \in Under(c, from) : Len(to) + Len(q) - Len(from) <= MaxDepth

Renamed(c, from, to, d) ==
  /\ DOMAIN d \subseteq Path
  /\ Has(c, from) /\ (from = to \/ (~IsPrefix(from, to) /\ ~IsPrefix(to, from)))
  /\ \A s \in Path : Has(d, Join(to, s)) <=> Has(c, Join(from, s))
  /\ \A s \in Path : Has(c, Join(from, s)) => d[Join(to, s)] = c[Join(from, s)]
  /\ \A q \in DOMAIN d : ~IsPrefix(to, q) =>
       q \in DOMAIN EnsureParents(c, to) /\ ~IsPrefix(from, q)
         /\ d[q] = EnsureParents(c, to)[q]
  /\ \A q \in DOMAIN EnsureParents(c, to) :
       ~IsPrefix(from, q) /\ ~IsPrefix(to, q) => q \in DOMAIN d

LEMMA RenameShape ==
  ASSUME NEW c, IsCard(c), NEW from \in Path \ {Root}, NEW to \in Path \ {Root},
         RenameOk(c, from, to)
  PROVE  LET d == Rename(c, from, to) IN
         Renamed(c, from, to, d) /\ d = [q \in DOMAIN d |-> d[q]] /\ IsDir(d, Front(to))
<1> DEFINE e == EnsureParents(c, to)
           moved == Under(e, from)
           stays == DOMAIN e \ (moved \cup {to})
           arrives == {Rebase(q, from, to) : q \in moved}
           d == Rename(c, from, to)
<1>1. /\ IsCard(e) /\ DOMAIN c \subseteq DOMAIN e /\ \A q \in DOMAIN c : e[q] = c[q]
      /\ \A q \in DOMAIN e \ DOMAIN c : IsPrefix(q, to) /\ q # to /\ e[q] = DirNode
      /\ (Has(e, to) <=> Has(c, to)) /\ (Has(c, to) => e = c)
  BY EnsureParentsIs
<1>2. /\ Has(e, from) /\ IsDir(e, Front(to))
      /\ \/ from = to
         \/ /\ ~IsStrictPrefix(from, to)
            /\ ~Has(e, to) \/ Under(e, to) = {to}
  BY DEF RenameOk
<1>3. d = [q \in stays \cup arrives |->
             IF q \in arrives THEN e[Rebase(q, to, from)] ELSE e[q]]
  BY DEF Rename
<1>4. \A q \in moved : q \in DOMAIN e /\ q \in Path /\ IsPrefix(from, q)
  BY <1>1, UnderIs, CardIs
<1>5. \A q \in DOMAIN e : IsPrefix(from, q) => q \in moved
  BY <1>1, UnderIs
<1>6. \A q \in DOMAIN e : q \in stays <=> ~IsPrefix(from, q) /\ q # to
  BY <1>4, <1>5
<1>7. /\ DOMAIN d = stays \cup arrives /\ d = [q \in DOMAIN d |-> d[q]]
      /\ \A q \in DOMAIN d : d[q] = IF q \in arrives THEN e[Rebase(q, to, from)] ELSE e[q]
  BY <1>3
<1> HIDE DEF e, moved, stays, d
<1>8. ASSUME NEW s \in Path PROVE Join(to, s) \in arrives <=> Has(e, Join(from, s))
  <2>1. ASSUME Has(e, Join(from, s)) PROVE Join(to, s) \in arrives
    <3>1. Join(from, s) \in moved
      BY <1>5, <2>1, PathJoin DEF Has
    <3>2. Rebase(Join(from, s), from, to) = Join(to, s)
      BY JoinRebase
    <3> QED BY <3>1, <3>2
  <2>2. ASSUME Join(to, s) \in arrives PROVE Has(e, Join(from, s))
    <3>1. PICK q \in moved : Join(to, s) = Rebase(q, from, to)
      BY <2>2
    <3>2. PICK t \in Path : q = Join(from, t)
      BY <1>4, PathJoin
    <3>3. Join(to, s) = Join(to, t)
      BY <3>1, <3>2, JoinRebase
    <3>4. s = t
      BY <3>3, PathJoin
    <3> QED BY <1>4, <3>2, <3>4 DEF Has
  <2> QED BY <2>1, <2>2
<1>9. \A q \in arrives : \E s \in Path : q = Join(to, s)
  <2> SUFFICES ASSUME NEW q \in moved PROVE \E s \in Path : Rebase(q, from, to) = Join(to, s)
    OBVIOUS
  <2>1. PICK t \in Path : q = Join(from, t)
    BY <1>4, PathJoin
  <2> QED BY <2>1, JoinRebase
<1>10. \A s \in Path : Join(to, s) \in arrives => d[Join(to, s)] = e[Join(from, s)]
  BY <1>7, JoinRebase
<1>13. DOMAIN d \subseteq Path
  <2>1. \A q \in arrives : q \in Path
    <3> TAKE q \in arrives
    <3>1. PICK s \in Path : q = Join(to, s)
      BY <1>9
    <3> QED BY <3>1, PathJoin
  <2>2. DOMAIN e \subseteq Path
    BY <1>1, CardIs
  <2>3. \A q \in stays : q \in DOMAIN e
    BY DEF stays
  <2> QED BY <1>7, <2>1, <2>2, <2>3
<1> HIDE DEF arrives
<1>11. CASE from = to
  <2>1. e = c /\ Has(c, from)
    BY <1>1, <1>2, <1>11
  <2>2. \A s \in Path : Has(d, Join(to, s)) <=> Has(c, Join(from, s))
    <3> TAKE s \in Path
    <3>1. IsPrefix(to, Join(to, s))
      BY PathJoin
    <3>2. Join(to, s) \notin stays
      BY <1>6, <1>11, <3>1 DEF stays
    <3>3. Join(to, s) \in DOMAIN d <=> Join(to, s) \in arrives
      BY <1>7, <3>2
    <3> QED BY <1>8, <2>1, <3>3 DEF Has
  <2>3. \A s \in Path : Has(c, Join(from, s)) => d[Join(to, s)] = c[Join(from, s)]
    BY <1>8, <1>10, <2>1
  <2>4. \A q \in DOMAIN d : ~IsPrefix(to, q) => q \in DOMAIN c /\ ~IsPrefix(from, q) /\ d[q] = c[q]
    <3>1. \A q \in arrives : IsPrefix(to, q)
      BY <1>9, PathJoin
    <3>2. stays \subseteq DOMAIN e
      BY DEF stays
    <3> QED BY <1>7, <1>11, <2>1, <3>1, <3>2
  <2>5. \A q \in DOMAIN c : ~IsPrefix(from, q) /\ ~IsPrefix(to, q) => q \in DOMAIN d
    BY <1>6, <1>7, <2>1, PathOrder
  <2>6. IsDir(d, Front(to))
    <3>1. Front(to) \in DOMAIN c /\ c[Front(to)].dir /\ Front(to) \in Path
          /\ ~IsPrefix(to, Front(to))
      BY <1>2, <2>1, PathOrder DEF IsDir, Has
    <3>2. Front(to) \in DOMAIN d
      BY <1>11, <2>5, <3>1
    <3> QED BY <2>4, <3>1, <3>2 DEF IsDir, Has
  <2> QED BY <1>7, <1>11, <1>13, <2>1, <2>2, <2>3, <2>4, <2>5, <2>6 DEF Renamed, e, d
<1>12. CASE from # to
  <2>1. ~IsPrefix(from, to) /\ (~Has(e, to) \/ Under(e, to) = {to})
    BY <1>2, <1>12 DEF IsStrictPrefix
  <2>2. \A q \in DOMAIN e : IsPrefix(to, q) => q = to
    BY <1>1, <2>1, UnderIs
  <2>3. ~IsPrefix(to, from) /\ from \in DOMAIN e
    BY <1>2, <1>12, <2>2 DEF Has
  <2>4. \A q \in DOMAIN e : IsPrefix(from, q) => q \in DOMAIN c
    BY <1>1, <2>1, CardIs, PathOrder
  <2>5. Has(c, from)
    BY <2>3, <2>4, PathOrder DEF Has
  <2>6. \A s \in Path : Has(e, Join(from, s)) <=> Has(c, Join(from, s))
    BY <1>1, <2>4, PathJoin DEF Has
  <2>7. \A q \in stays : ~IsPrefix(to, q) /\ q \in DOMAIN e
    BY <1>6, <2>2 DEF stays
  <2>8. \A q \in arrives : IsPrefix(to, q)
    BY <1>9, PathJoin
  <2>9. \A s \in Path : Has(d, Join(to, s)) <=> Has(c, Join(from, s))
    <3> TAKE s \in Path
    <3>1. Join(to, s) \notin stays
      BY <2>7, PathJoin
    <3>2. Join(to, s) \in DOMAIN d <=> Join(to, s) \in arrives
      BY <1>7, <3>1
    <3> QED BY <1>8, <2>6, <3>2 DEF Has
  <2>10. \A s \in Path : Has(c, Join(from, s)) => d[Join(to, s)] = c[Join(from, s)]
    <3> SUFFICES ASSUME NEW s \in Path, Has(c, Join(from, s))
                 PROVE  d[Join(to, s)] = c[Join(from, s)]
      OBVIOUS
    <3>1. Join(to, s) \in arrives
      BY <1>8, <2>6
    <3>2. d[Join(to, s)] = e[Join(from, s)]
      BY <1>10, <3>1
    <3> QED BY <1>1, <3>2 DEF Has
  <2>11. \A q \in DOMAIN d : ~IsPrefix(to, q) =>
            q \in DOMAIN e /\ ~IsPrefix(from, q) /\ d[q] = e[q]
    BY <1>6, <1>7, <2>7, <2>8
  <2>12. \A q \in DOMAIN e : ~IsPrefix(from, q) /\ ~IsPrefix(to, q) => q \in DOMAIN d
    BY <1>6, <1>7, PathOrder
  <2>13. IsDir(d, Front(to))
    <3>1. Front(to) \in DOMAIN e /\ e[Front(to)].dir /\ Front(to) \in Path
          /\ ~IsPrefix(to, Front(to)) /\ ~IsPrefix(from, Front(to))
      BY <1>2, <2>1, PathOrder DEF IsDir, Has
    <3>2. Front(to) \in DOMAIN d
      BY <2>12, <3>1
    <3> QED BY <2>11, <3>1, <3>2 DEF IsDir, Has
  <2> QED BY <1>7, <1>13, <2>1, <2>3, <2>5, <2>9, <2>10, <2>11, <2>12, <2>13 DEF Renamed, e, d
<1> QED BY <1>11, <1>12

LEMMA RenamedIsCard ==
  ASSUME NEW c, IsCard(c), NEW from \in Path \ {Root}, NEW to \in Path \ {Root}, NEW d,
         Renamed(c, from, to, d), d = [q \in DOMAIN d |-> d[q]], IsDir(d, Front(to)),
         Fits(c, from, to)
  PROVE  IsCard(d)
<1> DEFINE e == EnsureParents(c, to)
<1>1. /\ IsCard(e) /\ DOMAIN c \subseteq DOMAIN e
  BY EnsureParentsIs
<1> HIDE DEF e
<1>2. /\ \A s \in Path : Has(d, Join(to, s)) <=> Has(c, Join(from, s))
      /\ \A s \in Path : Has(c, Join(from, s)) => d[Join(to, s)] = c[Join(from, s)]
      /\ \A q \in DOMAIN d : ~IsPrefix(to, q) =>
           q \in DOMAIN e /\ ~IsPrefix(from, q) /\ d[q] = e[q]
      /\ \A q \in DOMAIN e : ~IsPrefix(from, q) /\ ~IsPrefix(to, q) => q \in DOMAIN d
  BY DEF Renamed, e
<1>3. ASSUME NEW q \in DOMAIN d, NEW s \in Path, q = Join(to, s)
      PROVE  /\ q \in Paths /\ d[q] \in Nodes /\ (d[q].dir => d[q].data = <<>>)
             /\ q # Root => IsDir(d, Front(q))
  <2>1. Join(from, s) \in DOMAIN c /\ d[q] = c[Join(from, s)]
    BY <1>2, <1>3 DEF Has
  <2>2. d[q] \in Nodes /\ (d[q].dir => d[q].data = <<>>)
    BY <2>1, CardIs
  <2>3. q \in Paths
    <3>1. Join(from, s) \in Under(c, from)
      BY <2>1, UnderIs, PathJoin
    <3>2. Len(to) + Len(Join(from, s)) - Len(from) <= MaxDepth
      BY <3>1 DEF Fits
    <3>3. /\ Len(to) \in Nat /\ Len(from) \in Nat /\ Len(s) \in Nat
          /\ Len(Join(from, s)) = Len(from) + Len(s) /\ Len(q) = Len(to) + Len(s)
      BY <1>3, PathJoin, PathOrder
    <3>4. Len(q) <= MaxDepth /\ q \in Path
      BY <1>3, <3>2, <3>3, PathJoin, NamesAssumption
    <3> QED BY <3>4, PathsAre
  <2>4. CASE s = Root
    BY <1>3, <2>2, <2>3, <2>4, PathJoin
  <2>5. CASE s # Root
    <3>1. /\ Front(s) \in Path /\ Front(q) = Join(to, Front(s))
          /\ Front(Join(from, s)) = Join(from, Front(s)) /\ Join(from, s) # Root
      BY <1>3, <2>5, PathJoin, PathOrder
    <3>2. Join(from, Front(s)) \in DOMAIN c /\ c[Join(from, Front(s))].dir
      BY <2>1, <3>1, CardIs
    <3>3. IsDir(d, Front(q))
      BY <1>2, <3>1, <3>2 DEF IsDir, Has
    <3> QED BY <2>2, <2>3, <3>3
  <2> QED BY <2>4, <2>5
<1>4. ASSUME NEW q \in DOMAIN d, ~IsPrefix(to, q)
      PROVE  /\ q \in Paths /\ d[q] \in Nodes /\ (d[q].dir => d[q].data = <<>>)
             /\ q # Root => IsDir(d, Front(q))
  <2>1. q \in DOMAIN e /\ ~IsPrefix(from, q) /\ d[q] = e[q]
    BY <1>2, <1>4
  <2>2. q \in Paths /\ q \in Path /\ d[q] \in Nodes /\ (d[q].dir => d[q].data = <<>>)
    BY <1>1, <2>1, CardIs
  <2>3. ASSUME q # Root PROVE IsDir(d, Front(q))
    <3>1. Front(q) \in DOMAIN e /\ e[Front(q)].dir /\ Front(q) \in Path /\ IsPrefix(Front(q), q)
      BY <1>1, <2>1, <2>2, <2>3, CardIs, PathOrder
    <3>2. ~IsPrefix(from, Front(q)) /\ ~IsPrefix(to, Front(q))
      BY <1>4, <2>1, <2>2, <3>1, PathOrder
    <3> QED BY <1>2, <3>1, <3>2 DEF IsDir, Has
  <2> QED BY <2>2, <2>3
<1>5. \A q \in DOMAIN d : /\ q \in Paths /\ d[q] \in Nodes /\ (d[q].dir => d[q].data = <<>>)
                          /\ q # Root => IsDir(d, Front(q))
  <2> TAKE q \in DOMAIN d
  <2>1. CASE IsPrefix(to, q)
    <3>1. PICK s \in Path : q = Join(to, s)
      BY <2>1, PathJoin DEF Renamed
    <3> QED BY <1>3, <3>1
  <2> QED BY <1>4, <2>1
<1>6. IsDir(d, Root)
  <2>1. Root \in DOMAIN e /\ e[Root].dir /\ ~IsPrefix(from, Root) /\ ~IsPrefix(to, Root)
    BY <1>1, CardIs, PathOrder
  <2> QED BY <1>2, <2>1 DEF IsDir, Has
<1>7. DOMAIN d \subseteq Paths /\ \A q \in DOMAIN d : d[q] \in Nodes
  BY <1>5
<1>8. d \in [DOMAIN d -> Nodes]
  <2>1. d = [q \in DOMAIN d |-> d[q]]
    OBVIOUS
  <2> QED BY ONLY <1>7, <2>1
<1>9. \A q \in DOMAIN d \ {Root} : IsDir(d, Front(q))
  BY <1>5
<1>10. \A q \in DOMAIN d : d[q].dir => d[q].data = <<>>
  BY <1>5
<1> QED BY ONLY <1>6, <1>7, <1>8, <1>9, <1>10 DEF IsCard

(***************************************************************************)
(* What is open stays open, and nothing else becomes so.                   *)
(***************************************************************************)
NoneOpen(c) == \A q \in DOMAIN c : ~c[q].open
OneOpen(c) == \A q, r \in DOMAIN c : c[q].open /\ c[r].open => q = r

LEMMA StaysOpen ==
  ASSUME NEW c, NEW d, \A q \in DOMAIN d : d[q].open => q \in DOMAIN c /\ c[q].open
  PROVE  (NoneOpen(c) => NoneOpen(d)) /\ (OneOpen(c) => OneOpen(d))
  BY DEF NoneOpen, OneOpen

LEMMA MkdirOpen ==
  ASSUME NEW c, IsCard(c), NEW p \in Path
  PROVE  (NoneOpen(c) => NoneOpen(Mkdir(c, p))) /\ (OneOpen(c) => OneOpen(Mkdir(c, p)))
<1> DEFINE d == Mkdir(c, p)
<1>1. \A q \in DOMAIN d : d[q] = DirNode \/ (q \in DOMAIN c /\ d[q] = c[q])
  BY MkdirIs
<1>2. ~DirNode.open
  BY DEF DirNode
<1> HIDE DEF d
<1> QED BY <1>1, <1>2, StaysOpen DEF d

LEMMA RenamedOpen ==
  ASSUME NEW c, IsCard(c), NEW from \in Path \ {Root}, NEW to \in Path \ {Root}, NEW d,
         Renamed(c, from, to, d)
  PROVE  (NoneOpen(c) => NoneOpen(d)) /\ (OneOpen(c) => OneOpen(d))
<1> DEFINE e == EnsureParents(c, to)
<1>1. \A q \in DOMAIN e : e[q] = DirNode \/ (q \in DOMAIN c /\ e[q] = c[q])
  BY EnsureParentsIs
<1>2. ~DirNode.open
  BY DEF DirNode
<1> HIDE DEF e
<1>3. /\ \A s \in Path : Has(d, Join(to, s)) <=> Has(c, Join(from, s))
      /\ \A s \in Path : Has(c, Join(from, s)) => d[Join(to, s)] = c[Join(from, s)]
      /\ \A q \in DOMAIN d : ~IsPrefix(to, q) =>
           q \in DOMAIN e /\ ~IsPrefix(from, q) /\ d[q] = e[q]
      /\ DOMAIN d \subseteq Path
  BY DEF Renamed, e
<1>4. ASSUME NEW q \in DOMAIN d, d[q].open, IsPrefix(to, q)
      PROVE  \E s \in Path : /\ q = Join(to, s) /\ Join(from, s) \in DOMAIN c
                             /\ c[Join(from, s)].open /\ IsPrefix(from, Join(from, s))
  <2>1. PICK s \in Path : q = Join(to, s)
    BY <1>3, <1>4, PathJoin
  <2>2. IsPrefix(from, Join(from, s))
    BY PathJoin
  <2> QED BY <1>3, <1>4, <2>1, <2>2 DEF Has
<1>5. ASSUME NEW q \in DOMAIN d, d[q].open, ~IsPrefix(to, q)
      PROVE  q \in DOMAIN c /\ c[q].open /\ ~IsPrefix(from, q)
  BY <1>1, <1>2, <1>3, <1>5
<1>6. ASSUME NoneOpen(c) PROVE NoneOpen(d)
  BY <1>4, <1>5, <1>6 DEF NoneOpen
<1>7. ASSUME OneOpen(c), NEW q \in DOMAIN d, NEW r \in DOMAIN d, d[q].open, d[r].open
      PROVE  q = r
  <2>1. CASE IsPrefix(to, q) /\ IsPrefix(to, r)
    <3>1. PICK s \in Path : q = Join(to, s) /\ Join(from, s) \in DOMAIN c /\ c[Join(from, s)].open
      BY <1>4, <1>7, <2>1
    <3>2. PICK t \in Path : r = Join(to, t) /\ Join(from, t) \in DOMAIN c /\ c[Join(from, t)].open
      BY <1>4, <1>7, <2>1
    <3>3. Join(from, s) = Join(from, t)
      BY <1>7, <3>1, <3>2 DEF OneOpen
    <3>4. s = t
      BY <3>3, PathJoin
    <3> QED BY <3>1, <3>2, <3>4
  <2>2. CASE ~IsPrefix(to, q) /\ ~IsPrefix(to, r)
    BY <1>5, <1>7, <2>2 DEF OneOpen
  <2>3. CASE IsPrefix(to, q) /\ ~IsPrefix(to, r)
    BY <1>4, <1>5, <1>7, <2>3 DEF OneOpen
  <2>4. CASE ~IsPrefix(to, q) /\ IsPrefix(to, r)
    BY <1>4, <1>5, <1>7, <2>4 DEF OneOpen
  <2> QED BY <2>1, <2>2, <2>3, <2>4
<1> QED BY <1>6, <1>7 DEF OneOpen


-----------------------------------------------------------------------------
(***************************************************************************)
(* What requests name.                                                     *)
(***************************************************************************)
Renaming == {"MOVE", "move", "rename"}
ToWrites == Renaming \cup {"COPY", "PUT", "upload"}
PathWrites == Renaming \cup {"COPY", "DELETE"}
Plain == Blocks \ Hidden

ReqOK(r) ==
  /\ r.path \in Path /\ r.to \in Path /\ r.data \in Seq(Plain)
  /\ r.method \in ToWrites => r.to # Root
  /\ r.method \in PathWrites => r.path # Root

LEMMA RequestsOK == \A r \in Requests : ReqOK(r)
<1>2. Named \subseteq Path \ {Root} /\ Bodies \subseteq Seq(Plain) /\ <<>> \in Seq(Plain)
  BY TransferAssumption, EmptySeq DEF Path, Plain
<1>3. \A p \in Path, x \in Names : Child(p, x) \in Path \ {Root}
  BY JoinChild
<1>4. \A p \in Named : Front(p) \in Path /\ Last(p) \in Names
  <2> TAKE p \in Named
  <2>1. p \in Seq(Names) /\ p # <<>>
    BY <1>2 DEF Path, Root
  <2>2. Front(p) \in Seq(Names) /\ Last(p) \in Names
    BY ONLY <2>1, FrontIs
  <2> QED BY <2>2 DEF Path
<1>5. Root \in Path /\ Anywhere \subseteq Path
  BY <1>2, PathOrder DEF Anywhere
<1>6. ASSUME NEW m, NEW p \in Path, NEW q \in Path,
             m \in ToWrites => q # Root, m \in PathWrites => p # Root
      PROVE  ReqOK(AskOf(m, p, q))
  BY <1>6, <1>2 DEF AskOf, Ask, ReqOK
<1>7. \A r \in AskPathless : ReqOK(r)
  BY <1>6, <1>5 DEF AskPathless, Pathless, ToWrites, PathWrites, Renaming
<1>8. \A r \in AskFind : ReqOK(r)
  <2>1. ASSUME NEW p \in Anywhere, NEW o PROVE ReqOK(Ask("PROPFIND", p, p, o, <<>>))
    BY <1>2, <1>5 DEF Ask, ReqOK, ToWrites, PathWrites, Renaming
  <2> DEFINE flags == BOOLEAN
             asked == {Ask("PROPFIND", p, p, deep, <<>>) : p \in Anywhere, deep \in flags}
  <2>2. AskFind = asked
    BY DEF AskFind
  <2> HIDE DEF flags
  <2> QED BY <2>1, <2>2
<1>9. \A r \in AskFiles : ReqOK(r)
  BY <1>6, <1>5 DEF AskFiles, ToWrites, PathWrites, Renaming
<1>10. \A r \in AskOne : ReqOK(r)
  BY <1>6, <1>2 DEF AskOne, ToWrites, PathWrites, Renaming
<1>11. \A r \in AskPut : ReqOK(r)
  BY <1>2 DEF AskPut, Ask, ReqOK, ToWrites, PathWrites, Renaming
<1>12. \A r \in AskUpload : ReqOK(r)
  BY <1>2, <1>3, <1>5 DEF AskUpload, Ask, ReqOK, ToWrites, PathWrites, Renaming
<1>13. \A r \in AskMkdir : ReqOK(r)
  BY <1>6, <1>2, <1>4 DEF AskMkdir, ToWrites, PathWrites, Renaming
<1>14. \A r \in AskRename : ReqOK(r)
  BY <1>6, <1>2, <1>3, <1>4 DEF AskRename, ToWrites, PathWrites, Renaming
<1>15. \A r \in AskMove : ReqOK(r)
  BY <1>6, <1>2, <1>3, <1>4, <1>5 DEF AskMove, ToWrites, PathWrites, Renaming
<1>16. \A r \in AskTransfer : ReqOK(r)
  <2>1. ASSUME NEW m, NEW p \in Named, NEW q \in Named, NEW o
        PROVE  ReqOK(Ask(m, p, q, o, <<>>))
    BY <1>2 DEF Ask, ReqOK
  <2> DEFINE flags == BOOLEAN
             asked == {Ask(m, p, q, overwrite, <<>>) :
                         m \in {"MOVE", "COPY"}, p \in Named, q \in Named, overwrite \in flags}
  <2>2. AskTransfer = asked
    BY DEF AskTransfer
  <2> HIDE DEF flags
  <2> QED BY <2>1, <2>2
<1> QED BY <1>7, <1>8, <1>9, <1>10, <1>11, <1>12, <1>13, <1>14, <1>15, <1>16 DEF Requests

(***************************************************************************)
(* The invariant behind TypeOK: what the worker is in the middle of, and   *)
(* what the firmware has open meanwhile.                                   *)
(***************************************************************************)
Items == [from : Path, to : Path \ {Root}]
Outs == [kind : {"file", "directory", "refused"}, path : Path, rest : Seq(Blocks)]
Stages == {"none", "loop", "select", "handle", "write", "transfer", "answered", "ended"}

Fitting ==
  (pc \in {"handle", "transfer"} /\ req.method \in Renaming) =>
     IsPrefix(req.path, req.to) \/ Fits(card, req.path, req.to)

WorkInv ==
  /\ pc \in Stages /\ ReqOK(req)
  /\ out = NoOut \/ (out \in Outs /\ pc \in {"write", "transfer"})
  /\ out.kind = "file" => Has(card, out.path) /\ ~card[out.path].dir
  /\ todo \in Seq(Items) /\ (todo # <<>> => pc = "transfer")
  /\ pc = "transfer" => (req.method = "MOVE" /\ out = NoOut) \/ req.method = "COPY"
  /\ Fitting

OpenInv ==
  /\ fw = "reading" => OneOpen(card)
  /\ fw # "reading" => NoneOpen(card)
  /\ handle.size \in Nat /\ handle.data \in Seq(Blocks)

RunInv ==
  /\ running => active /\ listening
  /\ pc = "none" <=> ~running /\ fw \notin {"stopping", "joining"}
  /\ fw \in {"stopping", "joining"} => ~running

TypeInv == IsCard(card) /\ WorkInv /\ OpenInv /\ RunInv

LEMMA TypeInvInit == Init => TypeInv
<1> SUFFICES ASSUME Init PROVE TypeInv
  OBVIOUS
<1>1. IsCard(card) /\ NoneOpen(card)
  BY CardsAssumption DEF Init, NoneOpen
<1>2. ReqOK(NoRequest)
  BY EmptySeq, PathOrder DEF ReqOK, NoRequest, ToWrites, PathWrites, Renaming
<1>3. WorkInv
  BY <1>2, EmptySeq DEF Init, WorkInv, Stages, Fitting, NoOut, Renaming, NoRequest
<1>4. OpenInv /\ RunInv
  BY <1>1, EmptySeq DEF Init, OpenInv, RunInv, NoHandle
<1> QED BY <1>1, <1>3, <1>4 DEF TypeInv

-----------------------------------------------------------------------------
(***************************************************************************)
(* A step of the worker keeps the card a card, its own state in order, and *)
(* opens nothing.  First the steps that leave the card alone.              *)
(***************************************************************************)
Kept ==
  /\ IsCard(card') /\ WorkInv'
  /\ NoneOpen(card) => NoneOpen(card')
  /\ OneOpen(card) => OneOpen(card')

LEMMA NoOutKind == NoOut.kind = "none"
BY DEF NoOut

LEMMA NoRequestOK == ReqOK(NoRequest)
BY EmptySeq, PathOrder DEF ReqOK, NoRequest, ToWrites, PathWrites, Renaming

LEMMA QuietKept ==
  ASSUME TypeInv, card' = card, todo' = todo, out' = out, req' = req \/ req' = NoRequest,
         pc \notin {"write", "transfer"}, pc' \in Stages \ {"handle", "write", "transfer"}
  PROVE  Kept
<1>1. out = NoOut /\ todo = <<>>
  BY DEF TypeInv, WorkInv
<1>2. ReqOK(req') /\ Fitting'
  BY NoRequestOK DEF TypeInv, WorkInv, Fitting
<1> QED BY <1>1, <1>2, NoOutKind DEF TypeInv, WorkInv, Kept

LEMMA AcceptKept ==
  ASSUME TypeInv, NEW r \in Requests, Accept(r)
  PROVE  Kept
<1>1. ReqOK(r)
  BY RequestsOK
<1>2. /\ pc = "select" /\ pc' = "handle" /\ req' = r /\ card' = card
      /\ todo' = todo /\ out' = out /\ WithinBounds(r)
  BY DEF Accept
<1>3. out = NoOut /\ todo = <<>>
  BY <1>2 DEF TypeInv, WorkInv
<1>4. r.method \in Renaming => IsPrefix(r.path, r.to) \/ Fits(card, r.path, r.to)
  BY <1>2 DEF WithinBounds, Fits, Renaming, IsStrictPrefix
<1> QED BY <1>1, <1>2, <1>3, <1>4, NoOutKind DEF TypeInv, WorkInv, Fitting, Kept, Stages

(***************************************************************************)
(* The steps that answer: whatever they made of the card, they have        *)
(* nothing more to do.                                                     *)
(***************************************************************************)
LEMMA AnsweredKept ==
  ASSUME TypeInv, IsCard(card'), NoneOpen(card) => NoneOpen(card'),
         OneOpen(card) => OneOpen(card'),
         todo' = <<>>, out' = NoOut, req' = req, pc' = "answered"
  PROVE  Kept
<1>1. ReqOK(req') /\ Fitting'
  BY DEF TypeInv, WorkInv, Fitting
<1>2. <<>> \in Seq(Items)
  BY EmptySeq
<1> QED BY <1>1, <1>2, NoOutKind DEF TypeInv, WorkInv, Kept, Stages

LEMMA MakesKept ==
  ASSUME TypeInv, pc = "handle", Makes
  PROVE  Kept
<1>1. ReqOK(req) /\ req.to \in Path /\ IsCard(card) /\ out = NoOut /\ todo = <<>>
  BY DEF TypeInv, WorkInv, ReqOK
<1>2. IsCard(Mkdir(card, req.to))
  BY <1>1, MkdirIs
<1> QED BY <1>1, <1>2, MkdirOpen, AnsweredKept DEF Makes, Answer, AnswerWith

LEMMA RenameKept ==
  ASSUME TypeInv, pc \in {"handle", "transfer"}, req.method \in Renaming
  PROVE  LET d == Rename(card, req.path, req.to) IN
         /\ IsCard(d)
         /\ NoneOpen(card) => NoneOpen(d)
         /\ OneOpen(card) => OneOpen(d)
<1>1. /\ req.path \in Path \ {Root} /\ req.to \in Path \ {Root} /\ IsCard(card)
      /\ IsPrefix(req.path, req.to) \/ Fits(card, req.path, req.to)
  BY DEF TypeInv, WorkInv, ReqOK, Fitting, ToWrites, PathWrites, Renaming
<1> DEFINE from == req.path
           to == req.to
           d == Rename(card, from, to)
<1>2. CASE ~RenameOk(card, from, to)
  <2>1. d = EnsureParents(card, to)
    BY <1>2 DEF Rename
  <2>2. to \in Seq(Names) /\ to # <<>>
    BY <1>1 DEF Path, Root
  <2>3. Front(to) \in Path
    BY ONLY <2>2, FrontIs DEF Path
  <2>4. IsCard(d) /\ (NoneOpen(card) => NoneOpen(d)) /\ (OneOpen(card) => OneOpen(d))
    BY <2>1, <2>3, <1>1, MkdirIs, MkdirOpen DEF EnsureParents
  <2> QED BY <2>4
<1>3. CASE RenameOk(card, from, to)
  <2>1. Renamed(card, from, to, d) /\ d = [q \in DOMAIN d |-> d[q]] /\ IsDir(d, Front(to))
    BY <1>1, <1>3, RenameShape
  <2>2. Fits(card, from, to)
    <3>1. CASE from = to
      <4>1. \A q \in DOMAIN card : q \in Path /\ Len(q) \in Nat /\ Len(q) <= MaxDepth
        BY <1>1, CardIs, PathsAre DEF Path
      <4> QED BY <3>1, <4>1, <1>1 DEF Fits, Under, Path
    <3>2. CASE from # to
      <4>1. ~IsPrefix(from, to)
        BY <3>2, <2>1 DEF Renamed
      <4> QED BY <4>1, <1>1
    <3> QED BY <3>1, <3>2
  <2> HIDE DEF d
  <2>3. IsCard(d)
    BY <2>1, <2>2, <1>1, RenamedIsCard
  <2> QED BY <2>1, <2>3, <1>1, RenamedOpen DEF d
<1> QED BY <1>2, <1>3

LEMMA RenamesKept ==
  ASSUME TypeInv, pc = "handle", req.method \in Renaming, Renames
  PROVE  Kept
<1>1. out = NoOut /\ todo = <<>>
  BY DEF TypeInv, WorkInv
<1> QED BY <1>1, RenameKept, AnsweredKept DEF Renames, Answer, AnswerWith

LEMMA DoMoveKept ==
  ASSUME TypeInv, DoMove
  PROVE  Kept
<1>1. out = NoOut /\ pc = "transfer" /\ req.method \in Renaming
  BY DEF TypeInv, WorkInv, DoMove, Renaming
<1> QED BY <1>1, RenameKept, AnsweredKept DEF DoMove, Answer, AnswerWith

LEMMA RemoveOpen ==
  ASSUME NEW c, IsCard(c), NEW p \in Path \ {Root}
  PROVE  LET d == RemoveTree(c, p) IN
         /\ IsCard(d)
         /\ NoneOpen(c) => NoneOpen(d)
         /\ OneOpen(c) => OneOpen(d)
BY RemoveTreeIs, StaysOpen

LEMMA DeleteKept ==
  ASSUME TypeInv, HandleDelete
  PROVE  Kept
<1>1. req.path \in Path \ {Root} /\ IsCard(card) /\ out = NoOut /\ todo = <<>>
  BY DEF TypeInv, WorkInv, ReqOK, PathWrites, HandleDelete, Handles
<1> QED BY <1>1, RemoveOpen, AnsweredKept DEF HandleDelete, Answer, AnswerWith

LEMMA TransferKept ==
  ASSUME TypeInv, HandleTransfer
  PROVE  Kept
<1> DEFINE d == RemoveTree(card, req.to)
           item == [from |-> req.path, to |-> req.to]
<1>1. /\ req.path \in Path /\ req.to \in Path \ {Root} /\ IsCard(card)
      /\ out = NoOut /\ todo = <<>> /\ ReqOK(req) /\ req.method \in {"MOVE", "COPY"}
      /\ req.method = "MOVE" => IsPrefix(req.path, req.to) \/ Fits(card, req.path, req.to)
  BY DEF TypeInv, WorkInv, ReqOK, Fitting, ToWrites, Renaming, HandleTransfer, Handles
<1>2. /\ IsCard(d) /\ DOMAIN d \subseteq DOMAIN card
      /\ NoneOpen(card) => NoneOpen(d)
      /\ OneOpen(card) => OneOpen(d)
  BY <1>1, RemoveOpen, RemoveTreeIs
<1>3. item \in Items /\ <<item>> \in Seq(Items)
  BY <1>1 DEF Items
<1>4. card' = d /\ out' = out /\ req' = req
  BY DEF HandleTransfer
<1> HIDE DEF d, item
<1>5. \/ pc' = "answered" /\ todo' = <<>>
      \/ pc' = "transfer" /\ todo' = <<item>>
  BY <1>1 DEF HandleTransfer, Answer, AnswerWith, item
<1>6. CASE pc' = "answered" /\ todo' = <<>>
  BY <1>6, <1>1, <1>2, <1>4, AnsweredKept
<1>7. CASE pc' = "transfer" /\ todo' = <<item>>
  <2>1. Fitting'
    BY <1>1, <1>2, <1>4 DEF Fitting, Fits, Under, Renaming
  <2> QED BY <2>1, <1>1, <1>2, <1>3, <1>4, <1>7, NoOutKind DEF WorkInv, Kept, Stages
<1> QED BY <1>5, <1>6, <1>7

(***************************************************************************)
(* The steps that write.                                                   *)
(***************************************************************************)
LEMMA OpenKept ==
  ASSUME NEW c, IsCard(c), NEW p \in Path \ {Root}, NEW b \in Seq(Blocks)
  PROVE  LET d == OpenWrite(c, p)
             o == OpenedOut(c, p, b)
         IN /\ IsCard(d) /\ o \in Outs
            /\ NoneOpen(c) => NoneOpen(d)
            /\ OneOpen(c) => OneOpen(d)
            /\ o.kind = "file" <=> FileOpened(c, p)
            /\ o.kind = "file" => Has(d, p) /\ ~d[p].dir /\ d[p].data = <<>>
            /\ o.path = p /\ o.rest = b
<1> DEFINE d == OpenWrite(c, p)
           o == OpenedOut(c, p, b)
<1>1. /\ o \in Outs /\ o.path = p /\ o.rest = b
      /\ o.kind = "file" <=> FileOpened(c, p)
  BY DEF OpenedOut, Outs, FileOpened
<1>2. /\ IsCard(d)
      /\ \A q \in DOMAIN d : d[q].open => q \in DOMAIN c /\ c[q].open
      /\ FileOpened(c, p) => Has(d, p) /\ ~d[p].dir /\ d[p].data = <<>>
  BY OpenWriteIs
<1> HIDE DEF d, o
<1>3. (NoneOpen(c) => NoneOpen(d)) /\ (OneOpen(c) => OneOpen(d))
  BY <1>2, StaysOpen
<1> QED BY <1>1, <1>2, <1>3 DEF d, o

LEMMA PlainBlocks == Seq(Plain) \subseteq Seq(Blocks)
BY DEF Plain

LEMMA UploadKept ==
  ASSUME TypeInv, HandleUpload
  PROVE  Kept
<1> DEFINE c == IF Has(card, req.path) THEN card ELSE Mkdir(card, req.path)
<1>1. /\ IsCard(card) /\ ReqOK(req) /\ req.path \in Path /\ req.to \in Path \ {Root}
      /\ req.data \in Seq(Blocks) /\ todo = <<>>
  BY PlainBlocks DEF TypeInv, WorkInv, ReqOK, ToWrites, HandleUpload, Handles
<1>2. IsCard(c) /\ (NoneOpen(card) => NoneOpen(c)) /\ (OneOpen(card) => OneOpen(c))
  BY <1>1, MkdirIs, MkdirOpen
<1>3. /\ card' = OpenWrite(c, req.to) /\ out' = OpenedOut(c, req.to, req.data)
      /\ pc' = "write" /\ req' = req /\ todo' = todo
  BY DEF HandleUpload
<1> HIDE DEF c
<1> QED BY <1>1, <1>2, <1>3, OpenKept DEF TypeInv, WorkInv, Fitting, Kept, Stages

LEMMA PutKept ==
  ASSUME TypeInv, HandlePut
  PROVE  Kept
<1>1. /\ IsCard(card) /\ ReqOK(req) /\ req.to \in Path \ {Root}
      /\ req.data \in Seq(Blocks) /\ todo = <<>>
  BY PlainBlocks DEF TypeInv, WorkInv, ReqOK, ToWrites, HandlePut, Handles
<1>2. /\ card' = OpenWrite(card, req.to) /\ out' = OpenedOut(card, req.to, req.data)
      /\ pc' = "write" /\ req' = req /\ todo' = todo
  BY DEF HandlePut
<1> QED BY <1>1, <1>2, OpenKept DEF TypeInv, WorkInv, Fitting, Kept, Stages

LEMMA WriteKept ==
  ASSUME NEW c, IsCard(c), NEW p \in DOMAIN c, ~c[p].dir, NEW b \in Seq(Blocks)
  PROVE  LET d == WriteTo(c, p, b) IN
         /\ IsCard(d) /\ Has(d, p) /\ ~d[p].dir
         /\ NoneOpen(c) => NoneOpen(d)
         /\ OneOpen(c) => OneOpen(d)
<1> DEFINE d == WriteTo(c, p, b)
<1>1. /\ IsCard(d) /\ DOMAIN d = DOMAIN c
      /\ \A q \in DOMAIN c : q # p => d[q] = c[q]
      /\ d[p].dir = c[p].dir /\ d[p].open = c[p].open
  BY WriteToIs
<1> HIDE DEF d
<1>2. \A q \in DOMAIN d : d[q].open => q \in DOMAIN c /\ c[q].open
  BY <1>1
<1> QED BY <1>1, <1>2, StaysOpen DEF d, Has

LEMMA PartOf ==
  ASSUME NEW S, NEW s \in Seq(S), NEW n \in 0 .. Len(s)
  PROVE  SubSeq(s, 1, n) \in Seq(S)
<1>1. \A i \in 1 .. n : s[i] \in S
  BY ElementOfSeq
<1> QED BY <1>1, SubSeqProperties

LEMMA WriteBodyKept ==
  ASSUME TypeInv, WriteBody
  PROVE  Kept
<1>1. /\ pc = "write" /\ out' = NoOut /\ req' = req /\ todo' = todo /\ todo = <<>>
      /\ IsCard(card) /\ (out = NoOut \/ out \in Outs)
      /\ out.kind = "file" => Has(card, out.path) /\ ~card[out.path].dir
  BY DEF TypeInv, WorkInv, WriteBody
<1>2. pc' = "answered"
  BY DEF WriteBody, Answer, AnswerWith
<1>3. CASE out.kind = "file"
  <2>1. PICK n \in 0 .. Len(out.rest) :
          card' = WriteTo(card, out.path, SubSeq(out.rest, 1, n))
    BY <1>3 DEF WriteBody
  <2>2. out.rest \in Seq(Blocks) /\ out.path \in DOMAIN card /\ ~card[out.path].dir
    BY <1>1, <1>3, NoOutKind DEF Outs, Has
  <2>3. SubSeq(out.rest, 1, n) \in Seq(Blocks)
    BY <2>2, PartOf
  <2> QED BY <2>1, <2>2, <2>3, <1>1, <1>2, WriteKept, AnsweredKept
<1>4. CASE out.kind # "file"
  <2>1. card' = card
    BY <1>4 DEF WriteBody
  <2> QED BY <2>1, <1>1, <1>2, AnsweredKept
<1> QED BY <1>3, <1>4

-----------------------------------------------------------------------------
(***************************************************************************)
(* Ordered lists a set of places by rank: the first, the second, ...       *)
(***************************************************************************)
LEMMA PlacesFinite ==
  ASSUME NEW S \in SUBSET DOMAIN Order
  PROVE  IsFiniteSet(S) /\ S \subseteq Nat /\ Cardinality(S) \in Nat
<1>1. Len(Order) \in Nat /\ DOMAIN Order = 1 .. Len(Order)
  BY NamesAssumption
<1>2. IsFiniteSet(1 .. Len(Order))
  BY <1>1, FS_Interval
<1>3. IsFiniteSet(S)
  BY ONLY <1>1, <1>2, FS_Subset, S \in SUBSET DOMAIN Order
<1> QED BY <1>1, <1>3, FS_CardinalityType

LEMMA RankIs ==
  ASSUME NEW S \in SUBSET DOMAIN Order
  PROVE  /\ \A i \in S : Rank(i, S) \in 1 .. Cardinality(S)
         /\ \A i, j \in S : i < j => Rank(i, S) < Rank(j, S)
         /\ \A n \in 1 .. Cardinality(S) : \E i \in S : Rank(i, S) = n
<1> DEFINE upto(i) == {j \in S : j <= i}
           N == Cardinality(S)
<1>1. IsFiniteSet(S) /\ S \subseteq Nat /\ N \in Nat
  BY PlacesFinite
<1>2. \A i \in S : IsFiniteSet(upto(i)) /\ Rank(i, S) = Cardinality(upto(i))
                     /\ Rank(i, S) \in Nat /\ Rank(i, S) <= N
  BY <1>1, FS_Subset, FS_CardinalityType DEF Rank
<1>3. ASSUME NEW i \in S, NEW j \in S, i < j PROVE Rank(i, S) < Rank(j, S)
  <2> DEFINE a == upto(i)
             b == upto(j)
  <2>1. a \in SUBSET b /\ j \in b /\ j \notin a
    BY <1>1, <1>3
  <2>2. /\ IsFiniteSet(b) /\ Rank(i, S) = Cardinality(a) /\ Rank(j, S) = Cardinality(b)
        /\ Rank(i, S) \in Nat /\ Rank(j, S) \in Nat
    BY <1>2
  <2> HIDE DEF a, b
  <2>3. Cardinality(a) <= Cardinality(b) /\ (Cardinality(b) = Cardinality(a) => b = a)
    BY <2>1, <2>2, FS_Subset
  <2> QED BY <2>1, <2>2, <2>3
<1>4. ASSUME NEW i \in S PROVE Rank(i, S) # 0
  <2> DEFINE a == upto(i)
  <2>1. i \in a /\ IsFiniteSet(a) /\ Rank(i, S) = Cardinality(a)
    BY <1>1, <1>2
  <2> HIDE DEF a
  <2> QED BY <2>1, FS_EmptySet
<1> HIDE DEF upto, N
<1>5. \A i \in S : Rank(i, S) \in 1 .. N
  BY <1>1, <1>2, <1>4
<1> DEFINE f == [i \in S |-> Rank(i, S)]
<1>6. f \in [S -> 1 .. N]
  BY <1>5
<1>7. \A i, j \in S : f[i] = f[j] => i = j
  <2>1. \A i, j \in S : i < j \/ j < i \/ i = j
    BY <1>1
  <2> QED BY <2>1, <1>2, <1>3
<1>8. f \in Injection(S, 1 .. N)
  BY <1>6, <1>7 DEF Injection, IsInjective
<1>9. IsFiniteSet(1 .. N) /\ Cardinality(1 .. N) = N /\ Cardinality(S) = N
  BY <1>1, FS_Interval DEF N
<1> HIDE DEF f
<1>10. f \in Surjection(S, 1 .. N)
  BY <1>1, <1>8, <1>9, FS_Injection
<1>11. \A n \in 1 .. N : \E i \in S : f[i] = n
  BY <1>10 DEF Surjection
<1>12. \A n \in 1 .. N : \E i \in S : Rank(i, S) = n
  BY <1>11 DEF f
<1> QED BY <1>3, <1>5, <1>12 DEF N

LEMMA OrderedIs ==
  ASSUME NEW S \in SUBSET DOMAIN Order
  PROVE  LET o == Ordered(S) IN
         /\ o \in Seq(Names) /\ Len(o) = Cardinality(S)
         /\ \A i \in S : Rank(i, S) \in DOMAIN o /\ o[Rank(i, S)] = Order[i]
         /\ \A n \in DOMAIN o : \E i \in S : Rank(i, S) = n /\ o[n] = Order[i]
<1> DEFINE o == Ordered(S)
           N == Cardinality(S)
           at(n) == CHOOSE i \in S : Rank(i, S) = n
<1>1. S \subseteq Nat /\ N \in Nat
  BY PlacesFinite
<1>2. \A n \in 1 .. N : at(n) \in S /\ Rank(at(n), S) = n
  BY RankIs
<1>3. o = [n \in 1 .. N |-> Order[at(n)]]
  BY DEF Ordered
<1> HIDE DEF at, o
<1>4. DOMAIN o = 1 .. N /\ \A n \in 1 .. N : o[n] = Order[at(n)] /\ Order[at(n)] \in Names
  <2>1. \A i \in DOMAIN Order : Order[i] \in Names
    BY NamesAssumption
  <2> QED BY <2>1, <1>2, <1>3
<1>5. o \in Seq(Names) /\ Len(o) = N
  BY <1>1, <1>3, <1>4
<1>6. \A i \in S : at(Rank(i, S)) = i
  <2> TAKE i \in S
  <2>1. Rank(i, S) \in 1 .. N
    BY RankIs
  <2>2. at(Rank(i, S)) \in S /\ Rank(at(Rank(i, S)), S) = Rank(i, S)
    BY <2>1, <1>2
  <2> QED BY <2>1, <2>2, <1>1, RankIs
<1>7. \A i \in S : Rank(i, S) \in DOMAIN o /\ o[Rank(i, S)] = Order[i]
  BY <1>4, <1>6, RankIs
<1>8. \A n \in DOMAIN o : \E i \in S : Rank(i, S) = n /\ o[n] = Order[i]
  BY <1>2, <1>4
<1> QED BY <1>5, <1>7, <1>8 DEF o

-----------------------------------------------------------------------------
(***************************************************************************)
(* copyPath's steps.                                                       *)
(***************************************************************************)
Shown(c, p) == {i \in Places(c, p) : Order[i] \notin Protected}

ChildOf(item, x) == [from |-> Child(item.from, x), to |-> Child(item.to, x)]

Kids(k, item, S) ==
  /\ k \in Seq(Items)
  /\ \A i \in S : \E n \in DOMAIN k : k[n] = ChildOf(item, Order[i])
  /\ \A n \in DOMAIN k : \E i \in S : k[n] = ChildOf(item, Order[i])

LEMMA ChildrenAre ==
  ASSUME NEW c, NEW item \in Items
  PROVE  Kids(Children(c, item), item, Shown(c, item.from))
<1> DEFINE S == Shown(c, item.from)
           o == Ordered(S)
           k == Children(c, item)
<1>1. S \in SUBSET DOMAIN Order /\ \A i \in S : Order[i] \in Names
  BY NamesAssumption DEF Shown, Places
<1>2. item.from \in Path /\ item.to \in Path
  BY DEF Items
<1>3. \A x \in Names : Child(item.from, x) \in Path /\ Child(item.to, x) \in Path \ {Root}
  BY <1>2, JoinChild
<1>4. k = [n \in DOMAIN o |-> ChildOf(item, o[n])]
  BY DEF Children, Shown, ChildOf
<1> HIDE DEF S
<1>5. /\ o \in Seq(Names)
      /\ \A i \in S : \E n \in DOMAIN o : o[n] = Order[i]
      /\ \A n \in DOMAIN o : \E i \in S : o[n] = Order[i]
  BY <1>1, OrderedIs
<1> HIDE DEF o, k
<1>6. /\ DOMAIN k = DOMAIN o
      /\ \A n \in DOMAIN k :
           k[n] = ChildOf(item, o[n])
  BY <1>4
<1>7. k \in Seq(Items)
  <2>1. DOMAIN o = 1 .. Len(o) /\ Len(o) \in Nat /\ \A n \in 1 .. Len(o) : o[n] \in Names
    BY <1>5
  <2>2. \A n \in 1 .. Len(o) : k[n] \in Items
    BY <2>1, <1>3, <1>6 DEF Items, ChildOf
  <2>3. k = [n \in 1 .. Len(o) |-> k[n]]
    BY <1>4, <2>1
  <2> QED BY ONLY <2>1, <2>2, <2>3
<1>8. \A i \in S : \E n \in DOMAIN k :
        k[n] = ChildOf(item, Order[i])
  <2> TAKE i \in S
  <2>1. PICK n \in DOMAIN o : o[n] = Order[i]
    BY <1>5
  <2> QED BY <2>1, <1>6
<1>9. \A n \in DOMAIN k : \E i \in S :
        k[n] = ChildOf(item, Order[i])
  <2> TAKE n \in DOMAIN k
  <2>1. PICK i \in S : o[n] = Order[i]
    BY <1>5, <1>6
  <2> QED BY <2>1, <1>6
<1>10. Kids(k, item, S)
  BY <1>7, <1>8, <1>9 DEF Kids
<1> QED BY <1>10 DEF S, k

LEMMA NextItem ==
  ASSUME NEW s \in Seq(Items), s # <<>>
  PROVE  /\ Head(s) \in Items /\ Tail(s) \in Seq(Items)
         /\ Head(s).from \in Path /\ Head(s).to \in Path \ {Root}
<1>1. Head(s) \in Items /\ Tail(s) \in Seq(Items)
  BY ONLY s \in Seq(Items), s # <<>>, HeadTailProperties
<1> QED BY <1>1 DEF Items

(***************************************************************************)
(* What a listing gives is among the children, all of them if nothing is   *)
(* lost.                                                                   *)
(***************************************************************************)
Among(h, k) ==
  h \in Seq(Items) /\ \A n \in DOMAIN h : \E m \in DOMAIN k : h[n] = k[m]

LEMMA HeardIs ==
  ASSUME NEW k \in Seq(Items), NEW h \in Heard(k)
  PROVE  Among(h, k)
<1>1. Len(k) \in Nat /\ DOMAIN k = 1 .. Len(k)
  OBVIOUS
<1>2. ASSUME NEW i \in 1 .. Len(k) + 1, NEW j \in 0 .. Len(k)
      PROVE  Among(SubSeq(k, i, j), k)
  <2> DEFINE l == SubSeq(k, i, j)
  <2>1. /\ l \in Seq(Items) /\ DOMAIN l = 1 .. Len(l)
        /\ \A n \in 1 .. Len(l) : n + i - 1 \in DOMAIN k /\ l[n] = k[n + i - 1]
    BY <1>1, <1>2
  <2> HIDE DEF l
  <2>2. Among(l, k)
    BY <2>1 DEF Among
  <2> QED BY <2>2 DEF l
<1>3. CASE \E n \in DOMAIN k : h = SubSeq(k, 1, n - 1)
  <2>1. PICK n \in DOMAIN k : h = SubSeq(k, 1, n - 1)
    BY <1>3
  <2>2. 1 \in 1 .. Len(k) + 1 /\ n - 1 \in 0 .. Len(k)
    BY <1>1, <2>1
  <2> QED BY <2>1, <2>2, <1>2
<1>4. CASE \E n \in DOMAIN k : h = RemoveAt(k, n)
  <2>1. PICK n \in DOMAIN k : h = RemoveAt(k, n)
    BY <1>4
  <2> DEFINE a == SubSeq(k, 1, n - 1)
             b == SubSeq(k, n + 1, Len(k))
  <2>2. Among(a, k) /\ Among(b, k)
    <3>1. 1 \in 1 .. Len(k) + 1 /\ n - 1 \in 0 .. Len(k)
      BY <1>1, <2>1
    <3>2. n + 1 \in 1 .. Len(k) + 1 /\ Len(k) \in 0 .. Len(k)
      BY <1>1, <2>1
    <3> QED BY <3>1, <3>2, <1>2
  <2>3. h = a \o b
    BY <2>1 DEF RemoveAt
  <2> HIDE DEF a, b
  <2>4. /\ Len(a) \in Nat /\ Len(b) \in Nat /\ DOMAIN a = 1 .. Len(a) /\ DOMAIN b = 1 .. Len(b)
        /\ h \in Seq(Items) /\ DOMAIN h = 1 .. Len(a) + Len(b)
        /\ \A i \in 1 .. Len(a) : h[i] = a[i]
        /\ \A i \in 1 .. Len(b) : h[Len(a) + i] = b[i]
    BY <2>2, <2>3, ConcatType DEF Among
  <2>5. ASSUME NEW i \in DOMAIN h PROVE \E m \in DOMAIN k : h[i] = k[m]
    <3>1. CASE i \in 1 .. Len(a)
      BY <3>1, <2>2, <2>4 DEF Among
    <3>2. CASE i \notin 1 .. Len(a)
      <4>1. i - Len(a) \in 1 .. Len(b) /\ Len(a) + (i - Len(a)) = i
        BY <3>2, <2>4
      <4> QED BY <4>1, <2>2, <2>4 DEF Among
    <3> QED BY <3>1, <3>2
  <2> QED BY <2>4, <2>5 DEF Among
<1> QED BY <1>3, <1>4 DEF Heard

LEMMA DirectoryQueues ==
  ASSUME todo \in Seq(Items), CopyDirectory, MkdirOk(card, Head(todo).to)
  PROVE  \E listed \in {card, Mkdir(card, Head(todo).to)}, h \in Seq(Items) :
           /\ todo' = h \o Tail(todo)
           /\ Among(h, Children(listed, Head(todo)))
           /\ (h = Children(listed, Head(todo)) /\ cut' = cut) \/ cut' = TRUE
<1> DEFINE item == Head(todo)
           made == Mkdir(card, item.to)
<1>1. todo # <<>>
  BY DEF CopyDirectory
<1>2. PICK listed \in {card, made} :
         \/ todo' = Children(listed, item) \o Tail(todo) /\ cut' = cut
         \/ /\ \E h \in Heard(Children(listed, item)) : todo' = h \o Tail(todo)
            /\ cut' = TRUE
  BY DEF CopyDirectory, NoFault
<1> DEFINE k == Children(listed, item)
<1>3. k \in Seq(Items)
  BY <1>1, NextItem, ChildrenAre DEF Kids
<1>4. CASE todo' = k \o Tail(todo) /\ cut' = cut
  <2>1. Among(k, k)
    BY <1>3 DEF Among
  <2> QED BY <1>3, <1>4, <2>1
<1>5. CASE (\E h \in Heard(k) : todo' = h \o Tail(todo)) /\ cut' = TRUE
  <2>1. PICK h \in Heard(k) : todo' = h \o Tail(todo)
    BY <1>5
  <2>2. Among(h, k) /\ h \in Seq(Items)
    BY <1>3, HeardIs DEF Among
  <2> QED BY <1>5, <2>1, <2>2
<1> QED BY <1>2, <1>4, <1>5

LEMMA CopyDirectoryKept ==
  ASSUME TypeInv, CopyDirectory
  PROVE  Kept
<1> DEFINE item == Head(todo)
           made == Mkdir(card, item.to)
<1>1. /\ pc = "transfer" /\ req.method = "COPY" /\ out = NoOut /\ todo # <<>>
      /\ IsCard(card) /\ todo \in Seq(Items) /\ ReqOK(req) /\ req' = req
  BY DEF TypeInv, WorkInv, CopyDirectory, Copying
<1>2. item \in Items /\ Tail(todo) \in Seq(Items) /\ item.to \in Path
  BY <1>1, NextItem
<1>3. IsCard(made) /\ (NoneOpen(card) => NoneOpen(made)) /\ (OneOpen(card) => OneOpen(made))
  BY <1>1, <1>2, MkdirIs, MkdirOpen
<1>4. card' = made
  BY DEF CopyDirectory, CopyFails
<1> HIDE DEF made
<1>5. CASE MkdirOk(card, item.to)
  <2>1. \E h \in Seq(Items) : todo' = h \o Tail(todo)
    BY <1>1, <1>5, DirectoryQueues
  <2>3. todo' \in Seq(Items)
    BY <2>1, <1>2
  <2>4. pc' = pc /\ out' = out
    BY <1>5 DEF CopyDirectory
  <2> QED BY <1>1, <1>3, <1>4, <2>3, <2>4, NoOutKind DEF WorkInv, Fitting, Renaming, Kept, Stages
<1>6. CASE ~MkdirOk(card, item.to)
  <2>1. todo' = <<>> /\ out' = NoOut /\ pc' = "answered"
    BY <1>6 DEF CopyDirectory, CopyFails, Answer, AnswerWith
  <2> QED BY <2>1, <1>1, <1>3, <1>4, AnsweredKept
<1> QED BY <1>5, <1>6

LEMMA CopyFileKept ==
  ASSUME TypeInv, CopyFile
  PROVE  Kept
<1> DEFINE item == Head(todo)
<1>1. /\ pc = "transfer" /\ req.method = "COPY" /\ out = NoOut /\ todo # <<>>
      /\ IsCard(card) /\ todo \in Seq(Items) /\ ReqOK(req) /\ req' = req
  BY DEF TypeInv, WorkInv, CopyFile, Copying
<1>2. item \in Items /\ Tail(todo) \in Seq(Items) /\ item.to \in Path \ {Root}
  BY <1>1, NextItem
<1>3. CASE OpenWriteOk(card, item.to)
  <2>1. card[item.from].data \in Seq(Blocks)
    BY <1>1 DEF CopyFile, IsCard, Nodes, Has
  <2>2. /\ card' = OpenWrite(card, item.to)
        /\ out' = OpenedOut(card, item.to, card[item.from].data)
        /\ todo' = Tail(todo) /\ pc' = pc
    BY <1>3 DEF CopyFile
  <2> HIDE DEF item
  <2> QED BY <1>1, <1>2, <2>1, <2>2, OpenKept DEF WorkInv, Fitting, Renaming, Kept, Stages
<1>4. CASE ~OpenWriteOk(card, item.to)
  <2>1. /\ card' = OpenWrite(card, item.to)
        /\ todo' = <<>> /\ out' = NoOut /\ pc' = "answered"
    BY <1>4 DEF CopyFile, CopyFails, Answer, AnswerWith
  <2>2. /\ IsCard(OpenWrite(card, item.to))
        /\ NoneOpen(card) => NoneOpen(OpenWrite(card, item.to))
        /\ OneOpen(card) => OneOpen(OpenWrite(card, item.to))
    BY <1>1, <1>2, EmptySeq, OpenKept
  <2> HIDE DEF item
  <2> QED BY <2>1, <2>2, <1>1, AnsweredKept
<1> QED BY <1>3, <1>4

LEMMA CopyBlockKept ==
  ASSUME TypeInv, CopyBlock
  PROVE  Kept
<1>1. /\ pc = "transfer" /\ req.method = "COPY" /\ out \in Outs
      /\ IsCard(card) /\ todo \in Seq(Items) /\ ReqOK(req) /\ req' = req
      /\ out.kind = "file" => out.path \in DOMAIN card /\ ~card[out.path].dir
  BY DEF TypeInv, WorkInv, CopyBlock, Copying, Has
<1>2. out.path \in Path /\ out.rest \in Seq(Blocks)
  BY <1>1 DEF Outs
<1>3. CASE out.rest = <<>> /\ out' = NoOut /\ card' = card /\ pc' = pc /\ todo' = todo
  BY <1>1, <1>3, NoOutKind DEF WorkInv, Fitting, Renaming, Kept, Stages
<1>4. CASE /\ out.rest # <<>> /\ out.kind = "file"
           /\ card' = WriteTo(card, out.path, <<Head(out.rest)>>)
           /\ out' = [out EXCEPT !.rest = Tail(@)]
           /\ pc' = pc /\ todo' = todo
  <2>1. <<Head(out.rest)>> \in Seq(Blocks) /\ Tail(out.rest) \in Seq(Blocks)
    BY <1>2, <1>4
  <2>2. out' \in Outs /\ out'.path = out.path /\ out'.kind = "file"
    BY <2>1, <1>1, <1>4 DEF Outs
  <2>3. /\ IsCard(card') /\ Has(card', out.path) /\ ~card'[out.path].dir
        /\ NoneOpen(card) => NoneOpen(card')
        /\ OneOpen(card) => OneOpen(card')
    BY <2>1, <1>1, <1>4, WriteKept
  <2> QED BY <2>2, <2>3, <1>1, <1>4, NoOutKind DEF WorkInv, Fitting, Renaming, Kept, Stages
<1>5. CASE CopyFails(Unlink(card, out.path))
  <2>1. card' = Unlink(card, out.path) /\ todo' = <<>> /\ out' = NoOut /\ pc' = "answered"
    BY <1>5 DEF CopyFails, Answer, AnswerWith
  <2>2. /\ IsCard(card')
        /\ \A q \in DOMAIN card' : q \in DOMAIN card /\ card'[q] = card[q]
    BY <2>1, <1>1, <1>2, UnlinkIs
  <2>3. (NoneOpen(card) => NoneOpen(card')) /\ (OneOpen(card) => OneOpen(card'))
    BY <2>2, StaysOpen
  <2> QED BY <2>1, <2>2, <2>3, <1>1, AnsweredKept
<1>6. CASE out' = NoOut /\ card' = card /\ pc' = pc /\ todo' = todo
  BY <1>1, <1>6, NoOutKind DEF WorkInv, Fitting, Renaming, Kept, Stages
<1> QED BY <1>3, <1>4, <1>5, <1>6 DEF CopyBlock

-----------------------------------------------------------------------------
(***************************************************************************)
(* Every step of the worker keeps what is Kept.                            *)
(***************************************************************************)
LEMMA ServesKept ==
  ASSUME TypeInv, Serves
  PROVE  Kept
<1> USE DEF Stages
<1>1. CASE Refuse
  BY <1>1, QuietKept DEF Refuse, Answer, AnswerWith
<1>2. CASE HandleOptions
  BY <1>2, QuietKept DEF HandleOptions, ReadsOnly, Handles, Answer, AnswerWith
<1>3. CASE HandleLock
  BY <1>3, QuietKept DEF HandleLock, ReadsOnly, Handles, Answer, AnswerWith
<1>4. CASE HandlePage
  BY <1>4, QuietKept DEF HandlePage, ReadsOnly, Handles, Answer, AnswerWith
<1>5. CASE HandlePropfind
  BY <1>5, QuietKept DEF HandlePropfind, ReadsOnly, Handles, Answer, AnswerWith
<1>6. CASE HandleFiles
  BY <1>6, QuietKept DEF HandleFiles, ReadsOnly, Handles, Answer, AnswerWith
<1>7. CASE HandleDownload
  BY <1>7, QuietKept DEF HandleDownload, NotAFile, ReadsOnly, Handles, Answer, AnswerWith
<1>8. CASE HandleDownloadHead
  BY <1>8, QuietKept DEF HandleDownloadHead, NotAFile, ReadsOnly, Handles, Answer, AnswerWith
<1>9. CASE HandleUpload
  BY <1>9, UploadKept
<1>10. CASE HandlePut
  BY <1>10, PutKept
<1>11. CASE WriteBody
  BY <1>11, WriteBodyKept
<1>12. CASE HandleMkdir \/ HandleMkcol
  BY <1>12, MakesKept DEF HandleMkdir, HandleMkcol, Handles
<1>13. CASE HandleRename \/ HandleMove
  BY <1>13, RenamesKept DEF HandleRename, HandleMove, Handles, Renaming
<1>14. CASE HandleDelete
  BY <1>14, DeleteKept
<1>15. CASE HandleTransferRefused
  BY <1>15, QuietKept DEF HandleTransferRefused, Handles, Answer, AnswerWith
<1>16. CASE HandleTransfer
  BY <1>16, TransferKept
<1>17. CASE DoMove
  BY <1>17, DoMoveKept
<1>18. CASE CopyDirectory
  BY <1>18, CopyDirectoryKept
<1>19. CASE CopyFile
  BY <1>19, CopyFileKept
<1>20. CASE CopyBlock
  BY <1>20, CopyBlockKept
<1>21. CASE CopyEnds
  <2>1. out = NoOut /\ todo = <<>>
    BY <1>21 DEF CopyEnds
  <2> QED BY <1>21, <2>1, AnsweredKept DEF CopyEnds, Answer, AnswerWith, TypeInv
<1>22. CASE CopyUnreadable
  <2>1. req' = req /\ card' = card /\ todo' = <<>> /\ out' = NoOut /\ pc' = "answered"
    BY <1>22 DEF CopyUnreadable, CopyFails, Answer, AnswerWith
  <2> QED BY <2>1, AnsweredKept DEF TypeInv
<1> HIDE DEF Stages
<1> QED BY <1>1, <1>2, <1>3, <1>4, <1>5, <1>6, <1>7, <1>8, <1>9, <1>10, <1>11, <1>12, <1>13,
           <1>14, <1>15, <1>16, <1>17, <1>18, <1>19, <1>20, <1>21, <1>22 DEF Serves

LEMMA TrackOK ==
  ASSUME NEW c, IsCard(c), OpenInv
  PROVE  Track(c).size \in Nat /\ Track(c).data \in Seq(Blocks)
<1>1. CASE \E p \in DOMAIN c : c[p].open
  <2>1. PICK p \in DOMAIN c : p = CHOOSE q \in DOMAIN c : c[q].open
    BY <1>1
  <2>2. c[p].data \in Seq(Blocks)
    BY DEF IsCard, Nodes
  <2>3. Track(c) = [handle EXCEPT !.data = c[p].data]
    BY <1>1, <2>1 DEF Track
  <2> QED BY <2>2, <2>3 DEF OpenInv
<1>2. CASE ~\E p \in DOMAIN c : c[p].open
  BY <1>2 DEF Track, OpenInv
<1> QED BY <1>1, <1>2

LEMMA WorkerStage ==
  ASSUME Worker
  PROVE  pc # "none" /\ pc' # "none"
<1>1. CASE TestActive \/ SelectTimesOut \/ (\E r \in Requests : Accept(r)) \/ Close
  BY <1>1 DEF TestActive, SelectTimesOut, Accept, Close
<1>2. CASE Serves
  <2>1. CASE Refuse \/ HandleOptions \/ HandleLock \/ HandlePage \/ HandlePropfind \/ HandleFiles
    BY <2>1 DEF Refuse, HandleOptions, HandleLock, HandlePage, HandlePropfind, HandleFiles,
                Handles, Answer, AnswerWith
  <2>2. CASE HandleDownload \/ HandleDownloadHead
    BY <2>2 DEF HandleDownload, HandleDownloadHead, NotAFile, Handles, Answer, AnswerWith
  <2>3. CASE HandleUpload \/ HandlePut \/ WriteBody
    BY <2>3 DEF HandleUpload, HandlePut, WriteBody, Handles, Answer, AnswerWith
  <2>4. CASE HandleMkdir \/ HandleMkcol \/ HandleRename \/ HandleMove \/ HandleDelete
    BY <2>4 DEF HandleMkdir, HandleMkcol, HandleRename, HandleMove, HandleDelete, Makes, Renames,
                Handles, Answer, AnswerWith
  <2>5. CASE HandleTransferRefused \/ HandleTransfer
    BY <2>5 DEF HandleTransferRefused, HandleTransfer, Handles, Answer, AnswerWith
  <2>6. CASE DoMove \/ CopyUnreadable \/ CopyEnds
    BY <2>6 DEF DoMove, CopyUnreadable, CopyFails, CopyEnds, Copying, Answer, AnswerWith
  <2>7. CASE CopyDirectory
    BY <2>7 DEF CopyDirectory, CopyFails, Copying, Answer, AnswerWith
  <2>8. CASE CopyFile
    BY <2>8 DEF CopyFile, CopyFails, Copying, Answer, AnswerWith
  <2>9. CASE CopyBlock
    BY <2>9 DEF CopyBlock, CopyFails, Copying, Answer, AnswerWith
  <2> QED BY <1>2, <2>1, <2>2, <2>3, <2>4, <2>5, <2>6, <2>7, <2>8, <2>9 DEF Serves
<1> QED BY <1>1, <1>2 DEF Worker

LEMMA WorkerTypeInv ==
  ASSUME TypeInv, Worker
  PROVE  TypeInv' /\ Kept
<1>1. Kept
  <2>1. CASE TestActive
    BY <2>1, QuietKept DEF TestActive, Stages
  <2>2. CASE SelectTimesOut
    BY <2>2, QuietKept DEF SelectTimesOut, Stages
  <2>3. CASE \E r \in Requests : Accept(r)
    BY <2>3, AcceptKept
  <2>4. CASE Close
    BY <2>4, QuietKept DEF Close, Stages
  <2>5. CASE Serves
    BY <2>5, ServesKept
  <2> QED BY <2>1, <2>2, <2>3, <2>4, <2>5 DEF Worker
<1>2. /\ handle' = Track(card') /\ fw' = fw /\ running' = running /\ active' = active
      /\ listening' = listening
  BY DEF Worker
<1>3. Track(card').size \in Nat /\ Track(card').data \in Seq(Blocks)
  BY <1>1, TrackOK DEF Kept, TypeInv
<1>4. OpenInv'
  BY <1>1, <1>2, <1>3 DEF TypeInv, OpenInv, Kept
<1>5. RunInv'
  BY <1>2, WorkerStage DEF TypeInv, RunInv
<1> QED BY <1>1, <1>4, <1>5 DEF Kept, TypeInv

-----------------------------------------------------------------------------
(***************************************************************************)
(* The firmware only marks files: what is on the card stays alike.         *)
(***************************************************************************)
Alike(c, d) ==
  /\ DOMAIN d = DOMAIN c
  /\ \A q \in DOMAIN c : d[q].dir = c[q].dir /\ d[q].data = c[q].data

LEMMA AlikeIsCard ==
  ASSUME NEW c, IsCard(c), NEW d, Alike(c, d), d = [q \in DOMAIN d |-> d[q]],
         \A q \in DOMAIN d : d[q] \in Nodes
  PROVE  IsCard(d)
<1>1. d \in [DOMAIN d -> Nodes]
  OBVIOUS
<1>2. IsDir(d, Root) /\ \A q \in DOMAIN d \ {Root} : IsDir(d, Front(q))
  BY DEF Alike, IsCard, IsDir, Has
<1>3. DOMAIN d \subseteq Paths /\ \A q \in DOMAIN d : d[q].dir => d[q].data = <<>>
  BY DEF Alike, IsCard
<1> QED BY ONLY <1>1, <1>2, <1>3 DEF IsCard

LEMMA ReadOpensOK ==
  ASSUME TypeInv, NEW p \in Named, ReadOpens(p)
  PROVE  TypeInv' /\ Alike(card, card')
<1> DEFINE new == [card[p] EXCEPT !.open = TRUE]
<1>1. /\ IsCard(card) /\ NoneOpen(card) /\ p \in DOMAIN card /\ ~card[p].dir
      /\ card' = [card EXCEPT ![p] = new]
      /\ handle' = [size |-> Len(card[p].data), data |-> card[p].data]
      /\ fw = "idle" /\ fw' = "reading" /\ UNCHANGED server
  BY DEF TypeInv, OpenInv, ReadOpens, Has
<1>2. card[p] \in Nodes
  BY <1>1 DEF IsCard
<1>3. /\ new \in Nodes /\ new.dir = card[p].dir /\ new.data = card[p].data
      /\ card[p].data \in Seq(Blocks)
  BY <1>2 DEF Nodes
<1> HIDE DEF new
<1>4. /\ DOMAIN card' = DOMAIN card /\ card' = [q \in DOMAIN card' |-> card'[q]]
      /\ \A q \in DOMAIN card : card'[q] = IF q = p THEN new ELSE card[q]
  BY <1>1
<1>5. Alike(card, card') /\ \A q \in DOMAIN card' : card'[q] \in Nodes
  BY <1>1, <1>3, <1>4 DEF Alike, IsCard
<1>6. IsCard(card')
  BY <1>1, <1>4, <1>5, AlikeIsCard
<1>7. OneOpen(card')
  BY <1>1, <1>4 DEF NoneOpen, OneOpen
<1>8. OpenInv'
  BY <1>1, <1>3, <1>7 DEF OpenInv
<1>9. /\ out' = out /\ todo' = todo /\ pc' = pc /\ req' = req /\ running' = running
      /\ active' = active /\ listening' = listening
  BY <1>1 DEF server
<1>10. WorkInv'
  BY <1>5, <1>9 DEF TypeInv, WorkInv, Fitting, Fits, Under, Alike, Has
<1> QED BY <1>1, <1>5, <1>6, <1>8, <1>9, <1>10 DEF TypeInv, RunInv

LEMMA ReturnsOK ==
  ASSUME TypeInv, NEW call, NEW text, Returns(call, text)
  PROVE  TypeInv' /\ Alike(card, card')
<1>1. /\ IsCard(card) /\ fw = "reading" /\ fw' = "idle" /\ handle' = NoHandle
      /\ card' = [q \in DOMAIN card |-> [card[q] EXCEPT !.open = FALSE]]
      /\ UNCHANGED server
  BY DEF TypeInv, Returns
<1>2. \A q \in DOMAIN card : card[q] \in Nodes
  BY <1>1 DEF IsCard
<1>3. /\ DOMAIN card' = DOMAIN card /\ card' = [q \in DOMAIN card' |-> card'[q]]
      /\ \A q \in DOMAIN card : card'[q] = [card[q] EXCEPT !.open = FALSE]
  BY <1>1
<1>4. \A q \in DOMAIN card : /\ card'[q] \in Nodes /\ ~card'[q].open
                             /\ card'[q].dir = card[q].dir /\ card'[q].data = card[q].data
  BY <1>2, <1>3 DEF Nodes
<1>5. Alike(card, card') /\ IsCard(card') /\ NoneOpen(card')
  BY <1>1, <1>3, <1>4, AlikeIsCard DEF Alike, NoneOpen
<1>6. OpenInv'
  BY <1>1, <1>5, EmptySeq DEF OpenInv, NoHandle
<1>7. /\ out' = out /\ todo' = todo /\ pc' = pc /\ req' = req /\ running' = running
      /\ active' = active /\ listening' = listening
  BY <1>1 DEF server
<1>8. WorkInv'
  BY <1>5, <1>7 DEF TypeInv, WorkInv, Fitting, Fits, Under, Alike, Has
<1> QED BY <1>1, <1>5, <1>6, <1>7, <1>8 DEF TypeInv, RunInv

LEMMA AlikeSelf == \A c : Alike(c, c)
BY DEF Alike

(***************************************************************************)
(* Begin and stop(), and the walk, leave the card as it is; stop() has     *)
(* joined the worker before another begin() can start one.                 *)
(***************************************************************************)
LEMMA FirmwareTypeInv ==
  ASSUME TypeInv, Firmware
  PROVE  TypeInv' /\ Alike(card, card')
<1>1. ASSUME Begin \/ StopJoins PROVE TypeInv' /\ card' = card
  <2>1. CASE Begin
    <3>1. pc = "none"
      BY <2>1 DEF Begin, TypeInv, RunInv
    <3>2. Kept
      BY <2>1, <3>1, QuietKept DEF Begin, Stages
    <3> QED BY <3>2, <2>1 DEF Kept, TypeInv, OpenInv, RunInv, Begin, firmware
  <2>2. CASE StopJoins
    <3>1. Kept
      BY <2>2, QuietKept DEF StopJoins, Stages
    <3> QED BY <3>1, <2>2 DEF Kept, TypeInv, OpenInv, RunInv, StopJoins
  <2> QED BY <1>1, <2>1, <2>2
<1>2. ASSUME StopTakes \/ StopCloses PROVE TypeInv' /\ card' = card
  <2>1. WorkInv' /\ card' = card
    BY <1>2 DEF TypeInv, WorkInv, Fitting, StopTakes, StopCloses
  <2> QED BY <1>2, <2>1 DEF TypeInv, OpenInv, RunInv, StopTakes, StopCloses
<1>3. ASSUME WalkOpens \/ WalkNext \/ WalkEnds \/ WalkLeaves \/ WalkReturns \/ WalkForgotten
      PROVE  TypeInv' /\ card' = card
  <2>1. card' = card /\ UNCHANGED server /\ handle' = handle
    BY <1>3 DEF WalkOpens, WalkNext, WalkEnds, WalkLeaves, WalkReturns, WalkForgotten
  <2>3. /\ fw \notin {"reading", "stopping", "joining"}
        /\ fw' \notin {"reading", "stopping", "joining"}
    <3>1. CASE WalkOpens \/ WalkEnds \/ WalkLeaves \/ WalkForgotten
      BY <3>1 DEF WalkOpens, WalkEnds, WalkLeaves, WalkForgotten
    <3>2. CASE WalkNext
      BY <3>2 DEF WalkNext
    <3>3. CASE WalkReturns
      BY <3>3 DEF WalkReturns
    <3> QED BY <1>3, <3>1, <3>2, <3>3
  <2>2. WorkInv' /\ RunInv' /\ OpenInv'
    BY <2>1, <2>3 DEF TypeInv, WorkInv, Fitting, RunInv, OpenInv, server
  <2> QED BY <2>1, <2>2 DEF TypeInv
<1> QED BY <1>1, <1>2, <1>3, ReadOpensOK, ReturnsOK, AlikeSelf
        DEF Firmware, ReadFile, ReadFileToString

LEMMA TypeInvStep ==
  ASSUME TypeInv, [Next]_vars
  PROVE  TypeInv'
<1>1. CASE Worker
  BY <1>1, WorkerTypeInv
<1>2. CASE Firmware
  BY <1>2, FirmwareTypeInv
<1>3. CASE UNCHANGED vars
  <2>1. /\ card' = card /\ out' = out /\ todo' = todo /\ pc' = pc /\ req' = req
        /\ running' = running /\ active' = active /\ listening' = listening
        /\ fw' = fw /\ handle' = handle
    BY <1>3 DEF vars, server, firmware
  <2>2. WorkInv' /\ RunInv' /\ OpenInv'
    BY <2>1 DEF TypeInv, WorkInv, Fitting, RunInv, OpenInv
  <2> QED BY <2>1, <2>2 DEF TypeInv
<1> QED BY <1>1, <1>2, <1>3 DEF Next

LEMMA TypeInvHolds == Spec => []TypeInv
<1> QED BY TypeInvInit, TypeInvStep, PTL DEF Spec

(***************************************************************************)
(* The card stays one that a host's file system can hold, whatever the     *)
(* requests do to it and wherever they fail; a half-written file and a     *)
(* pending copy exist only within a request; the firmware holds at most    *)
(* one file open, and only while it reads.                                 *)
(***************************************************************************)
THEOREM TypeCorrect == Spec => []TypeOK
<1>1. TypeInv => TypeOK
  <2> SUFFICES ASSUME TypeInv PROVE TypeOK
    OBVIOUS
  <2> DEFINE held == {p \in DOMAIN card : card[p].open}
  <2>1. fw = "reading" => \A q, r \in held : q = r
    BY DEF TypeInv, OpenInv, OneOpen
  <2>2. fw # "reading" => held = {}
    BY DEF TypeInv, OpenInv, NoneOpen
  <2>3. Cardinality(held) <= (IF fw = "reading" THEN 1 ELSE 0)
    <3> HIDE DEF held
    <3>1. Cardinality({}) = 0 /\ \A q : Cardinality({q}) = 1
      BY FS_EmptySet, FS_Singleton
    <3>2. CASE held = {}
      BY <3>1, <3>2
    <3>3. CASE held # {}
      <4>1. PICK q \in held : TRUE
        BY <3>3
      <4>2. fw = "reading" /\ held = {q}
        BY <4>1, <2>1, <2>2, <3>3
      <4> QED BY <3>1, <4>2
    <3> QED BY <3>2, <3>3
  <2>4. /\ pc \in {"none", "loop", "select", "handle", "write", "transfer", "answered", "ended"}
        /\ out.kind # "none" => pc \in {"write", "transfer"}
        /\ todo # <<>> => pc = "transfer"
    BY NoOutKind DEF TypeInv, WorkInv, Stages
  <2>5. IsCard(card) /\ (running => active /\ listening)
    BY DEF TypeInv, RunInv
  <2> QED BY <2>3, <2>4, <2>5 DEF TypeOK
<1> QED BY <1>1, TypeInvHolds, PTL

(***************************************************************************)
(* readFileToString's buffer is of the size the file had when it was       *)
(* opened, and it is returned only when the file, whatever the worker made *)
(* of it since, still filled it.                                           *)
(***************************************************************************)
LEMMA BufferIsRead ==
  ASSUME TypeInv, handle.size <= Len(handle.data)
  PROVE  IsPrefix(Buffer, handle.data)
<1>1. handle.size \in Nat /\ handle.data \in Seq(Blocks) /\ Len(handle.data) \in Nat
  BY DEF TypeInv, OpenInv
<1>2. \A i \in 1 .. handle.size : handle.data[i] \in Blocks
  BY <1>1, ElementOfSeq
<1>3. Buffer = [i \in 1 .. handle.size |-> handle.data[i]]
  BY <1>1 DEF Buffer
<1>4. /\ Buffer \in Seq(Blocks) /\ Len(Buffer) = handle.size
      /\ \A i \in 1 .. handle.size : Buffer[i] = handle.data[i]
  BY <1>1, <1>2, <1>3
<1> HIDE DEF Buffer
<1> QED BY <1>1, <1>4, PrefixPoints

(***************************************************************************)
(* HalStorage::readFileToString takes the file's size and then reads:      *)
(* whatever the worker truncates, replaces or removes in between, what it  *)
(* returns are bytes that were in the file when it read.                   *)
(***************************************************************************)
GotInv == got = [call |-> got.call, text |-> got.text, last |-> got.last] /\ ReadsRealBytes

THEOREM ReadIsReal == Spec => []ReadsRealBytes
<1>1. Init => GotInv
  BY DEF Init, GotInv, ReadsRealBytes, NoText
<1>2. ASSUME TypeInv, GotInv, [Next]_vars PROVE GotInv'
  <2>1. CASE got' = got
    BY <1>2, <2>1 DEF GotInv, ReadsRealBytes
  <2>2. CASE \E p \in Named : ReadOpens(p)
    BY <2>2 DEF ReadOpens, GotInv, ReadsRealBytes, NoText
  <2>3. ASSUME NEW call, NEW text, Returns(call, text),
               call = "readFileToString" => IsPrefix(text, handle.data)
        PROVE  GotInv'
    <3>1. got' = [call |-> call, text |-> text, last |-> handle.data]
      BY <1>2, <2>3 DEF Returns, GotInv
    <3> QED BY <3>1, <2>3 DEF GotInv, ReadsRealBytes
  <2>4. CASE ReadFile
    BY <2>4, <2>3 DEF ReadFile
  <2>5. CASE ReadFileToString
    <3>1. handle.data \in Seq(Blocks) /\ handle.size \in Nat /\ Len(handle.data) \in Nat
      BY <1>2 DEF TypeInv, OpenInv
    <3>2. IsPrefix(<<>>, handle.data)
      BY <3>1, PrefixOrder
    <3>3. handle.size <= Len(handle.data) => IsPrefix(Buffer, handle.data)
      BY <1>2, BufferIsRead
    <3> QED BY <2>3, <2>5, <3>1, <3>2, <3>3 DEF ReadFileToString
  <2>6. CASE Worker \/ UNCHANGED vars \/ Begin \/ StopTakes \/ StopCloses \/ StopJoins
             \/ WalkOpens \/ WalkNext \/ WalkEnds \/ WalkLeaves \/ WalkReturns \/ WalkForgotten
    <3>1. got' = got
      BY <2>6 DEF Worker, vars, firmware, Begin, StopTakes, StopCloses, StopJoins, WalkOpens,
                  WalkNext, WalkEnds, WalkLeaves, WalkReturns, WalkForgotten
    <3> QED BY <2>1, <3>1
  <2> QED BY <1>2, <2>2, <2>4, <2>5, <2>6 DEF Next, Firmware
<1>3. GotInv => ReadsRealBytes
  BY DEF GotInv
<1> QED BY <1>1, <1>2, <1>3, TypeInvHolds, PTL DEF Spec

-----------------------------------------------------------------------------
(***************************************************************************)
(* What is stored below a path, and when two cards store the same there.   *)
(***************************************************************************)
SameAt(c, p, d, r) ==
  \A s \in Path :
    /\ Has(c, Join(p, s)) <=> Has(d, Join(r, s))
    /\ Has(c, Join(p, s)) => /\ c[Join(p, s)].dir = d[Join(r, s)].dir
                             /\ c[Join(p, s)].data = d[Join(r, s)].data

LEMMA StoredIs ==
  ASSUME NEW c, DOMAIN c \subseteq Path, NEW p \in Path
  PROVE  Stored(c, p) = [s \in {t \in Path : Has(c, Join(p, t))} |->
                           [dir |-> c[Join(p, s)].dir, data |-> c[Join(p, s)].data]]
<1> DEFINE rests == {SubSeq(r, Len(p) + 1, Len(r)) : r \in Under(c, p)}
           below == {t \in Path : Has(c, Join(p, t))}
<1>1. \A s \in Path : SubSeq(Join(p, s), Len(p) + 1, Len(Join(p, s))) = s
  BY RestOfConcat DEF Path, Join
<1>2. ASSUME NEW s \in below PROVE s \in rests
  <2>1. Join(p, s) \in Under(c, p)
    BY PathJoin DEF Under, Has
  <2> QED BY <2>1, <1>1
<1>3. ASSUME NEW r \in Under(c, p)
      PROVE  SubSeq(r, Len(p) + 1, Len(r)) \in below
  <2>1. r \in Path /\ r \in DOMAIN c /\ IsPrefix(p, r)
    BY DEF Under
  <2>2. PICK s \in Path : r = Join(p, s)
    BY <2>1, PathJoin
  <2> QED BY <2>1, <2>2, <1>1 DEF Has
<1>4. rests = below
  BY <1>2, <1>3
<1> HIDE DEF rests, below
<1>5. Stored(c, p) = [s \in rests |-> [dir |-> c[Join(p, s)].dir, data |-> c[Join(p, s)].data]]
  BY DEF Stored, Join, rests
<1> QED BY <1>4, <1>5 DEF below

LEMMA SameStored ==
  ASSUME NEW c, DOMAIN c \subseteq Path, NEW d, DOMAIN d \subseteq Path,
         NEW p \in Path, NEW r \in Path, SameAt(c, p, d, r)
  PROVE  Stored(c, p) = Stored(d, r)
<1> DEFINE inC == {t \in Path : Has(c, Join(p, t))}
           inD == {t \in Path : Has(d, Join(r, t))}
           sc(s) == [dir |-> c[Join(p, s)].dir, data |-> c[Join(p, s)].data]
           sd(s) == [dir |-> d[Join(r, s)].dir, data |-> d[Join(r, s)].data]
<1>1. Stored(c, p) = [s \in inC |-> sc(s)] /\ Stored(d, r) = [s \in inD |-> sd(s)]
  BY StoredIs
<1>2. inC = inD
  BY DEF SameAt
<1>3. \A s \in inC : sc(s) = sd(s)
  BY DEF SameAt
<1> HIDE DEF inC, inD, sc, sd
<1> QED BY <1>1, <1>2, <1>3

LEMMA SameOrder ==
  /\ \A c, p : SameAt(c, p, c, p)
  /\ \A b, c, d, p, q, r : SameAt(b, p, c, q) /\ SameAt(c, q, d, r) => SameAt(b, p, d, r)
  /\ \A c, d, p : Alike(c, d) => SameAt(c, p, d, p)
  /\ \A b, c, d : Alike(b, c) /\ Alike(c, d) => Alike(b, d)
BY DEF SameAt, Alike, Has

LEMMA SameRoot ==
  ASSUME NEW c, NEW d, NEW p \in Path, NEW r \in Path, SameAt(c, p, d, r)
  PROVE  /\ Has(c, p) <=> Has(d, r)
         /\ Has(c, p) => c[p].dir = d[r].dir /\ c[p].data = d[r].data
BY JoinRoot DEF SameAt

LEMMA SameWhere ==
  ASSUME NEW c, NEW d, NEW p \in Path,
         \A q \in Path : IsPrefix(p, q) =>
           /\ q \in DOMAIN c <=> q \in DOMAIN d
           /\ q \in DOMAIN c => c[q].dir = d[q].dir /\ c[q].data = d[q].data
  PROVE  SameAt(c, p, d, p)
BY PathJoin DEF SameAt, Has

(***************************************************************************)
(* What is apart from a path is not touched by what is done there.         *)
(***************************************************************************)
Apart(p, q) == ~IsPrefix(p, q) /\ ~IsPrefix(q, p)

LEMMA ApartBelow ==
  \A p, q, r \in Path : Apart(p, q) /\ IsPrefix(p, r) => ~IsPrefix(q, r) /\ ~IsPrefix(r, q)
BY PathOrder DEF Apart

LEMMA ParentsSame ==
  ASSUME NEW c, IsCard(c), NEW p \in Path, NEW to \in Path \ {Root}, ~IsStrictPrefix(p, to)
  PROVE  SameAt(c, p, EnsureParents(c, to), p)
<1> DEFINE e == EnsureParents(c, to)
<1>1. /\ DOMAIN c \subseteq DOMAIN e /\ \A q \in DOMAIN c : e[q] = c[q]
      /\ \A q \in DOMAIN e \ DOMAIN c : IsPrefix(q, to) /\ q # to
  BY EnsureParentsIs
<1>2. \A q \in Path : IsPrefix(p, q) /\ IsPrefix(q, to) => q = to
  BY PathOrder
<1> HIDE DEF e
<1>3. SameAt(c, p, e, p)
  BY <1>1, <1>2, SameWhere
<1> QED BY <1>3 DEF e

LEMMA RemovedSame ==
  ASSUME NEW c, IsCard(c), NEW p \in Path, NEW to \in Path \ {Root}, Apart(p, to)
  PROVE  SameAt(c, p, RemoveTree(c, to), p)
<1> DEFINE d == RemoveTree(c, to)
<1>1. /\ DOMAIN d \subseteq DOMAIN c /\ \A q \in DOMAIN d : d[q] = c[q]
      /\ \A q \in DOMAIN c : ~IsPrefix(to, q) => q \in DOMAIN d
  BY RemoveTreeIs
<1> HIDE DEF d
<1>2. SameAt(c, p, d, p)
  BY <1>1, ApartBelow, SameWhere
<1> QED BY <1>2 DEF d

LEMMA RenamedSame ==
  ASSUME NEW c, IsCard(c), NEW p \in Path \ {Root}, NEW to \in Path \ {Root},
         ~IsStrictPrefix(p, to)
  PROVE  LET d == Rename(c, p, to) IN
         IF RenameOk(c, p, to) THEN Has(c, p) /\ SameAt(c, p, d, to) ELSE SameAt(c, p, d, p)
<1> DEFINE d == Rename(c, p, to)
<1>1. CASE RenameOk(c, p, to)
  <2>1. Renamed(c, p, to, d)
    BY <1>1, RenameShape
  <2> HIDE DEF d
  <2>2. Has(c, p) /\ SameAt(c, p, d, to)
    BY <2>1 DEF Renamed, SameAt
  <2> QED BY <2>2, <1>1 DEF d
<1>2. CASE ~RenameOk(c, p, to)
  BY <1>2, ParentsSame DEF Rename
<1> QED BY <1>1, <1>2

-----------------------------------------------------------------------------
(***************************************************************************)
(* What the worker has made of the source of a move, as it goes along: the *)
(* history variable "before" is what the card was when the request came.   *)
(***************************************************************************)
Moves == req.method \in Renaming /\ ~IsStrictPrefix(req.path, req.to)
           /\ (req.method = "MOVE" => ~IsPrefix(req.to, req.path))

MoveInv ==
  /\ pc \in {"handle", "write", "transfer", "answered"} => IsCard(before)
  /\ pc = "handle" => Alike(before, card)
  /\ pc = "write" => req.method \notin Renaming
  /\ (pc = "transfer" /\ Moves) => SameAt(before, req.path, card, req.path)
  /\ (pc = "answered" /\ Moves) =>
       IF reply = "done"
       THEN Has(before, req.path) /\ SameAt(before, req.path, card, req.to)
       ELSE SameAt(before, req.path, card, req.path)

LEMMA MovesAre ==
  ASSUME TypeInv, Moves
  PROVE  /\ req.path \in Path /\ req.to \in Path \ {Root} /\ req.path \in Path \ {Root}
         /\ req.method = "MOVE" => Apart(req.path, req.to)
<1>1. req.path \in Path \ {Root} /\ req.to \in Path \ {Root}
  BY DEF TypeInv, WorkInv, ReqOK, Moves, ToWrites, PathWrites, Renaming
<1>2. req.method = "MOVE" => ~IsPrefix(req.to, req.path) /\ req.path # req.to
  BY <1>1, PathOrder DEF Moves
<1> QED BY <1>1, <1>2 DEF Moves, Apart, IsStrictPrefix

LEMMA OtherAnswers ==
  ASSUME TypeInv, MoveInv, req' = req, before' = before,
         pc \in {"handle", "write", "transfer", "answered"},
         pc' \in {"write", "transfer", "answered"}, req.method \notin Renaming
  PROVE  MoveInv'
BY DEF MoveInv, Moves

LEMMA RenamesMoveInv ==
  ASSUME TypeInv, MoveInv, pc = "handle", Renames
  PROVE  MoveInv'
<1>1. /\ card' = Rename(card, req.path, req.to) /\ pc' = "answered" /\ req' = req
      /\ before' = before /\ reply' = Outcome(RenameOk(card, req.path, req.to))
  BY DEF Renames, Answer, AnswerWith
<1>2. IsCard(before) /\ IsCard(card) /\ SameAt(before, req.path, card, req.path)
      /\ (Has(card, req.path) => Has(before, req.path))
  BY SameOrder DEF MoveInv, TypeInv, Alike, Has
<1>3. CASE Moves
  <2>1. IF RenameOk(card, req.path, req.to)
        THEN Has(card, req.path) /\ SameAt(card, req.path, card', req.to)
        ELSE SameAt(card, req.path, card', req.path)
    BY <1>1, <1>2, <1>3, MovesAre, RenamedSame DEF Moves
  <2>2. reply' = "done" <=> RenameOk(card, req.path, req.to)
    BY <1>1 DEF Outcome
  <2>3. IF reply' = "done"
        THEN Has(before, req.path) /\ SameAt(before, req.path, card', req.to)
        ELSE SameAt(before, req.path, card', req.path)
    BY <2>1, <2>2, <1>2, SameOrder
  <2> QED BY <2>3, <1>1, <1>2 DEF MoveInv
<1>4. CASE ~Moves
  BY <1>1, <1>2, <1>4 DEF MoveInv, Moves
<1> QED BY <1>3, <1>4

LEMMA DoMoveMoveInv ==
  ASSUME TypeInv, MoveInv, DoMove
  PROVE  MoveInv'
<1>1. /\ card' = Rename(card, req.path, req.to) /\ pc' = "answered" /\ req' = req
      /\ before' = before /\ reply' = Outcome(RenameOk(card, req.path, req.to))
      /\ pc = "transfer"
  BY DEF DoMove, Answer, AnswerWith
<1>2. IsCard(before) /\ IsCard(card)
  BY <1>1 DEF MoveInv, TypeInv
<1>3. CASE Moves
  <2>1. IF RenameOk(card, req.path, req.to)
        THEN Has(card, req.path) /\ SameAt(card, req.path, card', req.to)
        ELSE SameAt(card, req.path, card', req.path)
    BY <1>1, <1>2, <1>3, MovesAre, RenamedSame DEF Moves
  <2>2. reply' = "done" <=> RenameOk(card, req.path, req.to)
    BY <1>1 DEF Outcome
  <2>3. SameAt(before, req.path, card, req.path)
    BY <1>1, <1>3 DEF MoveInv
  <2>4. Has(card, req.path) => Has(before, req.path)
    BY <2>3, <1>3, MovesAre, SameRoot
  <2>5. IF reply' = "done"
        THEN Has(before, req.path) /\ SameAt(before, req.path, card', req.to)
        ELSE SameAt(before, req.path, card', req.path)
    BY <2>1, <2>2, <2>3, <2>4, SameOrder
  <2> QED BY <2>5, <1>1, <1>2 DEF MoveInv
<1>4. CASE ~Moves
  BY <1>1, <1>2, <1>4 DEF MoveInv, Moves
<1> QED BY <1>3, <1>4

LEMMA TransferMoveInv ==
  ASSUME TypeInv, MoveInv, HandleTransfer
  PROVE  MoveInv'
<1>1. /\ card' = RemoveTree(card, req.to) /\ req' = req /\ before' = before /\ pc = "handle"
      /\ req.method \in {"MOVE", "COPY"}
  BY DEF HandleTransfer, Handles
<1>2. pc' = "transfer" \/ (pc' = "answered" /\ reply' = "failed")
  BY DEF HandleTransfer, Answer, AnswerWith
<1>3. IsCard(before) /\ IsCard(card) /\ SameAt(before, req.path, card, req.path)
  BY <1>1, SameOrder DEF MoveInv, TypeInv
<1>4. Moves => SameAt(before, req.path, card', req.path)
  <2> SUFFICES ASSUME Moves PROVE SameAt(before, req.path, card', req.path)
    OBVIOUS
  <2>1. req.method = "MOVE"
    BY <1>1 DEF Moves, Renaming
  <2>2. SameAt(card, req.path, card', req.path)
    BY <2>1, <1>1, <1>3, MovesAre, RemovedSame
  <2> QED BY <2>2, <1>3, SameOrder
<1> QED BY <1>1, <1>2, <1>3, <1>4 DEF MoveInv, Moves

LEMMA StayMoveInv ==
  ASSUME TypeInv, MoveInv, card' = card, req' = req, before' = before,
         pc = "handle", pc' = "answered", reply' # "done" \/ req.method \notin Renaming
  PROVE  MoveInv'
<1>1. IsCard(before) /\ SameAt(before, req.path, card, req.path)
  BY SameOrder DEF MoveInv
<1> QED BY <1>1 DEF MoveInv, Moves

LEMMA ServesMoveInv ==
  ASSUME TypeInv, MoveInv, Serves
  PROVE  MoveInv'
<1>1. CASE Refuse
  BY <1>1, StayMoveInv DEF Refuse, Answer, AnswerWith
<1>2. CASE HandleOptions \/ HandleLock \/ HandlePage \/ HandlePropfind \/ HandleFiles
  BY <1>2, OtherAnswers DEF HandleOptions, HandleLock, HandlePage, HandlePropfind, HandleFiles,
       ReadsOnly, Handles, Answer, AnswerWith, Renaming
<1>3. CASE HandleDownload \/ HandleDownloadHead
  BY <1>3, OtherAnswers DEF HandleDownload, HandleDownloadHead, NotAFile, ReadsOnly, Handles,
       Answer, AnswerWith, Renaming
<1>4. CASE HandleUpload \/ HandlePut
  BY <1>4, OtherAnswers DEF HandleUpload, HandlePut, Handles, Renaming
<1>5. CASE WriteBody
  BY <1>5, OtherAnswers DEF WriteBody, Answer, AnswerWith, MoveInv
<1>6. CASE HandleMkdir \/ HandleMkcol
  BY <1>6, OtherAnswers DEF HandleMkdir, HandleMkcol, Makes, Handles, Answer, AnswerWith, Renaming
<1>7. CASE HandleRename \/ HandleMove
  BY <1>7, RenamesMoveInv DEF HandleRename, HandleMove, Handles
<1>8. CASE HandleDelete
  BY <1>8, OtherAnswers DEF HandleDelete, Handles, Answer, AnswerWith, Renaming
<1>9. CASE HandleTransferRefused
  BY <1>9, StayMoveInv DEF HandleTransferRefused, Handles, Answer, AnswerWith
<1>10. CASE HandleTransfer
  BY <1>10, TransferMoveInv
<1>11. CASE DoMove
  BY <1>11, DoMoveMoveInv
<1>12. CASE CopyUnreadable \/ CopyDirectory \/ CopyFile \/ CopyBlock \/ CopyEnds
  <2>1. /\ pc = "transfer" /\ req.method = "COPY" /\ req' = req /\ before' = before
    BY <1>12 DEF CopyUnreadable, CopyDirectory, CopyFile, CopyBlock, CopyEnds, Copying
  <2>2. pc' \in {"transfer", "answered"}
    <3>1. CASE CopyDirectory
      BY <3>1, <2>1 DEF CopyDirectory, CopyFails, Answer, AnswerWith
    <3>2. CASE CopyFile
      BY <3>2, <2>1 DEF CopyFile, CopyFails, Answer, AnswerWith
    <3>3. CASE CopyBlock
      BY <3>3, <2>1 DEF CopyBlock, CopyFails, Answer, AnswerWith
    <3>4. CASE CopyUnreadable \/ CopyEnds
      BY <3>4 DEF CopyUnreadable, CopyFails, CopyEnds, Answer, AnswerWith
    <3> QED BY <1>12, <3>1, <3>2, <3>3, <3>4
  <2> QED BY <2>1, <2>2, OtherAnswers DEF Renaming
<1> QED BY <1>1, <1>2, <1>3, <1>4, <1>5, <1>6, <1>7, <1>8, <1>9, <1>10, <1>11, <1>12 DEF Serves

LEMMA MoveInvStep ==
  ASSUME TypeInv, MoveInv, [Next]_vars
  PROVE  MoveInv'
<1>1. CASE Serves
  BY <1>1, ServesMoveInv
<1>2. CASE TestActive \/ SelectTimesOut \/ Close
  BY <1>2 DEF TestActive, SelectTimesOut, Close, MoveInv
<1>3. CASE \E r \in Requests : Accept(r)
  BY <1>3, SameOrder DEF Accept, MoveInv, TypeInv, Alike
<1>4. CASE Firmware \/ UNCHANGED vars
  <2>1. Alike(card, card')
    BY <1>4, FirmwareTypeInv, AlikeSelf DEF vars
  <2>2. \/ pc' \in {"none", "loop"}
        \/ pc' = pc /\ req' = req /\ reply' = reply /\ before' = before
    BY <1>4 DEF Firmware, vars, server, answers, Begin, StopJoins, StopTakes, StopCloses,
         ReadOpens, ReadFile, ReadFileToString, Returns,
         WalkOpens, WalkNext, WalkEnds, WalkLeaves, WalkReturns, WalkForgotten
  <2>3. CASE pc' \in {"none", "loop"}
    BY <2>3 DEF MoveInv
  <2>4. CASE pc' = pc /\ req' = req /\ reply' = reply /\ before' = before
    <3>1. \A p, q : SameAt(before, p, card, q) => SameAt(before, p, card', q)
      BY <2>1, SameOrder
    <3>2. Alike(before, card) => Alike(before, card')
      BY <2>1, SameOrder
    <3> QED BY <2>4, <3>1, <3>2 DEF MoveInv, Moves
  <2> QED BY <2>2, <2>3, <2>4
<1> QED BY <1>1, <1>2, <1>3, <1>4 DEF Next, Worker

(***************************************************************************)
(* An answered MOVE, /move or /rename has the source whole at the          *)
(* destination if it succeeded and where it was if it failed: rename() of  *)
(* a subtree, with the parents made first, on a card where the destination *)
(* may have been removed before.                                           *)
(***************************************************************************)
THEOREM MoveIsWhole == Spec => []MoveKeepsSource
<1>1. Init => MoveInv
  BY DEF Init, MoveInv
<1>2. TypeInv /\ MoveInv => MoveKeepsSource
  <2> SUFFICES ASSUME TypeInv, MoveInv, pc = "answered", Moves
               PROVE  IF reply = "done"
                      THEN Stored(card, req.to) = Stored(before, req.path)
                             /\ Stored(before, req.path) # <<>>
                      ELSE Stored(card, req.path) = Stored(before, req.path)
    BY DEF MoveKeepsSource, Moves, Renaming
  <2>1. DOMAIN card \subseteq Path /\ DOMAIN before \subseteq Path
    BY CardIs DEF TypeInv, MoveInv
  <2>2. CASE reply = "done"
    <3>1. Stored(card, req.to) = Stored(before, req.path)
      BY <2>1, <2>2, MovesAre, SameStored DEF MoveInv
    <3>2. Root \in DOMAIN Stored(before, req.path)
      <4>1. Has(before, Join(req.path, Root)) /\ Root \in Path
        BY <2>2, MovesAre, JoinRoot DEF MoveInv
      <4> DEFINE below == {s \in Path : Has(before, Join(req.path, s))}
                 at(s) == [dir |-> before[Join(req.path, s)].dir,
                           data |-> before[Join(req.path, s)].data]
      <4>2. Stored(before, req.path) = [s \in below |-> at(s)] /\ Root \in below
        BY <4>1, <2>1, MovesAre, StoredIs
      <4> HIDE DEF below, at
      <4> QED BY <4>2
    <3>3. DOMAIN <<>> = {}
      OBVIOUS
    <3> QED BY <2>2, <3>1, <3>2, <3>3
  <2>3. CASE reply # "done"
    BY <2>1, <2>3, MovesAre, SameStored DEF MoveInv
  <2> QED BY <2>2, <2>3
<1> QED BY <1>1, <1>2, MoveInvStep, TypeInvHolds, PTL DEF Spec

-----------------------------------------------------------------------------
(***************************************************************************)
(* Protected names.                                                        *)
(***************************************************************************)
LEMMA ProtectedJoin ==
  \A a, s \in Path : IsProtected(Join(a, s)) <=> IsProtected(a) \/ IsProtected(s)
<1> TAKE a \in Path, s \in Path
<1> DEFINE q == Join(a, s)
<1>1. /\ Len(a) \in Nat /\ Len(s) \in Nat /\ DOMAIN a = 1 .. Len(a) /\ DOMAIN s = 1 .. Len(s)
      /\ DOMAIN q = 1 .. Len(a) + Len(s)
      /\ \A i \in 1 .. Len(a) : q[i] = a[i]
      /\ \A i \in 1 .. Len(s) : q[Len(a) + i] = s[i]
  BY ConcatType DEF Path, Join
<1> HIDE DEF q
<1>2. IsProtected(a) => IsProtected(q)
  BY <1>1 DEF IsProtected
<1>3. ASSUME NEW i \in DOMAIN s, s[i] \in Protected PROVE IsProtected(q)
  <2>1. Len(a) + i \in DOMAIN q /\ q[Len(a) + i] = s[i]
    BY <1>1
  <2> QED BY <2>1, <1>3 DEF IsProtected
<1>4. ASSUME NEW i \in DOMAIN q, q[i] \in Protected PROVE IsProtected(a) \/ IsProtected(s)
  <2>1. CASE i \in 1 .. Len(a)
    BY <2>1, <1>1, <1>4 DEF IsProtected
  <2>2. CASE i \notin 1 .. Len(a)
    <3>1. i - Len(a) \in 1 .. Len(s) /\ q[Len(a) + (i - Len(a))] = s[i - Len(a)]
            /\ Len(a) + (i - Len(a)) = i
      BY <2>2, <1>1
    <3> QED BY <3>1, <1>1, <1>4 DEF IsProtected
  <2> QED BY <2>1, <2>2
<1> QED BY <1>2, <1>3, <1>4 DEF IsProtected, q

LEMMA ProtectedChild ==
  \A a \in Path, x \in Names : IsProtected(Child(a, x)) <=> IsProtected(a) \/ x \in Protected
<1> TAKE a \in Path, x \in Names
<1>1. IsProtected(<<x>>) <=> x \in Protected
  BY DEF IsProtected
<1> QED BY <1>1, JoinChild, ProtectedJoin

LEMMA ProtectedRoot == ~IsProtected(Root)
BY DEF IsProtected, Root

LEMMA ProtectedPrefix ==
  \A a, q \in Path : IsPrefix(a, q) /\ ~IsProtected(q) => ~IsProtected(a)
BY ProtectedJoin, PathJoin

(***************************************************************************)
(* What one operation does to the entries that are protected, and to the   *)
(* blocks that only protected files hold.                                  *)
(***************************************************************************)
Kind(p, i) == p[i] \in Dotted \/ (i = 1 /\ p[1] \in Protected)
Keeps(c, d) ==
  \A p \in DOMAIN c : \A i \in DOMAIN p :
    Kind(p, i) =>
      \E q \in DOMAIN d :
        /\ IF i = 1 THEN q = p
           ELSE IsSuffix(IF p[i] \in Dotted THEN SubSeq(p, i, Len(p)) ELSE p, q)
        /\ d[q] = c[p]
Safe(c, d) == \A p \in DOMAIN c : IsProtected(p) => p \in DOMAIN d /\ d[p] = c[p]
Clean(c) == \A p \in DOMAIN c : IsProtected(p) \/ c[p].data \in Seq(Plain)

LEMMA SuffixIs ==
  ASSUME NEW a \in Path, NEW b \in Path, NEW s \in Path,
         NEW i \in Len(a) + 1 .. Len(Join(a, s))
  PROVE  IsSuffix(SubSeq(Join(a, s), i, Len(Join(a, s))), Join(b, s))
<1> DEFINE p == Join(a, s)
           q == Join(b, s)
           n == Len(p) - i + 1
           t == SubSeq(p, i, Len(p))
<1>1. /\ Len(a) \in Nat /\ Len(b) \in Nat /\ Len(s) \in Nat
      /\ p \in Seq(Names) /\ q \in Seq(Names)
      /\ Len(p) = Len(a) + Len(s) /\ Len(q) = Len(b) + Len(s)
      /\ \A k \in 1 .. Len(s) : p[Len(a) + k] = s[k] /\ q[Len(b) + k] = s[k]
  BY ConcatType DEF Path, Join
<1> HIDE DEF p, q
<1>2. i \in Len(a) + 1 .. Len(p)
  BY DEF p
<1>3. i \in Nat /\ n \in Nat /\ n <= Len(s) /\ i >= 1
  BY <1>1, <1>2
<1>4. \A k \in i .. Len(p) : p[k] \in Names
  BY <1>1, <1>2, ElementOfSeq
<1>5. /\ t \in Seq(Names) /\ Len(t) = n
      /\ \A k \in 1 .. n : t[k] = p[i + k - 1]
  <2>1. i \in Int /\ Len(p) \in Int
    BY <1>1, <1>3
  <2>2. /\ t \in Seq(Names) /\ Len(t) = IF i <= Len(p) THEN Len(p) - i + 1 ELSE 0
        /\ \A k \in 1 .. Len(p) - i + 1 : t[k] = p[i + k - 1]
    BY ONLY <2>1, <1>4, SubSeqProperties
  <2> QED BY <2>2, <1>1, <1>2
<1> HIDE DEF t
<1> DEFINE rt == Reverse(t)
           rq == Reverse(q)
<1>6. rt = [j \in 1 .. n |-> t[n - j + 1]] /\ rq = [j \in 1 .. Len(q) |-> q[Len(q) - j + 1]]
  BY <1>5 DEF Reverse
<1>7. rt \in Seq(Names) /\ Len(rt) = n /\ \A j \in 1 .. n : rt[j] = t[n - j + 1]
  <2>1. \A j \in 1 .. n : n - j + 1 \in 1 .. n
    BY <1>3
  <2>2. \A j \in 1 .. n : t[n - j + 1] \in Names
    BY <2>1, <1>5, ElementOfSeq
  <2> QED BY <2>2, <1>3, <1>6
<1>8. rq \in Seq(Names) /\ Len(rq) = Len(q) /\ \A j \in 1 .. Len(q) : rq[j] = q[Len(q) - j + 1]
  <2>1. Len(q) \in Nat /\ \A j \in 1 .. Len(q) : Len(q) - j + 1 \in 1 .. Len(q)
    BY <1>1
  <2>2. \A j \in 1 .. Len(q) : q[Len(q) - j + 1] \in Names
    BY <2>1, <1>1, ElementOfSeq
  <2> QED BY <2>1, <2>2, <1>6
<1> HIDE DEF rt, rq
<1>9. ASSUME NEW j \in 1 .. n PROVE rt[j] = rq[j]
  <2>1. n - j + 1 \in 1 .. n /\ j \in 1 .. Len(q) /\ Len(s) - j + 1 \in 1 .. Len(s)
    BY <1>1, <1>3
  <2>2. rt[j] = p[i + (n - j + 1) - 1]
    BY <2>1, <1>5, <1>7
  <2>3. i + (n - j + 1) - 1 = Len(a) + (Len(s) - j + 1) /\ Len(q) - j + 1 = Len(b) + (Len(s) - j + 1)
    BY <1>1, <1>3
  <2>4. rq[j] = q[Len(b) + (Len(s) - j + 1)]
    BY <2>1, <2>3, <1>8
  <2> QED BY <2>1, <2>2, <2>3, <2>4, <1>1
<1>10. IsPrefix(rt, rq)
  <2>1. Len(rt) <= Len(rq) /\ \A j \in 1 .. Len(rt) : rt[j] = rq[j]
    BY <1>1, <1>3, <1>7, <1>8, <1>9
  <2> QED BY ONLY <2>1, <1>7, <1>8, PrefixPoints
<1> QED BY <1>10 DEF IsSuffix, rt, rq, t, p, q

LEMMA SafeKeeps ==
  ASSUME NEW c, DOMAIN c \subseteq Path, NEW d, Safe(c, d)
  PROVE  Keeps(c, d)
<1> SUFFICES ASSUME NEW p \in DOMAIN c, NEW i \in DOMAIN p, Kind(p, i)
             PROVE  \E q \in DOMAIN d :
                      /\ IF i = 1 THEN q = p
                         ELSE IsSuffix(IF p[i] \in Dotted THEN SubSeq(p, i, Len(p)) ELSE p, q)
                      /\ d[q] = c[p]
  BY DEF Keeps
<1>1. p \in DOMAIN d /\ d[p] = c[p]
  BY TransferAssumption DEF Kind, Safe, IsProtected
<1>2. i # 1 => p[i] \in Dotted /\ IsSuffix(SubSeq(p, i, Len(p)), p)
  <2>1. Root \in Path /\ p \in Path /\ p = Join(Root, p) /\ Len(Root) = 0
    BY JoinRoot DEF Root
  <2>2. i \in Len(Root) + 1 .. Len(Join(Root, p))
    <3>1. p \in Seq(Names)
      BY <2>1 DEF Path
    <3>2. DOMAIN p = 1 .. Len(p)
      BY <3>1
    <3> QED BY <2>1, <3>2
  <2>3. IsSuffix(SubSeq(Join(Root, p), i, Len(Join(Root, p))), Join(Root, p))
    BY <2>1, <2>2, SuffixIs
  <2> QED BY <2>1, <2>3 DEF Kind
<1> QED BY <1>1, <1>2

LEMMA SafeOrder ==
  ASSUME NEW b, NEW c, NEW d, Safe(b, c), Safe(c, d)
  PROVE  Safe(b, d)
BY DEF Safe

LEMMA MkdirSafe ==
  ASSUME NEW c, IsCard(c), NEW p \in Path
  PROVE  LET d == Mkdir(c, p) IN IsCard(d) /\ Safe(c, d) /\ (Clean(c) => Clean(d))
<1> DEFINE d == Mkdir(c, p)
<1>1. /\ IsCard(d) /\ DOMAIN c \subseteq DOMAIN d /\ \A q \in DOMAIN c : d[q] = c[q]
      /\ \A q \in DOMAIN d \ DOMAIN c : d[q] = DirNode
  BY MkdirIs
<1>2. DirNode.data \in Seq(Plain)
  BY EmptySeq DEF DirNode
<1> HIDE DEF d
<1> QED BY <1>1, <1>2 DEF Safe, Clean, d

LEMMA OpenWriteSafe ==
  ASSUME NEW c, IsCard(c), NEW p \in Path \ {Root}, ~IsProtected(p)
  PROVE  LET d == OpenWrite(c, p) IN Safe(c, d) /\ (Clean(c) => Clean(d))
<1> DEFINE d == OpenWrite(c, p)
<1>1. /\ DOMAIN c \subseteq DOMAIN d
      /\ \A q \in DOMAIN c : q # p => d[q] = c[q]
      /\ \A q \in DOMAIN d \ DOMAIN c : q # p => d[q] = DirNode
      /\ FileOpened(c, p) => d[p].data = <<>>
      /\ ~FileOpened(c, p) /\ Has(d, p) => Has(c, p) /\ d[p] = c[p]
  BY OpenWriteIs
<1>2. DirNode.data \in Seq(Plain) /\ <<>> \in Seq(Plain)
  BY EmptySeq DEF DirNode
<1> HIDE DEF d
<1>3. Safe(c, d)
  BY <1>1 DEF Safe
<1>4. ASSUME Clean(c), NEW q \in DOMAIN d PROVE IsProtected(q) \/ d[q].data \in Seq(Plain)
  <2>1. CASE q # p
    BY <2>1, <1>1, <1>2, <1>4 DEF Clean
  <2>2. CASE q = p
    BY <2>2, <1>1, <1>2, <1>4 DEF Clean, Has
  <2> QED BY <2>1, <2>2
<1> QED BY <1>3, <1>4 DEF d, Clean

LEMMA WriteToSafe ==
  ASSUME NEW c, IsCard(c), NEW p \in DOMAIN c, ~c[p].dir, ~IsProtected(p),
         NEW b \in Seq(Plain)
  PROVE  LET d == WriteTo(c, p, b) IN Safe(c, d) /\ (Clean(c) => Clean(d))
<1> DEFINE d == WriteTo(c, p, b)
<1>1. /\ DOMAIN d = DOMAIN c /\ \A q \in DOMAIN c : q # p => d[q] = c[q]
      /\ d[p].data = c[p].data \o b
  BY PlainBlocks, WriteToIs
<1>2. c[p].data \in Seq(Plain) => c[p].data \o b \in Seq(Plain)
  BY ConcatProperties
<1> HIDE DEF d
<1> QED BY <1>1, <1>2 DEF Safe, Clean, d

LEMMA UnlinkSafe ==
  ASSUME NEW c, IsCard(c), NEW p \in Path, ~IsProtected(p)
  PROVE  LET d == Unlink(c, p) IN Safe(c, d) /\ (Clean(c) => Clean(d))
<1> DEFINE d == Unlink(c, p)
<1>1. /\ DOMAIN d = (IF UnlinkOk(c, p) THEN DOMAIN c \ {p} ELSE DOMAIN c)
      /\ \A q \in DOMAIN d : d[q] = c[q]
  BY UnlinkIs
<1> HIDE DEF d
<1> QED BY <1>1 DEF Safe, Clean, d

LEMMA KindBelow ==
  ASSUME NEW p \in Path \ {Root}, ~IsProtected(p), NEW q \in Path, IsPrefix(p, q),
         NEW i \in DOMAIN q, Kind(q, i)
  PROVE  i \in Len(p) + 1 .. Len(q) /\ q[i] \in Dotted /\ i # 1
<1>1. p \in Seq(Names) /\ q \in Seq(Names)
  BY DEF Path
<1>2. /\ Len(p) \in Nat /\ Len(q) \in Nat /\ DOMAIN p = 1 .. Len(p) /\ DOMAIN q = 1 .. Len(q)
      /\ Len(p) <= Len(q) /\ \A k \in 1 .. Len(p) : p[k] = q[k]
  BY <1>1, PrefixPoints
<1>3. \A k \in 1 .. Len(p) : q[k] \notin Protected
  BY <1>2 DEF IsProtected
<1>4. Len(p) # 0
  BY <1>1 DEF Root
<1> QED BY <1>2, <1>3, <1>4, TransferAssumption DEF Kind

LEMMA RemoveTreeKeeps ==
  ASSUME NEW c, IsCard(c), NEW p \in Path \ {Root}, ~IsProtected(p)
  PROVE  LET d == RemoveTree(c, p) IN Keeps(c, d) /\ (Clean(c) => Clean(d))
<1> DEFINE d == RemoveTree(c, p)
<1>1. /\ DOMAIN d \subseteq DOMAIN c /\ \A q \in DOMAIN d : d[q] = c[q]
      /\ \A q \in DOMAIN c : ~IsPrefix(p, q) => q \in DOMAIN d
      /\ \A q \in DOMAIN c : \A i \in Len(p) + 1 .. Len(q) : q[i] \in Dotted => q \in DOMAIN d
  BY RemoveTreeIs
<1> HIDE DEF d
<1>2. ASSUME NEW q \in DOMAIN c, NEW i \in DOMAIN q, Kind(q, i) PROVE q \in DOMAIN d
  <2> SUFFICES ASSUME IsPrefix(p, q) PROVE q \in DOMAIN d
    BY <1>1
  <2>1. q \in Path
    BY CardIs
  <2>2. i \in Len(p) + 1 .. Len(q) /\ q[i] \in Dotted
    BY <2>1, <1>2, KindBelow
  <2> QED BY <2>2, <1>1
<1>3. Keeps(c, d)
  <2> DEFINE b == [q \in {r \in DOMAIN c : \E i \in DOMAIN r : Kind(r, i)} |-> c[q]]
  <2>1. DOMAIN b \subseteq Path /\ Safe(b, d)
    BY <1>1, <1>2, CardIs DEF Safe
  <2>2. Keeps(b, d)
    BY <2>1, SafeKeeps
  <2> QED BY <2>2 DEF Keeps
<1>4. Clean(c) => Clean(d)
  BY <1>1 DEF Clean
<1> QED BY <1>3, <1>4 DEF d

LEMMA RenameKeeps ==
  ASSUME NEW c, IsCard(c), NEW from \in Path \ {Root}, NEW to \in Path \ {Root},
         ~IsProtected(from), ~IsProtected(to)
  PROVE  LET d == Rename(c, from, to) IN Keeps(c, d) /\ (Clean(c) => Clean(d))
<1> DEFINE d == Rename(c, from, to)
           e == EnsureParents(c, to)
<1>1. DOMAIN c \subseteq Path
  BY CardIs
<1>2. IsCard(e) /\ Safe(c, e) /\ (Clean(c) => Clean(e))
  <2>1. to \in Seq(Names) /\ to # <<>>
    BY DEF Path, Root
  <2>2. Front(to) \in Path
    BY ONLY <2>1, FrontIs DEF Path
  <2> QED BY <2>2, MkdirSafe DEF EnsureParents
<1>3. CASE ~RenameOk(c, from, to)
  BY <1>1, <1>2, <1>3, SafeKeeps DEF Rename
<1>4. CASE RenameOk(c, from, to)
  <2>1. Renamed(c, from, to, d)
    BY <1>4, RenameShape
  <2>2. from = to \/ ~Has(e, to) \/ Under(e, to) = {to}
    BY <1>4 DEF RenameOk
  <2>3. DOMAIN c \subseteq DOMAIN e /\ \A q \in DOMAIN c : e[q] = c[q]
    BY EnsureParentsIs
  <2> HIDE DEF d, e
  <2>4. /\ \A s \in Path : Has(d, Join(to, s)) <=> Has(c, Join(from, s))
        /\ \A s \in Path : Has(c, Join(from, s)) => d[Join(to, s)] = c[Join(from, s)]
        /\ \A q \in DOMAIN d : ~IsPrefix(to, q) => q \in DOMAIN e /\ d[q] = e[q]
        /\ \A q \in DOMAIN e : ~IsPrefix(from, q) /\ ~IsPrefix(to, q) => q \in DOMAIN d
        /\ DOMAIN d \subseteq Path
    BY <2>1 DEF Renamed, e
  <2>5. ASSUME NEW p \in DOMAIN c, IsPrefix(to, p), ~IsPrefix(from, p) PROVE p = to
    <3>1. p \in Under(e, to)
      BY <2>3, <2>5 DEF Under
    <3>2. Has(e, to)
      BY <1>1, <1>2, <2>3, <2>5, Closed DEF Has
    <3> QED BY <3>1, <3>2, <2>2, <2>5
  <2>6. ASSUME NEW p \in DOMAIN c, NEW i \in DOMAIN p, Kind(p, i), IsPrefix(from, p)
        PROVE  \E q \in DOMAIN d :
                 /\ IF i = 1 THEN q = p
                    ELSE IsSuffix(IF p[i] \in Dotted THEN SubSeq(p, i, Len(p)) ELSE p, q)
                 /\ d[q] = c[p]
    <3>1. PICK s \in Path : p = Join(from, s)
      BY <1>1, <2>6, PathJoin
    <3>2. i \in Len(from) + 1 .. Len(p) /\ p[i] \in Dotted /\ i # 1
      BY <1>1, <2>6, KindBelow
    <3>3. IsSuffix(SubSeq(p, i, Len(p)), Join(to, s))
      BY <3>1, <3>2, SuffixIs
    <3>4. Join(to, s) \in DOMAIN d /\ d[Join(to, s)] = c[p]
      BY <3>1, <2>4 DEF Has
    <3> QED BY <3>2, <3>3, <3>4
  <2> DEFINE b == [q \in {r \in DOMAIN c : ~IsPrefix(from, r)} |-> c[q]]
  <2>7. Safe(b, d) /\ DOMAIN b \subseteq Path
    BY <1>1, <2>3, <2>4, <2>5 DEF Safe
  <2>8. Keeps(b, d)
    BY <2>7, SafeKeeps
  <2>9. Keeps(c, d)
    <3> SUFFICES ASSUME NEW p \in DOMAIN c, NEW i \in DOMAIN p, Kind(p, i)
                 PROVE  \E q \in DOMAIN d :
                          /\ IF i = 1 THEN q = p
                             ELSE IsSuffix(IF p[i] \in Dotted THEN SubSeq(p, i, Len(p)) ELSE p, q)
                          /\ d[q] = c[p]
      BY DEF Keeps
    <3>1. CASE IsPrefix(from, p)
      BY <3>1, <2>6
    <3>2. CASE ~IsPrefix(from, p)
      <4>1. p \in DOMAIN b /\ b[p] = c[p]
        BY <3>2
      <4> HIDE DEF b
      <4> QED BY <4>1, <2>8 DEF Keeps
    <3> QED BY <3>1, <3>2
  <2>10. ASSUME Clean(c), NEW q \in DOMAIN d PROVE IsProtected(q) \/ d[q].data \in Seq(Plain)
    <3>1. CASE IsPrefix(to, q)
      <4>1. PICK s \in Path : q = Join(to, s)
        BY <3>1, <2>4, PathJoin
      <4>2. Join(from, s) \in DOMAIN c /\ d[q] = c[Join(from, s)]
        BY <4>1, <2>4 DEF Has
      <4>3. ~IsProtected(q) => ~IsProtected(Join(from, s))
        BY <4>1, ProtectedJoin
      <4> QED BY <4>2, <4>3, <2>10 DEF Clean
    <3>2. CASE ~IsPrefix(to, q)
      BY <3>2, <2>4, <2>10, <1>2 DEF Clean
    <3> QED BY <3>1, <3>2
  <2> QED BY <2>9, <2>10 DEF d, Clean
<1> QED BY <1>3, <1>4

-----------------------------------------------------------------------------
(***************************************************************************)
(* What the worker has in hand is never protected, and never holds a block *)
(* of a file that is.                                                      *)
(***************************************************************************)
Quiet(s) == s.names \cap Protected = {} /\ Range(s.data) \cap Hidden = {}

GuardInv ==
  /\ Clean(card)
  /\ pc \in {"write", "transfer"} => ~IsProtected(req.path) /\ ~IsProtected(req.to)
  /\ out # NoOut => ~IsProtected(out.path) /\ out.rest \in Seq(Plain)
  /\ \A n \in DOMAIN todo : ~IsProtected(todo[n].from) /\ ~IsProtected(todo[n].to)
  /\ Quiet(sent)

Guarded == Keeps(card, card') /\ GuardInv'

LEMMA NoneQuiet == Quiet(NoneSent)
BY DEF Quiet, NoneSent, Range

LEMMA PlainQuiet ==
  ASSUME NEW data \in Seq(Plain)
  PROVE  Quiet([NoneSent EXCEPT !.data = data])
<1>1. Range(data) \cap Hidden = {}
  <2>1. \A i \in DOMAIN data : data[i] \in Plain
    OBVIOUS
  <2> QED BY <2>1 DEF Range, Plain
<1> QED BY <1>1 DEF Quiet, NoneSent

LEMMA NamesQuiet ==
  ASSUME NEW names, names \cap Protected = {}
  PROVE  Quiet(Listed(names))
BY NoneQuiet DEF Quiet, NoneSent, Listed, Range

LEMMA NotRefused == ~Refused(req) => ~IsProtected(req.path) /\ ~IsProtected(req.to)
BY DEF Refused

LEMMA SafeSelf == \A c : Safe(c, c)
BY DEF Safe

LEMMA KeepsSelf ==
  ASSUME TypeInv
  PROVE  Keeps(card, card)
BY CardIs, SafeKeeps, SafeSelf DEF TypeInv

(***************************************************************************)
(* An answer of a handler that reads, and one of a handler that is done.   *)
(***************************************************************************)
LEMMA ReadsGuarded ==
  ASSUME TypeInv, GuardInv, card' = card, out' = out, todo' = todo,
         pc' \notin {"write", "transfer"}, Quiet(sent')
  PROVE  Guarded
BY KeepsSelf DEF GuardInv, Guarded

LEMMA AnsweredGuarded ==
  ASSUME TypeInv, GuardInv, Keeps(card, card'), Clean(card'), pc' = "answered",
         out' = out \/ out' = NoOut, todo' = todo \/ todo' = <<>>, sent' = NoneSent
  PROVE  Guarded
<1>1. DOMAIN <<>> = {}
  OBVIOUS
<1> QED BY <1>1, NoneQuiet DEF GuardInv, Guarded

LEMMA ListedGuarded ==
  ASSUME TypeInv, GuardInv, HandlePropfind \/ HandleFiles
  PROVE  Guarded
<1>1. ~IsProtected(req.path) /\ card' = card /\ out' = out /\ todo' = todo /\ pc' = "answered"
  BY NotRefused DEF HandlePropfind, HandleFiles, ReadsOnly, Handles, Answer, AnswerWith
<1>2. Range(req.path) \cap Protected = {} /\ ShownChildren(req.path) \cap Protected = {}
  BY <1>1 DEF Range, IsProtected, ShownChildren
<1>3. Quiet(sent')
  <2> DEFINE some == Range(req.path) \cup (IF req.overwrite THEN ShownChildren(req.path) ELSE {})
  <2>1. some \cap Protected = {}
    BY <1>2
  <2>2. \/ sent' = NoneSent \/ sent' = Listed(some) \/ sent' = Listed(ShownChildren(req.path))
    BY DEF HandlePropfind, HandleFiles, Answer, AnswerWith
  <2> HIDE DEF some
  <2> QED BY <2>1, <2>2, <1>2, NoneQuiet, NamesQuiet
<1> QED BY <1>1, <1>3, ReadsGuarded

LEMMA DownloadGuarded ==
  ASSUME TypeInv, GuardInv, HandleDownload \/ HandleDownloadHead
  PROVE  Guarded
<1>1. ~IsProtected(req.path) /\ card' = card /\ out' = out /\ todo' = todo /\ pc' = "answered"
  BY NotRefused DEF HandleDownload, HandleDownloadHead, NotAFile, ReadsOnly, Handles, Answer,
       AnswerWith
<1>2. \/ sent' = NoneSent
      \/ Has(card, req.path) /\ sent' \in SendAll(card[req.path].data)
  BY DEF HandleDownload, HandleDownloadHead, NotAFile, Answer, AnswerWith
<1>3. ASSUME Has(card, req.path), sent' \in SendAll(card[req.path].data) PROVE Quiet(sent')
  <2>1. card[req.path].data \in Seq(Plain)
    BY <1>1, <1>3 DEF GuardInv, Clean, Has
  <2>2. PICK n \in 0 .. Len(card[req.path].data) :
          sent' = [NoneSent EXCEPT !.data = SubSeq(card[req.path].data, 1, n)]
    BY <1>3 DEF SendAll
  <2>3. SubSeq(card[req.path].data, 1, n) \in Seq(Plain)
    BY <2>1, PartOf
  <2> QED BY <2>2, <2>3, PlainQuiet
<1> QED BY <1>1, <1>2, <1>3, NoneQuiet, ReadsGuarded

LEMMA OutGuarded ==
  ASSUME TypeInv, GuardInv, NEW c, IsCard(c), Safe(card, c), Clean(c),
         NEW p \in Path \ {Root}, ~IsProtected(p), NEW b \in Seq(Plain),
         card' = OpenWrite(c, p), out' = OpenedOut(c, p, b),
         todo' = todo \/ (todo' = Tail(todo) /\ todo # <<>>), sent' = sent,
         pc' \in {"write", "transfer"}, req' = req,
         ~IsProtected(req.path), ~IsProtected(req.to)
  PROVE  Guarded
<1>1. out'.path = p /\ out'.rest = b
  BY DEF OpenedOut
<1>2. Safe(card, card') /\ Clean(card')
  BY OpenWriteSafe, SafeOrder
<1>3. Keeps(card, card')
  BY <1>2, CardIs, SafeKeeps DEF TypeInv
<1>4. \A n \in DOMAIN todo' : ~IsProtected(todo'[n].from) /\ ~IsProtected(todo'[n].to)
  <2>1. CASE todo' = todo
    BY <2>1 DEF GuardInv
  <2>2. CASE todo' = Tail(todo) /\ todo # <<>>
    <3>1. todo \in Seq(Items)
      BY DEF TypeInv, WorkInv
    <3>2. /\ Tail(todo) \in Seq(Items) /\ Len(Tail(todo)) = Len(todo) - 1
          /\ \A n \in 1 .. Len(Tail(todo)) : Tail(todo)[n] = todo[n + 1]
      BY ONLY <2>2, <3>1, HeadTailProperties
    <3>3. \A n \in DOMAIN Tail(todo) : n \in 1 .. Len(Tail(todo)) /\ n + 1 \in DOMAIN todo
      BY <3>1, <3>2
    <3> QED BY <2>2, <3>2, <3>3 DEF GuardInv
  <2> QED BY <2>1, <2>2
<1> QED BY <1>1, <1>2, <1>3, <1>4 DEF GuardInv, Guarded

LEMMA UploadGuarded ==
  ASSUME TypeInv, GuardInv, HandleUpload \/ HandlePut
  PROVE  Guarded
<1> DEFINE c == IF Has(card, req.path) THEN card ELSE Mkdir(card, req.path)
<1>1. /\ IsCard(card) /\ req.path \in Path /\ req.to \in Path \ {Root}
      /\ req.data \in Seq(Plain) /\ ~IsProtected(req.path) /\ ~IsProtected(req.to)
      /\ Clean(card)
  BY NotRefused DEF TypeInv, WorkInv, GuardInv, ReqOK, ToWrites, HandleUpload, HandlePut, Handles
<1>2. IsCard(c) /\ Safe(card, c) /\ Clean(c)
  BY <1>1, MkdirSafe, SafeSelf
<1>3. \/ card' = OpenWrite(c, req.to) /\ out' = OpenedOut(c, req.to, req.data)
      \/ card' = OpenWrite(card, req.to) /\ out' = OpenedOut(card, req.to, req.data)
  BY DEF HandleUpload, HandlePut
<1>4. pc' = "write" /\ req' = req /\ todo' = todo /\ sent' = sent
  BY DEF HandleUpload, HandlePut, answers
<1> HIDE DEF c
<1> QED BY <1>1, <1>2, <1>3, <1>4, SafeSelf, OutGuarded

LEMMA WriteBodyGuarded ==
  ASSUME TypeInv, GuardInv, WriteBody
  PROVE  Guarded
<1>1. /\ IsCard(card) /\ Clean(card) /\ out' = NoOut /\ todo' = todo /\ pc' = "answered"
      /\ sent' = NoneSent
  BY DEF TypeInv, GuardInv, WriteBody, Answer, AnswerWith
<1>2. CASE out.kind = "file"
  <2>1. PICK n \in 0 .. Len(out.rest) :
          card' = WriteTo(card, out.path, SubSeq(out.rest, 1, n))
    BY <1>2 DEF WriteBody
  <2>2. /\ out.rest \in Seq(Plain) /\ ~IsProtected(out.path)
        /\ out.path \in DOMAIN card /\ ~card[out.path].dir
    BY <1>2, NoOutKind DEF TypeInv, WorkInv, GuardInv, Has
  <2>3. SubSeq(out.rest, 1, n) \in Seq(Plain)
    BY <2>2, PartOf
  <2>4. Safe(card, card') /\ Clean(card')
    BY <2>1, <2>2, <2>3, <1>1, WriteToSafe
  <2>5. Keeps(card, card')
    BY <2>4, <1>1, CardIs, SafeKeeps
  <2> QED BY <2>4, <2>5, <1>1, AnsweredGuarded
<1>3. CASE out.kind # "file"
  <2>1. card' = card
    BY <1>3 DEF WriteBody
  <2> QED BY <2>1, <1>1, KeepsSelf, AnsweredGuarded
<1> QED BY <1>2, <1>3

LEMMA MakesGuarded ==
  ASSUME TypeInv, GuardInv, Makes
  PROVE  Guarded
<1>1. /\ IsCard(card) /\ req.to \in Path /\ card' = Mkdir(card, req.to) /\ pc' = "answered"
      /\ out' = out /\ todo' = todo /\ sent' = NoneSent /\ Clean(card)
  BY DEF TypeInv, WorkInv, GuardInv, ReqOK, Makes, Answer, AnswerWith
<1>2. Safe(card, card') /\ Clean(card')
  BY <1>1, MkdirSafe
<1>3. Keeps(card, card')
  BY <1>1, <1>2, CardIs, SafeKeeps
<1> QED BY <1>1, <1>2, <1>3, AnsweredGuarded

LEMMA RenamesGuarded ==
  ASSUME TypeInv, GuardInv, req.method \in Renaming,
         ~IsProtected(req.path), ~IsProtected(req.to), Renames \/ DoMove
  PROVE  Guarded
<1>1. /\ IsCard(card) /\ req.path \in Path \ {Root} /\ req.to \in Path \ {Root} /\ Clean(card)
  BY DEF TypeInv, WorkInv, GuardInv, ReqOK, ToWrites, PathWrites
<1>2. /\ card' = Rename(card, req.path, req.to) /\ pc' = "answered"
      /\ out' = out /\ (todo' = todo \/ todo' = <<>>) /\ sent' = NoneSent
  BY DEF Renames, DoMove, Answer, AnswerWith
<1>3. Keeps(card, card') /\ Clean(card')
  BY <1>1, <1>2, RenameKeeps
<1> QED BY <1>2, <1>3, AnsweredGuarded

LEMMA RemovesGuarded ==
  ASSUME TypeInv, GuardInv, HandleDelete \/ HandleTransfer
  PROVE  Guarded
<1>1. /\ IsCard(card) /\ ~IsProtected(req.path) /\ ~IsProtected(req.to) /\ Clean(card)
      /\ req.path \in Path /\ req.to \in Path /\ req' = req /\ out' = out
  BY NotRefused DEF TypeInv, WorkInv, GuardInv, ReqOK, HandleDelete, HandleTransfer, Handles
<1>2. CASE HandleDelete
  <2>1. /\ req.path # Root /\ card' = RemoveTree(card, req.path) /\ pc' = "answered"
        /\ todo' = todo /\ sent' = NoneSent
    BY <1>2 DEF TypeInv, WorkInv, ReqOK, PathWrites, HandleDelete, Handles, Answer, AnswerWith
  <2>2. Keeps(card, card') /\ Clean(card')
    BY <1>1, <2>1, RemoveTreeKeeps
  <2> QED BY <1>1, <2>1, <2>2, AnsweredGuarded
<1>3. CASE HandleTransfer
  <2> DEFINE item == [from |-> req.path, to |-> req.to]
  <2>1. req.to # Root /\ card' = RemoveTree(card, req.to)
    BY <1>3 DEF TypeInv, WorkInv, ReqOK, ToWrites, Renaming, HandleTransfer, Handles
  <2>2. Keeps(card, card') /\ Clean(card')
    BY <1>1, <2>1, RemoveTreeKeeps
  <2>3. \/ pc' = "answered" /\ todo' = todo /\ sent' = NoneSent
        \/ sent' = sent /\ todo' = <<item>>
    BY <1>3 DEF HandleTransfer, Answer, AnswerWith, answers
  <2>4. CASE pc' = "answered" /\ todo' = todo /\ sent' = NoneSent
    BY <1>1, <2>2, <2>4, AnsweredGuarded
  <2>5. CASE sent' = sent /\ todo' = <<item>>
    <3>1. \A n \in DOMAIN todo' : ~IsProtected(todo'[n].from) /\ ~IsProtected(todo'[n].to)
      BY <1>1, <2>5
    <3> QED BY <1>1, <2>2, <2>5, <3>1 DEF GuardInv, Guarded
  <2> QED BY <2>3, <2>4, <2>5
<1> QED BY <1>2, <1>3

(***************************************************************************)
(* copyPath.                                                               *)
(***************************************************************************)
LEMMA RestGuarded ==
  ASSUME TypeInv, GuardInv, todo # <<>>
  PROVE  /\ ~IsProtected(Head(todo).from) /\ ~IsProtected(Head(todo).to)
         /\ \A n \in DOMAIN Tail(todo) :
              ~IsProtected(Tail(todo)[n].from) /\ ~IsProtected(Tail(todo)[n].to)
<1>1. todo \in Seq(Items)
  BY DEF TypeInv, WorkInv
<1>2. /\ Tail(todo) \in Seq(Items) /\ Len(Tail(todo)) = Len(todo) - 1
      /\ \A n \in 1 .. Len(Tail(todo)) : Tail(todo)[n] = todo[n + 1]
  BY ONLY <1>1, todo # <<>>, HeadTailProperties
<1>3. 1 \in DOMAIN todo /\ Head(todo) = todo[1]
  BY <1>1
<1>4. \A n \in DOMAIN Tail(todo) : n \in 1 .. Len(Tail(todo)) /\ n + 1 \in DOMAIN todo
  BY <1>1, <1>2
<1> QED BY <1>2, <1>3, <1>4 DEF GuardInv

LEMMA CopyDirectoryGuarded ==
  ASSUME TypeInv, GuardInv, CopyDirectory
  PROVE  Guarded
<1> DEFINE item == Head(todo)
           made == Mkdir(card, item.to)
<1>1. /\ IsCard(card) /\ Clean(card) /\ out = NoOut /\ todo # <<>> /\ todo \in Seq(Items)
      /\ pc = "transfer" /\ req' = req
  BY DEF TypeInv, WorkInv, GuardInv, CopyDirectory, Copying
<1>2. item \in Items /\ item.from \in Path /\ item.to \in Path /\ Tail(todo) \in Seq(Items)
  BY <1>1, NextItem
<1>3. card' = made
  BY DEF CopyDirectory, CopyFails
<1>4. Safe(card, card') /\ Clean(card')
  BY <1>1, <1>2, <1>3, MkdirSafe
<1>5. Keeps(card, card')
  BY <1>1, <1>4, CardIs, SafeKeeps
<1>6. CASE MkdirOk(card, item.to)
  <2>1. PICK listed \in {card, made}, h \in Seq(Items) :
           todo' = h \o Tail(todo) /\ Among(h, Children(listed, item))
    BY <1>1, <1>6, DirectoryQueues
  <2>2. pc' = pc /\ sent' = sent /\ out' = out
    BY <1>6 DEF CopyDirectory, answers
  <2> DEFINE k == Children(listed, item)
  <2>3. /\ k \in Seq(Items)
        /\ \A n \in DOMAIN k : \E i \in Shown(listed, item.from) :
             k[n] = ChildOf(item, Order[i])
    BY <1>2, ChildrenAre DEF Kids
  <2>4. \A i \in Shown(listed, item.from) :
          ~IsProtected(ChildOf(item, Order[i]).from) /\ ~IsProtected(ChildOf(item, Order[i]).to)
    <3>1. \A i \in Shown(listed, item.from) : Order[i] \in Names /\ Order[i] \notin Protected
      BY NamesAssumption DEF Shown, Places
    <3> QED BY <3>1, <1>1, <1>2, RestGuarded, ProtectedChild DEF ChildOf
  <2> HIDE DEF item
  <2>5. \A n \in DOMAIN h : ~IsProtected(h[n].from) /\ ~IsProtected(h[n].to)
    <3>1. Among(h, k)
      BY <2>1
    <3> HIDE DEF k
    <3>2. \A n \in DOMAIN k : ~IsProtected(k[n].from) /\ ~IsProtected(k[n].to)
      BY <2>3, <2>4
    <3> QED BY <3>1, <3>2 DEF Among
  <2> HIDE DEF k
  <2>6. \A n \in DOMAIN todo' : ~IsProtected(todo'[n].from) /\ ~IsProtected(todo'[n].to)
    <3>1. /\ DOMAIN h = 1 .. Len(h) /\ DOMAIN Tail(todo) = 1 .. Len(Tail(todo))
          /\ Len(h) \in Nat /\ Len(Tail(todo)) \in Nat
          /\ DOMAIN todo' = 1 .. Len(h) + Len(Tail(todo))
          /\ \A i \in 1 .. Len(h) : todo'[i] = h[i]
          /\ \A i \in 1 .. Len(Tail(todo)) : todo'[Len(h) + i] = Tail(todo)[i]
      BY <2>1, <1>2, ConcatType
    <3> TAKE n \in DOMAIN todo'
    <3>2. CASE n \in 1 .. Len(h)
      BY <3>1, <3>2, <2>5
    <3>3. CASE n \notin 1 .. Len(h)
      <4>1. n - Len(h) \in DOMAIN Tail(todo) /\ Len(h) + (n - Len(h)) = n
        BY <3>1, <3>3
      <4>2. todo'[n] = Tail(todo)[n - Len(h)]
        BY <3>1, <4>1
      <4> QED BY <4>1, <4>2, <1>1, RestGuarded
    <3> QED BY <3>2, <3>3
  <2> QED BY <1>1, <1>4, <1>5, <2>2, <2>6 DEF GuardInv, Guarded
<1>7. CASE ~MkdirOk(card, item.to)
  <2>1. todo' = <<>> /\ out' = NoOut /\ pc' = "answered" /\ sent' = NoneSent
    BY <1>7 DEF CopyDirectory, CopyFails, Answer, AnswerWith
  <2> QED BY <2>1, <1>4, <1>5, AnsweredGuarded
<1> QED BY <1>6, <1>7

LEMMA CopyFileGuarded ==
  ASSUME TypeInv, GuardInv, CopyFile
  PROVE  Guarded
<1> DEFINE item == Head(todo)
<1>1. /\ IsCard(card) /\ Clean(card) /\ out = NoOut /\ todo # <<>> /\ todo \in Seq(Items)
      /\ pc = "transfer" /\ req' = req
  BY DEF TypeInv, WorkInv, GuardInv, CopyFile, Copying
<1>2. /\ item.from \in Path /\ item.to \in Path \ {Root}
      /\ ~IsProtected(item.from) /\ ~IsProtected(item.to)
  BY <1>1, NextItem, RestGuarded
<1>3. CASE OpenWriteOk(card, item.to)
  <2>1. card[item.from].data \in Seq(Plain)
    BY <1>1, <1>2 DEF CopyFile, Clean, Has
  <2>2. /\ card' = OpenWrite(card, item.to)
        /\ out' = OpenedOut(card, item.to, card[item.from].data)
        /\ todo' = Tail(todo) /\ pc' = pc /\ sent' = sent
    BY <1>3 DEF CopyFile, answers
  <2> HIDE DEF item
  <2>3. ~IsProtected(req.path) /\ ~IsProtected(req.to)
    BY <1>1 DEF GuardInv
  <2> QED BY <1>1, <1>2, <2>1, <2>2, <2>3, SafeSelf, OutGuarded
<1>4. CASE ~OpenWriteOk(card, item.to)
  <2>1. /\ card' = OpenWrite(card, item.to)
        /\ todo' = <<>> /\ out' = NoOut /\ pc' = "answered" /\ sent' = NoneSent
    BY <1>4 DEF CopyFile, CopyFails, Answer, AnswerWith
  <2> HIDE DEF item
  <2>2. Safe(card, card') /\ Clean(card')
    BY <1>1, <1>2, <2>1, OpenWriteSafe, SafeSelf
  <2>3. Keeps(card, card')
    BY <2>2, <1>1, CardIs, SafeKeeps
  <2> QED BY <2>1, <2>2, <2>3, AnsweredGuarded
<1> QED BY <1>3, <1>4

LEMMA CopyBlockGuarded ==
  ASSUME TypeInv, GuardInv, CopyBlock
  PROVE  Guarded
<1>1. /\ IsCard(card) /\ Clean(card) /\ out # NoOut /\ out \in Outs /\ req' = req
      /\ pc = "transfer"
      /\ out.kind = "file" => out.path \in DOMAIN card /\ ~card[out.path].dir
      /\ ~IsProtected(out.path) /\ out.rest \in Seq(Plain)
  BY DEF TypeInv, WorkInv, GuardInv, CopyBlock, Copying, Has
<1>2. out.path \in Path
  BY <1>1 DEF Outs
<1>3. CASE out' = NoOut /\ card' = card /\ pc' = pc /\ todo' = todo /\ sent' = sent
  BY <1>1, <1>3, KeepsSelf DEF GuardInv, Guarded
<1>4. CASE /\ out.rest # <<>> /\ out.kind = "file"
           /\ card' = WriteTo(card, out.path, <<Head(out.rest)>>)
           /\ out' = [out EXCEPT !.rest = Tail(@)]
           /\ pc' = pc /\ todo' = todo /\ sent' = sent
  <2>1. <<Head(out.rest)>> \in Seq(Plain) /\ Tail(out.rest) \in Seq(Plain)
    BY <1>1, <1>4
  <2>2. out'.path = out.path /\ out'.rest = Tail(out.rest)
    BY <1>1, <1>4 DEF Outs
  <2>3. Safe(card, card') /\ Clean(card')
    BY <2>1, <1>1, <1>4, WriteToSafe
  <2>4. Keeps(card, card')
    BY <2>3, <1>1, CardIs, SafeKeeps
  <2> QED BY <2>1, <2>2, <2>3, <2>4, <1>1, <1>4 DEF GuardInv, Guarded
<1>5. CASE CopyFails(Unlink(card, out.path))
  <2>1. /\ card' = Unlink(card, out.path) /\ todo' = <<>> /\ out' = NoOut /\ pc' = "answered"
        /\ sent' = NoneSent
    BY <1>5 DEF CopyFails, Answer, AnswerWith
  <2>2. Safe(card, card') /\ Clean(card')
    BY <2>1, <1>1, <1>2, UnlinkSafe
  <2>3. Keeps(card, card')
    BY <2>2, <1>1, CardIs, SafeKeeps
  <2> QED BY <2>1, <2>2, <2>3, AnsweredGuarded
<1> QED BY <1>3, <1>4, <1>5 DEF CopyBlock, answers

LEMMA ServesGuarded ==
  ASSUME TypeInv, GuardInv, Serves
  PROVE  Guarded
<1>1. CASE Refuse \/ HandleOptions \/ HandleLock \/ HandlePage \/ HandleTransferRefused
  <2>1. /\ card' = card /\ out' = out /\ todo' = todo /\ pc' = "answered" /\ sent' = NoneSent
    BY <1>1 DEF Refuse, HandleOptions, HandleLock, HandlePage, HandleTransferRefused, ReadsOnly,
         Answer, AnswerWith
  <2> QED BY <2>1, NoneQuiet, ReadsGuarded
<1>2. CASE HandlePropfind \/ HandleFiles
  BY <1>2, ListedGuarded
<1>3. CASE HandleDownload \/ HandleDownloadHead
  BY <1>3, DownloadGuarded
<1>4. CASE HandleUpload \/ HandlePut
  BY <1>4, UploadGuarded
<1>5. CASE WriteBody
  BY <1>5, WriteBodyGuarded
<1>6. CASE HandleMkdir \/ HandleMkcol
  BY <1>6, MakesGuarded DEF HandleMkdir, HandleMkcol
<1>7. CASE HandleRename \/ HandleMove
  BY <1>7, NotRefused, RenamesGuarded DEF HandleRename, HandleMove, Handles, Renaming
<1>8. CASE HandleDelete \/ HandleTransfer
  BY <1>8, RemovesGuarded
<1>9. CASE DoMove
  BY <1>9, RenamesGuarded DEF DoMove, GuardInv, Renaming
<1>10. CASE CopyDirectory
  BY <1>10, CopyDirectoryGuarded
<1>11. CASE CopyFile
  BY <1>11, CopyFileGuarded
<1>12. CASE CopyBlock
  BY <1>12, CopyBlockGuarded
<1>13. CASE CopyEnds
  <2>1. /\ card' = card /\ out' = out /\ todo' = todo /\ pc' = "answered" /\ sent' = NoneSent
    BY <1>13 DEF CopyEnds, Answer, AnswerWith
  <2> QED BY <2>1, NoneQuiet, ReadsGuarded
<1>14. CASE CopyUnreadable
  <2>1. /\ card' = card /\ out' = NoOut /\ todo' = <<>> /\ pc' = "answered" /\ sent' = NoneSent
    BY <1>14 DEF CopyUnreadable, CopyFails, Answer, AnswerWith
  <2>2. Clean(card') /\ Keeps(card, card')
    BY <2>1, KeepsSelf DEF GuardInv
  <2> QED BY <2>1, <2>2, AnsweredGuarded
<1> QED BY <1>1, <1>2, <1>3, <1>4, <1>5, <1>6, <1>7, <1>8, <1>9, <1>10, <1>11, <1>12, <1>13,
           <1>14 DEF Serves

LEMMA GuardInvStep ==
  ASSUME TypeInv, GuardInv, [Next]_vars
  PROVE  GuardInv'
<1>1. CASE Serves
  BY <1>1, ServesGuarded DEF Guarded
<1>2. CASE TestActive \/ SelectTimesOut \/ Close \/ \E r \in Requests : Accept(r)
  <2>1. /\ card' = card /\ out' = out /\ todo' = todo /\ pc' \notin {"write", "transfer"}
        /\ sent' = sent \/ sent' = NoneSent
    BY <1>2 DEF TestActive, SelectTimesOut, Close, Accept, answers
  <2> QED BY <2>1, NoneQuiet, ReadsGuarded DEF GuardInv, Guarded
<1>3. CASE Firmware \/ UNCHANGED vars
  <2>1. Alike(card, card')
    BY <1>3, FirmwareTypeInv, AlikeSelf DEF vars
  <2>2. /\ out' = out /\ todo' = todo /\ sent' = sent
        /\ pc' \in {"none", "loop"} \/ (pc' = pc /\ req' = req)
    BY <1>3 DEF Firmware, vars, server, answers, Begin, StopJoins, StopTakes, StopCloses,
         ReadOpens, ReadFile, ReadFileToString, Returns,
         WalkOpens, WalkNext, WalkEnds, WalkLeaves, WalkReturns, WalkForgotten
  <2>3. Clean(card')
    BY <2>1 DEF GuardInv, Clean, Alike
  <2> QED BY <2>2, <2>3 DEF GuardInv
<1> QED BY <1>1, <1>2, <1>3 DEF Next, Worker

(***************************************************************************)
(* isProtectedPath on what the request names and on what a copy finds, and *)
(* removeDirRecursive's rule for dot names, are enough: no step of any     *)
(* request changes what is under a protected name at the card's root, none *)
(* loses an entry with a dot name, and no answer names or carries what is  *)
(* protected, also after a sequence of requests.                           *)
(***************************************************************************)
THEOREM ProtectedIsKept == Spec => ProtectedKept
<1>1. Init => GuardInv
  <2> SUFFICES ASSUME Init PROVE GuardInv
    OBVIOUS
  <2>1. Clean(card)
    BY CardsAssumption DEF Init, Clean, Plain
  <2>2. DOMAIN <<>> = {}
    OBVIOUS
  <2> QED BY <2>1, <2>2, NoneQuiet DEF Init, GuardInv
<1>2. GuardInv => sent.names \cap Protected = {} /\ Range(sent.data) \cap Hidden = {}
  BY DEF GuardInv, Quiet
<1>3. ASSUME TypeInv, GuardInv, [Next]_vars
      PROVE  [Serves =>
                \A p \in DOMAIN card : \A i \in DOMAIN p :
                  LET kept == IF p[i] \in Dotted THEN SubSeq(p, i, Len(p)) ELSE p IN
                  (p[i] \in Dotted \/ (i = 1 /\ p[1] \in Protected)) =>
                    \E q \in DOMAIN card' :
                      /\ IF i = 1 THEN q = p ELSE IsSuffix(kept, q)
                      /\ card'[q] = card[p]]_vars
  BY <1>3, ServesGuarded DEF Guarded, Keeps, Kind
<1> QED BY <1>1, <1>2, <1>3, GuardInvStep, TypeInvHolds, PTL DEF Spec, ProtectedKept

-----------------------------------------------------------------------------
(***************************************************************************)
(* A copy, from below p on the card b as it was to below t on the card c.  *)
(* What is wanted there is what the source shows.                          *)
(***************************************************************************)
Wanted(b, p) == {s \in Path : ~IsProtected(s) /\ Has(b, Join(p, s))}
Pair(p, t, s) == [from |-> Join(p, s), to |-> Join(t, s)]

\* Nothing is there that is not wanted, of each file the beginning, and only
\* x is not complete, unless something was lost.
Begins(some, all) == \E rest \in Seq(Blocks) : some \o rest = all
Faithful(b, p, c, t, x, lost) ==
  \A s \in Path : Has(c, Join(t, s)) =>
    /\ s \in Wanted(b, p) /\ c[Join(t, s)].dir = b[Join(p, s)].dir
    /\ Begins(c[Join(t, s)].data, b[Join(p, s)].data)
    /\ c[Join(t, s)].data = b[Join(p, s)].data \/ Join(t, s) = x \/ lost

\* What is still to be copied is wanted, and with it everything wanted is there,
\* or, if something was lost, the uppermost of it.
Queued(b, p, t, q) == \A n \in DOMAIN q : \E s \in Wanted(b, p) : q[n] = Pair(p, t, s)
Pending(p, t, q, s) == \E n \in DOMAIN q : \E u \in Path : IsPrefix(u, s) /\ q[n] = Pair(p, t, u)
Due(b, p, lost) == {Root} \cup {s \in Wanted(b, p) : ~lost}
Covered(b, p, c, t, q, lost) ==
  \A s \in Due(b, p, lost) : Has(c, Join(t, s)) \/ Pending(p, t, q, s)

\* The file being written has the blocks so far, the others are still to come.
Writing(b, p, c, t, o) ==
  o = NoOut \/
    /\ o.kind = "file"
    /\ \E s \in Wanted(b, p) :
         /\ o.path = Join(t, s) /\ Has(c, o.path)
         /\ c[o.path].data \o o.rest = b[Join(p, s)].data

LEMMA WantedPrefix ==
  ASSUME NEW b, IsCard(b), NEW p \in Path, NEW s \in Wanted(b, p), NEW u \in Path, IsPrefix(u, s)
  PROVE  u \in Wanted(b, p) /\ (u # s => b[Join(p, u)].dir)
<1>1. s \in Path /\ ~IsProtected(s) /\ Join(p, s) \in DOMAIN b
  BY DEF Wanted, Has
<1>2. ~IsProtected(u)
  BY <1>1, ProtectedPrefix
<1>3. Join(p, u) \in Path /\ IsPrefix(Join(p, u), Join(p, s)) /\ (Join(p, u) = Join(p, s) <=> u = s)
  BY <1>1, PathJoin
<1>4. Join(p, u) \in DOMAIN b /\ (Join(p, u) # Join(p, s) => b[Join(p, u)].dir)
  BY <1>1, <1>3, Closed
<1> QED BY <1>2, <1>3, <1>4 DEF Wanted, Has

LEMMA FirstStep ==
  \A u, s \in Path : IsPrefix(u, s) /\ u # s => \E x \in Names : IsPrefix(Join(u, <<x>>), s)
<1> SUFFICES ASSUME NEW u \in Path, NEW s \in Path, IsPrefix(u, s), u # s
             PROVE  \E x \in Names : IsPrefix(Join(u, <<x>>), s)
  OBVIOUS
<1>1. PICK r \in Path : s = Join(u, r)
  BY PathJoin
<1>2. r \in Seq(Names) /\ r # <<>>
  BY <1>1, JoinRoot DEF Path, Root
<1> DEFINE x == r[1]
<1>3. Len(r) \in Nat /\ 1 <= Len(r) /\ x \in Names
  BY <1>2
<1> HIDE DEF x
<1>4. <<x>> \in Seq(Names) /\ Len(<<x>>) = 1 /\ \A i \in 1 .. Len(<<x>>) : <<x>>[i] = r[i]
  BY <1>3 DEF x
<1>5. IsPrefix(<<x>>, r)
  BY ONLY <1>2, <1>3, <1>4, PrefixPoints
<1>6. IsPrefix(Join(u, <<x>>), Join(u, r))
  BY <1>4, <1>5, PathJoin DEF Path
<1> QED BY <1>1, <1>3, <1>6

LEMMA ApartJoin ==
  \A p, t, s \in Path : Apart(p, t) => Apart(p, Join(t, s))
<1> TAKE p \in Path, t \in Path, s \in Path
<1>1. Join(t, s) \in Path /\ IsPrefix(t, Join(t, s))
  BY PathJoin
<1> QED BY <1>1, PathOrder DEF Apart

(***************************************************************************)
(* The operations of a copy leave what is apart as it is.                  *)
(***************************************************************************)
LEMMA MkdirSame ==
  ASSUME NEW c, IsCard(c), NEW p \in Path, NEW to \in Path, Apart(p, to)
  PROVE  SameAt(c, p, Mkdir(c, to), p)
<1> DEFINE d == Mkdir(c, to)
<1>1. /\ DOMAIN c \subseteq DOMAIN d /\ \A q \in DOMAIN c : d[q] = c[q]
      /\ \A q \in DOMAIN d \ DOMAIN c : IsPrefix(q, to)
  BY MkdirIs
<1> HIDE DEF d
<1>2. SameAt(c, p, d, p)
  BY <1>1, ApartBelow, SameWhere DEF Apart
<1> QED BY <1>2 DEF d

LEMMA OpenWriteSame ==
  ASSUME NEW c, IsCard(c), NEW p \in Path, NEW to \in Path \ {Root}, Apart(p, to)
  PROVE  SameAt(c, p, OpenWrite(c, to), p)
<1> DEFINE d == OpenWrite(c, to)
<1>1. /\ DOMAIN c \subseteq DOMAIN d /\ \A q \in DOMAIN c : q # to => d[q] = c[q]
      /\ \A q \in DOMAIN d \ DOMAIN c : q # to => IsPrefix(q, to)
  BY OpenWriteIs
<1>2. \A q \in Path : IsPrefix(p, q) => ~IsPrefix(q, to) /\ q # to
  BY ApartBelow DEF Apart
<1> HIDE DEF d
<1>3. SameAt(c, p, d, p)
  BY <1>1, <1>2, SameWhere
<1> QED BY <1>3 DEF d

LEMMA WriteToSame ==
  ASSUME NEW c, IsCard(c), NEW p \in Path, NEW to \in DOMAIN c, ~c[to].dir,
         NEW b \in Seq(Blocks), Apart(p, to)
  PROVE  SameAt(c, p, WriteTo(c, to, b), p)
<1> DEFINE d == WriteTo(c, to, b)
<1>1. DOMAIN d = DOMAIN c /\ \A q \in DOMAIN c : q # to => d[q] = c[q]
  BY WriteToIs
<1> HIDE DEF d
<1>2. SameAt(c, p, d, p)
  BY <1>1, SameWhere DEF Apart
<1> QED BY <1>2 DEF d

LEMMA UnlinkSame ==
  ASSUME NEW c, IsCard(c), NEW p \in Path, NEW to \in Path, Apart(p, to)
  PROVE  SameAt(c, p, Unlink(c, to), p)
<1> DEFINE d == Unlink(c, to)
<1>1. /\ DOMAIN d = (IF UnlinkOk(c, to) THEN DOMAIN c \ {to} ELSE DOMAIN c)
      /\ \A q \in DOMAIN d : d[q] = c[q]
  BY UnlinkIs
<1> HIDE DEF d
<1>2. SameAt(c, p, d, p)
  BY <1>1, SameWhere DEF Apart
<1> QED BY <1>2 DEF d

(***************************************************************************)
(* What they make of the destination.                                      *)
(***************************************************************************)
LEMMA BeginsEmpty ==
  \A all \in Seq(Blocks) : Begins(<<>>, all) /\ Begins(all, all)
<1> TAKE all \in Seq(Blocks)
<1>1. <<>> \in Seq(Blocks) /\ <<>> \o all = all /\ all \o <<>> = all
  BY ConcatEmptySeq
<1> QED BY <1>1 DEF Begins

LEMMA MkdirFaithful ==
  ASSUME NEW b, IsCard(b), NEW c, IsCard(c), NEW p \in Path, NEW t \in Path \ {Root}, NEW x,
         NEW lost, Faithful(b, p, c, t, x, lost), NEW s \in Wanted(b, p), b[Join(p, s)].dir
  PROVE  Faithful(b, p, Mkdir(c, Join(t, s)), t, x, lost)
<1> DEFINE d == Mkdir(c, Join(t, s))
<1>1. s \in Path /\ Join(t, s) \in Path
  BY PathJoin DEF Wanted
<1>2. /\ DOMAIN c \subseteq DOMAIN d /\ \A q \in DOMAIN c : d[q] = c[q]
      /\ \A q \in DOMAIN d \ DOMAIN c : IsPrefix(q, Join(t, s)) /\ d[q] = DirNode
  BY <1>1, MkdirIs
<1> HIDE DEF d
<1>3. ASSUME NEW r \in Path, Has(d, Join(t, r))
      PROVE  /\ r \in Wanted(b, p) /\ d[Join(t, r)].dir = b[Join(p, r)].dir
             /\ Begins(d[Join(t, r)].data, b[Join(p, r)].data)
             /\ d[Join(t, r)].data = b[Join(p, r)].data \/ Join(t, r) = x \/ lost
  <2>1. CASE Has(c, Join(t, r))
    BY <2>1, <1>2 DEF Faithful, Has
  <2>2. CASE ~Has(c, Join(t, r))
    <3>1. IsPrefix(Join(t, r), Join(t, s)) /\ d[Join(t, r)] = DirNode
      BY <2>2, <1>2, <1>3 DEF Has
    <3>2. IsPrefix(r, s)
      BY <3>1, <1>1, PathJoin
    <3>3. r \in Wanted(b, p) /\ b[Join(p, r)].dir
      BY <3>2, WantedPrefix
    <3>4. b[Join(p, r)].dir = TRUE /\ b[Join(p, r)].data = <<>>
      <4>1. Join(p, r) \in DOMAIN b
        BY <3>3 DEF Wanted, Has
      <4> QED BY <4>1, <3>3, CardIs
    <3>5. Begins(<<>>, <<>>)
      BY EmptySeq, BeginsEmpty
    <3> QED BY <3>1, <3>3, <3>4, <3>5 DEF DirNode
  <2> QED BY <2>1, <2>2
<1> QED BY <1>3 DEF Faithful, d

LEMMA OpenFaithful ==
  ASSUME NEW b, IsCard(b), NEW c, IsCard(c), NEW p \in Path, NEW t \in Path \ {Root},
         NEW lost, Faithful(b, p, c, t, Root, lost),
         NEW s \in Wanted(b, p), ~b[Join(p, s)].dir,
         OpenWriteOk(c, Join(t, s))
  PROVE  LET d == OpenWrite(c, Join(t, s)) IN
         /\ Faithful(b, p, d, t, Join(t, s), lost) /\ FileOpened(c, Join(t, s))
         /\ DOMAIN c \subseteq DOMAIN d
         /\ Has(d, Join(t, s)) /\ d[Join(t, s)].data = <<>>
<1> DEFINE to == Join(t, s)
           d == OpenWrite(c, to)
           e == EnsureParents(c, to)
<1>1. s \in Path /\ to \in Path \ {Root}
  BY PathJoin DEF Wanted
<1>2. FileOpened(c, to)
  <2> SUFFICES ASSUME IsDir(e, to) PROVE FALSE
    BY DEF FileOpened
  <2>1. Has(c, to) /\ c[to].dir
    BY <1>1, EnsureParentsIs DEF IsDir, Has
  <2> QED BY <2>1, <1>1 DEF Faithful
<1>3. /\ DOMAIN c \subseteq DOMAIN d
      /\ \A q \in DOMAIN c : q # to => d[q] = c[q]
      /\ \A q \in DOMAIN d \ DOMAIN c : q # to => IsPrefix(q, to) /\ d[q] = DirNode
      /\ Has(d, to) /\ ~d[to].dir /\ d[to].data = <<>> /\ IsCard(d)
  BY <1>1, <1>2, OpenWriteIs
<1> HIDE DEF d
<1>4. ASSUME NEW r \in Path, Has(d, Join(t, r))
      PROVE  /\ r \in Wanted(b, p) /\ d[Join(t, r)].dir = b[Join(p, r)].dir
             /\ Begins(d[Join(t, r)].data, b[Join(p, r)].data)
             /\ d[Join(t, r)].data = b[Join(p, r)].data \/ Join(t, r) = to \/ lost
  <2>1. CASE r = s
    <3>1. /\ b[Join(p, s)].dir \in BOOLEAN /\ d[to].dir \in BOOLEAN
          /\ b[Join(p, s)].data \in Seq(Blocks)
      BY <1>3, CardIs DEF Wanted, Has
    <3> QED BY <3>1, <2>1, <1>3, BeginsEmpty
  <2>2. CASE r # s
    <3>1. Join(t, r) # to /\ Join(t, r) # Root
      BY <2>2, <1>1, PathJoin
    <3>2. CASE Has(c, Join(t, r))
      BY <3>1, <3>2, <1>3 DEF Faithful, Has
    <3>3. CASE ~Has(c, Join(t, r))
      <4>1. IsPrefix(Join(t, r), to) /\ d[Join(t, r)] = DirNode
        BY <3>1, <3>3, <1>3, <1>4 DEF Has
      <4>2. IsPrefix(r, s)
        BY <4>1, <1>1, PathJoin
      <4>3. r \in Wanted(b, p) /\ b[Join(p, r)].dir
        BY <4>2, <2>2, WantedPrefix
      <4>4. b[Join(p, r)].dir = TRUE /\ b[Join(p, r)].data = <<>>
        <5>1. Join(p, r) \in DOMAIN b
          BY <4>3 DEF Wanted, Has
        <5> QED BY <5>1, <4>3, CardIs
      <4>5. Begins(<<>>, <<>>)
        BY EmptySeq, BeginsEmpty
      <4> QED BY <4>1, <4>3, <4>4, <4>5 DEF DirNode
    <3> QED BY <3>2, <3>3
  <2> QED BY <2>1, <2>2
<1> QED BY <1>2, <1>3, <1>4 DEF Faithful, d

-----------------------------------------------------------------------------
(***************************************************************************)
(* The copy on its way: its source is as it was, and its destination,      *)
(* what is queued and what is being written make up what the source shows, *)
(* or some of it once something was lost.                                  *)
(***************************************************************************)
Copies == req.method = "COPY" /\ Apart(req.path, req.to)

Copied ==
  /\ Faithful(before, req.path, card, req.to, out.path, cut)
  /\ Queued(before, req.path, req.to, todo)
  /\ Covered(before, req.path, card, req.to, todo, cut)
  /\ Writing(before, req.path, card, req.to, out)

Whole(b, p, c, t, lost) ==
  Faithful(b, p, c, t, Root, lost) /\ Covered(b, p, c, t, <<>>, lost)

CopyInv ==
  /\ pc = "write" => req.method # "COPY"
  /\ (pc \in {"transfer", "answered"} /\ Copies) => SameAt(before, req.path, card, req.path)
  /\ (pc = "transfer" /\ Copies) => Copied
  /\ (pc = "answered" /\ Copies /\ reply = "done") =>
       Whole(before, req.path, card, req.to, cut)

LEMMA BelowRoot == \A p \in Path \ {Root}, s \in Path : Join(p, s) \in Path /\ Join(p, s) # Root
BY PathJoin

LEMMA CopiesAre ==
  ASSUME TypeInv, MoveInv, Copies, pc \in {"handle", "transfer", "answered"}
  PROVE  /\ req.path \in Path \ {Root} /\ req.to \in Path \ {Root}
         /\ IsCard(card) /\ IsCard(before) /\ todo \in Seq(Items)
         /\ NoOut.path = Root /\ \A s \in Path : Join(req.to, s) # Root
<1>1. req.path \in Path /\ req.to \in Path /\ req.path # Root /\ req.to # Root
  BY DEF TypeInv, WorkInv, ReqOK, Copies, ToWrites, PathWrites
<1>2. IsCard(card) /\ IsCard(before) /\ todo \in Seq(Items)
  BY DEF TypeInv, WorkInv, MoveInv
<1>3. \A s \in Path : Join(req.to, s) # Root
  BY ONLY <1>1, BelowRoot
<1> QED BY <1>1, <1>2, <1>3 DEF NoOut

(***************************************************************************)
(* The destination removed, the copy begins with the source alone.         *)
(***************************************************************************)
LEMMA BeginsCopied ==
  ASSUME TypeInv, MoveInv, HandleTransfer, Copies
  PROVE  /\ SameAt(before, req.path, card', req.path)
         /\ pc' = "transfer" => Copied'
<1> DEFINE p == req.path
           t == req.to
<1>1. /\ card' = RemoveTree(card, t) /\ req' = req /\ before' = before /\ pc = "handle"
      /\ out' = out /\ out = NoOut /\ Has(card, p) /\ ~IsProtected(p) /\ ~IsProtected(t)
  BY NotRefused DEF HandleTransfer, Handles, TypeInv, WorkInv
<1>2. /\ p \in Path \ {Root} /\ t \in Path \ {Root} /\ IsCard(card) /\ IsCard(before)
      /\ Apart(p, t)
  BY <1>1, CopiesAre DEF Copies
<1>3. SameAt(before, p, card, p) /\ SameAt(card, p, card', p)
  BY <1>1, <1>2, SameOrder, RemovedSame DEF MoveInv
<1>4. SameAt(before, p, card', p)
  BY <1>3, SameOrder
<1>5. ASSUME pc' = "transfer"
      PROVE  todo' = <<[from |-> p, to |-> t]>> /\ (RemoveTreeOk(card, t) \/ ~Has(card, t))
  BY <1>5 DEF HandleTransfer, Answer, AnswerWith
<1>6. ASSUME pc' = "transfer" PROVE Copied'
  <2>1. Under(card', t) = {}
    BY <1>1, <1>2, <1>5, <1>6, RemoveTreeIs
  <2>2. \A s \in Path : ~Has(card', Join(t, s))
    <3> SUFFICES ASSUME NEW s \in Path, Has(card', Join(t, s)) PROVE FALSE
      OBVIOUS
    <3>1. IsPrefix(t, Join(t, s))
      BY <1>2, PathJoin
    <3> QED BY <3>1, <2>1 DEF Under, Has
  <2>3. Root \in Wanted(before, p)
    <3>1. Has(before, p)
      BY <1>1, <1>2, <1>3, SameRoot
    <3> QED BY <3>1, <1>2, JoinRoot, ProtectedRoot DEF Wanted
  <2>4. todo' = <<Pair(p, t, Root)>>
    BY <1>2, <1>5, <1>6, JoinRoot DEF Pair
  <2>5. \A s \in Path : IsPrefix(Root, s)
    BY PathOrder
  <2>6. DOMAIN todo' = {1} /\ todo'[1] = Pair(p, t, Root)
    BY <2>4
  <2>7. Covered(before, p, card', t, todo', cut')
    BY <2>5, <2>6, JoinRoot DEF Covered, Due, Pending, Wanted
  <2>8. Faithful(before, p, card', t, out'.path, cut')
    BY <2>2 DEF Faithful
  <2>9. Queued(before, p, t, todo')
    BY <2>3, <2>6 DEF Queued
  <2>10. Writing(before, p, card', t, out')
    BY <1>1 DEF Writing
  <2> HIDE DEF p, t
  <2> QED BY <2>7, <2>8, <2>9, <2>10, <1>1 DEF Copied, p, t
<1> QED BY <1>4, <1>6

(***************************************************************************)
(* One directory: made at the destination, and its entries queued.         *)
(***************************************************************************)
LEMMA NextPair ==
  ASSUME TypeInv, MoveInv, CopyInv, Copies, pc = "transfer", todo # <<>>
  PROVE  \E u \in Wanted(before, req.path) : Head(todo) = Pair(req.path, req.to, u)
<1>1. todo \in Seq(Items)
  BY CopiesAre
<1>2. 1 \in DOMAIN todo /\ Head(todo) = todo[1]
  BY <1>1
<1> QED BY <1>2 DEF CopyInv, Copied, Queued

Popped(b, p, t, q) ==
  /\ Queued(b, p, t, Tail(q))
  /\ \A s : Pending(p, t, q, s) =>
       Pending(p, t, Tail(q), s) \/ \E u \in Path : IsPrefix(u, s) /\ Head(q) = Pair(p, t, u)

LEMMA TailQueued ==
  ASSUME NEW b, NEW p, NEW t, NEW q \in Seq(Items), q # <<>>, Queued(b, p, t, q)
  PROVE  Popped(b, p, t, q)
<1>1. /\ Tail(q) \in Seq(Items) /\ Len(Tail(q)) = Len(q) - 1 /\ Len(q) \in Nat
      /\ \A n \in 1 .. Len(Tail(q)) : Tail(q)[n] = q[n + 1]
  BY ONLY q \in Seq(Items), q # <<>>, HeadTailProperties, LenProperties
<1>2. /\ DOMAIN q = 1 .. Len(q) /\ DOMAIN Tail(q) = 1 .. Len(q) - 1
      /\ Head(q) = q[1]
  BY <1>1
<1>3. \A n \in DOMAIN Tail(q) : n + 1 \in DOMAIN q /\ Tail(q)[n] = q[n + 1]
  BY <1>1, <1>2
<1>4. \A n \in DOMAIN q : n = 1 \/ (n - 1 \in DOMAIN Tail(q) /\ Tail(q)[n - 1] = q[n])
  BY <1>1, <1>2
<1>5. Queued(b, p, t, Tail(q))
  BY <1>3 DEF Queued
<1>6. ASSUME NEW s, Pending(p, t, q, s)
      PROVE  Pending(p, t, Tail(q), s) \/ \E u \in Path : IsPrefix(u, s) /\ Head(q) = Pair(p, t, u)
  <2>1. PICK n \in DOMAIN q, u \in Path : IsPrefix(u, s) /\ q[n] = Pair(p, t, u)
    BY <1>6 DEF Pending
  <2> QED BY <2>1, <1>2, <1>4 DEF Pending
<1> QED BY <1>5, <1>6 DEF Popped

LEMMA PairIs ==
  ASSUME NEW p \in Path, NEW t \in Path, NEW u \in Path, NEW v \in Path,
         Pair(p, t, u) = Pair(p, t, v)
  PROVE  u = v
<1>1. Join(p, u) = Join(p, v)
  BY DEF Pair
<1> QED BY <1>1, PathJoin

KidPairs(k, c, p, t, u) ==
  /\ k \in Seq(Items)
  /\ \A n \in DOMAIN k : \E x \in Names \ Protected :
       Has(c, Join(p, Join(u, <<x>>))) /\ k[n] = Pair(p, t, Join(u, <<x>>))
  /\ \A x \in Names \ Protected :
       Has(c, Join(p, Join(u, <<x>>))) => \E n \in DOMAIN k : k[n] = Pair(p, t, Join(u, <<x>>))

LEMMA ChildrenPairs ==
  ASSUME NEW c, NEW p \in Path, NEW t \in Path \ {Root}, NEW u \in Path
  PROVE  KidPairs(Children(c, Pair(p, t, u)), c, p, t, u)
<1> DEFINE item == Pair(p, t, u)
           k == Children(c, item)
<1>1. /\ item \in Items /\ item.from = Join(p, u) /\ item.to = Join(t, u)
      /\ Join(p, u) \in Path /\ Join(t, u) \in Path
  BY PathJoin DEF Pair, Items
<1> HIDE DEF item
<1>2. ASSUME NEW x \in Names
      PROVE  /\ Child(item.from, x) = Join(p, Join(u, <<x>>))
             /\ Child(item.to, x) = Join(t, Join(u, <<x>>))
  <2>1. <<x>> \in Path /\ Child(item.from, x) = Join(Join(p, u), <<x>>)
          /\ Child(item.to, x) = Join(Join(t, u), <<x>>)
    BY <1>1, JoinChild
  <2> QED BY <2>1, PathJoin
<1>3. Kids(k, item, Shown(c, item.from))
  BY <1>1, ChildrenAre
<1> HIDE DEF k
<1>4. \A i \in Shown(c, item.from) : Order[i] \in Names \ Protected /\ Has(c, Child(item.from, Order[i]))
  BY NamesAssumption DEF Shown, Places
<1>5. ASSUME NEW x \in Names \ Protected, Has(c, Child(item.from, x))
      PROVE  \E i \in Shown(c, item.from) : Order[i] = x
  <2>1. x \in Range(Order)
    BY DEF Names
  <2>2. PICK i \in DOMAIN Order : Order[i] = x
    BY <2>1 DEF Range
  <2> QED BY <2>2, <1>5 DEF Shown, Places
<1>6. \A n \in DOMAIN k : \E x \in Names \ Protected :
         Has(c, Join(p, Join(u, <<x>>))) /\ k[n] = Pair(p, t, Join(u, <<x>>))
  <2> TAKE n \in DOMAIN k
  <2>1. PICK i \in Shown(c, item.from) : k[n] = ChildOf(item, Order[i])
    BY <1>3 DEF Kids
  <2> QED BY <2>1, <1>2, <1>4 DEF Pair, ChildOf
<1>7. ASSUME NEW x \in Names \ Protected, Has(c, Join(p, Join(u, <<x>>)))
      PROVE  \E n \in DOMAIN k : k[n] = Pair(p, t, Join(u, <<x>>))
  <2>1. PICK i \in Shown(c, item.from) : Order[i] = x
    BY <1>2, <1>5, <1>7
  <2>2. PICK n \in DOMAIN k : k[n] = ChildOf(item, x)
    BY <1>3, <2>1 DEF Kids
  <2> QED BY <2>2, <1>2 DEF Pair, ChildOf
<1>8. k \in Seq(Items)
  BY <1>3 DEF Kids
<1>9. KidPairs(k, c, p, t, u)
  BY <1>6, <1>7, <1>8 DEF KidPairs
<1> QED BY <1>9 DEF k, item

LEMMA QueueGrows ==
  ASSUME NEW b, NEW p \in Path, NEW t \in Path, NEW k \in Seq(Items), NEW q \in Seq(Items),
         Queued(b, p, t, k), Queued(b, p, t, q)
  PROVE  /\ Queued(b, p, t, k \o q)
         /\ \A s : Pending(p, t, k, s) \/ Pending(p, t, q, s) => Pending(p, t, k \o q, s)
<1> DEFINE r == k \o q
<1>1. /\ Len(k) \in Nat /\ Len(q) \in Nat /\ DOMAIN k = 1 .. Len(k) /\ DOMAIN q = 1 .. Len(q)
      /\ DOMAIN r = 1 .. Len(k) + Len(q)
      /\ \A i \in 1 .. Len(k) : r[i] = k[i]
      /\ \A i \in 1 .. Len(q) : r[Len(k) + i] = q[i]
  BY ConcatType
<1> HIDE DEF r
<1>2. \A n \in DOMAIN r : (n \in DOMAIN k /\ r[n] = k[n]) \/ (\E i \in DOMAIN q : r[n] = q[i])
  <2> TAKE n \in DOMAIN r
  <2>1. CASE n \in 1 .. Len(k)
    BY <2>1, <1>1
  <2>2. CASE n \notin 1 .. Len(k)
    <3>1. n - Len(k) \in 1 .. Len(q) /\ Len(k) + (n - Len(k)) = n
      BY <2>2, <1>1
    <3> QED BY <3>1, <1>1
  <2> QED BY <2>1, <2>2
<1>3. /\ \A n \in DOMAIN k : n \in DOMAIN r /\ r[n] = k[n]
      /\ \A n \in DOMAIN q : Len(k) + n \in DOMAIN r /\ r[Len(k) + n] = q[n]
  BY <1>1
<1>4. Queued(b, p, t, r)
  BY <1>2 DEF Queued
<1>5. \A s : Pending(p, t, k, s) \/ Pending(p, t, q, s) => Pending(p, t, r, s)
  BY <1>3 DEF Pending
<1> QED BY <1>4, <1>5 DEF r

LEMMA ChildrenQueued ==
  ASSUME NEW b, IsCard(b), NEW p \in Path, NEW t \in Path \ {Root}, NEW item,
         NEW u \in Wanted(b, p), item = Pair(p, t, u), NEW listed, SameAt(b, p, listed, p)
  PROVE  /\ Queued(b, p, t, Children(listed, item))
         /\ Children(listed, item) \in Seq(Items)
         /\ \A s \in Wanted(b, p) : IsPrefix(u, s) /\ s # u =>
              Pending(p, t, Children(listed, item), s)
<1> DEFINE k == Children(listed, item)
<1>1. u \in Path /\ ~IsProtected(u)
  BY DEF Wanted
<1>2. KidPairs(k, listed, p, t, u)
  BY <1>1, ChildrenPairs
<1> HIDE DEF k
<1>3. ASSUME NEW x \in Names
      PROVE  /\ Join(u, <<x>>) \in Path /\ (IsProtected(Join(u, <<x>>)) <=> x \in Protected)
             /\ Has(b, Join(p, Join(u, <<x>>))) <=> Has(listed, Join(p, Join(u, <<x>>)))
  <2>1. Join(u, <<x>>) \in Path /\ Join(u, <<x>>) = Child(u, x)
    BY <1>1, JoinChild
  <2> QED BY <2>1, <1>1, ProtectedChild DEF SameAt
<1>4. Queued(b, p, t, k)
  <2> SUFFICES ASSUME NEW n \in DOMAIN k PROVE \E s \in Wanted(b, p) : k[n] = Pair(p, t, s)
    BY DEF Queued
  <2>1. PICK x \in Names \ Protected :
          Has(listed, Join(p, Join(u, <<x>>))) /\ k[n] = Pair(p, t, Join(u, <<x>>))
    BY <1>2 DEF KidPairs
  <2>2. Join(u, <<x>>) \in Wanted(b, p)
    BY <2>1, <1>3 DEF Wanted
  <2> QED BY <2>1, <2>2
<1>5. ASSUME NEW s \in Wanted(b, p), IsPrefix(u, s), s # u PROVE Pending(p, t, k, s)
  <2>1. s \in Path
    BY DEF Wanted
  <2>2. PICK x \in Names : IsPrefix(Join(u, <<x>>), s)
    BY <1>1, <1>5, <2>1, FirstStep
  <2>3. Join(u, <<x>>) \in Wanted(b, p)
    BY <2>2, <1>3, WantedPrefix
  <2>4. x \in Names \ Protected /\ Has(listed, Join(p, Join(u, <<x>>)))
    BY <2>3, <1>3 DEF Wanted
  <2>5. PICK n \in DOMAIN k : k[n] = Pair(p, t, Join(u, <<x>>))
    BY <2>4, <1>2 DEF KidPairs
  <2> QED BY <2>2, <2>5, <1>3 DEF Pending
<1>6. k \in Seq(Items)
  BY <1>2 DEF KidPairs
<1> QED BY <1>4, <1>5, <1>6 DEF k

\* What was heard of the children is queued: all of them, or something is lost.
LEMMA DirectoryCovered ==
  ASSUME NEW b, IsCard(b), NEW c, NEW p \in Path, NEW t \in Path \ {Root}, NEW lost,
         NEW q \in Seq(Items), q # <<>>, Queued(b, p, t, q), Covered(b, p, c, t, q, lost),
         NEW u \in Wanted(b, p), Head(q) = Pair(p, t, u),
         NEW made, DOMAIN c \subseteq DOMAIN made, Has(made, Join(t, u)),
         NEW listed, SameAt(b, p, listed, p),
         NEW h \in Seq(Items), Among(h, Children(listed, Head(q))),
         NEW now, (h = Children(listed, Head(q)) /\ now = lost) \/ now = TRUE
  PROVE  Queued(b, p, t, h \o Tail(q)) /\ Covered(b, p, made, t, h \o Tail(q), now)
<1> DEFINE k == Children(listed, Head(q))
           r == h \o Tail(q)
<1>1. u \in Path /\ Tail(q) \in Seq(Items)
  BY NextItem DEF Wanted
<1>2. /\ Queued(b, p, t, k) /\ Among(h, k)
      /\ (h = k /\ now = lost) \/ now = TRUE
      /\ \A s \in Wanted(b, p) : IsPrefix(u, s) /\ s # u => Pending(p, t, k, s)
  BY ChildrenQueued
<1> HIDE DEF k
<1>3. Queued(b, p, t, h)
  BY <1>2 DEF Queued, Among
<1>4. Popped(b, p, t, q)
  BY TailQueued
<1>5. /\ Queued(b, p, t, r)
      /\ \A s : Pending(p, t, h, s) \/ Pending(p, t, Tail(q), s) => Pending(p, t, r, s)
  BY <1>1, <1>3, <1>4, QueueGrows DEF Popped
<1> HIDE DEF r
<1>6. ASSUME NEW s \in Due(b, p, now), ~Has(made, Join(t, s)) PROVE Pending(p, t, r, s)
  <2>1. s \in Path /\ Pending(p, t, q, s)
    BY <1>6, PathOrder DEF Covered, Due, Wanted, Has
  <2>2. CASE Pending(p, t, Tail(q), s)
    BY <2>2, <1>5
  <2>3. CASE ~Pending(p, t, Tail(q), s)
    <3>1. PICK v \in Path : IsPrefix(v, s) /\ Head(q) = Pair(p, t, v)
      BY <2>1, <2>3, <1>4 DEF Popped
    <3>2. v = u /\ s # u
      BY <3>1, <1>1, <1>6, PairIs
    <3>3. s # Root
      BY <3>1, <3>2, <1>1, PathOrder
    <3>4. h = k /\ s \in Wanted(b, p)
      BY <3>3, <1>2, <1>6 DEF Due
    <3> QED BY <3>1, <3>2, <3>4, <2>1, <1>2, <1>5
  <2> QED BY <2>2, <2>3
<1>7. Covered(b, p, made, t, r, now)
  BY <1>6 DEF Covered
<1> QED BY <1>5, <1>7 DEF r

(***************************************************************************)
(* What a step of the worker owes to a copy.                               *)
(***************************************************************************)
CopyStep ==
  /\ SameAt(before, req.path, card', req.path)
  /\ pc' = "transfer" => Copied'
  /\ (pc' = "answered" /\ reply' = "done") => Whole(before, req.path, card', req.to, cut')

LEMMA CopyingIs ==
  ASSUME TypeInv, MoveInv, CopyInv, Copies, pc = "transfer"
  PROVE  /\ SameAt(before, req.path, card, req.path) /\ Copied
         /\ \A s \in Path : Join(req.to, s) \in Path \ {Root} /\ Apart(req.path, Join(req.to, s))
<1>1. SameAt(before, req.path, card, req.path) /\ Copied
  BY DEF CopyInv
<1>2. req.path \in Path /\ req.to \in Path \ {Root} /\ Apart(req.path, req.to)
  BY CopiesAre DEF Copies
<1>3. \A s \in Path : Join(req.to, s) \in Path \ {Root} /\ Apart(req.path, Join(req.to, s))
  BY <1>2, BelowRoot, ApartJoin
<1> QED BY <1>1, <1>3, SameOrder

LEMMA DirectoryCopied ==
  ASSUME TypeInv, MoveInv, CopyInv, Copies, CopyDirectory
  PROVE  CopyStep
<1> DEFINE p == req.path
           t == req.to
           item == Head(todo)
           made == Mkdir(card, item.to)
<1>1. /\ pc = "transfer" /\ out = NoOut /\ todo # <<>> /\ req' = req /\ before' = before
      /\ IsDir(card, item.from) /\ card' = made
  BY DEF CopyDirectory, Copying, CopyFails
<1>2. /\ p \in Path \ {Root} /\ t \in Path \ {Root} /\ IsCard(card) /\ IsCard(before)
      /\ todo \in Seq(Items) /\ NoOut.path = Root
  BY <1>1, CopiesAre
<1>3. /\ SameAt(before, p, card, p) /\ Copied
      /\ \A s \in Path : Join(t, s) \in Path \ {Root} /\ Apart(p, Join(t, s))
  BY <1>1, CopyingIs
<1>4. PICK u \in Wanted(before, p) : item = Pair(p, t, u)
  BY <1>1, NextPair
<1>5. u \in Path /\ item.from = Join(p, u) /\ item.to = Join(t, u)
  BY <1>4 DEF Wanted, Pair
<1>6. Has(before, Join(p, u)) /\ before[Join(p, u)].dir
  BY <1>1, <1>3, <1>5 DEF SameAt, IsDir
<1>7. SameAt(card, p, made, p)
  BY <1>2, <1>3, <1>5, MkdirSame
<1>8. SameAt(before, p, made, p)
  BY <1>3, <1>7, SameOrder
<1>9. Faithful(before, p, made, t, out.path, cut)
  BY <1>2, <1>3, <1>5, <1>6, MkdirFaithful DEF Copied
<1>10. DOMAIN card \subseteq DOMAIN made /\ (MkdirOk(card, item.to) => Has(made, Join(t, u)))
  BY <1>2, <1>3, <1>5, MkdirIs
<1>11. CASE MkdirOk(card, item.to)
  <2>1. PICK listed \in {card, made}, h \in Seq(Items) :
           /\ todo' = h \o Tail(todo)
           /\ Among(h, Children(listed, item))
           /\ (h = Children(listed, item) /\ cut' = cut) \/ cut' = TRUE
    BY <1>2, <1>11, DirectoryQueues
  <2>2. out' = out /\ pc' = "transfer"
    BY <1>1, <1>11 DEF CopyDirectory
  <2>3. SameAt(before, p, listed, p)
    BY <2>1, <1>3, <1>8
  <2>4. Queued(before, p, t, todo) /\ Covered(before, p, card, t, todo, cut)
    BY <1>3 DEF Copied
  <2>5. Faithful(before, p, made, t, out.path, cut')
    BY <2>1, <1>9 DEF Faithful
  <2>6. item = Pair(p, t, u) /\ Has(made, Join(t, u)) /\ DOMAIN card \subseteq DOMAIN made
    BY <1>4, <1>10, <1>11
  <2> HIDE DEF p, t, made
  <2>7. Queued(before, p, t, todo') /\ Covered(before, p, made, t, todo', cut')
    BY <2>1, <2>3, <2>4, <2>6, <1>1, <1>2, DirectoryCovered
  <2>8. Writing(before, p, made, t, out')
    BY <1>1, <2>2 DEF Writing
  <2>9. Copied'
    BY <1>1, <2>2, <2>5, <2>7, <2>8 DEF Copied, p, t
  <2> QED BY <1>1, <1>8, <2>2, <2>9 DEF CopyStep, p
<1>12. CASE ~MkdirOk(card, item.to)
  <2>1. pc' = "answered" /\ reply' = "failed"
    BY <1>12 DEF CopyDirectory, CopyFails, Answer, AnswerWith
  <2> QED BY <2>1, <1>1, <1>8 DEF CopyStep
<1> QED BY <1>11, <1>12

LEMMA FileCovered ==
  ASSUME NEW b, IsCard(b), NEW c, NEW p \in Path, NEW t \in Path \ {Root}, NEW lost,
         NEW q \in Seq(Items), q # <<>>, Queued(b, p, t, q), Covered(b, p, c, t, q, lost),
         NEW u \in Wanted(b, p), Head(q) = Pair(p, t, u), ~b[Join(p, u)].dir,
         NEW d, DOMAIN c \subseteq DOMAIN d, Has(d, Join(t, u))
  PROVE  Queued(b, p, t, Tail(q)) /\ Covered(b, p, d, t, Tail(q), lost)
<1>1. Popped(b, p, t, q)
  BY TailQueued
<1>2. u \in Path
  BY DEF Wanted
<1>3. ASSUME NEW s \in Due(b, p, lost), ~Has(d, Join(t, s)), ~Pending(p, t, Tail(q), s)
      PROVE  FALSE
  <2>1. Pending(p, t, q, s)
    BY <1>3 DEF Covered, Has
  <2>2. PICK v \in Path : IsPrefix(v, s) /\ Head(q) = Pair(p, t, v)
    BY <2>1, <1>1, <1>3 DEF Popped
  <2>3. v = u
    BY <2>2, <1>2, PairIs
  <2>4. u # s /\ IsPrefix(u, s)
    BY <1>3, <2>2, <2>3
  <2>5. s \in Wanted(b, p)
    BY <2>4, <1>2, <1>3, PathOrder DEF Due
  <2> QED BY <2>4, <2>5, <1>2, WantedPrefix
<1> QED BY <1>1, <1>3 DEF Covered, Popped

LEMMA FileCopied ==
  ASSUME TypeInv, MoveInv, CopyInv, Copies, CopyFile
  PROVE  CopyStep
<1> DEFINE p == req.path
           t == req.to
           item == Head(todo)
           data == card[item.from].data
<1>1. /\ pc = "transfer" /\ out = NoOut /\ todo # <<>> /\ req' = req /\ before' = before
      /\ ~IsDir(card, item.from)
  BY DEF CopyFile, Copying
<1>2. /\ p \in Path \ {Root} /\ t \in Path \ {Root} /\ IsCard(card) /\ IsCard(before)
      /\ todo \in Seq(Items) /\ NoOut.path = Root
  BY <1>1, CopiesAre
<1>3. /\ SameAt(before, p, card, p) /\ Copied
      /\ \A s \in Path : Join(t, s) \in Path \ {Root} /\ Apart(p, Join(t, s))
  BY <1>1, CopyingIs
<1>4. PICK u \in Wanted(before, p) : item = Pair(p, t, u)
  BY <1>1, NextPair
<1>5. u \in Path /\ item.from = Join(p, u) /\ item.to = Join(t, u) /\ Has(before, Join(p, u))
  BY <1>4 DEF Wanted, Pair
<1>6. Has(card, item.from) /\ ~before[Join(p, u)].dir /\ data = before[Join(p, u)].data
  BY <1>1, <1>3, <1>5 DEF SameAt, IsDir
<1>7. SameAt(before, p, OpenWrite(card, item.to), p)
  <2>1. SameAt(card, p, OpenWrite(card, item.to), p)
    BY <1>2, <1>3, <1>5, OpenWriteSame
  <2> QED BY <2>1, <1>3, SameOrder
<1>8. CASE OpenWriteOk(card, item.to)
  <2>1. /\ card' = OpenWrite(card, item.to) /\ out' = OpenedOut(card, item.to, data)
        /\ todo' = Tail(todo) /\ pc' = "transfer" /\ cut' = cut
    BY <1>1, <1>6, <1>8 DEF CopyFile
  <2>2. data \in Seq(Blocks)
    BY <1>2, <1>6, CardIs DEF Has
  <2>3. /\ Faithful(before, p, card, t, Root, cut)
        /\ Queued(before, p, t, todo) /\ Covered(before, p, card, t, todo, cut)
    BY <1>1, <1>2, <1>3 DEF Copied
  <2> HIDE DEF p, t, data
  <2>4. /\ Faithful(before, p, card', t, item.to, cut) /\ FileOpened(card, item.to)
        /\ DOMAIN card \subseteq DOMAIN card'
        /\ Has(card', item.to) /\ card'[item.to].data = <<>>
    BY <2>1, <2>3, <1>2, <1>5, <1>6, <1>8, OpenFaithful
  <2>5. out'.kind = "file" /\ out'.path = item.to /\ out'.rest = data
    BY <2>1, <2>2, <2>4, <1>2, <1>3, <1>5, OpenKept
  <2>6. Queued(before, p, t, todo') /\ Covered(before, p, card', t, todo', cut)
    <3>1. Head(todo) = Pair(p, t, u) /\ Has(card', Join(t, u))
      BY <1>4, <1>5, <2>4
    <3> QED BY <3>1, <2>1, <2>3, <2>4, <1>1, <1>2, <1>6, FileCovered
  <2>7. Writing(before, p, card', t, out')
    <3>1. <<>> \o data = data
      BY <2>2
    <3>2. card'[out'.path].data = <<>> /\ out'.rest = data /\ data = before[Join(p, u)].data
      BY <2>4, <2>5, <1>6 DEF data
    <3>3. card'[out'.path].data \o out'.rest = before[Join(p, u)].data
      BY <3>1, <3>2, Zenon
    <3> QED BY <3>3, <2>4, <2>5, <1>5 DEF Writing
  <2>8. Copied'
    BY <1>1, <2>1, <2>4, <2>5, <2>6, <2>7 DEF Copied, p, t
  <2> QED BY <1>1, <1>7, <2>1, <2>8 DEF CopyStep, p
<1>9. CASE ~OpenWriteOk(card, item.to)
  <2>1. pc' = "answered" /\ reply' = "failed" /\ card' = OpenWrite(card, item.to)
    BY <1>6, <1>9 DEF CopyFile, CopyFails, Answer, AnswerWith
  <2> QED BY <2>1, <1>7 DEF CopyStep
<1> QED BY <1>8, <1>9

LEMMA JoinCancel ==
  \A p, s, u \in Path : Join(p, s) = Join(p, u) => s = u
BY PathJoin

LEMMA ConcatAssoc ==
  ASSUME NEW S, NEW a \in Seq(S), NEW h \in Seq(S), NEW l \in Seq(S)
  PROVE  (a \o h) \o l = a \o (h \o l)
BY ConcatAssociative

LEMMA ConcatIs ==
  ASSUME NEW S, NEW h \in Seq(S), NEW l \in Seq(S), NEW r \in Seq(S),
         Len(r) = Len(h) + Len(l),
         \A i \in 1 .. Len(h) : r[i] = h[i],
         \A i \in 1 .. Len(l) : r[Len(h) + i] = l[i]
  PROVE  h \o l = r
<1> DEFINE m == h \o l
<1>1. /\ m \in Seq(S) /\ Len(m) = Len(h) + Len(l) /\ Len(h) \in Nat /\ Len(l) \in Nat
      /\ \A i \in 1 .. Len(h) : m[i] = h[i]
      /\ \A i \in 1 .. Len(l) : m[Len(h) + i] = l[i]
  BY ConcatType
<1> HIDE DEF m
<1>2. \A i \in 1 .. Len(m) : m[i] = r[i]
  <2> TAKE i \in 1 .. Len(m)
  <2>1. CASE i \in 1 .. Len(h)
    BY <2>1, <1>1
  <2>2. CASE i \notin 1 .. Len(h)
    <3>1. i - Len(h) \in 1 .. Len(l) /\ Len(h) + (i - Len(h)) = i
      BY <2>2, <1>1
    <3> QED BY <3>1, <1>1
  <2> QED BY <2>1, <2>2
<1>3. m = r
  BY <1>1, <1>2, SeqEqual
<1> QED BY <1>3 DEF m

LEMMA BlocksJoin ==
  ASSUME NEW a \in Seq(Blocks), NEW r \in Seq(Blocks)
  PROVE  /\ a \o <<>> = a
         /\ r # <<>> => /\ <<Head(r)>> \in Seq(Blocks) /\ Tail(r) \in Seq(Blocks)
                        /\ (a \o <<Head(r)>>) \o Tail(r) = a \o r
<1>1. a \o <<>> = a
  BY ConcatEmptySeq
<1>2. ASSUME r # <<>>
      PROVE  \E h, l \in Seq(Blocks) : h = <<Head(r)>> /\ l = Tail(r) /\ h \o l = r
  <2>1. /\ Head(r) \in Blocks /\ Head(r) = r[1] /\ Tail(r) \in Seq(Blocks)
        /\ Len(Tail(r)) = Len(r) - 1 /\ Len(r) \in Nat \ {0} /\ Len(Tail(r)) \in Nat
        /\ \A i \in 1 .. Len(Tail(r)) : Tail(r)[i] = r[i + 1]
    BY <1>2, HeadTailProperties, EmptySeq
  <2>2. <<Head(r)>> \in Seq(Blocks) /\ Len(<<Head(r)>>) = 1 /\ <<Head(r)>>[1] = r[1]
    BY <2>1
  <2>3. PICK h, l \in Seq(Blocks) : h = <<Head(r)>> /\ l = Tail(r)
    BY <2>1, <2>2
  <2>4. /\ Len(r) = Len(h) + Len(l)
        /\ \A i \in 1 .. Len(h) : r[i] = h[i]
        /\ \A i \in 1 .. Len(l) : r[Len(h) + i] = l[i]
    BY <2>1, <2>2, <2>3
  <2>5. h \o l = r
    BY ONLY <2>4, h \in Seq(Blocks), l \in Seq(Blocks), r \in Seq(Blocks), ConcatIs
  <2> QED BY <2>3, <2>5
<1>3. ASSUME r # <<>>
      PROVE  /\ <<Head(r)>> \in Seq(Blocks) /\ Tail(r) \in Seq(Blocks)
             /\ (a \o <<Head(r)>>) \o Tail(r) = a \o r
  <2>1. PICK h, l \in Seq(Blocks) : h = <<Head(r)>> /\ l = Tail(r) /\ h \o l = r
    BY <1>2, <1>3
  <2>2. (a \o h) \o l = a \o (h \o l)
    BY ONLY a \in Seq(Blocks), h \in Seq(Blocks), l \in Seq(Blocks), ConcatAssoc
  <2> QED BY <2>1, <2>2, Zenon
<1> QED BY <1>1, <1>3

LEMMA BlockCopied ==
  ASSUME TypeInv, MoveInv, CopyInv, Copies, CopyBlock
  PROVE  CopyStep
<1> DEFINE p == req.path
           t == req.to
           x == out.path
<1>1. pc = "transfer" /\ out # NoOut /\ req' = req /\ before' = before
  BY DEF CopyBlock, Copying
<1>2. /\ p \in Path \ {Root} /\ t \in Path \ {Root} /\ IsCard(card) /\ IsCard(before)
      /\ NoOut.path = Root
  BY <1>1, CopiesAre
<1>3. /\ SameAt(before, p, card, p) /\ Copied
      /\ \A s \in Path : Join(t, s) \in Path \ {Root} /\ Apart(p, Join(t, s))
  BY <1>1, CopyingIs
<1>4. out \in Outs /\ x \in DOMAIN card /\ ~card[x].dir /\ out.kind = "file"
  BY <1>1, <1>3 DEF TypeInv, WorkInv, Copied, Writing, Has
<1>5. PICK u \in Wanted(before, p) :
         x = Join(t, u) /\ card[x].data \o out.rest = before[Join(p, u)].data
  BY <1>1, <1>3 DEF Copied, Writing
<1>6. u \in Path /\ x \in Path /\ Apart(p, x)
  BY <1>3, <1>5 DEF Wanted
<1>7. card[x].data \in Seq(Blocks) /\ out.rest \in Seq(Blocks)
  BY <1>2, <1>4, CardIs DEF Outs
<1>8. /\ Faithful(before, p, card, t, x, cut)
      /\ Queued(before, p, t, todo) /\ Covered(before, p, card, t, todo, cut)
  BY <1>3 DEF Copied
<1>9. CASE out.rest = <<>> /\ out' = NoOut /\ UNCHANGED <<card, pc, answers, todo, cut>>
  <2>1. card[x].data = before[Join(p, u)].data
    BY <1>5, <1>7, <1>9, BlocksJoin
  <2>2. Faithful(before, p, card, t, Root, cut)
    <3> SUFFICES ASSUME NEW s \in Path, Has(card, Join(t, s)), Join(t, s) = x
                 PROVE  card[Join(t, s)].data = before[Join(p, s)].data
      BY <1>8 DEF Faithful
    <3>1. Join(t, s) = Join(t, u)
      BY <1>5
    <3>2. s = u
      BY <3>1, <1>2, <1>6, JoinCancel, Zenon
    <3> QED BY <3>2, <2>1
  <2>3. card' = card /\ todo' = todo /\ out' = NoOut /\ pc' = pc /\ cut' = cut
    BY <1>9
  <2>4. Copied'
    BY <1>1, <1>2, <1>8, <2>2, <2>3 DEF Copied, Writing
  <2> QED BY <1>1, <1>3, <2>3, <2>4 DEF CopyStep
<1>10. CASE /\ out.rest # <<>> /\ out.kind = "file"
            /\ card' = WriteTo(card, out.path, <<Head(out.rest)>>)
            /\ out' = [out EXCEPT !.rest = Tail(@)]
            /\ UNCHANGED <<pc, answers, todo, cut>>
  <2> DEFINE h == <<Head(out.rest)>>
  <2>1. /\ h \in Seq(Blocks) /\ Tail(out.rest) \in Seq(Blocks)
        /\ (card[x].data \o h) \o Tail(out.rest) = card[x].data \o out.rest
    BY <1>7, <1>10, BlocksJoin
  <2>2. /\ out'.kind = "file" /\ out'.path = x /\ out'.rest = Tail(out.rest)
        /\ card' = WriteTo(card, x, h) /\ todo' = todo /\ pc' = pc /\ cut' = cut
    BY <1>4, <1>10 DEF Outs
  <2> HIDE DEF h, x, p, t
  <2>3. /\ DOMAIN card' = DOMAIN card /\ \A q \in DOMAIN card : q # x => card'[q] = card[q]
        /\ card'[x].dir = card[x].dir /\ card'[x].data = card[x].data \o h
    BY <1>2, <1>4, <2>1, <2>2, WriteToIs
  <2>4. SameAt(before, p, card', p)
    <3>1. SameAt(card, p, card', p)
      BY <1>2, <1>4, <1>6, <2>1, <2>2, WriteToSame
    <3> QED BY <3>1, <1>3, SameOrder
  <2>5. Faithful(before, p, card', t, x, cut)
    <3>1. Begins(card'[x].data, before[Join(p, u)].data)
      BY <1>5, <2>1, <2>3 DEF Begins
    <3>2. \A s \in Path : Join(t, s) = x => s = u
      BY <1>2, <1>5, <1>6, JoinCancel
    <3> QED BY <3>1, <3>2, <1>8, <2>3 DEF Faithful, Has
  <2>6. Covered(before, p, card', t, todo', cut)
    BY <1>8, <2>2, <2>3 DEF Covered, Has
  <2>7. Writing(before, p, card', t, out')
    <3>1. card'[x].data \o Tail(out.rest) = before[Join(p, u)].data
      BY <1>5, <2>1, <2>3
    <3>2. Has(card', x)
      BY <1>4, <2>3 DEF Has
    <3> QED BY <3>1, <3>2, <2>2, <1>5 DEF Writing
  <2>8. Copied'
    BY <1>1, <1>8, <2>2, <2>5, <2>6, <2>7 DEF Copied, p, t
  <2> QED BY <1>1, <2>2, <2>4, <2>8 DEF CopyStep, p
<1>11. CASE CopyFails(Unlink(card, out.path))
  <2>1. pc' = "answered" /\ reply' = "failed" /\ card' = Unlink(card, x)
    BY <1>11 DEF CopyFails, Answer, AnswerWith
  <2>2. SameAt(card, p, card', p)
    BY <2>1, <1>2, <1>6, UnlinkSame
  <2> QED BY <2>1, <2>2, <1>1, <1>3, SameOrder DEF CopyStep
<1>12. CASE out' = NoOut /\ UNCHANGED <<card, pc, answers, todo>> /\ cut' = TRUE
  <2>1. card' = card /\ todo' = todo /\ pc' = pc
    BY <1>12
  <2>2. Faithful(before, p, card, t, Root, cut') /\ Covered(before, p, card, t, todo, cut')
    BY <1>8, <1>12 DEF Faithful, Covered, Due
  <2>3. Copied'
    BY <1>1, <1>2, <1>8, <1>12, <2>1, <2>2 DEF Copied, Writing
  <2> QED BY <1>1, <1>3, <2>1, <2>3 DEF CopyStep
<1> QED BY <1>9, <1>10, <1>11, <1>12 DEF CopyBlock, NoFault

LEMMA EndsCopied ==
  ASSUME TypeInv, MoveInv, CopyInv, Copies, CopyEnds
  PROVE  CopyStep
<1> DEFINE p == req.path
           t == req.to
<1>1. /\ pc = "transfer" /\ out = NoOut /\ todo = <<>> /\ card' = card /\ pc' = "answered"
      /\ cut' = cut
  BY DEF CopyEnds, Copying, Answer, AnswerWith
<1>2. SameAt(before, p, card, p) /\ Copied
  BY <1>1, CopyingIs
<1>3. Whole(before, p, card, t, cut)
  BY <1>1, <1>2, CopiesAre DEF Copied, Whole
<1> QED BY <1>1, <1>2, <1>3 DEF CopyStep

LEMMA UnreadableCopied ==
  ASSUME TypeInv, MoveInv, CopyInv, Copies, CopyUnreadable
  PROVE  CopyStep
<1>1. pc = "transfer" /\ card' = card /\ pc' = "answered" /\ reply' = "failed"
  BY DEF CopyUnreadable, CopyFails, Copying, Answer, AnswerWith
<1> QED BY <1>1, CopyingIs DEF CopyStep

LEMMA RefusedCopied ==
  ASSUME MoveInv, pc = "handle", card' = card, pc' = "answered", reply' # "done"
  PROVE  CopyStep
BY SameOrder DEF MoveInv, CopyStep

LEMMA StepCopied ==
  ASSUME CopyStep, Copies, req' = req, before' = before, pc' \in {"transfer", "answered"}
  PROVE  CopyInv'
BY DEF CopyStep, CopyInv, Copies

LEMMA OtherCopied ==
  ASSUME ~Copies, req' = req, pc' = "write" => req.method # "COPY"
  PROVE  CopyInv'
BY DEF CopyInv, Copies

LEMMA ServesCopied ==
  ASSUME TypeInv, MoveInv, CopyInv, Serves
  PROVE  CopyInv'
<1>1. CASE Refuse
  <2>1. /\ pc = "handle" /\ card' = card /\ pc' = "answered" /\ reply' # "done"
        /\ req' = req /\ before' = before
    BY <1>1 DEF Refuse, Answer, AnswerWith
  <2> QED BY <2>1, RefusedCopied, StepCopied, OtherCopied
<1>2. CASE HandleOptions \/ HandleLock \/ HandlePage \/ HandlePropfind \/ HandleFiles
  BY <1>2, OtherCopied DEF HandleOptions, HandleLock, HandlePage, HandlePropfind, HandleFiles,
       ReadsOnly, Handles, Answer, AnswerWith, Copies
<1>3. CASE HandleDownload \/ HandleDownloadHead
  BY <1>3, OtherCopied DEF HandleDownload, HandleDownloadHead, NotAFile, ReadsOnly, Handles,
       Answer, AnswerWith, Copies
<1>4. CASE HandleUpload \/ HandlePut
  BY <1>4, OtherCopied DEF HandleUpload, HandlePut, Handles, Copies
<1>5. CASE WriteBody
  BY <1>5, OtherCopied DEF WriteBody, Answer, AnswerWith, CopyInv, Copies
<1>6. CASE HandleMkdir \/ HandleMkcol
  BY <1>6, OtherCopied DEF HandleMkdir, HandleMkcol, Makes, Handles, Answer, AnswerWith, Copies
<1>7. CASE HandleRename \/ HandleMove
  BY <1>7, OtherCopied DEF HandleRename, HandleMove, Renames, Handles, Answer, AnswerWith, Copies
<1>8. CASE HandleDelete
  BY <1>8, OtherCopied DEF HandleDelete, Handles, Answer, AnswerWith, Copies
<1>9. CASE HandleTransferRefused
  <2>1. /\ pc = "handle" /\ card' = card /\ pc' = "answered" /\ reply' # "done"
        /\ req' = req /\ before' = before
    BY <1>9 DEF HandleTransferRefused, Handles, Answer, AnswerWith
  <2> QED BY <2>1, RefusedCopied, StepCopied, OtherCopied
<1>10. CASE HandleTransfer
  <2>1. /\ req' = req /\ before' = before /\ pc' \in {"transfer", "answered"}
        /\ pc' = "answered" => reply' # "done"
    BY <1>10 DEF HandleTransfer, Answer, AnswerWith
  <2>2. CASE Copies
    BY <1>10, <2>1, <2>2, BeginsCopied, StepCopied DEF CopyStep
  <2>3. CASE ~Copies
    BY <2>1, <2>3, OtherCopied
  <2> QED BY <2>2, <2>3
<1>11. CASE DoMove
  BY <1>11, OtherCopied DEF DoMove, Answer, AnswerWith, Copies
<1>12. CASE CopyUnreadable \/ CopyDirectory \/ CopyFile \/ CopyBlock \/ CopyEnds
  <2>1. pc = "transfer" /\ req' = req /\ before' = before
    BY <1>12 DEF CopyUnreadable, CopyDirectory, CopyFile, CopyBlock, CopyEnds, Copying
  <2>2. pc' \in {"transfer", "answered"}
    <3>1. CASE CopyDirectory
      BY <3>1, <2>1 DEF CopyDirectory, CopyFails, Answer, AnswerWith
    <3>2. CASE CopyFile
      BY <3>2, <2>1 DEF CopyFile, CopyFails, Answer, AnswerWith
    <3>3. CASE CopyBlock
      BY <3>3, <2>1 DEF CopyBlock, CopyFails, Answer, AnswerWith
    <3>4. CASE CopyUnreadable \/ CopyEnds
      BY <3>4 DEF CopyUnreadable, CopyFails, CopyEnds, Answer, AnswerWith
    <3> QED BY <1>12, <3>1, <3>2, <3>3, <3>4
  <2>3. CASE Copies
    <3>1. CopyStep
      BY <1>12, <2>3, UnreadableCopied, DirectoryCopied, FileCopied, BlockCopied, EndsCopied
    <3> QED BY <3>1, <2>1, <2>2, <2>3, StepCopied
  <2>4. CASE ~Copies
    BY <2>1, <2>2, <2>4, OtherCopied
  <2> QED BY <2>3, <2>4
<1> QED BY <1>1, <1>2, <1>3, <1>4, <1>5, <1>6, <1>7, <1>8, <1>9, <1>10, <1>11, <1>12 DEF Serves

(***************************************************************************)
(* The firmware changes nothing a copy looks at.                           *)
(***************************************************************************)
LEMMA AlikeCopied ==
  ASSUME NEW b, NEW c, NEW d, Alike(c, d), NEW p, NEW t
  PROVE  /\ \A x, l : Faithful(b, p, c, t, x, l) => Faithful(b, p, d, t, x, l)
         /\ \A q, l : Covered(b, p, c, t, q, l) => Covered(b, p, d, t, q, l)
         /\ \A o : Writing(b, p, c, t, o) => Writing(b, p, d, t, o)
         /\ \A l : Whole(b, p, c, t, l) => Whole(b, p, d, t, l)
         /\ SameAt(b, p, c, p) => SameAt(b, p, d, p)
<1>1. /\ \A q : Has(c, q) <=> Has(d, q)
      /\ \A q : Has(c, q) => d[q].dir = c[q].dir /\ d[q].data = c[q].data
  BY DEF Alike, Has
<1>2. \A x, l : Faithful(b, p, c, t, x, l) => Faithful(b, p, d, t, x, l)
  BY <1>1 DEF Faithful
<1>3. \A q, l : Covered(b, p, c, t, q, l) => Covered(b, p, d, t, q, l)
  BY <1>1 DEF Covered
<1>4. \A o : Writing(b, p, c, t, o) => Writing(b, p, d, t, o)
  <2> SUFFICES ASSUME NEW o, Writing(b, p, c, t, o) PROVE Writing(b, p, d, t, o)
    OBVIOUS
  <2>1. CASE o = NoOut
    BY <2>1 DEF Writing
  <2>2. CASE o # NoOut
    <3>1. PICK s \in Wanted(b, p) : /\ o.path = Join(t, s) /\ Has(c, o.path)
                                    /\ c[o.path].data \o o.rest = b[Join(p, s)].data
      BY <2>2 DEF Writing
    <3>2. d[o.path].data \o o.rest = b[Join(p, s)].data
      BY <3>1, <1>1, Zenon
    <3> QED BY <2>2, <3>1, <3>2, <1>1 DEF Writing
  <2> QED BY <2>1, <2>2
<1>5. \A l : Whole(b, p, c, t, l) => Whole(b, p, d, t, l)
  BY <1>2, <1>3 DEF Whole
<1>6. SameAt(b, p, c, p) => SameAt(b, p, d, p)
  BY SameOrder
<1> QED BY <1>2, <1>3, <1>4, <1>5, <1>6

LEMMA CopyInvStep ==
  ASSUME TypeInv, MoveInv, CopyInv, [Next]_vars
  PROVE  CopyInv'
<1>1. CASE Serves
  BY <1>1, ServesCopied
<1>2. CASE TestActive \/ SelectTimesOut \/ Close \/ \E r \in Requests : Accept(r)
  BY <1>2 DEF TestActive, SelectTimesOut, Close, Accept, CopyInv
<1>3. CASE Firmware \/ UNCHANGED vars
  <2>1. Alike(card, card')
    BY <1>3, FirmwareTypeInv, AlikeSelf DEF vars
  <2>2. \/ pc' \in {"none", "loop"}
        \/ /\ pc' = pc /\ req' = req /\ reply' = reply /\ before' = before
           /\ todo' = todo /\ out' = out /\ cut' = cut
    BY <1>3 DEF Firmware, vars, server, answers, Begin, StopJoins, StopTakes, StopCloses,
         ReadOpens, ReadFile, ReadFileToString, Returns,
         WalkOpens, WalkNext, WalkEnds, WalkLeaves, WalkReturns, WalkForgotten
  <2>3. CASE pc' \in {"none", "loop"}
    BY <2>3 DEF CopyInv
  <2>4. CASE /\ pc' = pc /\ req' = req /\ reply' = reply /\ before' = before
             /\ todo' = todo /\ out' = out /\ cut' = cut
    <3>1. Copied => Copied'
      BY <2>1, <2>4, AlikeCopied DEF Copied
    <3>2. SameAt(before, req.path, card, req.path) => SameAt(before, req.path, card', req.path)
      BY <2>1, AlikeCopied
    <3>3. Whole(before, req.path, card, req.to, cut) => Whole(before, req.path, card', req.to, cut)
      BY <2>1, AlikeCopied
    <3>4. Copies' <=> Copies
      BY <2>4 DEF Copies
    <3> QED BY <2>4, <3>1, <3>2, <3>3, <3>4 DEF CopyInv
  <2> QED BY <2>2, <2>3, <2>4
<1> QED BY <1>1, <1>2, <1>3 DEF Next, Worker

LEMMA BeginsPrefix ==
  ASSUME NEW some \in Seq(Blocks), NEW all, Begins(some, all)
  PROVE  IsPrefix(some, all)
<1>1. PICK rest \in Seq(Blocks) : some \o rest = all
  BY DEF Begins
<1>2. IsPrefix(some, some \o rest)
  BY PrefixConcat
<1> QED BY <1>1, <1>2, Zenon

LEMMA WholeStored ==
  ASSUME NEW b, IsCard(b), NEW c, IsCard(c), NEW p \in Path, NEW t \in Path,
         NEW lost, Whole(b, p, c, t, lost)
  PROVE  /\ ~lost => Stored(c, t) = VisiblyStored(b, p)
         /\ BeginningOf(Stored(c, t), VisiblyStored(b, p))
<1> DEFINE from == {s \in Path : Has(b, Join(p, s))}
           there == {s \in Path : Has(c, Join(t, s))}
           shown == {s \in from : ~IsProtected(s)}
           was(s) == [dir |-> b[Join(p, s)].dir, data |-> b[Join(p, s)].data]
           is(s) == [dir |-> c[Join(t, s)].dir, data |-> c[Join(t, s)].data]
           all == Stored(b, p)
<1>1. all = [s \in from |-> was(s)] /\ Stored(c, t) = [s \in there |-> is(s)]
  <2>1. DOMAIN b \subseteq Path /\ DOMAIN c \subseteq Path
    BY CardIs
  <2> HIDE DEF from, there, was, is, all
  <2>2. Stored(b, p) = [s \in from |-> was(s)]
    BY <2>1, StoredIs DEF from, was
  <2>3. Stored(c, t) = [s \in there |-> is(s)]
    BY <2>1, StoredIs DEF there, is
  <2> QED BY <2>2, <2>3 DEF all
<1>2. /\ there \subseteq shown /\ Root \in there
      /\ ~lost => there = shown
  <2>1. Faithful(b, p, c, t, Root, lost) /\ Covered(b, p, c, t, <<>>, lost)
    BY DEF Whole
  <2>2. \A s : ~Pending(p, t, <<>>, s)
    <3>1. DOMAIN <<>> = {}
      OBVIOUS
    <3> QED BY <3>1 DEF Pending
  <2>3. \A s \in Due(b, p, lost) : Has(c, Join(t, s))
    BY <2>1, <2>2 DEF Covered
  <2>4. \A s \in there : s \in Wanted(b, p)
    BY <2>1 DEF Faithful
  <2> QED BY <2>3, <2>4, PathOrder DEF Due, Wanted
<1>3. \A s \in there : /\ c[Join(t, s)].dir = b[Join(p, s)].dir
                       /\ IsPrefix(c[Join(t, s)].data, b[Join(p, s)].data)
                       /\ ~lost => c[Join(t, s)].data = b[Join(p, s)].data
  <2> SUFFICES ASSUME NEW s \in there
               PROVE  /\ c[Join(t, s)].dir = b[Join(p, s)].dir
                      /\ IsPrefix(c[Join(t, s)].data, b[Join(p, s)].data)
                      /\ ~lost => c[Join(t, s)].data = b[Join(p, s)].data
    OBVIOUS
  <2>1. Join(t, s) \in DOMAIN c /\ Faithful(b, p, c, t, Root, lost) /\ s \in Path
    BY DEF Whole, Has
  <2>2. /\ c[Join(t, s)].dir = b[Join(p, s)].dir
        /\ Begins(c[Join(t, s)].data, b[Join(p, s)].data)
        /\ c[Join(t, s)].data = b[Join(p, s)].data \/ Join(t, s) = Root \/ lost
    BY <2>1 DEF Faithful, Has
  <2>3. c[Join(t, s)].data \in Seq(Blocks)
    BY <2>1, CardIs
  <2>4. Join(t, s) = Root => c[Join(t, s)].data = b[Join(p, s)].data
    <3> SUFFICES ASSUME Join(t, s) = Root PROVE c[Join(t, s)].data = b[Join(p, s)].data
      OBVIOUS
    <3>1. c[Join(t, s)].dir
      BY CardIs
    <3>2. Has(b, Join(p, s)) /\ b[Join(p, s)].dir
      BY <1>2, <2>2, <3>1
    <3> QED BY <2>1, <3>1, <3>2, CardIs DEF Has
  <2> QED BY <2>2, <2>3, <2>4, BeginsPrefix
<1>4. VisiblyStored(b, p) = [s \in shown |-> was(s)]
  <2> HIDE DEF all
  <2>1. {r \in DOMAIN all : ~IsProtected(r)} = shown /\ \A q \in shown : all[q] = was(q)
    BY <1>1
  <2>2. VisiblyStored(b, p) = [q \in {r \in DOMAIN all : ~IsProtected(r)} |-> all[q]]
    BY DEF VisiblyStored, all
  <2> QED BY <2>1, <2>2
<1>5. ASSUME ~lost PROVE Stored(c, t) = VisiblyStored(b, p)
  <2>1. \A s \in there : is(s) = was(s)
    BY <1>3, <1>5
  <2> HIDE DEF from, there, was, is
  <2> QED BY <2>1, <1>1, <1>2, <1>4, <1>5
<1>6. BeginningOf(Stored(c, t), VisiblyStored(b, p))
  <2>1. /\ DOMAIN Stored(c, t) = there /\ DOMAIN VisiblyStored(b, p) = shown
        /\ \A s \in there : Stored(c, t)[s] = is(s) /\ VisiblyStored(b, p)[s] = was(s)
    BY <1>1, <1>2, <1>4
  <2>2. \A s \in there : is(s).dir = was(s).dir /\ IsPrefix(is(s).data, was(s).data)
    BY <1>3
  <2> HIDE DEF from, there, shown, was, is
  <2> QED BY <2>1, <2>2, <1>2 DEF BeginningOf
<1> QED BY <1>5, <1>6

(***************************************************************************)
(* A COPY that was answered as done has nothing at the destination but     *)
(* what the source showed, of each file the beginning, and all of it       *)
(* unless a read of the source failed on the way; whatever the answer, the *)
(* source is as it was.                                                    *)
(***************************************************************************)
THEOREM CopyIsWhole == Spec => []CopyWhole
<1>1. Init => MoveInv /\ CopyInv
  BY DEF Init, MoveInv, CopyInv
<1>2. TypeInv /\ MoveInv /\ CopyInv => CopyWhole
  <2> SUFFICES ASSUME TypeInv, MoveInv, CopyInv, pc = "answered", Copies
               PROVE  /\ reply = "done" =>
                           IF cut THEN BeginningOf(Stored(card, req.to),
                                                   VisiblyStored(before, req.path))
                           ELSE Stored(card, req.to) = VisiblyStored(before, req.path)
                      /\ Stored(card, req.path) = Stored(before, req.path)
    BY DEF CopyWhole, Copies, Apart
  <2>1. /\ IsCard(card) /\ IsCard(before) /\ req.path \in Path /\ req.to \in Path
    BY CopiesAre
  <2>2. Stored(before, req.path) = Stored(card, req.path)
    BY <2>1, CardIs, SameStored DEF CopyInv
  <2>3. ASSUME reply = "done"
        PROVE  /\ ~cut => Stored(card, req.to) = VisiblyStored(before, req.path)
               /\ BeginningOf(Stored(card, req.to), VisiblyStored(before, req.path))
    <3>1. Whole(before, req.path, card, req.to, cut)
      BY <2>3 DEF CopyInv
    <3> QED BY <3>1, <2>1, WholeStored
  <2> QED BY <2>2, <2>3
<1> QED BY <1>1, <1>2, MoveInvStep, CopyInvStep, TypeInvHolds, PTL DEF Spec

-----------------------------------------------------------------------------
(***************************************************************************)
(* A walk.  How many entries of a directory come up to a place says where  *)
(* seekSet() lands.                                                        *)
(***************************************************************************)
LEMMA UptoFinite ==
  ASSUME NEW S \in SUBSET DOMAIN Order, NEW m
  PROVE  /\ IsFiniteSet({j \in S : j <= m}) /\ Rank(m, S) \in Nat
         /\ Rank(m, S) = Cardinality({j \in S : j <= m})
<1> DEFINE a == {j \in S : j <= m}
<1>1. IsFiniteSet(S) /\ a \in SUBSET S
  BY PlacesFinite
<1> HIDE DEF a
<1>2. IsFiniteSet(a) /\ Cardinality(a) \in Nat
  BY <1>1, FS_Subset, FS_CardinalityType
<1> QED BY <1>2 DEF Rank, a

LEMMA RankWithin ==
  ASSUME NEW T \in SUBSET DOMAIN Order, NEW S \in SUBSET T, NEW m
  PROVE  Rank(m, S) <= Rank(m, T)
<1> DEFINE a == {j \in S : j <= m}
           b == {j \in T : j <= m}
<1>1. IsFiniteSet(b) /\ Rank(m, S) = Cardinality(a) /\ Rank(m, T) = Cardinality(b)
  BY UptoFinite
<1>2. a \in SUBSET b
  OBVIOUS
<1> HIDE DEF a, b
<1> QED BY <1>1, <1>2, FS_Subset

LEMMA RankBelow ==
  ASSUME NEW T \in SUBSET DOMAIN Order, NEW S \in SUBSET T, NEW m \in Nat, NEW n \in T, m < n
  PROVE  Rank(m, S) < Rank(n, T)
<1> DEFINE a == {j \in S : j <= m}
           b == {j \in T : j <= n}
<1>1. /\ IsFiniteSet(b) /\ Rank(m, S) = Cardinality(a) /\ Rank(n, T) = Cardinality(b)
      /\ Rank(m, S) \in Nat /\ Rank(n, T) \in Nat
  BY UptoFinite
<1>2. a \in SUBSET b /\ n \in b /\ n \notin a
  <2>1. T \subseteq Nat
    BY PlacesFinite
  <2> QED BY <2>1
<1> HIDE DEF a, b
<1>3. Cardinality(a) <= Cardinality(b) /\ (Cardinality(b) = Cardinality(a) => b = a)
  BY <1>1, <1>2, FS_Subset
<1> QED BY <1>1, <1>2, <1>3

LEMMA RankNext ==
  ASSUME NEW S \in SUBSET DOMAIN Order, NEW m \in Nat, NEW n \in S, m < n,
         \A j \in S : j > m => n <= j
  PROVE  Rank(n, S) = Rank(m, S) + 1
<1> DEFINE a == {j \in S : j <= m}
           b == {j \in S : j <= n}
<1>1. IsFiniteSet(a) /\ Rank(m, S) = Cardinality(a) /\ Rank(n, S) = Cardinality(b)
  BY UptoFinite
<1>2. b = a \cup {n} /\ n \notin a
  <2>1. S \subseteq Nat
    BY PlacesFinite
  <2> QED BY <2>1
<1> HIDE DEF a, b
<1> QED BY <1>1, <1>2, FS_AddElement

LEMMA RankZero ==
  ASSUME NEW S \in SUBSET DOMAIN Order
  PROVE  Rank(0, S) = 0
<1>1. \A j \in S : j \in Nat /\ j # 0
  BY NamesAssumption
<1>2. {j \in S : j <= 0} = {}
  BY <1>1
<1> QED BY <1>2, FS_EmptySet DEF Rank

LEMMA IndexIs ==
  /\ \A i \in DOMAIN Order : /\ i \in Nat /\ i > 0 /\ Order[i] \in Names
                             /\ IndexOf(Order[i]) = i
  /\ \A x \in Names : IndexOf(x) \in DOMAIN Order /\ Order[IndexOf(x)] = x
  /\ \A i, j \in DOMAIN Order : Order[i] = Order[j] => i = j
<1>1. \A i \in DOMAIN Order : i \in Nat /\ i > 0 /\ Order[i] \in Names
  BY NamesAssumption
<1>2. \A i, j \in DOMAIN Order : Order[i] = Order[j] => i = j
  BY NamesAssumption DEF IsInjective
<1>3. ASSUME NEW x \in Names PROVE IndexOf(x) \in DOMAIN Order /\ Order[IndexOf(x)] = x
  <2>1. x \in Range(Order)
    BY DEF Names
  <2>2. \E i \in DOMAIN Order : Order[i] = x
    BY <2>1 DEF Range
  <2> QED BY <2>2 DEF IndexOf
<1> QED BY <1>1, <1>2, <1>3

LEMMA ListingIs ==
  /\ \A c : /\ Places(c, WalkDir) \in SUBSET DOMAIN Order
            /\ Listing(c) \subseteq Names
            /\ \A i \in DOMAIN Order : Order[i] \in Listing(c) <=> i \in Places(c, WalkDir)
  /\ \A c, d : Listing(c) \subseteq Listing(d) => Places(c, WalkDir) \subseteq Places(d, WalkDir)
<1>1. ASSUME NEW c
      PROVE  /\ Places(c, WalkDir) \in SUBSET DOMAIN Order
             /\ Listing(c) \subseteq Names
             /\ \A i \in DOMAIN Order : Order[i] \in Listing(c) <=> i \in Places(c, WalkDir)
  <2> DEFINE S == Places(c, WalkDir)
             o == Ordered(S)
  <2>1. S \in SUBSET DOMAIN Order
    BY DEF Places
  <2>2. Listing(c) = Range(o)
    BY DEF Listing, Entries
  <2> HIDE DEF S
  <2>3. /\ \A i \in S : \E n \in DOMAIN o : o[n] = Order[i]
        /\ \A n \in DOMAIN o : \E i \in S : o[n] = Order[i]
    BY <2>1, OrderedIs
  <2> HIDE DEF o
  <2>4. \A x : x \in Range(o) <=> \E i \in S : Order[i] = x
    BY <2>3 DEF Range
  <2>5. \A i \in DOMAIN Order : Order[i] \in Range(o) <=> i \in S
    BY <2>1, <2>4, IndexIs
  <2>6. Range(o) \subseteq Names
    BY <2>1, <2>4, IndexIs
  <2> QED BY <2>1, <2>2, <2>5, <2>6 DEF S
<1>2. ASSUME NEW c, NEW d, Listing(c) \subseteq Listing(d), NEW i \in Places(c, WalkDir)
      PROVE  i \in Places(d, WalkDir)
  <2>1. i \in DOMAIN Order /\ Order[i] \in Listing(c)
    BY <1>1, <1>2
  <2> QED BY <2>1, <1>1, <1>2
<1> QED BY <1>1, <1>2

(***************************************************************************)
(* The walk has come to the place Mark.  If no entry was removed, all that *)
(* were there at the start are still there, those up to the mark were      *)
(* seen, and at least as many entries as were counted come up to it.  If   *)
(* none was added, nothing beyond the mark was seen, and at most as many   *)
(* come up to it, the mark itself counted whether or not it is left.       *)
(***************************************************************************)
Walks == [pos : Nat, last : Names \cup {NoName}, start : SUBSET Names, seen : SUBSET Names,
          again : BOOLEAN, added : BOOLEAN, removed : BOOLEAN, gone : BOOLEAN]
Walking == fw \in {"walking", "away"}
Here == Places(card, WalkDir)
Mark == IF walk.last = NoName THEN 0 ELSE IndexOf(walk.last)

Unmissed ==
  /\ \A i \in DOMAIN Order : Order[i] \in walk.start => i \in Here
  /\ walk.gone => walk.start = {}
  /\ \A i \in DOMAIN Order : Order[i] \in walk.start /\ i <= Mark => Order[i] \in walk.seen
  /\ walk.pos # 0 => walk.pos <= 2 + Rank(Mark, Here)

Unrepeated ==
  /\ ~walk.again
  /\ \A i \in DOMAIN Order : Order[i] \in walk.seen => i <= Mark
  /\ walk.pos # 0 => 2 + Rank(Mark, Here \cup {Mark}) <= walk.pos

WalkInv ==
  /\ walk \in Walks
  /\ ~Walking => WalkAccounts
  /\ Walking =>
       /\ walk.pos = 0 <=> walk.last = NoName
       /\ walk.pos = 0 => fw = "walking" /\ walk.seen = {}
       /\ walk.pos # 0 => walk.pos >= 3
       /\ ~walk.removed => Unmissed
       /\ ~walk.added => Unrepeated

LEMMA MarkIs ==
  ASSUME walk \in Walks
  PROVE  /\ Mark \in Nat /\ Here \in SUBSET DOMAIN Order
         /\ walk.last = NoName => Mark = 0
         /\ walk.last # NoName => Mark \in DOMAIN Order /\ Order[Mark] = walk.last
<1>1. walk.last \in Names \cup {NoName}
  BY DEF Walks
<1> QED BY <1>1, IndexIs DEF Mark, Here, Places

LEMMA NoWalkOK == NoWalk \in Walks
BY DEF NoWalk, Walks

LEMMA AheadIs ==
  ASSUME walk \in Walks
  PROVE  /\ Ahead = <<>> => walk.gone \/ \A j \in Here : j <= Mark
         /\ Ahead # <<>> => \E n \in Here : /\ Head(Ahead) = Order[n] /\ n > Mark
                                            /\ \A j \in Here : j > Mark => n <= j
<1> DEFINE later == {i \in Here : walk.last = NoName \/ i > IndexOf(walk.last)}
<1>1. later = {i \in Here : i > Mark}
  BY IndexIs, MarkIs DEF Mark
<1>2. Ahead = IF walk.gone THEN <<>> ELSE Ordered(later)
  BY DEF Ahead, Here
<1> HIDE DEF later
<1>3. later \in SUBSET DOMAIN Order /\ \A i, j \in later : i \in Nat /\ (i < j \/ j <= i)
  BY <1>1, IndexIs, MarkIs
<1> DEFINE o == Ordered(later)
<1>4. /\ o \in Seq(Names)
      /\ \A i \in later : Rank(i, later) \in DOMAIN o
      /\ \A n \in DOMAIN o : \E i \in later : Rank(i, later) = n /\ o[n] = Order[i]
  BY <1>3, OrderedIs
<1>5. \A i, j \in later : i < j => Rank(i, later) < Rank(j, later)
  BY <1>3, RankIs
<1> HIDE DEF o
<1>6. o = <<>> => later = {}
  BY <1>4
<1>7. ASSUME o # <<>>
      PROVE  \E n \in later : Head(o) = Order[n] /\ \A j \in later : n <= j
  <2>1. 1 \in DOMAIN o /\ Head(o) = o[1] /\ \A n \in DOMAIN o : n \in Nat /\ n >= 1
    BY <1>4, <1>7
  <2>2. PICK n \in later : Rank(n, later) = 1 /\ o[1] = Order[n]
    BY <1>4, <2>1
  <2>3. \A j \in later : ~(j < n)
    BY <1>4, <1>5, <2>1, <2>2
  <2> QED BY <1>3, <2>1, <2>2, <2>3
<1>8. ASSUME Ahead = <<>>, ~walk.gone PROVE \A j \in Here : j <= Mark
  <2>1. later = {}
    BY <1>2, <1>6, <1>8 DEF o
  <2> QED BY <2>1, <1>1, IndexIs, MarkIs
<1>9. ASSUME Ahead # <<>>
      PROVE  \E n \in Here : /\ Head(Ahead) = Order[n] /\ n > Mark
                             /\ \A j \in Here : j > Mark => n <= j
  <2>1. Ahead = o
    BY <1>2, <1>9 DEF o
  <2>2. PICK n \in later : Head(o) = Order[n] /\ \A j \in later : n <= j
    BY <1>7, <1>9, <2>1
  <2> QED BY <2>1, <2>2, <1>1
<1> QED BY <1>8, <1>9

(***************************************************************************)
(* What becomes of it when the worker changes the card.                    *)
(***************************************************************************)
LEMMA WatchIs ==
  ASSUME walk \in Walks, Walking, NEW c
  PROVE  LET w == Watch(c) IN
         /\ w \in Walks
         /\ w.pos = walk.pos /\ w.last = walk.last /\ w.start = walk.start
         /\ w.seen = walk.seen /\ w.again = walk.again
         /\ ~w.added => ~walk.added /\ Listing(c) \subseteq Listing(card)
         /\ ~w.removed => ~walk.removed /\ Listing(card) \subseteq Listing(c)
         /\ w.gone => walk.gone \/ ~IsDir(c, WalkDir)
BY DEF Watch, Walks, Walking

LEMMA NoPlaces ==
  ASSUME NEW c, IsCard(c), ~IsDir(c, WalkDir)
  PROVE  Places(c, WalkDir) = {}
<1> SUFFICES ASSUME NEW i \in DOMAIN Order, Has(c, Child(WalkDir, Order[i])) PROVE FALSE
  BY DEF Places
<1>1. WalkDir \in Path /\ Order[i] \in Names
  BY TransferAssumption, IndexIs DEF Path
<1>2. Child(WalkDir, Order[i]) # Root /\ Front(Child(WalkDir, Order[i])) = WalkDir
  BY <1>1, JoinChild
<1> QED BY <1>2, CardIs DEF Has, IsDir

LEMMA WorkerWalkInv ==
  ASSUME TypeInv, WalkInv, Worker
  PROVE  WalkInv'
<1>1. fw' = fw /\ walk' = Watch(card') /\ IsCard(card')
  BY WorkerTypeInv DEF Worker, TypeInv
<1>2. CASE ~Walking
  <2>1. walk' = walk
    BY <1>1, <1>2 DEF Watch, Walking
  <2> QED BY <1>1, <1>2, <2>1 DEF WalkInv, Walking, WalkAccounts
<1>3. CASE Walking
  <2>1. /\ walk \in Walks /\ walk' \in Walks
        /\ walk'.pos = walk.pos /\ walk'.last = walk.last /\ walk'.start = walk.start
        /\ walk'.seen = walk.seen /\ walk'.again = walk.again
        /\ ~walk'.added => ~walk.added /\ Listing(card') \subseteq Listing(card)
        /\ ~walk'.removed => ~walk.removed /\ Listing(card) \subseteq Listing(card')
        /\ walk'.gone => walk.gone \/ ~IsDir(card', WalkDir)
    BY <1>1, <1>3, WatchIs DEF WalkInv
  <2>2. /\ Mark' = Mark /\ Mark \in Nat /\ Here \in SUBSET DOMAIN Order
        /\ Here' \in SUBSET DOMAIN Order
        /\ walk.last # NoName => Mark \in DOMAIN Order
    BY <2>1, MarkIs, ListingIs DEF Mark, Here
  <2>3. ASSUME ~walk'.removed PROVE Unmissed'
    <3>1. Unmissed /\ Here \subseteq Here'
      BY <1>3, <2>1, <2>3, ListingIs DEF WalkInv, Here
    <3>2. Rank(Mark, Here) <= Rank(Mark, Here')
      BY <2>2, <3>1, RankWithin
    <3>3. walk'.gone => walk'.start = {}
      <4> SUFFICES ASSUME walk'.gone, ~walk.gone PROVE walk.start = {}
        BY <2>1, <3>1 DEF Unmissed
      <4>1. Here' = {}
        BY <1>1, <2>1, NoPlaces DEF Here
      <4>2. \A x \in walk.start : IndexOf(x) \in Here
        BY <2>1, <3>1, IndexIs DEF Unmissed, Walks
      <4> QED BY <3>1, <4>1, <4>2
    <3>4. Rank(Mark, Here) \in Nat /\ Rank(Mark, Here') \in Nat /\ walk.pos \in Nat
      BY <2>1, <2>2, UptoFinite DEF Walks
    <3> QED BY <2>1, <2>2, <3>1, <3>2, <3>3, <3>4 DEF Unmissed
  <2>4. ASSUME ~walk'.added PROVE Unrepeated'
    <3>1. Unrepeated /\ Here' \subseteq Here
      BY <1>3, <2>1, <2>4, ListingIs DEF WalkInv, Here
    <3>2. ASSUME walk.pos # 0 PROVE 2 + Rank(Mark, Here' \cup {Mark}) <= walk.pos
      <4> DEFINE S == Here' \cup {Mark}
                 T == Here \cup {Mark}
      <4>1. T \in SUBSET DOMAIN Order /\ S \in SUBSET T /\ S \in SUBSET DOMAIN Order
        BY <1>3, <2>2, <3>1, <3>2 DEF WalkInv
      <4>2. 2 + Rank(Mark, T) <= walk.pos
        BY <3>1, <3>2 DEF Unrepeated
      <4> HIDE DEF S, T
      <4>3. Rank(Mark, S) <= Rank(Mark, T) /\ Rank(Mark, S) \in Nat /\ Rank(Mark, T) \in Nat
        BY <4>1, RankWithin, UptoFinite
      <4>4. 2 + Rank(Mark, S) <= walk.pos
        BY <2>1, <4>2, <4>3 DEF Walks
      <4> QED BY <4>4 DEF S
    <3> QED BY <2>1, <2>2, <3>1, <3>2 DEF Unrepeated
  <2> QED BY <1>1, <1>3, <2>1, <2>3, <2>4 DEF WalkInv, Walking
<1> QED BY <1>2, <1>3

(***************************************************************************)
(* The steps of the walk itself.                                           *)
(***************************************************************************)
LEMMA OpensWalkInv ==
  ASSUME WalkInv, WalkOpens
  PROVE  WalkInv'
<1>1. walk' = [NoWalk EXCEPT !.start = Listing(card)] /\ fw' = "walking" /\ card' = card
  BY DEF WalkOpens
<1>2. Listing(card) \subseteq Names /\ \A i \in DOMAIN Order : Order[i] \in Listing(card) => i \in Here
  BY ListingIs DEF Here
<1>3. /\ walk' \in Walks /\ walk'.pos = 0 /\ walk'.last = NoName /\ walk'.seen = {}
      /\ walk'.start = Listing(card) /\ ~walk'.again /\ ~walk'.gone
  BY <1>1, <1>2 DEF NoWalk, Walks
<1>4. Mark' = 0 /\ Here' = Here
  BY <1>1, <1>3 DEF Mark, Here
<1>5. Unmissed'
  BY <1>2, <1>3, <1>4, IndexIs DEF Unmissed
<1>6. Unrepeated'
  BY <1>3 DEF Unrepeated
<1> QED BY <1>1, <1>3, <1>5, <1>6 DEF WalkInv, Walking

Walked(w, pos, x, seen, again) ==
  [w EXCEPT !.pos = pos, !.last = x, !.seen = seen, !.again = again]

LEMMA WalkedIs ==
  ASSUME NEW w \in Walks, NEW pos \in Nat, NEW x \in Names, NEW seen \in SUBSET Names,
         NEW again \in BOOLEAN
  PROVE  LET v == Walked(w, pos, x, seen, again) IN
         /\ v \in Walks /\ v.last = x /\ v.seen = seen /\ v.pos = pos /\ v.start = w.start
         /\ v.again = again /\ v.added = w.added /\ v.removed = w.removed /\ v.gone = w.gone
BY DEF Walks, Walked

LEMMA NextWalkInv ==
  ASSUME WalkInv, WalkNext
  PROVE  WalkInv'
<1> DEFINE x == Head(Ahead)
<1>1. /\ fw = "walking" /\ fw' = fw /\ card' = card /\ Ahead # <<>> /\ walk \in Walks /\ Walking
      /\ walk' = [walk EXCEPT !.pos = Counted(@), !.last = x,
                              !.seen = @ \cup {x}, !.again = @ \/ x \in walk.seen]
  BY DEF WalkNext, WalkInv, Walking
<1>2. /\ Mark \in Nat /\ Here \in SUBSET DOMAIN Order
      /\ walk.last = NoName => Mark = 0
      /\ walk.last # NoName => Mark \in DOMAIN Order
  BY <1>1, MarkIs
<1>3. PICK n \in Here : x = Order[n] /\ n > Mark /\ \A j \in Here : j > Mark => n <= j
  BY <1>1, AheadIs
<1> HIDE DEF x
<1>4. n \in DOMAIN Order /\ n \in Nat /\ x \in Names /\ x # NoName /\ IndexOf(x) = n
  BY <1>2, <1>3, IndexIs, TransferAssumption
<1>5. /\ walk' \in Walks /\ walk'.last = x /\ walk'.seen = walk.seen \cup {x}
      /\ walk'.pos = Counted(walk.pos) /\ walk'.start = walk.start
      /\ ~walk'.again <=> ~walk.again /\ x \notin walk.seen
      /\ walk'.added = walk.added /\ walk'.removed = walk.removed /\ walk'.gone = walk.gone
  <2>1. Counted(walk.pos) \in Nat
    BY <1>1 DEF Walks, Counted
  <2> DEFINE twice == walk.again \/ x \in walk.seen
  <2>2. twice \in BOOLEAN
    OBVIOUS
  <2>3. walk' = Walked(walk, Counted(walk.pos), x, walk.seen \cup {x}, twice)
    BY <1>1 DEF Walked
  <2>4. ~twice <=> ~walk.again /\ x \notin walk.seen
    OBVIOUS
  <2> HIDE DEF twice
  <2>5. /\ walk' \in Walks /\ walk'.last = x /\ walk'.seen = walk.seen \cup {x}
        /\ walk'.pos = Counted(walk.pos) /\ walk'.start = walk.start /\ walk'.again = twice
        /\ walk'.added = walk.added /\ walk'.removed = walk.removed /\ walk'.gone = walk.gone
    <3>1. walk \in Walks /\ walk.seen \cup {x} \in SUBSET Names
      BY <1>1, <1>4 DEF Walks
    <3> QED BY <3>1, <1>4, <2>1, <2>2, <2>3, WalkedIs
  <2> QED BY <2>4, <2>5
<1>6. /\ walk.pos \in Nat /\ (walk.pos # 0 => walk.pos >= 3) /\ (walk.pos = 0 <=> walk.last = NoName)
      /\ walk'.pos >= 3 /\ walk'.pos \in Nat
      /\ walk'.pos = IF walk.pos = 0 THEN 3 ELSE walk.pos + 1
  BY <1>1, <1>5 DEF WalkInv, Walks, Counted
<1>7. Mark' = n /\ Here' = Here
  BY <1>1, <1>4, <1>5 DEF Mark, Here
<1>8. Rank(n, Here) = Rank(Mark, Here) + 1 /\ Rank(Mark, Here) \in Nat
  BY <1>2, <1>3, RankNext, UptoFinite
<1>9. walk.pos = 0 => Rank(Mark, Here) = 0
  BY <1>2, <1>6, RankZero
<1>10. ASSUME ~walk.removed PROVE Unmissed'
  <2>1. Unmissed
    BY <1>1, <1>10 DEF WalkInv
  <2>2. walk'.pos <= 2 + Rank(n, Here)
    BY <2>1, <1>6, <1>8, <1>9 DEF Unmissed
  <2>3. ASSUME NEW i \in DOMAIN Order, Order[i] \in walk.start, i <= n
        PROVE  Order[i] \in walk'.seen
    <3>1. i \in Here /\ i \in Nat
      BY <2>1, <2>3, IndexIs DEF Unmissed
    <3>2. i <= Mark \/ i = n
      BY <3>1, <2>3, <1>2, <1>3, <1>4
    <3> QED BY <3>2, <2>1, <2>3, <1>3, <1>5 DEF Unmissed
  <2> QED BY <2>1, <2>2, <2>3, <1>5, <1>7 DEF Unmissed
<1>11. ASSUME ~walk.added PROVE Unrepeated'
  <2>1. Unrepeated
    BY <1>1, <1>11 DEF WalkInv
  <2>2. \A i \in DOMAIN Order : Order[i] \in walk'.seen => i <= n
    BY <2>1, <1>2, <1>3, <1>4, <1>5, IndexIs DEF Unrepeated
  <2>3. x \notin walk.seen
    BY <2>1, <1>2, <1>3, <1>4 DEF Unrepeated
  <2>4. 2 + Rank(n, Here) <= walk'.pos
    <3>1. CASE walk.pos = 0
      BY <3>1, <1>6, <1>8, <1>9
    <3>2. CASE walk.pos # 0
      <4> DEFINE T == Here \cup {Mark}
      <4>1. T \in SUBSET DOMAIN Order /\ Here \in SUBSET T
        BY <3>2, <1>2, <1>6
      <4>2. 2 + Rank(Mark, T) <= walk.pos
        BY <3>2, <2>1 DEF Unrepeated
      <4> HIDE DEF T
      <4>3. Rank(Mark, Here) <= Rank(Mark, T) /\ Rank(Mark, T) \in Nat
        BY <4>1, RankWithin, UptoFinite
      <4> QED BY <3>2, <4>2, <4>3, <1>6, <1>8
    <3> QED BY <3>1, <3>2
  <2>5. Here \cup {n} = Here
    BY <1>3
  <2> QED BY <2>1, <2>2, <2>3, <2>4, <2>5, <1>5, <1>7 DEF Unrepeated
<1> QED BY <1>1, <1>4, <1>5, <1>6, <1>10, <1>11 DEF WalkInv, Walking

LEMMA EndsWalkInv ==
  ASSUME WalkInv, WalkEnds
  PROVE  WalkInv'
<1>1. fw = "walking" /\ fw' = "walked" /\ walk' = walk /\ Ahead = <<>> /\ walk \in Walks /\ Walking
  BY DEF WalkEnds, WalkInv, Walking
<1>2. ASSUME ~walk.removed PROVE walk.start \subseteq walk.seen
  <2>1. Unmissed
    BY <1>1, <1>2 DEF WalkInv
  <2>2. CASE walk.gone
    BY <2>1, <2>2 DEF Unmissed
  <2>3. CASE ~walk.gone
    <3>1. \A j \in Here : j <= Mark
      BY <1>1, <2>3, AheadIs
    <3> SUFFICES ASSUME NEW x \in walk.start PROVE x \in walk.seen
      OBVIOUS
    <3>2. IndexOf(x) \in DOMAIN Order /\ Order[IndexOf(x)] = x
      BY <1>1, IndexIs DEF Walks
    <3> QED BY <3>1, <3>2, <2>1 DEF Unmissed
  <2> QED BY <2>2, <2>3
<1>3. walk.again => walk.added
  BY <1>1 DEF WalkInv, Unrepeated
<1> QED BY <1>1, <1>2, <1>3 DEF WalkInv, Walking, WalkAccounts

LEMMA ReturnsWalkInv ==
  ASSUME WalkInv, WalkReturns
  PROVE  WalkInv'
<1>1. /\ fw = "away" /\ card' = card /\ walk \in Walks /\ Walking /\ walk.pos # 0 /\ walk.pos >= 3
      /\ walk.pos \in Nat /\ walk.last # NoName
  BY DEF WalkReturns, WalkInv, Walking, Walks
<1>2. CASE ~(IsDir(card, WalkDir) /\ walk.pos <= 2 + Len(Entries(card, WalkDir)))
  <2>1. walk' = NoWalk /\ fw' = "idle"
    BY <1>2 DEF WalkReturns
  <2> QED BY <2>1, NoWalkOK DEF WalkInv, Walking, WalkAccounts, NoWalk
<1>3. CASE IsDir(card, WalkDir) /\ walk.pos <= 2 + Len(Entries(card, WalkDir))
  <2> DEFINE e == Entries(card, WalkDir)
             x == SeekSet(walk.pos)
  <2>1. walk' = [walk EXCEPT !.last = x, !.gone = FALSE] /\ fw' = "walking"
    BY <1>3 DEF WalkReturns
  <2>2. Mark \in DOMAIN Order /\ Mark \in Nat /\ Here \in SUBSET DOMAIN Order
    BY <1>1, MarkIs
  <2>3. PICK n \in Here : Rank(n, Here) = walk.pos - 2 /\ x = Order[n]
    <3>1. /\ e \in Seq(Names)
          /\ \A m \in DOMAIN e : \E i \in Here : Rank(i, Here) = m /\ e[m] = Order[i]
      BY <2>2, OrderedIs DEF Entries, Here
    <3>2. x = e[walk.pos - 2]
      BY <1>1 DEF SeekSet
    <3>3. walk.pos <= 2 + Len(e)
      BY <1>3
    <3> HIDE DEF e, x
    <3>4. walk.pos - 2 \in DOMAIN e
      BY <1>1, <3>1, <3>3
    <3> QED BY <3>1, <3>2, <3>4
  <2> HIDE DEF x
  <2>4. n \in DOMAIN Order /\ n \in Nat /\ x \in Names /\ x # NoName /\ IndexOf(x) = n
    BY <2>2, <2>3, IndexIs, TransferAssumption
  <2>5. /\ walk' \in Walks /\ walk'.last = x /\ walk'.seen = walk.seen
        /\ walk'.pos = walk.pos /\ walk'.start = walk.start /\ walk'.again = walk.again
        /\ walk'.added = walk.added /\ walk'.removed = walk.removed /\ ~walk'.gone
    BY <1>1, <2>1, <2>4 DEF Walks
  <2>6. Mark' = n /\ Here' = Here
    BY <1>1, <2>4, <2>5 DEF Mark, Here
  <2>7. ASSUME ~walk.removed PROVE Unmissed'
    <3>1. Unmissed
      BY <1>1, <2>7 DEF WalkInv
    <3>2. n <= Mark
      <4> SUFFICES ASSUME Mark < n PROVE FALSE
        BY <2>2, <2>4
      <4>1. Rank(Mark, Here) < Rank(n, Here) /\ Rank(Mark, Here) \in Nat
        BY <2>2, <2>3, RankBelow, UptoFinite
      <4> QED BY <4>1, <3>1, <1>1, <2>3 DEF Unmissed
    <3>3. \A i \in DOMAIN Order : i <= n => i <= Mark
      BY <3>2, <2>2, <2>4, IndexIs
    <3> QED BY <3>1, <3>3, <1>1, <2>3, <2>5, <2>6 DEF Unmissed
  <2>8. ASSUME ~walk.added PROVE Unrepeated'
    <3>1. Unrepeated
      BY <1>1, <2>8 DEF WalkInv
    <3>2. Mark <= n
      <4> SUFFICES ASSUME n < Mark PROVE FALSE
        BY <2>2, <2>4
      <4> DEFINE T == Here \cup {Mark}
      <4>1. T \in SUBSET DOMAIN Order /\ Here \in SUBSET T /\ Mark \in T
        BY <2>2
      <4>2. 2 + Rank(Mark, T) <= walk.pos
        BY <3>1, <1>1 DEF Unrepeated
      <4> HIDE DEF T
      <4>3. Rank(n, Here) < Rank(Mark, T) /\ Rank(Mark, T) \in Nat
        BY <4>1, <2>4, RankBelow, UptoFinite
      <4> QED BY <4>2, <4>3, <1>1, <2>3
    <3>3. \A i \in DOMAIN Order : i <= Mark => i <= n
      BY <3>2, <2>2, <2>4, IndexIs
    <3>4. Here \cup {n} = Here
      BY <2>3
    <3> QED BY <3>1, <3>3, <3>4, <1>1, <2>3, <2>5, <2>6 DEF Unrepeated
  <2> QED BY <1>1, <2>1, <2>4, <2>5, <2>7, <2>8 DEF WalkInv, Walking
<1> QED BY <1>2, <1>3

LEMMA WalkInvStep ==
  ASSUME TypeInv, WalkInv, [Next]_vars
  PROVE  WalkInv'
<1>1. CASE Worker
  BY <1>1, WorkerWalkInv
<1>2. CASE WalkOpens
  BY <1>2, OpensWalkInv
<1>3. CASE WalkNext
  BY <1>3, NextWalkInv
<1>4. CASE WalkEnds
  BY <1>4, EndsWalkInv
<1>5. CASE WalkReturns
  BY <1>5, ReturnsWalkInv
<1>6. CASE WalkLeaves
  <2>1. /\ fw = "walking" /\ fw' = "away" /\ walk' = walk /\ card' = card /\ walk.pos # 0
    BY <1>6 DEF WalkLeaves, WalkInv, Walks
  <2>2. Mark' = Mark /\ Here' = Here
    BY <2>1 DEF Mark, Here
  <2>3. (Unmissed => Unmissed') /\ (Unrepeated => Unrepeated')
    BY <2>1, <2>2 DEF Unmissed, Unrepeated
  <2> QED BY <2>1, <2>3 DEF WalkInv, Walking
<1>7. CASE WalkForgotten
  BY <1>7, NoWalkOK DEF WalkForgotten, WalkInv, Walking, WalkAccounts, NoWalk
<1>8. CASE \/ Begin \/ StopTakes \/ StopCloses \/ StopJoins
           \/ ReadFile \/ ReadFileToString \/ \E p \in Named : ReadOpens(p)
  <2>1. walk' = walk /\ ~Walking'
    BY <1>8 DEF Begin, StopTakes, StopCloses, StopJoins, ReadFile, ReadFileToString, Returns,
         ReadOpens, Walking, firmware
  <2>2. ~Walking /\ (fw' = "walked" => fw = "walked")
    BY <1>8 DEF Begin, StopTakes, StopCloses, StopJoins, ReadFile, ReadFileToString, Returns,
         ReadOpens, Walking, firmware
  <2> QED BY <2>1, <2>2 DEF WalkInv, WalkAccounts
<1>9. CASE UNCHANGED vars
  <2>1. walk' = walk /\ fw' = fw /\ card' = card
    BY <1>9 DEF vars, firmware
  <2>2. Mark' = Mark /\ Here' = Here
    BY <2>1 DEF Mark, Here
  <2>3. (Unmissed => Unmissed') /\ (Unrepeated => Unrepeated')
    BY <2>1, <2>2 DEF Unmissed, Unrepeated
  <2> QED BY <2>1, <2>3 DEF WalkInv, Walking, WalkAccounts
<1> QED BY <1>1, <1>2, <1>3, <1>4, <1>5, <1>6, <1>7, <1>8, <1>9 DEF Next, Firmware

(***************************************************************************)
(* A walk that closes its directory and comes back by seekSet(position())  *)
(* misses an entry that was there at the start only if one was removed     *)
(* meanwhile, and comes to one twice only if one was added.                *)
(***************************************************************************)
THEOREM WalkIsAccounted == Spec => []WalkAccounts
<1>1. Init => WalkInv
  BY NoWalkOK DEF Init, WalkInv, Walking, WalkAccounts, NoWalk
<1>2. WalkInv => WalkAccounts
  <2> SUFFICES ASSUME WalkInv, Walking PROVE WalkAccounts
    BY DEF WalkInv
  <2>1. walk.again => walk.added
    BY DEF WalkInv, Unrepeated
  <2> QED BY <2>1 DEF WalkAccounts, Walking
<1> QED BY <1>1, <1>2, WalkInvStep, TypeInvHolds, PTL DEF Spec
=============================================================================
