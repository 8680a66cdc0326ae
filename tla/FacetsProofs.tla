---------------------------- MODULE FacetsProofs ----------------------------
(* The ranges of facets, for texts of any length. *)
EXTENDS Facets, WellFoundedInduction, SequenceTheorems, TLAPS

\* Every non-empty set of natural numbers has a least element.
LEMMA LeastElement ==
    ASSUME NEW T \in SUBSET Nat, T # {}
    PROVE  \E x \in T : \A y \in T : x <= y
<1> DEFINE R == OpToRel(<, Nat)
<1>1. IsWellFoundedOn(R, Nat) BY NatLessThanWellFounded
<1>2. \A y, x \in Nat : y < x => <<y, x>> \in R BY DEF OpToRel
<1> HIDE DEF R
<1>3. PICK x \in T : \A y \in T : <<y, x>> \notin R BY <1>1, WFMin
<1>4. \A y \in T : ~(y < x) BY <1>2, <1>3
<1> QED BY <1>3, <1>4

\* A non-empty set of positions has a last one.
LEMMA GreatestElement ==
    ASSUME NEW n \in Nat, NEW T \in SUBSET (1..n), T # {}
    PROVE  \E x \in T : \A y \in T : y <= x
<1> DEFINE D == {n - x : x \in T}
<1>0. \A x \in T : x \in 1..n OBVIOUS
<1>1. D \in SUBSET Nat /\ D # {}
  <2>1. \A x \in T : n - x \in Nat BY <1>0
  <2> QED BY <2>1
<1> HIDE DEF D
<1>2. PICK d \in D : \A e \in D : d <= e BY <1>1, LeastElement
<1> USE DEF D
<1>3. PICK x \in T : d = n - x BY <1>2
<1>4. ASSUME NEW y \in T PROVE y <= x
  <2>1. n - y \in D OBVIOUS
  <2>2. n - x <= n - y BY <1>2, <1>3, <2>1
  <2> QED BY <1>0, <2>2
<1> QED BY <1>4

\* strings.Index finds a text that occurs, where it occurs first.
LEMMA IndexFinds ==
    ASSUME NEW s \in Seq(Byte), NEW t \in Seq(Byte),
           \E n \in 0..Len(s) : OccursAt(s, t, n)
    PROVE  /\ Index(s, t) \in 0..Len(s) /\ OccursAt(s, t, Index(s, t))
           /\ \A m \in 0..(Index(s, t) - 1) : ~OccursAt(s, t, m)
<1> DEFINE T == {n \in 0..Len(s) : OccursAt(s, t, n)}
           First(n) == OccursAt(s, t, n) /\ \A m \in 0..(n - 1) : ~OccursAt(s, t, m)
<1>1. T \in SUBSET Nat /\ T # {} OBVIOUS
<1>2. PICK x \in T : \A y \in T : x <= y BY <1>1, LeastElement
<1>3. ASSUME NEW m \in 0..(x - 1) PROVE ~OccursAt(s, t, m)
  <2>1. m \in 0..Len(s) /\ m < x BY <1>2
  <2> QED BY <1>2, <2>1
<1>4. \E n \in 0..Len(s) : First(n) BY <1>2, <1>3
<1>5. Index(s, t) = CHOOSE n \in 0..Len(s) : First(n) BY DEF Index
<1> HIDE DEF First
<1>6. Index(s, t) \in 0..Len(s) /\ First(Index(s, t)) BY <1>4, <1>5
<1> QED BY <1>6 DEF First

\* What strings.Index finds is an occurrence.
LEMMA IndexOccurs ==
    ASSUME NEW s \in Seq(Byte), NEW t \in Seq(Byte), Index(s, t) # -1
    PROVE  Index(s, t) \in 0..Len(s) /\ OccursAt(s, t, Index(s, t))
<1>1. \E n \in 0..Len(s) : OccursAt(s, t, n) BY DEF Index
<1> QED BY <1>1, IndexFinds

\* A valid text ends with the last byte of the character that its last lead
\* byte begins.
LEMMA LastCharacter ==
    ASSUME NEW t \in Seq(Byte), Valid(t), t # <<>>
    PROVE  \E j \in 1..Len(t) : Width[t[j]] > 0 /\ j + Width[t[j]] = Len(t) + 1
<1> DEFINE T == {i \in 1..Len(t) : Width[t[i]] > 0}
<1>0. Len(t) \in Nat /\ Len(t) # 0 OBVIOUS
<1>1. T \in SUBSET (1..Len(t)) /\ 1 \in T BY <1>0 DEF Valid
<1> HIDE DEF T
<1>2. PICK j \in T : \A y \in T : y <= j BY <1>0, <1>1, GreatestElement
<1> USE DEF T
<1>3. j \in 1..Len(t) /\ Width[t[j]] > 0 BY <1>2
<1>4. Width[t[j]] \in 0..4 BY <1>3, WidthAssumption
<1>5. ~(j + Width[t[j]] <= Len(t))
  <2> SUFFICES ASSUME j + Width[t[j]] <= Len(t) PROVE FALSE OBVIOUS
  <2>1. Width[t[j + Width[t[j]]]] > 0 BY <1>3 DEF Valid
  <2>2. j + Width[t[j]] \in T BY <1>0, <1>3, <1>4, <2>1
  <2> QED BY <1>2, <1>3, <1>4, <2>2
<1>6. j + Width[t[j]] <= Len(t) + 1 BY <1>3 DEF Valid
<1> QED BY <1>0, <1>3, <1>4, <1>5, <1>6

\* Where a valid text occurs in a valid one, it begins and ends with whole
\* characters.
LEMMA OccurrenceOnCharacters ==
    ASSUME NEW s \in Seq(Byte), NEW t \in Seq(Byte), Valid(s), Valid(t), t # <<>>,
           NEW n \in 0..Len(s), OccursAt(s, t, n)
    PROVE  Boundary(s, n) /\ Boundary(s, n + Len(t))
<1>0. /\ Len(t) \in Nat /\ Len(t) # 0 /\ Len(s) \in Nat
      /\ n + Len(t) <= Len(s)
      /\ \A i \in 1..Len(t) : s[n + i] = t[i]
  BY DEF OccursAt
<1>1. Boundary(s, n)
  <2>1. 1 \in 1..Len(t) BY <1>0
  <2>2. Width[s[n + 1]] > 0 BY <1>0, <2>1 DEF Valid
  <2> QED BY <2>2 DEF Boundary
<1>2. Boundary(s, n + Len(t))
  <2>1. PICK j \in 1..Len(t) : Width[t[j]] > 0 /\ j + Width[t[j]] = Len(t) + 1
    BY LastCharacter
  <2>2. t[j] \in Byte /\ Width[t[j]] \in 0..4 BY WidthAssumption
  <2> DEFINE k == n + j
  <2>3. k \in 1..Len(s) /\ s[k] = t[j] BY <1>0, <2>1
  <2>4. k + Width[s[k]] = n + Len(t) + 1
    <3>1. Width[s[k]] = Width[t[j]] BY <2>3
    <3>2. PICK w \in 0..4, m \in Nat : w = Width[t[j]] /\ m = Len(t)
      BY <2>2, LenProperties
    <3>3. j \in Int /\ n \in Int /\ j + w = m + 1 BY <1>0, <2>1, <3>2
    <3>4. n + j + w = n + m + 1 BY <3>3
    <3> QED BY <3>1, <3>2, <3>4
  <2>5. k + Width[s[k]] <= Len(s) => Width[s[k + Width[s[k]]]] > 0
    BY <2>1, <2>3 DEF Valid
  <2> HIDE DEF k
  <2>6. n + Len(t) # Len(s) => Width[s[n + Len(t) + 1]] > 0
    BY <1>0, <2>4, <2>5
  <2> QED BY <2>6 DEF Boundary
<1> QED BY <1>1, <1>2

\* The range of what strings.Index found: it covers the facet's text and splits
\* no character.
LEMMA RangeOnCharacters ==
    ASSUME NEW s \in Seq(Byte), NEW t \in Seq(Byte), Valid(s), Valid(t), t # <<>>,
           Index(s, t) # -1
    PROVE  /\ SubSeq(s, Index(s, t) + 1, Index(s, t) + Len(t)) = t
           /\ Boundary(s, Index(s, t))
           /\ Boundary(s, Index(s, t) + Len(t))
<1> DEFINE n == Index(s, t)
<1>1. n \in 0..Len(s) /\ OccursAt(s, t, n) BY IndexOccurs
<1> HIDE DEF n
<1>2. Boundary(s, n) /\ Boundary(s, n + Len(t))
  BY <1>1, OccurrenceOnCharacters
<1>3. SubSeq(s, n + 1, n + Len(t)) = t
  <2>1. /\ Len(t) \in Nat /\ Len(s) \in Nat /\ n + Len(t) <= Len(s)
        /\ \A i \in 1..Len(t) : s[n + i] = t[i]
    BY <1>1 DEF OccursAt
  <2> DEFINE u == SubSeq(s, n + 1, n + Len(t))
  <2>2. u \in Seq(Byte) /\ Len(u) = Len(t) BY <1>1, <2>1
  <2>3. \A i \in 1..Len(t) : u[i] = t[i] BY <1>1, <2>1
  <2> HIDE DEF u
  <2>4. u = t BY <2>2, <2>3, SeqEqual
  <2> QED BY <2>4 DEF u
<1> QED BY <1>2, <1>3 DEF n

\* The builder holds texts.
Facet == [type : FacetType \cup {"other"}, value : Seq(Byte), text : Seq(Byte)]

PostTypeOK == post \in [text : Seq(Byte), facets : Seq(Facet)]

\* NewPostBuilder and WithFacet are given texts.
LEMMA PostTypeCorrect == FacetsSpec => []PostTypeOK
<1>1. FacetsInit => PostTypeOK BY DEF FacetsInit, PostTypeOK
<1>2. PostTypeOK /\ [FacetsNext]_post => PostTypeOK'
  <2> SUFFICES ASSUME PostTypeOK, [FacetsNext]_post PROVE PostTypeOK' OBVIOUS
  <2>1. CASE NewPostBuilder
    BY <2>1, TextsAssumption DEF NewPostBuilder, PostTypeOK
  <2>2. CASE WithFacet
    <3>1. PICK type \in FacetType \cup {"other"}, t \in Tags :
            post' = [post EXCEPT !.facets =
                       Append(@, [type |-> type, value |-> t, text |-> t])]
      BY <2>2 DEF WithFacet
    <3>2. [type |-> type, value |-> t, text |-> t] \in Facet
      BY TextsAssumption DEF Facet
    <3>3. PICK f \in Facet : post' = [post EXCEPT !.facets = Append(@, f)]
      BY <3>1, <3>2
    <3>4. Append(post.facets, f) \in Seq(Facet) BY DEF PostTypeOK
    <3> QED BY <3>3, <3>4 DEF PostTypeOK
  <2>3. CASE UNCHANGED post BY <2>3 DEF PostTypeOK
  <2> QED BY <2>1, <2>2, <2>3 DEF FacetsNext
<1> QED BY <1>1, <1>2, PTL DEF FacetsSpec

\* Build, findSubstring: in a post of any length, with any number of facets,
\* each facet covers exactly its text and splits no character.
THEOREM FacetsAreWhole == FacetsSpec => []FacetOnCharacters
<1>1. PostTypeOK => FacetOnCharacters
  <2> DEFINE built == BuildFacets(post.text, post.facets)
  <2>1. SUFFICES ASSUME PostTypeOK, Valid(post.text), ~built.error,
                        NEW i \in DOMAIN post.facets,
                        Valid(post.facets[i].text), post.facets[i].text # <<>>
                 PROVE  LET t     == post.facets[i].text
                            index == built.facets[i].index
                        IN  /\ SubSeq(post.text, index.start + 1, index.end) = t
                            /\ Boundary(post.text, index.start)
                            /\ Boundary(post.text, index.end)
    BY DEF FacetOnCharacters
  <2> DEFINE s == post.text
             t == post.facets[i].text
  <2>2. s \in Seq(Byte) /\ t \in Seq(Byte)
    <3>1. s \in Seq(Byte) /\ post.facets \in Seq(Facet) BY <2>1 DEF PostTypeOK
    <3>2. post.facets[i] \in Facet BY <2>1, <3>1
    <3> QED BY <3>1, <3>2 DEF Facet
  <2>3. findSubstring(s, t).found BY <2>1 DEF BuildFacets
  <2>4. built.facets[i].index = findSubstring(s, t) BY <2>1 DEF BuildFacets
  <2>5. Index(s, t) # -1 BY <2>3 DEF findSubstring, NotFound
  <2>6. /\ findSubstring(s, t).start = Index(s, t)
        /\ findSubstring(s, t).end = Index(s, t) + Len(t)
    BY <2>5 DEF findSubstring
  <2> QED BY <2>1, <2>2, <2>4, <2>5, <2>6, RangeOnCharacters
<1> QED BY <1>1, PostTypeCorrect, PTL

OccursIn(t) == \E n \in 0..Len(post.text) : OccursAt(post.text, t, n)

\* Every facet lies where its text occurs first; Build fails if one does not occur.
FirstOccurrences ==
    LET built == BuildFacets(post.text, post.facets)
    IN  /\ built.error <=> \E i \in DOMAIN post.facets : ~OccursIn(post.facets[i].text)
        /\ ~built.error =>
             \A i \in DOMAIN post.facets :
                 LET start == built.facets[i].index.start
                 IN  /\ OccursAt(post.text, post.facets[i].text, start)
                     /\ \A m \in 0..(start - 1) :
                          ~OccursAt(post.text, post.facets[i].text, m)

\* Build, findSubstring: it fails exactly if the text of a facet does not occur, and
\* a facet always lies on the first occurrence of its text, which its caller may not
\* have meant: no second facet of that text can reach a later one.
THEOREM FacetsTakeFirstOccurrence == FacetsSpec => []FirstOccurrences
<1>1. PostTypeOK => FirstOccurrences
  <2> SUFFICES ASSUME PostTypeOK PROVE FirstOccurrences OBVIOUS
  <2> DEFINE built == BuildFacets(post.text, post.facets)
             index(i) == Index(post.text, post.facets[i].text)
             found(i) == findSubstring(post.text, post.facets[i].text)
  <2>1. ASSUME NEW i \in DOMAIN post.facets
        PROVE  post.text \in Seq(Byte) /\ post.facets[i].text \in Seq(Byte)
    <3>1. post.text \in Seq(Byte) /\ post.facets \in Seq(Facet) BY DEF PostTypeOK
    <3>2. post.facets[i] \in Facet BY <3>1
    <3> QED BY <3>1, <3>2 DEF Facet
  <2>2. ASSUME NEW i \in DOMAIN post.facets, OccursIn(post.facets[i].text)
        PROVE  /\ index(i) # -1
               /\ OccursAt(post.text, post.facets[i].text, index(i))
               /\ \A m \in 0..(index(i) - 1) :
                    ~OccursAt(post.text, post.facets[i].text, m)
    <3>1. /\ index(i) \in 0..Len(post.text)
          /\ OccursAt(post.text, post.facets[i].text, index(i))
          /\ \A m \in 0..(index(i) - 1) :
               ~OccursAt(post.text, post.facets[i].text, m)
      BY <2>1, <2>2, IndexFinds DEF OccursIn
    <3> QED BY <3>1
  <2>3. ASSUME NEW i \in DOMAIN post.facets, ~OccursIn(post.facets[i].text)
        PROVE  index(i) = -1
    BY <2>3 DEF OccursIn, Index
  <2>4. \A i \in DOMAIN post.facets :
          /\ found(i).found <=> index(i) # -1
          /\ index(i) # -1 => found(i).start = index(i)
    BY DEF findSubstring, NotFound
  <2>5. built.error <=> \E i \in DOMAIN post.facets : ~found(i).found
    BY DEF BuildFacets
  <2>6. ~built.error => \A i \in DOMAIN post.facets : built.facets[i].index = found(i)
    BY DEF BuildFacets
  <2> HIDE DEF built, index, found
  <2>7. built.error <=> \E i \in DOMAIN post.facets : ~OccursIn(post.facets[i].text)
    BY <2>2, <2>3, <2>4, <2>5
  <2>8. ASSUME ~built.error, NEW i \in DOMAIN post.facets
        PROVE  LET start == built.facets[i].index.start
               IN  /\ OccursAt(post.text, post.facets[i].text, start)
                   /\ \A m \in 0..(start - 1) :
                        ~OccursAt(post.text, post.facets[i].text, m)
    <3>1. OccursIn(post.facets[i].text) BY <2>7, <2>8
    <3>2. built.facets[i].index.start = index(i) BY <2>2, <2>4, <2>6, <2>8, <3>1
    <3> QED BY <2>2, <3>1, <3>2
  <2> QED BY <2>7, <2>8 DEF FirstOccurrences, built
<1> QED BY <1>1, PostTypeCorrect, PTL
=============================================================================
