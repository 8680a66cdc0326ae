------------------------------- MODULE Facets -------------------------------
(***************************************************************************)
(* The rich-text facets of a post: Build looks each facet's text up in the  *)
(* post's text, with findSubstring, and records where it stands.  Go        *)
(* strings are bytes and so are the offsets of a facet; the PDS, and every  *)
(* client, needs them to enclose whole characters of the UTF-8 text.        *)
(*                                                                         *)
(* A text is a sequence of bytes.  Of a byte only its Width matters: of how *)
(* many bytes the character is that it begins, 0 for a continuation byte.   *)
(***************************************************************************)
EXTENDS Integers, Sequences

CONSTANTS
    Byte, Width,
    Texts,      \* the texts of posts
    Tags,       \* the texts, and values, of facets
    MaxFacets   \* bound on the facets of a post

ASSUME WidthAssumption == Width \in [Byte -> 0..4]
ASSUME TextsAssumption == Texts \subseteq Seq(Byte) /\ Tags \subseteq Seq(Byte)
ASSUME MaxFacetsAssumption == MaxFacets \in Nat

VARIABLE post  \* the PostBuilder: its text and its facets

\* UTF-8: the text begins with a character, and each character is followed by
\* the next one, or by the end of the text.
Valid(s) ==
    /\ s # <<>> => Width[s[1]] > 0
    /\ \A i \in 1..Len(s) : Width[s[i]] > 0 =>
         /\ i + Width[s[i]] <= Len(s) + 1
         /\ \A k \in (i + 1)..(i + Width[s[i]] - 1) : Width[s[k]] = 0
         /\ i + Width[s[i]] <= Len(s) => Width[s[i + Width[s[i]]]] > 0

\* Between the first n bytes and the rest no character is split.
Boundary(s, n) == n = 0 \/ n = Len(s) \/ Width[s[n + 1]] > 0

OccursAt(s, substr, n) ==
    /\ n + Len(substr) <= Len(s)
    /\ \A i \in 1..Len(substr) : s[n + i] = substr[i]

\* The offsets of strings.Index, -1 if there is none: the first occurrence.
Index(s, substr) ==
    IF \E n \in 0..Len(s) : OccursAt(s, substr, n)
    THEN CHOOSE n \in 0..Len(s) : /\ OccursAt(s, substr, n)
                                  /\ \A m \in 0..(n - 1) : ~OccursAt(s, substr, m)
    ELSE -1

NotFound == [found |-> FALSE, start |-> 0, end |-> 0]

\* Mutant: the length is taken in characters.
findSubstringInRunes(s, substr) ==
    IF Index(s, substr) = -1 THEN NotFound
    ELSE [found |-> TRUE, start |-> Index(s, substr),
          end   |-> Index(s, substr)
                    + Len(SelectSeq(substr, LAMBDA b : Width[b] > 0))]

findSubstring(s, substr) ==
    IF Index(s, substr) = -1 THEN NotFound
    ELSE [found |-> TRUE, start |-> Index(s, substr),
          end   |-> Index(s, substr) + Len(substr)]

FacetType == {"link", "mention", "tag"}

\* A facet whose type is none of the three keeps an empty feature.
Feature(f) == IF f.type \in FacetType THEN [type |-> f.type, value |-> f.value]
              ELSE [type |-> "Unknown", value |-> <<>>]

\* The facets of the post, in order; one whose text is not found fails Build.
BuildFacets(text, facets) ==
    IF \E i \in DOMAIN facets : ~findSubstring(text, facets[i].text).found
    THEN [error |-> TRUE, facets |-> <<>>]
    ELSE [error  |-> FALSE,
          facets |-> [i \in DOMAIN facets |->
                        [feature |-> Feature(facets[i]),
                         index   |-> findSubstring(text, facets[i].text)]]]
-----------------------------------------------------------------------------
FacetsInit == post = [text |-> <<>>, facets |-> <<>>]

NewPostBuilder ==
    /\ FacetsInit
    /\ \E s \in Texts : post' = [post EXCEPT !.text = s]

WithFacet ==
    /\ Len(post.facets) < MaxFacets
    /\ \E type \in FacetType \cup {"other"}, t \in Tags :
         post' = [post EXCEPT !.facets = Append(@, [type |-> type, value |-> t, text |-> t])]

FacetsNext == NewPostBuilder \/ WithFacet

FacetsSpec == FacetsInit /\ [][FacetsNext]_post
-----------------------------------------------------------------------------
\* A facet of a post covers exactly its text, and splits no character of the
\* post, whatever characters of several bytes come before or in it.
FacetOnCharacters ==
    LET built == BuildFacets(post.text, post.facets)
    IN  Valid(post.text) /\ ~built.error =>
          \A i \in DOMAIN post.facets :
              LET t     == post.facets[i].text
                  index == built.facets[i].index
              IN  Valid(t) /\ t # <<>> =>
                    /\ SubSeq(post.text, index.start + 1, index.end) = t
                    /\ Boundary(post.text, index.start)
                    /\ Boundary(post.text, index.end)
=============================================================================
