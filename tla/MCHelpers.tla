----------------------------- MODULE MCHelpers -----------------------------
(***************************************************************************)
(* The HTTP helper's calls in all interleavings; and, while it is idle, the *)
(* definitions of Replies, Facets and Listing on all small inputs.          *)
(***************************************************************************)
EXTENDS HttpClient, Replies, Facets, Listing, SequencesExt

MCWidth == [a |-> 1, l2 |-> 2, l3 |-> 3, c |-> 0]

\* All texts of up to five bytes in characters of one, two and three bytes.
MCTexts == {s \in SeqOf(DOMAIN MCWidth, 5) : Valid(s)}

MCLowerOf == [A |-> "a", B |-> "b"]

MCSortable == {<<"a">>, <<"a", "B">>, <<"a", "1", "B", "b">>, <<"b", "A", "B", "a">>}

MCTags == {s \in MCTexts : Len(s) <= 3}

\* All orders of up to five characters, and the long names with a direction.
MCOrders == SeqOf({"a", "B", " ", ",", "asc"}, 5)
            \cup {f \o <<" ", "desc", ",">> \o g : f \in MCSortable, g \in MCSortable}
            \cup {f \o <<" ", "desc", " ">> \o g : f \in MCSortable, g \in MCSortable}

MCPages == -2..30

Init == HttpInit /\ RepliesInit /\ FacetsInit /\ ListingInit

\* One of the components runs; they have nothing to do with each other.
HttpIdle == HttpInit /\ \A c \in Configs : config[c].method = "GET" /\ config[c].payload = "nil"

Next ==
    \/ /\ RepliesInit /\ FacetsInit /\ ListingInit
       /\ HttpNext
       /\ UNCHANGED <<reply, response, post, asked>>
    \/ /\ HttpIdle /\ FacetsInit /\ ListingInit
       /\ RepliesNext
       /\ UNCHANGED <<config, call, post, asked>>
    \/ /\ HttpIdle /\ RepliesInit /\ ListingInit
       /\ FacetsNext
       /\ UNCHANGED <<config, call, reply, response, asked>>
    \/ /\ HttpIdle /\ RepliesInit /\ FacetsInit
       /\ ListingNext
       /\ UNCHANGED <<config, call, reply, response, post>>

Spec == Init /\ [][Next]_<<config, call, reply, response, post, asked>> /\ HttpFairness
=============================================================================
