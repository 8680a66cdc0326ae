------------------------------- MODULE Posting -------------------------------
(***************************************************************************)
(* Posts with links and images: atlib's PostBuilder, UploadImages and      *)
(* PostToFeed.  The package keeps two variables that all posts share: blob, *)
(* to which every UploadImages appends, and FeedPost_Embed, which Build    *)
(* fills and every post with an embed points to.  What a post carries is   *)
(* therefore settled when it is sent, not when it is built.                *)
(*                                                                         *)
(* No handler of the backend posts yet.  The caller modelled here runs in  *)
(* one goroutine, since nothing in the package is synchronised: the calls  *)
(* are atomic, and those of several posts may alternate.                   *)
(***************************************************************************)
EXTENDS Naturals, Sequences

CONSTANTS
    Posts,
    MaxImages,  \* images of one post
    MaxBlobs,   \* bound on the shared slice: uploads stop there
    Unreachable,  \* images whose URL does not answer with a 200
    None

ASSUME BoundsAssumption == MaxImages \in Nat /\ MaxBlobs \in Nat
ASSUME NoneAssumption == None \notin Posts

VARIABLES
    blob,   \* the package's slice of uploaded blobs
    embed,  \* the package's FeedPost_Embed
    post    \* the builder and the FeedPost of each post

vars == <<blob, embed, post>>

\* The i-th image of post p: its alt text, or the blob its upload returned.
Image == Posts \X (1..MaxImages)

\* The blob of an upload without bytes.
EmptyBlob == <<None, 0>>

Blob == Image \cup {EmptyBlob}

Embed == [external : Posts \cup {None},
          images   : Seq([alt : Image, blob : Blob])]

NoEmbed == [external |-> None, images |-> <<>>]

TypeOK ==
    /\ blob \in Seq(Blob)
    /\ embed \in Embed
    /\ post \in [Posts -> [pc     : {"new", "upload", "build", "send", "sent", "failed"},
                           link   : {"none", "untitled", "titled"},
                           images : 0..MaxImages,
                           blobs  : Seq(Blob),
                           points : BOOLEAN,
                           record : Embed]]

Init ==
    /\ blob = <<>>
    /\ embed = NoEmbed
    /\ post = [p \in Posts |-> [pc |-> "new", link |-> "none", images |-> 0,
                                blobs |-> <<>>, points |-> FALSE, record |-> NoEmbed]]
-----------------------------------------------------------------------------
\* NewPostBuilder, WithExternalLink and the images still to be uploaded.
Compose(p) ==
    /\ post[p].pc = "new"
    /\ \E link \in {"none", "untitled", "titled"}, n \in 0..MaxImages :
         post' = [post EXCEPT ![p].link = link, ![p].images = n,
                              ![p].pc = IF n = 0 THEN "build" ELSE "upload"]
    /\ UNCHANGED <<blob, embed>>

\* A failed fetch is logged, and the nil buffer uploaded all the same.
getImageAsBuffer(img) == IF img \in Unreachable THEN EmptyBlob ELSE img

Images(p) == [i \in 1..post[p].images |-> getImageAsBuffer(<<p, i>>)]

\* One call: it uploads the images in order and stops at the first failure,
\* whose predecessors stay in the shared slice.  A caller that got an error
\* tries again or gives up.
UploadImages(p) ==
    /\ post[p].pc = "upload"
    /\ Len(blob) + post[p].images <= MaxBlobs
    /\ \E k \in 0..post[p].images :
         /\ blob' = blob \o SubSeq(Images(p), 1, k)
         /\ IF k = post[p].images
            THEN post' = [post EXCEPT ![p].blobs = blob', ![p].pc = "build"]
            ELSE \/ post' = [post EXCEPT ![p].pc = "failed"]
                 \/ UNCHANGED post
    /\ UNCHANGED embed

\* The images one by one: UploadImage's blob is a local variable.
UploadImage(p) ==
    /\ post[p].pc = "upload"
    /\ post' = [post EXCEPT ![p].blobs = Images(p), ![p].pc = "build"]
    /\ UNCHANGED <<blob, embed>>

\* Mutant: the alt texts are counted from zero.
PairsFromZero(p) == [i \in 1..post[p].images |->
                       [alt |-> <<p, i - 1>>, blob |-> post[p].blobs[i]]]

Pairs(p) == [i \in 1..post[p].images |->
               [alt |-> <<p, i>>, blob |-> post[p].blobs[i]]]

\* Mutant: more blobs than images are accepted.
EmbedOfLenient(p) ==
    IF post[p].link # "none" THEN [embed EXCEPT !.external = p]
    ELSE IF post[p].images # 0 /\ Len(post[p].blobs) >= post[p].images
    THEN [embed EXCEPT !.images = Pairs(p)]
    ELSE embed

\* The embed section of Build: a link goes first; images are taken only if as
\* many blobs came with them; the other field keeps what it had.
EmbedOf(p) ==
    IF post[p].link # "none" THEN [embed EXCEPT !.external = p]
    ELSE IF post[p].images # 0 /\ Len(post[p].blobs) = post[p].images
    THEN [embed EXCEPT !.images = Pairs(p)]
    ELSE embed

\* Mutant: the condition on the pointer is gone.
BuildPointing(p) ==
    /\ post[p].pc = "build"
    /\ embed' = EmbedOf(p)
    /\ post' = [post EXCEPT ![p].pc = "send", ![p].blobs = <<>>, ![p].points = TRUE]
    /\ UNCHANGED blob

\* A facet whose text is not in the post fails the build before the embed.
\* The builder's own blobs are of no use afterwards.
Build(p) ==
    /\ post[p].pc = "build"
    /\ \/ /\ embed' = EmbedOf(p)
          /\ post' = [post EXCEPT ![p].pc = "send", ![p].blobs = <<>>,
                        ![p].points = post[p].images # 0 \/ post[p].link = "titled"]
       \/ /\ post' = [post EXCEPT ![p].pc = "failed", ![p].blobs = <<>>]
          /\ UNCHANGED embed
    /\ UNCHANGED blob

\* The union as it goes over the wire: the first field that is set.
Marshalled == IF embed.images # <<>> THEN [NoEmbed EXCEPT !.images = embed.images]
                                     ELSE [NoEmbed EXCEPT !.external = embed.external]

\* An embed with no field set cannot be marshalled.
PostToFeed(p) ==
    /\ post[p].pc = "send"
    /\ \/ /\ post[p].points => embed # NoEmbed
          /\ post' = [post EXCEPT ![p].pc = "sent",
                        ![p].record = IF post[p].points THEN Marshalled ELSE NoEmbed]
       \/ post' = [post EXCEPT ![p].pc = "failed"]
    /\ UNCHANGED <<blob, embed>>

Next == \E p \in Posts : \/ Compose(p) \/ UploadImages(p) \/ UploadImage(p)
                         \/ Build(p) \/ PostToFeed(p)

Spec == Init /\ [][Next]_vars
-----------------------------------------------------------------------------
\* What is published as images is always the whole image list of one post, each
\* image under its own alt text, although all posts append to one slice of blobs,
\* uploads break off in the middle, and every Build fills the same embed.  One
\* that could not be fetched leaves its own place empty and shifts no other.
ImagesStayTogether ==
    \A p \in Posts : post[p].record.images # <<>> =>
        \E q \in Posts : post[p].record.images =
            [i \in 1..post[q].images |-> [alt |-> <<q, i>>, blob |-> getImageAsBuffer(<<q, i>>)]]

\* A post that asked for no embed carries none, whatever the shared embed holds.
TextPostsAreBare ==
    \A p \in Posts :
        post[p].link = "none" /\ post[p].images = 0 => post[p].record = NoEmbed

\* atpost.go:202, "avoid error when trying to marshal empty field": a post
\* that is ready to be sent does not point to an empty embed.
NoEmptyEmbed ==
    \A p \in Posts : post[p].pc = "send" /\ post[p].points => embed # NoEmbed

\* atpost.go:168, "As of now it allows only one Embed type per post":
\* the post that is about to be sent has one field of the union set.
OneEmbedType ==
    \A p \in Posts : post[p].pc = "send" /\ post[p].points =>
        embed.external = None \/ embed.images = <<>>
=============================================================================
