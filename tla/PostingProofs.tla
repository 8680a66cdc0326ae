---------------------------- MODULE PostingProofs ----------------------------
(***************************************************************************)
(* Proofs about the shared variables of atlib: what is published as the    *)
(* images of a post, for any number of posts, images and blobs.            *)
(***************************************************************************)
EXTENDS Posting, SequenceTheorems, TLAPS

\* The image list of a post with n images.
Whole(q, n) == [i \in 1..n |-> [alt |-> <<q, i>>, blob |-> getImageAsBuffer(<<q, i>>)]]

\* A list of images that is empty, or the whole list of a composed post.
Together(images) ==
    \/ images = <<>>
    \/ \E q \in Posts : post[q].pc # "new" /\ images = Whole(q, post[q].images)

\* What was not composed carries nothing yet.
NewIsBlank ==
    \A p \in Posts : post[p].pc = "new" =>
        ~post[p].points /\ post[p].blobs = <<>> /\ post[p].record = NoEmbed

\* Only a post that asked for an embed points to the shared one.
OnlyAskedPoint ==
    \A p \in Posts : post[p].points => post[p].link # "none" \/ post[p].images # 0

\* As many blobs as images are those images: a slice that other uploads had
\* begun is longer.
CountedBlobsAreOwn ==
    \A p \in Posts :
        post[p].pc = "build" /\ Len(post[p].blobs) = post[p].images
        => post[p].blobs = Images(p)

IInv == /\ TypeOK
        /\ NewIsBlank
        /\ OnlyAskedPoint
        /\ TextPostsAreBare
        /\ CountedBlobsAreOwn
        /\ Together(embed.images)
        /\ \A p \in Posts : Together(post[p].record.images)
-----------------------------------------------------------------------------
(* Images and blobs as sequences.                                          *)

PostRecord == [pc     : {"new", "upload", "build", "send", "sent", "failed"},
               link   : {"none", "untitled", "titled"},
               images : 0..MaxImages,
               blobs  : Seq(Blob),
               points : BOOLEAN,
               record : Embed]

\* A function on 1..n is a sequence of length n.
LEMMA FunctionIsSeq ==
    ASSUME NEW S, NEW n \in Nat, NEW f \in [1..n -> S]
    PROVE  f \in Seq(S) /\ Len(f) = n
<1>1. f \in Seq(S) OBVIOUS
<1>2. DOMAIN f = 1..Len(f) /\ Len(f) \in Nat BY <1>1, LenProperties
<1>3. DOMAIN f = 1..n OBVIOUS
<1>4. Len(f) = n
  <2> DEFINE m == Len(f)
  <2> HIDE DEF m
  <2>1. m \in Nat /\ \A i \in Int : i \in 1..m <=> i \in 1..n
    BY <1>2, <1>3 DEF m
  <2>2. (m >= 1 => m <= n) /\ (n >= 1 => n <= m) BY <2>1
  <2> QED BY <2>1, <2>2 DEF m
<1> QED BY <1>1, <1>4

\* A post has an image for each of its numbers, and each has a blob.
LEMMA ImagesFacts ==
    ASSUME NEW p \in Posts, NEW n \in 0..MaxImages, post[p].images = n
    PROVE  /\ Images(p) \in Seq(Blob) /\ Len(Images(p)) = n
           /\ \A i \in 1..n : Images(p)[i] = getImageAsBuffer(<<p, i>>)
<1>1. n \in Nat /\ n <= MaxImages BY BoundsAssumption
<1>2. \A i \in 1..n : getImageAsBuffer(<<p, i>>) \in Blob
  <2> SUFFICES ASSUME NEW i \in 1..n PROVE getImageAsBuffer(<<p, i>>) \in Blob
    OBVIOUS
  <2>1. i \in 1..MaxImages BY <1>1, BoundsAssumption
  <2> QED BY <2>1 DEF getImageAsBuffer, Blob, Image
<1>3. Images(p) = [i \in 1..n |-> getImageAsBuffer(<<p, i>>)] BY DEF Images
<1>4. Images(p) \in [1..n -> Blob] BY <1>2, <1>3
<1> QED BY <1>1, <1>3, <1>4, FunctionIsSeq

\* The whole list of a post's images is a list of images.
LEMMA WholeFacts ==
    ASSUME NEW p \in Posts, NEW n \in 0..MaxImages
    PROVE  Whole(p, n) \in Seq([alt : Image, blob : Blob])
<1>1. n \in Nat /\ n <= MaxImages BY BoundsAssumption
<1>2. ASSUME NEW i \in 1..n
      PROVE  [alt |-> <<p, i>>, blob |-> getImageAsBuffer(<<p, i>>)]
               \in [alt : Image, blob : Blob]
  <2>1. i \in 1..MaxImages BY <1>1, BoundsAssumption
  <2> QED BY <2>1 DEF getImageAsBuffer, Blob, Image
<1>3. Whole(p, n) \in [1..n -> [alt : Image, blob : Blob]] BY <1>2 DEF Whole
<1> QED BY <1>1, <1>3, FunctionIsSeq

\* What an upload that uploads k images appends.
LEMMA UploadedFacts ==
    ASSUME NEW p \in Posts, NEW n \in 0..MaxImages, post[p].images = n,
           NEW k \in 0..n, blob \in Seq(Blob)
    PROVE  /\ blob \o SubSeq(Images(p), 1, k) \in Seq(Blob)
           /\ k = n /\ Len(blob \o SubSeq(Images(p), 1, k)) = n
                => blob \o SubSeq(Images(p), 1, k) = Images(p)
<1> DEFINE own == Images(p)
           t == SubSeq(own, 1, k)
<1>1. /\ n \in Nat /\ k \in Nat /\ own \in Seq(Blob) /\ Len(own) = n
      /\ \A i \in 1..k : own[i] \in Blob
  <2>1. n \in Nat /\ k \in Nat BY BoundsAssumption
  <2>2. own \in Seq(Blob) /\ Len(own) = n BY ImagesFacts
  <2>3. \A i \in 1..k : i \in 1..Len(own) BY <2>1, <2>2
  <2> QED BY <2>1, <2>2, <2>3, ElementOfSeq
<1> HIDE DEF own
<1>2. t \in Seq(Blob) /\ Len(t) = k BY <1>1, SubSeqProperties
<1>3. blob \o t \in Seq(Blob) /\ Len(blob \o t) = Len(blob) + k
  BY <1>2, ConcatProperties
<1>4. ASSUME k = n, Len(blob \o t) = n PROVE blob \o t = own
  <2>1. t = own BY <1>1, <1>4, SubSeqFull
  <2>2. Len(blob) = 0 BY <1>1, <1>3, <1>4, LenProperties
  <2>3. blob = <<>> BY <2>2, EmptySeq
  <2> QED BY <1>1, <2>1, <2>3, ConcatEmptySeq
<1> QED BY <1>3, <1>4 DEF own
-----------------------------------------------------------------------------
(* One post is rewritten, and the shared variables move on.                *)

\* A list that belongs together goes on doing so.
LEMMA StaysTogether ==
    ASSUME NEW images, Together(images),
           \A q \in Posts : post[q].pc # "new" =>
             post'[q].pc # "new" /\ post'[q].images = post[q].images
    PROVE  Together(images)'
BY DEF Together

\* The conditions under which rewriting post p keeps the invariant.
LEMMA Replace ==
    ASSUME IInv, NEW p \in Posts, NEW s \in PostRecord,
           post' = [post EXCEPT ![p] = s],
           blob' \in Seq(Blob), embed' \in Embed,
           s.pc # "new",
           post[p].pc # "new" => s.images = post[p].images,
           s.points => s.link # "none" \/ s.images # 0,
           s.link = "none" /\ s.images = 0 => s.record = NoEmbed,
           s.pc = "build" /\ Len(s.blobs) = s.images =>
             s.blobs = [i \in 1..s.images |-> getImageAsBuffer(<<p, i>>)],
           embed'.images = embed.images \/ embed'.images = Whole(p, s.images),
           s.record.images \in {<<>>, post[p].record.images, embed.images}
    PROVE  IInv'
<1> USE DEF IInv
<1>1. /\ post \in [Posts -> PostRecord] /\ post'[p] = s
      /\ post' \in [Posts -> PostRecord]
      /\ \A q \in Posts : q # p => post'[q] = post[q]
  BY DEF TypeOK, PostRecord
<1>2. \A q \in Posts : post[q].pc # "new" =>
        post'[q].pc # "new" /\ post'[q].images = post[q].images
  BY <1>1
<1>3. TypeOK' BY <1>1 DEF TypeOK, PostRecord
<1>4. NewIsBlank' BY <1>1 DEF NewIsBlank
<1>5. OnlyAskedPoint' BY <1>1 DEF OnlyAskedPoint
<1>6. TextPostsAreBare' BY <1>1 DEF TextPostsAreBare
<1>7. CountedBlobsAreOwn'
  <2> SUFFICES ASSUME NEW q \in Posts,
                      post'[q].pc = "build", Len(post'[q].blobs) = post'[q].images
               PROVE  post'[q].blobs =
                        [i \in 1..post'[q].images |-> getImageAsBuffer(<<q, i>>)]
    BY DEF CountedBlobsAreOwn, Images
  <2>1. CASE q = p BY <1>1, <2>1
  <2>2. CASE q # p
    <3>1. post'[q] = post[q] BY <1>1, <2>2
    <3> QED BY <3>1 DEF CountedBlobsAreOwn, Images
  <2> QED BY <2>1, <2>2
<1>8. Together(embed.images)' /\ Together(s.record.images)'
  <2>1. ASSUME NEW images, Together(images) PROVE Together(images)'
    BY <1>2, <2>1, StaysTogether
  <2>2. PICK own : own = Whole(p, s.images) OBVIOUS
  <2>3. Together(own)' BY <1>1, <2>2 DEF Together, Whole
  <2>4. PICK e : e = embed'.images OBVIOUS
  <2>5. Together(e)' BY <2>1, <2>2, <2>3, <2>4
  <2>6. PICK i : i = s.record.images OBVIOUS
  <2>7. Together(i) BY <2>6 DEF Together
  <2>8. Together(i)' BY <2>1, <2>7
  <2> QED BY <2>4, <2>5, <2>6, <2>8 DEF Together
<1>9. ASSUME NEW q \in Posts PROVE Together(post[q].record.images)'
  <2>1. CASE q = p BY <1>1, <1>8, <2>1 DEF Together
  <2>2. CASE q # p
    <3>1. PICK i : i = post[q].record.images OBVIOUS
    <3>2. Together(i)' BY <1>2, <3>1, StaysTogether
    <3>3. post'[q] = post[q] BY <1>1, <2>2
    <3> QED BY <3>1, <3>2, <3>3 DEF Together
  <2> QED BY <2>1, <2>2
<1> QED BY <1>3, <1>4, <1>5, <1>6, <1>7, <1>8, <1>9
-----------------------------------------------------------------------------
(* The invariant is inductive: one lemma per action.                       *)

\* Nothing is composed, uploaded or built.
LEMMA InitIInv == Init => IInv
<1> SUFFICES ASSUME Init PROVE IInv OBVIOUS
<1> DEFINE s == [pc |-> "new", link |-> "none", images |-> 0,
                 blobs |-> <<>>, points |-> FALSE, record |-> NoEmbed]
<1>1. NoEmbed \in Embed /\ NoEmbed.images = <<>> BY DEF NoEmbed, Embed
<1>2. s \in PostRecord BY <1>1, BoundsAssumption DEF PostRecord
<1>3. /\ s.pc = "new" /\ s.link = "none" /\ s.images = 0 /\ s.blobs = <<>>
      /\ ~s.points /\ s.record = NoEmbed
  OBVIOUS
<1> HIDE DEF s
<1>4. post = [p \in Posts |-> s] /\ embed = NoEmbed /\ blob = <<>> BY DEF Init, s
<1>5. TypeOK BY <1>1, <1>2, <1>4 DEF TypeOK, PostRecord
<1>6. NewIsBlank /\ OnlyAskedPoint /\ TextPostsAreBare /\ CountedBlobsAreOwn
  BY <1>3, <1>4 DEF NewIsBlank, OnlyAskedPoint, TextPostsAreBare, CountedBlobsAreOwn
<1>7. Together(embed.images) /\ \A p \in Posts : Together(post[p].record.images)
  BY <1>1, <1>3, <1>4 DEF Together
<1> QED BY <1>5, <1>6, <1>7 DEF IInv

\* What the invariant says of one post.
LEMMA PostFacts ==
    ASSUME IInv, NEW p \in Posts
    PROVE  /\ post \in [Posts -> PostRecord] /\ post[p] \in PostRecord
           /\ blob \in Seq(Blob) /\ embed \in Embed
           /\ post[p].images \in Nat /\ post[p].images <= MaxImages
<1>1. post \in [Posts -> PostRecord] /\ blob \in Seq(Blob) /\ embed \in Embed
  BY DEF IInv, TypeOK, PostRecord
<1>2. post[p] \in PostRecord BY <1>1
<1>3. post[p].images \in 0..MaxImages BY <1>2 DEF PostRecord
<1> QED BY <1>1, <1>2, <1>3, BoundsAssumption

\* A composed post has no blobs yet; without images none are missing.
LEMMA ComposeKeeps ==
    ASSUME IInv, NEW p \in Posts, Compose(p) PROVE IInv'
<1>1. PICK link \in {"none", "untitled", "titled"}, n \in 0..MaxImages :
        /\ post' = [post EXCEPT ![p].link = link, ![p].images = n,
                                ![p].pc = IF n = 0 THEN "build" ELSE "upload"]
        /\ UNCHANGED <<blob, embed>> /\ post[p].pc = "new"
  BY DEF Compose
<1>2. PICK q \in PostRecord : q = post[p] BY PostFacts
<1>3. PICK pc \in {"build", "upload"} : pc = IF n = 0 THEN "build" ELSE "upload"
  OBVIOUS
<1>4. PICK s : s = [q EXCEPT !.link = link, !.images = n, !.pc = pc] OBVIOUS
<1>5. s \in PostRecord BY <1>4 DEF PostRecord
<1>6. /\ s.link = link /\ s.images = n /\ s.pc = pc
      /\ s.blobs = q.blobs /\ s.points = q.points /\ s.record = q.record
  BY <1>4 DEF PostRecord
<1>7. post' = [post EXCEPT ![p] = s] BY <1>1, <1>2, <1>3, <1>4, PostFacts
<1>8. ~q.points /\ q.blobs = <<>> /\ q.record = NoEmbed
  BY <1>1, <1>2 DEF IInv, NewIsBlank
<1>9. s.pc = "build" /\ Len(s.blobs) = s.images =>
        s.blobs = [i \in 1..s.images |-> getImageAsBuffer(<<p, i>>)]
  <2> SUFFICES ASSUME s.images = 0
               PROVE  s.blobs = [i \in 1..s.images |-> getImageAsBuffer(<<p, i>>)]
    BY <1>6, <1>8
  <2>1. [i \in 1..0 |-> getImageAsBuffer(<<p, i>>)] = <<>> OBVIOUS
  <2> QED BY <1>6, <1>8, <2>1
<1> QED BY <1>1, <1>2, <1>5, <1>6, <1>7, <1>8, <1>9, PostFacts, Replace

\* A batch takes its images into the shared slice: the blobs it hands back are
\* as many as the images only if the slice was empty.
LEMMA UploadImagesKeeps ==
    ASSUME IInv, NEW p \in Posts, UploadImages(p) PROVE IInv'
<1>1. PICK q \in PostRecord : q = post[p] BY PostFacts
<1>2. PICK k \in 0..q.images :
        /\ blob' = blob \o SubSeq(Images(p), 1, k)
        /\ \/ k = q.images /\ post' = [post EXCEPT ![p].blobs = blob', ![p].pc = "build"]
           \/ post' = [post EXCEPT ![p].pc = "failed"]
           \/ UNCHANGED post
  BY <1>1 DEF UploadImages
<1>3. q.pc = "upload" /\ UNCHANGED embed BY <1>1 DEF UploadImages
<1>4. PICK b : b = blob' OBVIOUS
<1>5. q.images \in 0..MaxImages BY DEF PostRecord
<1>6. /\ b \in Seq(Blob)
      /\ k = q.images /\ Len(b) = q.images =>
           b = [i \in 1..q.images |-> getImageAsBuffer(<<p, i>>)]
  BY <1>1, <1>2, <1>4, <1>5, UploadedFacts, PostFacts DEF Images
<1>7. /\ q.points => q.link # "none" \/ q.images # 0
      /\ q.link = "none" /\ q.images = 0 => q.record = NoEmbed
  BY <1>1 DEF IInv, OnlyAskedPoint, TextPostsAreBare
<1>8. CASE k = q.images /\ post' = [post EXCEPT ![p].blobs = blob', ![p].pc = "build"]
  <2>1. PICK s : s = [q EXCEPT !.blobs = b, !.pc = "build"] OBVIOUS
  <2>2. s \in PostRecord BY <1>6, <2>1 DEF PostRecord
  <2>3. /\ s.link = q.link /\ s.images = q.images /\ s.pc = "build"
        /\ s.blobs = b /\ s.points = q.points /\ s.record = q.record
    BY <2>1 DEF PostRecord
  <2>4. post' = [post EXCEPT ![p] = s] BY <1>1, <1>4, <1>8, <2>1, PostFacts
  <2> QED BY ZenonT(60), <1>1, <1>3, <1>4, <1>6, <1>7, <1>8, <2>2, <2>3, <2>4, PostFacts,
             Replace
<1>9. CASE post' = [post EXCEPT ![p].pc = "failed"]
  <2>1. PICK s : s = [q EXCEPT !.pc = "failed"] OBVIOUS
  <2>2. s \in PostRecord BY <2>1 DEF PostRecord
  <2>3. /\ s.link = q.link /\ s.images = q.images /\ s.pc = "failed"
        /\ s.points = q.points /\ s.record = q.record
    BY <2>1 DEF PostRecord
  <2>4. post' = [post EXCEPT ![p] = s] BY <1>1, <1>9, <2>1, PostFacts
  <2> QED BY <1>1, <1>3, <1>4, <1>6, <1>7, <2>2, <2>3, <2>4, PostFacts, Replace
<1>10. CASE UNCHANGED post
  <2>1. post' = [post EXCEPT ![p] = q] BY <1>1, <1>10, PostFacts
  <2> QED BY <1>1, <1>3, <1>4, <1>6, <1>7, <2>1, PostFacts, Replace
<1> QED BY <1>2, <1>8, <1>9, <1>10

\* Image by image the blobs are the post's own.
LEMMA UploadImageKeeps ==
    ASSUME IInv, NEW p \in Posts, UploadImage(p) PROVE IInv'
<1>1. PICK q \in PostRecord : q = post[p] BY PostFacts
<1>2. PICK b : b = Images(p) OBVIOUS
<1>3. /\ q.pc = "upload" /\ UNCHANGED <<blob, embed>>
      /\ post' = [post EXCEPT ![p].blobs = b, ![p].pc = "build"]
  BY <1>1, <1>2 DEF UploadImage
<1>4. q.images \in 0..MaxImages BY DEF PostRecord
<1>5. b \in Seq(Blob) /\ b = [i \in 1..q.images |-> getImageAsBuffer(<<p, i>>)]
  BY <1>1, <1>2, <1>4, ImagesFacts DEF Images
<1>6. PICK s : s = [q EXCEPT !.blobs = b, !.pc = "build"] OBVIOUS
<1>7. s \in PostRecord BY <1>5, <1>6 DEF PostRecord
<1>8. /\ s.link = q.link /\ s.images = q.images /\ s.pc = "build"
      /\ s.blobs = b /\ s.points = q.points /\ s.record = q.record
  BY <1>6 DEF PostRecord
<1>9. post' = [post EXCEPT ![p] = s] BY <1>1, <1>3, <1>6, PostFacts
<1>10. /\ q.points => q.link # "none" \/ q.images # 0
       /\ q.link = "none" /\ q.images = 0 => q.record = NoEmbed
  BY <1>1 DEF IInv, OnlyAskedPoint, TextPostsAreBare
<1> QED BY <1>1, <1>3, <1>5, <1>7, <1>8, <1>9, <1>10, PostFacts, Replace

\* The shared embed keeps its images or takes the whole list of this post.
LEMMA EmbedOfFacts ==
    ASSUME IInv, NEW p \in Posts, post[p].pc = "build"
    PROVE  /\ EmbedOf(p) \in Embed
           /\ \/ EmbedOf(p).images = embed.images
              \/ EmbedOf(p).images = Whole(p, post[p].images)
<1>1. embed \in Embed BY PostFacts
<1>2. CASE post[p].link # "none"
  BY <1>1, <1>2 DEF EmbedOf, Embed
<1>3. CASE post[p].link = "none" /\ post[p].images # 0
           /\ Len(post[p].blobs) = post[p].images
  <2>1. post[p].blobs = Images(p) BY <1>3 DEF IInv, CountedBlobsAreOwn
  <2>2. Pairs(p) = Whole(p, post[p].images) BY <2>1 DEF Pairs, Whole, Images
  <2>3. post[p].images \in 0..MaxImages BY PostFacts
  <2>4. PICK im : im = Pairs(p) OBVIOUS
  <2>5. im \in Seq([alt : Image, blob : Blob]) BY <2>2, <2>3, <2>4, WholeFacts
  <2>6. EmbedOf(p) = [embed EXCEPT !.images = im] BY <1>3, <2>4 DEF EmbedOf
  <2>7. EmbedOf(p) \in Embed /\ EmbedOf(p).images = im
    BY <1>1, <2>5, <2>6 DEF Embed
  <2> QED BY <2>2, <2>4, <2>7
<1>4. CASE post[p].link = "none" /\ ~(post[p].images # 0
           /\ Len(post[p].blobs) = post[p].images)
  BY <1>1, <1>4 DEF EmbedOf
<1> QED BY <1>2, <1>3, <1>4

\* Build fills the shared embed, or fails before it.
LEMMA BuildKeeps ==
    ASSUME IInv, NEW p \in Posts, Build(p) PROVE IInv'
<1>1. PICK q \in PostRecord : q = post[p] BY PostFacts
<1>2. q.pc = "build" /\ UNCHANGED blob BY <1>1 DEF Build
<1>3. q.link = "none" /\ q.images = 0 => q.record = NoEmbed
  BY <1>1 DEF IInv, TextPostsAreBare
<1>4. q.points => q.link # "none" \/ q.images # 0 BY <1>1 DEF IInv, OnlyAskedPoint
<1>5. ASSUME NEW pc \in {"send", "failed"}, NEW points \in BOOLEAN,
             points => q.link # "none" \/ q.images # 0,
             embed' \in Embed,
             embed'.images = embed.images \/ embed'.images = Whole(p, q.images),
             post' = [post EXCEPT ![p].pc = pc, ![p].blobs = <<>>, ![p].points = points]
      PROVE  IInv'
  <2>0. PICK none \in Seq(Blob) : none = <<>> BY EmptySeq
  <2>1. PICK s : s = [q EXCEPT !.pc = pc, !.blobs = none, !.points = points] OBVIOUS
  <2>2. s \in PostRecord BY <2>1 DEF PostRecord
  <2>3. /\ s.link = q.link /\ s.images = q.images /\ s.pc = pc
        /\ s.points = points /\ s.record = q.record
    BY <2>1 DEF PostRecord
  <2>4. post' = [post EXCEPT ![p] = s] BY <1>1, <1>5, <2>0, <2>1, PostFacts
  <2> QED BY <1>1, <1>2, <1>3, <1>5, <2>2, <2>3, <2>4, PostFacts, Replace
<1>6. CASE /\ embed' = EmbedOf(p)
           /\ post' = [post EXCEPT ![p].pc = "send", ![p].blobs = <<>>,
                         ![p].points = post[p].images # 0 \/ post[p].link = "titled"]
  <2>1. PICK points \in BOOLEAN : points = (q.images # 0 \/ q.link = "titled") OBVIOUS
  <2>2. points => q.link # "none" \/ q.images # 0 BY <2>1
  <2>3. post' = [post EXCEPT ![p].pc = "send", ![p].blobs = <<>>, ![p].points = points]
    BY <1>1, <1>6, <2>1
  <2> QED BY <1>1, <1>2, <1>5, <1>6, <2>2, <2>3, EmbedOfFacts
<1>7. CASE /\ post' = [post EXCEPT ![p].pc = "failed", ![p].blobs = <<>>]
           /\ UNCHANGED embed
  <2>0. PICK none \in Seq(Blob) : none = <<>> BY EmptySeq
  <2>1. PICK s : s = [q EXCEPT !.pc = "failed", !.blobs = none] OBVIOUS
  <2>2. s \in PostRecord BY <2>1 DEF PostRecord
  <2>3. /\ s.link = q.link /\ s.images = q.images /\ s.pc = "failed"
        /\ s.points = q.points /\ s.record = q.record
    BY <2>1 DEF PostRecord
  <2>4. post' = [post EXCEPT ![p] = s] BY <1>1, <1>7, <2>0, <2>1, PostFacts
  <2> QED BY <1>1, <1>2, <1>3, <1>4, <1>7, <2>2, <2>3, <2>4, PostFacts, Replace
<1> QED BY <1>6, <1>7 DEF Build

\* What is published is what the shared embed holds, if the post points to it.
LEMMA PostToFeedKeeps ==
    ASSUME IInv, NEW p \in Posts, PostToFeed(p) PROVE IInv'
<1>1. PICK q \in PostRecord : q = post[p] BY PostFacts
<1>2. q.pc = "send" /\ UNCHANGED <<blob, embed>> BY <1>1 DEF PostToFeed
<1>3. /\ q.points => q.link # "none" \/ q.images # 0
      /\ q.link = "none" /\ q.images = 0 => q.record = NoEmbed
  BY <1>1 DEF IInv, OnlyAskedPoint, TextPostsAreBare
<1>4. /\ NoEmbed \in Embed /\ NoEmbed.images = <<>>
      /\ Marshalled \in Embed /\ Marshalled.images \in {<<>>, embed.images}
  <2>1. embed \in Embed BY PostFacts
  <2>2. NoEmbed \in Embed /\ NoEmbed.images = <<>> BY DEF NoEmbed, Embed
  <2>3. PICK e \in Embed : e = NoEmbed BY <2>2
  <2>4. Marshalled = IF embed.images # <<>> THEN [e EXCEPT !.images = embed.images]
                     ELSE [e EXCEPT !.external = embed.external]
    BY <2>3 DEF Marshalled
  <2> QED BY <2>1, <2>2, <2>3, <2>4 DEF Embed
<1>5. ASSUME NEW pc \in {"sent", "failed"}, NEW record \in Embed,
             q.link = "none" /\ q.images = 0 => record = NoEmbed,
             record.images \in {<<>>, q.record.images, embed.images},
             post' = [post EXCEPT ![p].pc = pc, ![p].record = record]
      PROVE  IInv'
  <2>1. PICK s : s = [q EXCEPT !.pc = pc, !.record = record] OBVIOUS
  <2>2. s \in PostRecord BY <2>1 DEF PostRecord
  <2>3. /\ s.link = q.link /\ s.images = q.images /\ s.pc = pc
        /\ s.points = q.points /\ s.record = record
    BY <2>1 DEF PostRecord
  <2>4. post' = [post EXCEPT ![p] = s] BY <1>1, <1>5, <2>1, PostFacts
  <2> QED BY <1>1, <1>2, <1>3, <1>5, <2>2, <2>3, <2>4, PostFacts, Replace
<1>6. CASE post' = [post EXCEPT ![p].pc = "sent",
                      ![p].record = IF post[p].points THEN Marshalled ELSE NoEmbed]
  <2>1. PICK record : record = IF q.points THEN Marshalled ELSE NoEmbed OBVIOUS
  <2>2. /\ record \in Embed
        /\ q.link = "none" /\ q.images = 0 => record = NoEmbed
        /\ record.images \in {<<>>, q.record.images, embed.images}
    BY <1>3, <1>4, <2>1
  <2>3. post' = [post EXCEPT ![p].pc = "sent", ![p].record = record]
    BY <1>1, <1>6, <2>1
  <2> QED BY <1>5, <2>2, <2>3
<1>7. CASE post' = [post EXCEPT ![p].pc = "failed"]
  <2>1. PICK s : s = [q EXCEPT !.pc = "failed"] OBVIOUS
  <2>2. s \in PostRecord BY <2>1 DEF PostRecord
  <2>3. /\ s.link = q.link /\ s.images = q.images /\ s.pc = "failed"
        /\ s.points = q.points /\ s.record = q.record
    BY <2>1 DEF PostRecord
  <2>4. post' = [post EXCEPT ![p] = s] BY <1>1, <1>7, <2>1, PostFacts
  <2> QED BY <1>1, <1>2, <1>3, <2>2, <2>3, <2>4, PostFacts, Replace
<1> QED BY <1>6, <1>7 DEF PostToFeed

\* Every step keeps the invariant.
LEMMA NextKeepsIInv == IInv /\ [Next]_vars => IInv'
<1>1. ASSUME IInv, UNCHANGED vars PROVE IInv'
  BY <1>1 DEF vars, IInv, TypeOK, NewIsBlank, OnlyAskedPoint, TextPostsAreBare,
     CountedBlobsAreOwn, Images, Together
<1> QED BY <1>1, ComposeKeeps, UploadImagesKeeps, UploadImageKeeps, BuildKeeps,
     PostToFeedKeeps DEF Next
-----------------------------------------------------------------------------
(* The theorems.                                                           *)

\* The invariant on which the others rest.
THEOREM Inductive == Spec => []IInv
BY InitIInv, NextKeepsIInv, PTL DEF Spec

\* Every variable keeps its type.
THEOREM TypeCorrect == Spec => []TypeOK
<1>1. IInv => TypeOK BY DEF IInv
<1> QED BY <1>1, Inductive, PTL

\* What is published as images is always the whole list of one post, each image
\* under its own alt text (UploadImages, Build and PostToFeed of any posts).
THEOREM PublishedImagesBelongTogether == Spec => []ImagesStayTogether
<1>1. IInv => ImagesStayTogether BY DEF IInv, Together, Whole, ImagesStayTogether
<1> QED BY <1>1, Inductive, PTL

\* A post that asked for no embed carries none, whatever others built.
THEOREM TextPostsStayBare == Spec => []TextPostsAreBare
<1>1. IInv => TextPostsAreBare BY DEF IInv
<1> QED BY <1>1, Inductive, PTL
-----------------------------------------------------------------------------
(* What the shared embed does to posts: nothing to a post that is alone;   *)
(* afterwards it is never empty again.                                     *)

\* No other post has been composed.
Alone(p) == \A q \in Posts : q # p => post[q].pc = "new"

\* What the caller of NewPostBuilder asked for: the images of a post without a
\* link, or the link.  A link without a title is dropped, unless images came with it.
AsAsked(p) ==
    /\ post[p].record.images =
         IF post[p].link = "none" THEN Whole(p, post[p].images) ELSE <<>>
    /\ post[p].record.external =
         IF post[p].link = "titled" \/ (post[p].link # "none" /\ post[p].images # 0)
         THEN p ELSE None

\* How far a post has come that is alone, and what it left in the shared embed.
LoneInv(p) ==
    /\ post[p].pc \in {"new", "upload", "build"} => embed = NoEmbed
    /\ post[p].pc = "send" =>
         /\ embed.external = IF post[p].link = "none" THEN None ELSE p
         /\ embed.images # <<>> =>
              post[p].link = "none" /\ embed.images = Whole(p, post[p].images)
         /\ post[p].points <=> post[p].images # 0 \/ post[p].link = "titled"
    /\ post[p].pc = "sent" => AsAsked(p)

\* Before the embed: composed, uploaded, or failed.
Prepares(p) ==
    /\ post[p].pc \in {"new", "upload", "build"}
    /\ post'[p].pc \in {"upload", "build", "failed"}
    /\ post'[p].record = post[p].record /\ embed' = embed

Builds(p) ==
    /\ post[p].pc = "build" /\ post'[p].pc = "send"
    /\ post'[p].link = post[p].link /\ post'[p].images = post[p].images
    /\ post'[p].points <=> post[p].images # 0 \/ post[p].link = "titled"
    /\ post'[p].record = post[p].record /\ embed' = EmbedOf(p)

Sends(p) ==
    /\ post[p].pc = "send" /\ post'[p].pc = "sent"
    /\ post[p].points => embed # NoEmbed
    /\ post'[p].link = post[p].link /\ post'[p].images = post[p].images
    /\ post'[p].record = IF post[p].points THEN Marshalled ELSE NoEmbed
    /\ embed' = embed

Drops(p) ==
    /\ post[p].pc = "send" /\ post'[p].pc = "failed"
    /\ post'[p].record = post[p].record /\ embed' = embed

\* A step concerns one post.
Concerns(p) ==
    /\ \A q \in Posts : q # p => post'[q] = post[q]
    /\ Prepares(p) \/ Builds(p) \/ Sends(p) \/ Drops(p)

LEMMA StepConcernsOne ==
    ASSUME IInv, [Next]_vars
    PROVE  (post' = post /\ embed' = embed) \/ \E p \in Posts : Concerns(p)
<1>1. CASE UNCHANGED vars BY <1>1 DEF vars
<1>2. ASSUME NEW p \in Posts,
             Compose(p) \/ UploadImages(p) \/ UploadImage(p) \/ Build(p) \/ PostToFeed(p)
      PROVE  (post' = post /\ embed' = embed) \/ Concerns(p)
  <2>1. PICK q \in PostRecord : q = post[p] BY PostFacts
  <2>2. DOMAIN post = Posts /\ p \in DOMAIN post BY PostFacts
  <2>3. CASE Compose(p)
    <3>1. PICK link \in {"none", "untitled", "titled"}, n \in 0..MaxImages :
            /\ post' = [post EXCEPT ![p].link = link, ![p].images = n,
                                    ![p].pc = IF n = 0 THEN "build" ELSE "upload"]
            /\ UNCHANGED <<blob, embed>> /\ post[p].pc = "new"
      BY <2>3 DEF Compose
    <3>2. PICK pc \in {"build", "upload"} : pc = IF n = 0 THEN "build" ELSE "upload"
      OBVIOUS
    <3>3. PICK s : s = [q EXCEPT !.link = link, !.images = n, !.pc = pc] OBVIOUS
    <3>4. s.pc = pc /\ s.record = q.record BY <3>3 DEF PostRecord
    <3>5. post' = [post EXCEPT ![p] = s] BY <2>1, <2>2, <3>1, <3>2, <3>3
    <3>6. post'[p] = s /\ \A x \in Posts : x # p => post'[x] = post[x] BY <2>2, <3>5
    <3> QED BY <2>1, <3>1, <3>2, <3>4, <3>6 DEF Concerns, Prepares
  <2>4. CASE UploadImages(p) \/ UploadImage(p)
    <3>1. embed' = embed /\ post[p].pc = "upload" BY <2>4 DEF UploadImages, UploadImage
    <3>2. \/ post' = post
          \/ post' = [post EXCEPT ![p].pc = "failed"]
          \/ \E b : post' = [post EXCEPT ![p].blobs = b, ![p].pc = "build"]
      <4>1. CASE UploadImages(p)
        <5>1. PICK k, b :
                IF k = post[p].images
                THEN post' = [post EXCEPT ![p].blobs = b, ![p].pc = "build"]
                ELSE \/ post' = [post EXCEPT ![p].pc = "failed"]
                     \/ UNCHANGED post
          BY <4>1 DEF UploadImages
        <5> QED BY <5>1
      <4>2. CASE UploadImage(p)
        <5>1. PICK b : post' = [post EXCEPT ![p].blobs = b, ![p].pc = "build"]
          BY <4>2 DEF UploadImage
        <5> QED BY <5>1
      <4> QED BY <2>4, <4>1, <4>2
    <3>3. CASE post' = [post EXCEPT ![p].pc = "failed"]
      <4>1. PICK s : s = [q EXCEPT !.pc = "failed"] OBVIOUS
      <4>2. s.pc = "failed" /\ s.record = q.record BY <4>1 DEF PostRecord
      <4>3. post' = [post EXCEPT ![p] = s] BY <2>1, <2>2, <3>3, <4>1
      <4>4. post'[p] = s /\ \A x \in Posts : x # p => post'[x] = post[x] BY <2>2, <4>3
      <4> QED BY <2>1, <3>1, <4>2, <4>4 DEF Concerns, Prepares
    <3>4. CASE \E b : post' = [post EXCEPT ![p].blobs = b, ![p].pc = "build"]
      <4>1. PICK b : post' = [post EXCEPT ![p].blobs = b, ![p].pc = "build"] BY <3>4
      <4>2. PICK s : s = [q EXCEPT !.blobs = b, !.pc = "build"] OBVIOUS
      <4>3. s.pc = "build" /\ s.record = q.record BY <4>2 DEF PostRecord
      <4>4. post' = [post EXCEPT ![p] = s] BY <2>1, <2>2, <4>1, <4>2
      <4>5. post'[p] = s /\ \A x \in Posts : x # p => post'[x] = post[x] BY <2>2, <4>4
      <4> QED BY <2>1, <3>1, <4>3, <4>5 DEF Concerns, Prepares
    <3> QED BY <3>1, <3>2, <3>3, <3>4
  <2>5. CASE Build(p)
    <3>1. post[p].pc = "build" BY <2>5 DEF Build
    <3>2. CASE /\ embed' = EmbedOf(p)
               /\ post' = [post EXCEPT ![p].pc = "send", ![p].blobs = <<>>,
                             ![p].points = post[p].images # 0 \/ post[p].link = "titled"]
      <4>1. PICK points \in BOOLEAN : points = (q.images # 0 \/ q.link = "titled") OBVIOUS
      <4>2. PICK s : s = [q EXCEPT !.pc = "send", !.blobs = <<>>, !.points = points]
        OBVIOUS
      <4>3. /\ s.pc = "send" /\ s.link = q.link /\ s.images = q.images
            /\ s.points = points /\ s.record = q.record
        BY <4>2 DEF PostRecord
      <4>4. post' = [post EXCEPT ![p] = s] BY <2>1, <2>2, <3>2, <4>1, <4>2
      <4>5. post'[p] = s /\ \A x \in Posts : x # p => post'[x] = post[x] BY <2>2, <4>4
      <4>6. s.points <=> q.images # 0 \/ q.link = "titled" BY <4>1, <4>3
      <4> QED BY <2>1, <3>1, <3>2, <4>3, <4>5, <4>6 DEF Concerns, Builds
    <3>3. CASE /\ post' = [post EXCEPT ![p].pc = "failed", ![p].blobs = <<>>]
               /\ UNCHANGED embed
      <4>1. PICK s : s = [q EXCEPT !.pc = "failed", !.blobs = <<>>] OBVIOUS
      <4>2. s.pc = "failed" /\ s.record = q.record BY <4>1 DEF PostRecord
      <4>3. post' = [post EXCEPT ![p] = s] BY <2>1, <2>2, <3>3, <4>1
      <4>4. post'[p] = s /\ \A x \in Posts : x # p => post'[x] = post[x] BY <2>2, <4>3
      <4> QED BY <2>1, <3>1, <3>3, <4>2, <4>4 DEF Concerns, Prepares
    <3> QED BY <2>5, <3>2, <3>3 DEF Build
  <2>6. CASE PostToFeed(p)
    <3>1. post[p].pc = "send" /\ embed' = embed BY <2>6 DEF PostToFeed
    <3>2. CASE /\ post[p].points => embed # NoEmbed
               /\ post' = [post EXCEPT ![p].pc = "sent",
                             ![p].record = IF post[p].points THEN Marshalled ELSE NoEmbed]
      <4>1. PICK rec : rec = IF post[p].points THEN Marshalled ELSE NoEmbed OBVIOUS
      <4>2. PICK s : s = [q EXCEPT !.pc = "sent", !.record = rec] OBVIOUS
      <4>3. /\ s.pc = "sent" /\ s.link = q.link /\ s.images = q.images /\ s.record = rec
        BY <4>2 DEF PostRecord
      <4>4. post' = [post EXCEPT ![p] = s] BY <2>1, <2>2, <3>2, <4>1, <4>2
      <4>5. post'[p] = s /\ \A x \in Posts : x # p => post'[x] = post[x] BY <2>2, <4>4
      <4> QED BY <2>1, <3>1, <3>2, <4>1, <4>3, <4>5 DEF Concerns, Sends
    <3>3. CASE post' = [post EXCEPT ![p].pc = "failed"]
      <4>1. PICK s : s = [q EXCEPT !.pc = "failed"] OBVIOUS
      <4>2. s.pc = "failed" /\ s.record = q.record BY <4>1 DEF PostRecord
      <4>3. post' = [post EXCEPT ![p] = s] BY <2>1, <2>2, <3>3, <4>1
      <4>4. post'[p] = s /\ \A x \in Posts : x # p => post'[x] = post[x] BY <2>2, <4>3
      <4> QED BY <2>1, <3>1, <4>2, <4>4 DEF Concerns, Drops
    <3> QED BY <2>6, <3>2, <3>3 DEF PostToFeed
  <2> QED BY <1>2, <2>3, <2>4, <2>5, <2>6
<1> QED BY <1>1, <1>2 DEF Next

\* The embed section of Build, field by field.
LEMMA EmbedOfCases ==
    ASSUME IInv, NEW p \in Posts, post[p].pc = "build"
    PROVE  \/ /\ post[p].link # "none"
              /\ EmbedOf(p).external = p /\ EmbedOf(p).images = embed.images
           \/ /\ post[p].link = "none" /\ post[p].images # 0
              /\ EmbedOf(p).external = embed.external
              /\ EmbedOf(p).images = Whole(p, post[p].images)
           \/ post[p].link = "none" /\ EmbedOf(p) = embed
<1>1. embed \in Embed BY PostFacts
<1>2. CASE post[p].link # "none" BY <1>1, <1>2 DEF EmbedOf, Embed
<1>3. CASE post[p].link = "none" /\ post[p].images # 0
           /\ Len(post[p].blobs) = post[p].images
  <2>1. post[p].blobs = Images(p) BY <1>3 DEF IInv, CountedBlobsAreOwn
  <2>2. Pairs(p) = Whole(p, post[p].images) BY <2>1 DEF Pairs, Whole, Images
  <2>3. PICK im : im = Pairs(p) OBVIOUS
  <2>4. EmbedOf(p) = [embed EXCEPT !.images = im] BY <1>3, <2>3 DEF EmbedOf
  <2>5. EmbedOf(p).images = im /\ EmbedOf(p).external = embed.external
    BY <1>1, <2>4 DEF Embed
  <2> QED BY <1>3, <2>2, <2>3, <2>5
<1>4. CASE post[p].link = "none" /\ ~(post[p].images # 0
           /\ Len(post[p].blobs) = post[p].images)
  BY <1>4 DEF EmbedOf
<1> QED BY <1>2, <1>3, <1>4

\* The list of a post's images is empty only if the post has none.
LEMMA WholeIsEmpty ==
    ASSUME NEW p \in Posts, NEW n \in 0..MaxImages
    PROVE  Whole(p, n) = <<>> <=> n = 0
<1>1. n \in Nat BY BoundsAssumption
<1>2. CASE n = 0
  <2>1. Whole(p, 0) = [i \in {} |-> [alt |-> <<p, i>>, blob |-> getImageAsBuffer(<<p, i>>)]]
    BY DEF Whole
  <2>2. [i \in {} |-> [alt |-> <<p, i>>, blob |-> getImageAsBuffer(<<p, i>>)]] = <<>>
    OBVIOUS
  <2> QED BY <1>2, <2>1, <2>2
<1>3. CASE n # 0
  <2>1. DOMAIN Whole(p, n) = 1..n BY DEF Whole
  <2>2. 1 \in DOMAIN Whole(p, n) BY <1>1, <1>3, <2>1
  <2>3. DOMAIN <<>> = {} OBVIOUS
  <2> QED BY <1>3, <2>2, <2>3
<1> QED BY <1>2, <1>3

\* Marshalling keeps one field: the images, if there are any.
LEMMA MarshalledFacts ==
    ASSUME embed \in Embed
    PROVE  /\ Marshalled.images = embed.images
           /\ Marshalled.external = IF embed.images # <<>> THEN None ELSE embed.external
           /\ NoEmbed.images = <<>> /\ NoEmbed.external = None
           /\ embed.images = <<>> /\ embed.external = None => embed = NoEmbed
<1>1. NoEmbed \in Embed /\ NoEmbed.images = <<>> /\ NoEmbed.external = None
  BY DEF NoEmbed, Embed
<1>2. PICK e \in Embed : e = NoEmbed BY <1>1
<1>3. CASE embed.images # <<>>
  <2>1. Marshalled = [e EXCEPT !.images = embed.images] BY <1>2, <1>3 DEF Marshalled
  <2>2. Marshalled.images = embed.images /\ Marshalled.external = e.external
    BY <2>1 DEF Embed
  <2> QED BY <1>1, <1>2, <1>3, <2>2
<1>4. CASE embed.images = <<>>
  <2>1. Marshalled = [e EXCEPT !.external = embed.external]
    BY <1>2, <1>4 DEF Marshalled
  <2>2. Marshalled.images = e.images /\ Marshalled.external = embed.external
    BY <2>1 DEF Embed
  <2>3. embed.external = None => embed = NoEmbed BY <1>4 DEF Embed, NoEmbed
  <2> QED BY <1>1, <1>2, <1>4, <2>2, <2>3
<1> QED BY <1>3, <1>4

\* A step of the post that is alone.
LEMMA LoneKeeps ==
    ASSUME IInv, NEW p \in Posts, LoneInv(p),
           Prepares(p) \/ Builds(p) \/ Sends(p) \/ Drops(p)
    PROVE  LoneInv(p)'
<1>0. embed \in Embed /\ post[p].images \in 0..MaxImages BY PostFacts, BoundsAssumption
<1>1. CASE Prepares(p) BY <1>1 DEF LoneInv, Prepares
<1>2. CASE Builds(p)
  <2>1. embed.external = None /\ embed.images = <<>>
    BY <1>0, <1>2, MarshalledFacts DEF LoneInv, Builds
  <2>2. /\ embed'.external = IF post[p].link = "none" THEN None ELSE p
        /\ embed'.images # <<>> =>
             post[p].link = "none" /\ embed'.images = Whole(p, post[p].images)
    BY <1>2, <2>1, EmbedOfCases DEF Builds
  <2> QED BY <1>2, <2>2 DEF LoneInv, Builds
<1>3. CASE Sends(p)
  <2>1. /\ embed.external = IF post[p].link = "none" THEN None ELSE p
        /\ embed.images # <<>> =>
             post[p].link = "none" /\ embed.images = Whole(p, post[p].images)
        /\ post[p].points <=> post[p].images # 0 \/ post[p].link = "titled"
    BY <1>3 DEF LoneInv, Sends
  <2>2. CASE post[p].points
    <3>1. post'[p].record = Marshalled /\ embed # NoEmbed BY <1>3, <2>2 DEF Sends
    <3>2. CASE post[p].link = "none"
      <4>1. embed.images # <<>> BY <1>0, <2>1, <3>1, <3>2, MarshalledFacts
      <4>2. /\ post'[p].record.images = Whole(p, post[p].images)
            /\ post'[p].record.external = None
        BY <1>0, <2>1, <3>1, <4>1, MarshalledFacts
      <4> QED BY <1>3, <3>2, <4>2 DEF Sends, LoneInv, AsAsked, Whole
    <3>3. CASE post[p].link # "none"
      <4>1. embed.images = <<>> BY <2>1, <3>3
      <4>2. post'[p].record.images = <<>> /\ post'[p].record.external = p
        BY <1>0, <2>1, <3>1, <3>3, <4>1, MarshalledFacts
      <4> QED BY <1>3, <2>1, <2>2, <3>3, <4>2 DEF Sends, LoneInv, AsAsked, Whole
    <3> QED BY <3>2, <3>3
  <2>3. CASE ~post[p].points
    <3>1. post'[p].record.images = <<>> /\ post'[p].record.external = None
      BY <1>0, <1>3, <2>3, MarshalledFacts DEF Sends
    <3>2. post[p].images = 0 /\ post[p].link # "titled" BY <2>1, <2>3
    <3>3. Whole(p, post[p].images) = <<>> BY <1>0, <3>2, WholeIsEmpty
    <3> QED BY <1>3, <3>1, <3>2, <3>3 DEF Sends, LoneInv, AsAsked, Whole
  <2> QED BY <2>2, <2>3
<1>4. CASE Drops(p) BY <1>4 DEF LoneInv, Drops
<1> QED BY <1>1, <1>2, <1>3, <1>4

\* As long as a process has composed one post only, that post is published as its
\* caller asked, or not at all: images that were uploaded in parts, and the wrong
\* number of blobs that follows, keep it from being sent.
THEOREM LonePostIsAsAsked ==
    Spec => [](\A p \in Posts : Alone(p) /\ post[p].pc = "sent" => AsAsked(p))
<1> DEFINE Lone == \A p \in Posts : Alone(p) => LoneInv(p)
<1>1. Init => Lone BY DEF Init, LoneInv
<1>2. ASSUME IInv, Lone, [Next]_vars PROVE Lone'
  <2> SUFFICES ASSUME NEW p \in Posts, Alone(p)' PROVE LoneInv(p)'
    OBVIOUS
  <2>1. CASE post' = post /\ embed' = embed
    BY <1>2, <2>1 DEF Alone, LoneInv, AsAsked, Whole
  <2>2. ASSUME NEW x \in Posts, Concerns(x) PROVE LoneInv(p)'
    <3>1. post'[x].pc # "new"
      BY <2>2 DEF Concerns, Prepares, Builds, Sends, Drops
    <3>2. x = p BY <3>1 DEF Alone
    <3>3. Alone(p) BY <2>2, <3>2 DEF Alone, Concerns
    <3> QED BY <1>2, <2>2, <3>2, <3>3, LoneKeeps DEF Concerns
  <2> QED BY <1>2, <2>1, <2>2, StepConcernsOne
<1>3. Lone => \A p \in Posts : Alone(p) /\ post[p].pc = "sent" => AsAsked(p)
  BY DEF LoneInv
<1> QED BY <1>1, <1>2, <1>3, Inductive, PTL DEF Spec

\* Nothing ever empties the shared embed: once a post has filled it, no post
\* points to an empty one, and once it holds images no link is published any more.
THEOREM EmbedStaysFilled ==
    Spec => [][/\ embed # NoEmbed => embed' # NoEmbed
               /\ embed.images # <<>> =>
                    /\ embed'.images # <<>>
                    /\ \A p \in Posts : post[p].record.external = None =>
                                          post'[p].record.external = None]_vars
<1> DEFINE Filled == embed # NoEmbed => embed' # NoEmbed
           Imaged == embed.images # <<>> =>
                       /\ embed'.images # <<>>
                       /\ \A p \in Posts : post[p].record.external = None =>
                                             post'[p].record.external = None
<1>1. ASSUME IInv, [Next]_vars PROVE Filled /\ Imaged
  <2>1. CASE post' = post /\ embed' = embed BY <2>1
  <2>2. ASSUME NEW x \in Posts, Concerns(x) PROVE Filled /\ Imaged
    <3>0. embed \in Embed /\ post[x].images \in 0..MaxImages
      BY <1>1, PostFacts, BoundsAssumption
    <3>1. CASE Builds(x)
      <4>1. \A p \in Posts : post'[p].record = post[p].record
        BY <2>2, <3>1 DEF Concerns, Builds
      <4>2. embed # NoEmbed =>
              embed'.external # None \/ embed'.images # <<>>
        BY <1>1, <3>0, <3>1, EmbedOfCases, WholeIsEmpty, MarshalledFacts, NoneAssumption
           DEF Builds
      <4>3. embed.images # <<>> => embed'.images # <<>>
        BY <1>1, <3>0, <3>1, EmbedOfCases, WholeIsEmpty DEF Builds
      <4>4. NoEmbed.external = None /\ NoEmbed.images = <<>> BY <3>0, MarshalledFacts
      <4> QED BY <4>1, <4>2, <4>3, <4>4
    <3>2. CASE Sends(x)
      <4>1. embed' = embed BY <3>2 DEF Sends
      <4>2. embed.images # <<>> => post'[x].record.external = None
        BY <3>0, <3>2, MarshalledFacts DEF Sends
      <4>3. \A p \in Posts : p # x => post'[p] = post[p] BY <2>2 DEF Concerns
      <4> QED BY <4>1, <4>2, <4>3
    <3>3. CASE Prepares(x) \/ Drops(x)
      <4>1. embed' = embed BY <3>3 DEF Prepares, Drops
      <4>2. \A p \in Posts : post'[p].record = post[p].record
        BY <2>2, <3>3 DEF Concerns, Prepares, Drops
      <4> QED BY <4>1, <4>2
    <3> QED BY <2>2, <3>1, <3>2, <3>3 DEF Concerns
  <2> QED BY <1>1, <2>1, <2>2, StepConcernsOne
<1> QED BY <1>1, Inductive, PTL DEF Spec
=============================================================================
