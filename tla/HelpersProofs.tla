---------------------------- MODULE HelpersProofs ----------------------------
(***************************************************************************)
(* The definitions of Replies, for every reply and every error, and the     *)
(* pages of Listing, for integers of any width.                             *)
(***************************************************************************)
EXTENDS Replies, Listing, FacetsProofs

\* The reply is one that decodes to something, and the response one that some
\* handler writes.
RepliesInv == reply \in Reply /\ response \in Responses

-----------------------------------------------------------------------------
(* Outcomes.                                                               *)

\* The outcomes by their fields.
LEMMA OutcomeFields ==
    /\ /\ Rejected.bodies = 1 /\ Rejected.panics = FALSE
       /\ Rejected.token = "none" /\ Rejected.claims = "none"
    /\ /\ Panicked.bodies = 0 /\ Panicked.panics = TRUE
       /\ Panicked.token = "none" /\ Panicked.claims = "none"
    /\ \A token, claims :
         /\ Answered(token, claims).bodies = 1
         /\ Answered(token, claims).panics = FALSE
         /\ Answered(token, claims).token = token
         /\ Answered(token, claims).claims = claims
BY DEF Rejected, Panicked, Answered

\* One response, and none only from a handler that panics; what panics hands out
\* no token.
Once(out) == /\ out.bodies <= 1
             /\ out.bodies = 0 => out.panics
             /\ out.panics => out.token = "none"

LEMMA PlainOutcomesOnce ==
    /\ Once(Rejected)
    /\ Once(Panicked)
    /\ \A token, claims : Once(Answered(token, claims))
BY OutcomeFields DEF Once

\* UpdatePasskeyFinish has answered before it panics over an undecodable reply.
LEMMA LateOutcomeOnce == Once([Panicked EXCEPT !.bodies = 1])
BY DEF Once, Panicked, Rejected

\* login and its kind answer once.
LEMMA LoginOnce == ASSUME NEW r PROVE Once(TakeFields(r)) /\ Once(login(r))
BY PlainOutcomesOnce DEF TakeFields, login

\* So does every handler.
LEMMA OutcomesOnce == ASSUME NEW r, NEW out \in Outcomes(r) PROVE Once(out)
<1>1. Once(login(r)) /\ Once(register(r)) BY LoginOnce DEF register
<1>2. Once(FinishPasskeyRegister(r)) /\ Once(FinishPasskeyTransferRegister(r))
  BY LoginOnce, PlainOutcomesOnce
     DEF FinishPasskeyRegister, FinishPasskeyTransferRegister
<1>3. Once(UpdatePasskeyFinish(r))
  BY LoginOnce, LateOutcomeOnce, PlainOutcomesOnce DEF UpdatePasskeyFinish
<1>4. Once(AssertionResult(r)) BY PlainOutcomesOnce DEF AssertionResult
<1>5. /\ Once(PassedOnUnflagged(r)) /\ Once(PassedOn(r)) /\ Once(CheckAuthUsername(r))
  BY PlainOutcomesOnce DEF PassedOnUnflagged, PassedOn, CheckAuthUsername
<1>6. /\ Once(UpdatePasskeyStart(r)) /\ Once(CancelPasskeyRegister(r))
      /\ Once(StartPasskeyRegister(r)) /\ Once(GenRandomUsername(r))
      /\ Once(AssertionOptions(r))
  BY <1>5 DEF UpdatePasskeyStart, CancelPasskeyRegister, StartPasskeyRegister,
     GenRandomUsername, AssertionOptions
<1> QED BY <1>1, <1>2, <1>3, <1>4, <1>5, <1>6 DEF Outcomes

\* What login and the registrations go on with has a token, and the name that came.
LEMMA LoginNames ==
    ASSUME NEW r \in Reply, login(r).claims # "none"
    PROVE  /\ login(r).token = "string" /\ r.fields.user # "missing"
           /\ login(r).claims = "blank" <=> r.fields.user \in {"unnamed", "null"}
<1>1. ~Incomplete(r) /\ login(r) = TakeFields(r) BY OutcomeFields DEF login
<1>2. /\ r.fields.token = "string" /\ r.fields.user # "other"
      /\ TakeFields(r) = Answered("string", CatchObject(r.fields.user))
  BY <1>1, OutcomeFields DEF TakeFields
<1>3. r.fields.user \in {"named", "unnamed", "null"}
  BY <1>1, <1>2 DEF Reply, Fields, Incomplete
<1>4. /\ CatchObject(r.fields.user) \in {"named", "blank"}
      /\ CatchObject(r.fields.user) = "blank" <=> r.fields.user \in {"unnamed", "null"}
  BY <1>3 DEF CatchObject
<1>5. login(r) = Answered("string", CatchObject(r.fields.user)) BY <1>1, <1>2
<1>6. login(r).token = "string" /\ login(r).claims = CatchObject(r.fields.user)
  BY <1>4, <1>5, OutcomeFields
<1> QED BY <1>3, <1>4, <1>6
-----------------------------------------------------------------------------
(* Responses.                                                              *)

\* Of the codes, only StatusOK is 2000; no name has the status 200.
LEMMA CodesDiffer ==
    /\ \A err \in CodedErrors : err # "nil" /\ err # "plain" /\ Codes[err] # Codes.StatusOK
    /\ Codes.InternalCode # Codes.StatusOK
    /\ \A err : HttpStatus(err) # 200
<1>1. Codes.StatusOK = 2000 /\ Codes.InternalCode = 4000 BY DEF Codes
<1>2. ASSUME NEW err \in CodedErrors
      PROVE  err # "nil" /\ err # "plain" /\ Codes[err] > 2000
  BY DEF CodedErrors, Codes
<1>3. ASSUME NEW err PROVE HttpStatus(err) # 200
  BY DEF HttpStatus, StatusOfCode
<1> QED BY <1>1, <1>2, <1>3

\* A response by its fields: no error, an *Error, another error.
LEMMA NoErrorFields ==
    /\ Response(200, "nil").success = TRUE
    /\ Response(200, "nil").code = Codes.StatusOK
    /\ Response(200, "nil").status = 200
<1>1. "nil" \notin CodedErrors BY CodesDiffer
<1> QED BY <1>1 DEF Response

LEMMA CodedFields ==
    ASSUME NEW status, NEW err \in CodedErrors
    PROVE  /\ Response(status, err).success = FALSE
           /\ Response(status, err).code = Codes[err]
           /\ Response(status, err).status = HttpStatus(err)
BY CodesDiffer DEF Response

LEMMA PlainFields ==
    ASSUME NEW status
    PROVE  /\ Response(status, "plain").success = FALSE
           /\ Response(status, "plain").code = Codes.InternalCode
           /\ Response(status, "plain").status = status
<1>1. "plain" \notin CodedErrors BY CodesDiffer
<1> QED BY <1>1 DEF Response

\* The envelope and the status line of what a handler writes.
Agreeing(resp) == /\ resp.success <=> resp.status = 200
                  /\ resp.success <=> resp.code = Codes.StatusOK

LEMMA ResponsesAgree == ASSUME NEW resp \in Responses PROVE Agreeing(resp)
<1>1. Agreeing(Response(200, "nil")) BY NoErrorFields DEF Agreeing
<1>2. ASSUME NEW status, NEW err \in CodedErrors PROVE Agreeing(Response(status, err))
  <2>1. HttpStatus(err) # 200 /\ Codes[err] # Codes.StatusOK BY CodesDiffer
  <2>2. PICK out : out = Response(status, err) OBVIOUS
  <2>3. out.status # 200 /\ out.code # Codes.StatusOK
    <3>1. out.status = HttpStatus(err) /\ out.code = Codes[err] BY <2>2, CodedFields
    <3> QED BY <2>1, <3>1
  <2>4. out.success = FALSE BY <2>2, CodedFields
  <2>5. Agreeing(out) BY <2>3, <2>4 DEF Agreeing
  <2> QED BY <2>2, <2>5
<1>3. ASSUME NEW status \in {400, 403, 500} PROVE Agreeing(Response(status, "plain"))
  <2>1. status # 200 /\ Codes.InternalCode # Codes.StatusOK BY CodesDiffer
  <2>2. PICK out : out = Response(status, "plain") OBVIOUS
  <2>3. out.status # 200 /\ out.code # Codes.StatusOK
    <3>1. out.status = status /\ out.code = Codes.InternalCode BY <2>2, PlainFields
    <3> QED BY <2>1, <3>1
  <2>4. out.success = FALSE BY <2>2, PlainFields
  <2>5. Agreeing(out) BY <2>3, <2>4 DEF Agreeing
  <2> QED BY <2>2, <2>5
<1> QED BY <1>1, <1>2, <1>3 DEF Responses, ResponseOK

\* Any reply may come, and any response be written.
LEMMA RepliesHold == RepliesSpec => []RepliesInv
<1>1. RepliesInit => RepliesInv
  <2> SUFFICES ASSUME RepliesInit PROVE RepliesInv OBVIOUS
  <2>1. reply \in Reply BY DEF RepliesInit, Reply, Fields
  <2>2. response \in Responses BY DEF RepliesInit, Responses
  <2> QED BY <2>1, <2>2 DEF RepliesInv
<1>2. RepliesInv /\ [RepliesNext]_<<reply, response>> => RepliesInv'
  BY DEF RepliesInv, RepliesNext
<1> QED BY <1>1, <1>2, PTL DEF RepliesSpec

\* Whatever the auth service replies to whichever of the twelve handlers, the
\* client gets one response and never two JSON bodies.
THEOREM RepliesAreAnsweredOnce == RepliesSpec => []AnsweredOnce
<1>1. RepliesInv => AnsweredOnce BY OutcomesOnce DEF AnsweredOnce, Once
<1> QED BY <1>1, RepliesHold, PTL

\* login, register and the finishing of a passkey go on without a name exactly if
\* the service sent a user who has none, and never without a token.
THEOREM NamelessAreSent == RepliesSpec => []NamelessOnlyIfSent
<1>1. ASSUME RepliesInv, NEW out \in {login(reply), register(reply),
                        FinishPasskeyRegister(reply), FinishPasskeyTransferRegister(reply)},
             out.claims # "none"
      PROVE  /\ out.token = "string" /\ reply.fields.user # "missing"
             /\ out.claims = "blank" <=> reply.fields.user \in {"unnamed", "null"}
  <2>1. out = login(reply)
    BY <1>1, OutcomeFields
    DEF register, FinishPasskeyRegister, FinishPasskeyTransferRegister
  <2> QED BY <1>1, <2>1, LoginNames DEF RepliesInv
<1>2. RepliesInv => NamelessOnlyIfSent BY <1>1 DEF NamelessOnlyIfSent
<1> QED BY <1>2, RepliesHold, PTL

\* Whichever error reaches the response writer, under whichever status of its
\* caller, the body's success, the body's code and the status line agree.
THEOREM EnvelopesAgree == RepliesSpec => []EnvelopeAgrees
<1>1. RepliesInv => EnvelopeAgrees
  BY ResponsesAgree DEF RepliesInv, EnvelopeAgrees, Agreeing
<1> QED BY <1>1, RepliesHold, PTL
-----------------------------------------------------------------------------
(* Pages.                                                                  *)

\* An int that fits is left as it is.
LEMMA WrapFits == ASSUME NEW n \in 0..MaxInt PROVE Wrap(n) = n
<1>1. MaxInt \in Nat BY ListingAssumption
<1>2. PICK w \in Nat : w = MaxInt + 1 BY <1>1
<1>3. n + w \in Nat /\ n + w < 2 * w /\ 2 * w > 0 BY <1>1, <1>2
<1>4. (n + w) % (2 * w) = n + w BY <1>2, <1>3
<1>5. Wrap(n) = ((n + w) % (2 * w)) - w BY <1>1, <1>2 DEF Wrap
<1> QED BY <1>2, <1>4, <1>5

\* One that is at most a whole turn too large is left negative, or zero.
LEMMA WrapTurns ==
    ASSUME NEW n \in (MaxInt + 1)..(2 * (MaxInt + 1))
    PROVE  Wrap(n) \in Int /\ Wrap(n) <= 0
<1>1. MaxInt \in Nat BY ListingAssumption
<1>2. PICK w \in Nat \ {0} : w = MaxInt + 1 BY <1>1
<1>3. PICK k \in Nat : k = n - w /\ k < 2 * w BY <1>1, <1>2
<1>4. n + w = 2 * w + k BY <1>1, <1>2, <1>3
<1>5. (n + w) % (2 * w) = k
  <2>1. PICK m \in Nat \ {0} : m = 2 * w BY <1>2
  <2>2. PICK d \in Int, r \in 0..(m - 1) : m + k = m * d + r /\ (m + k) % m = r
    BY <1>3, <2>1
  <2>3. PICK e \in Int : e = d - 1 BY <2>2
  <2>4. m * e = k - r BY <2>1, <2>2, <2>3
  <2>5. e >= 1 => m * e >= m BY <2>1, <2>3
  <2>6. e <= -1 => m * e <= -m BY <2>1, <2>3
  <2>7. e = 0 BY <1>3, <2>1, <2>2, <2>3, <2>4, <2>5, <2>6
  <2>8. r = k BY <1>3, <2>1, <2>2, <2>4, <2>7
  <2> QED BY <1>4, <2>1, <2>2, <2>8
<1>6. Wrap(n) = ((n + w) % (2 * w)) - w BY <1>1, <1>2 DEF Wrap
<1>7. k <= w BY <1>1, <1>2, <1>3
<1> QED BY <1>2, <1>3, <1>5, <1>6, <1>7

\* A page and a size as BindQuery takes them are positive.
LEMMA Defaults ==
    ASSUME NEW page \in Int, NEW size \in Int
    PROVE  /\ PageOf(page) \in Nat \ {0} /\ SizeOf(size) \in Nat \ {0}
           /\ page <= 1 => PageOf(page) = 1
           /\ page > 0 => PageOf(page) = page
BY DEF PageOf, SizeOf, defaultOffset

\* The rows of a page whose offset fits.
LEMMA PageRows ==
    ASSUME NEW page \in Int, NEW size \in Int,
           (PageOf(page) - 1) * SizeOf(size) <= MaxInt
    PROVE  BindQuery(page, size)
             = ((PageOf(page) - 1) * SizeOf(size) + 1)..(PageOf(page) * SizeOf(size))
<1>1. PICK p \in Nat \ {0}, s \in Nat \ {0} : p = PageOf(page) /\ s = SizeOf(size)
  BY Defaults
<1>2. PICK offset \in Nat : offset = (p - 1) * s
  <2>1. p - 1 \in Nat BY <1>1
  <2>2. (p - 1) * s \in Nat BY <1>1, <2>1
  <2> QED BY <2>2
<1>3. Wrap(offset) = offset
  <2>1. offset \in 0..MaxInt BY <1>1, <1>2, ListingAssumption
  <2> QED BY <2>1, WrapFits
<1>4. BindQuery(page, size) = (offset + 1)..(offset + s)
  <2>1. BindQuery(page, size)
          = ((IF offset > 0 THEN offset ELSE 0) + 1)
              ..((IF offset > 0 THEN offset ELSE 0) + s)
    BY <1>1, <1>2, <1>3 DEF BindQuery
  <2>2. (IF offset > 0 THEN offset ELSE 0) = offset BY <1>2
  <2> QED BY <2>1, <2>2
<1>5. offset + s = p * s BY <1>1, <1>2
<1> QED BY <1>1, <1>2, <1>4, <1>5

\* The rows of a page whose offset overflows into a negative int, or zero.
LEMMA TurnedRows ==
    ASSUME NEW page \in Int, NEW size \in Int,
           (PageOf(page) - 1) * SizeOf(size) \in (MaxInt + 1)..(2 * (MaxInt + 1))
    PROVE  BindQuery(page, size) = BindQuery(1, size)
<1>1. PICK s \in Nat \ {0} : s = SizeOf(size) BY Defaults
<1>2. BindQuery(page, size) = 1..s
  <2>1. PICK offset \in Int : /\ offset = Wrap((PageOf(page) - 1) * SizeOf(size))
                              /\ offset <= 0
    BY WrapTurns
  <2>2. BindQuery(page, size)
          = ((IF offset > 0 THEN offset ELSE 0) + 1)
              ..((IF offset > 0 THEN offset ELSE 0) + s)
    BY <1>1, <2>1 DEF BindQuery
  <2>3. (IF offset > 0 THEN offset ELSE 0) = 0 BY <2>1
  <2> QED BY <1>1, <2>2, <2>3
<1>3. BindQuery(1, size) = 1..s
  <2>1. PageOf(1) = 1 BY Defaults
  <2>2. (PageOf(1) - 1) * SizeOf(size) = 0 /\ PageOf(1) * SizeOf(size) = s
    BY <1>1, <2>1
  <2>3. (PageOf(1) - 1) * SizeOf(size) <= MaxInt BY <2>2, ListingAssumption
  <2>4. BindQuery(1, size) = (0 + 1)..s BY <2>2, <2>3, PageRows
  <2> QED BY <2>4
<1> QED BY <1>2, <1>3

\* A list is asked for with ints.
AskedInv == asked.page \in Int /\ asked.size \in Int

LEMMA AskedHolds == ListingSpec => []AskedInv
<1>1. ListingInit => AskedInv BY DEF ListingInit, AskedInv
<1>2. AskedInv /\ [ListingNext]_asked => AskedInv'
  <2> SUFFICES ASSUME AskedInv, ListingNext PROVE AskedInv' BY DEF AskedInv
  <2>1. PICK q : q = asked /\ q = [order |-> <<>>, page |-> 0, size |-> 0]
    BY DEF ListingNext, ListingInit
  <2>2. CASE \E order \in Orders : asked' = [asked EXCEPT !.order = order]
    <3>1. PICK order : asked' = [q EXCEPT !.order = order] BY <2>1, <2>2
    <3>2. asked'.page = 0 /\ asked'.size = 0 BY <2>1, <3>1
    <3> QED BY <3>2 DEF AskedInv
  <2>3. CASE \E page, size \in Pages :
               asked' = [asked EXCEPT !.page = page, !.size = size]
    <3>1. PICK page, size \in Pages : asked' = [q EXCEPT !.page = page, !.size = size]
      BY <2>1, <2>3
    <3>2. asked'.page = page /\ asked'.size = size BY <2>1, <3>1
    <3> QED BY <3>1, <3>2, ListingAssumption DEF AskedInv
  <2> QED BY <2>2, <2>3 DEF ListingNext
<1> QED BY <1>1, <1>2, PTL DEF ListingSpec

\* Pages that BindQuery selects, of any size and with the defaults for what a
\* client leaves out, follow each other without a gap or an overlap, as long as the
\* offset fits an int of whatever width; one that just overflows shows page one.
THEOREM PagesFollow == ListingSpec => []PagesTile
<1>1. ASSUME AskedInv, PageOf(asked.page) * SizeOf(asked.size) <= MaxInt
      PROVE  /\ asked.page <= 1 => 1 \in BindQuery(asked.page, asked.size)
             /\ BindQuery(PageOf(asked.page) + 1, asked.size)
                  = {n + SizeOf(asked.size) : n \in BindQuery(asked.page, asked.size)}
  <2> SUFFICES ASSUME NEW page \in Int, NEW size \in Int,
                      PageOf(page) * SizeOf(size) <= MaxInt
               PROVE  /\ page <= 1 => 1 \in BindQuery(page, size)
                      /\ BindQuery(PageOf(page) + 1, size)
                           = {n + SizeOf(size) : n \in BindQuery(page, size)}
    BY <1>1 DEF AskedInv
  <2>1. PICK p \in Nat \ {0}, s \in Nat \ {0} : p = PageOf(page) /\ s = SizeOf(size)
    BY Defaults
  <2>2. PICK low \in Nat : low = (p - 1) * s
    <3>1. p - 1 \in Nat BY <2>1
    <3>2. (p - 1) * s \in Nat BY <2>1, <3>1
    <3> QED BY <3>2
  <2>3. p * s = low + s /\ (p + 1) * s = low + s + s BY <2>1, <2>2
  <2>4. BindQuery(page, size) = (low + 1)..(low + s)
    <3>1. low <= MaxInt BY <2>1, <2>2, <2>3, ListingAssumption
    <3> QED BY <2>1, <2>2, <2>3, <3>1, PageRows
  <2>5. BindQuery(p + 1, size) = (low + s + 1)..(low + s + s)
    <3>1. PageOf(p + 1) = p + 1 BY <2>1, Defaults
    <3>2. (p + 1) - 1 = p BY <2>1
    <3>3. p * s <= MaxInt BY <2>1
    <3> QED BY <2>1, <2>3, <3>1, <3>2, <3>3, PageRows
  <2>6. {n + s : n \in (low + 1)..(low + s)} = (low + s + 1)..(low + s + s)
    <3>1. ASSUME NEW n \in (low + 1)..(low + s)
          PROVE  n + s \in (low + s + 1)..(low + s + s)
      BY <2>1, <2>2
    <3>2. ASSUME NEW m \in (low + s + 1)..(low + s + s)
          PROVE  m - s \in (low + 1)..(low + s) /\ m = (m - s) + s
      BY <2>1, <2>2
    <3> QED BY <3>1, <3>2
  <2>7. page <= 1 => 1 \in BindQuery(page, size)
    <3> SUFFICES ASSUME page <= 1 PROVE 1 \in (low + 1)..(low + s) BY <2>4
    <3>1. p = 1 BY <2>1, Defaults
    <3>2. low = 0 BY <2>1, <2>2, <3>1
    <3> QED BY <2>1, <3>2
  <2> QED BY <2>1, <2>4, <2>5, <2>6, <2>7
<1>2. AskedInv => PagesTile BY <1>1, TurnedRows DEF PagesTile, AskedInv
<1> QED BY <1>2, AskedHolds, PTL

\* Hence two pages of a list never show the same row, as long as both offsets fit
\* the int.
THEOREM PagesAreDisjoint ==
    ASSUME NEW size \in Int, NEW p \in Nat \ {0}, NEW q \in Nat \ {0}, p < q,
           (q - 1) * SizeOf(size) <= MaxInt
    PROVE  BindQuery(p, size) \cap BindQuery(q, size) = {}
<1>1. PICK s \in Nat \ {0} : s = SizeOf(size) BY Defaults
<1>2. PageOf(p) = p /\ PageOf(q) = q BY Defaults
<1>3. p * s <= (q - 1) * s
  <2>1. q - 1 - p \in Nat BY p < q
  <2>2. (q - 1 - p) * s \in Nat BY <1>1, <2>1
  <2>3. (q - 1) * s = p * s + (q - 1 - p) * s BY <1>1
  <2>4. p * s \in Nat BY <1>1
  <2> QED BY <2>2, <2>3, <2>4
<1>4. (p - 1) * s <= p * s /\ p * s \in Nat /\ (p - 1) * s \in Nat
  <2>1. p - 1 \in Nat BY <1>1
  <2>2. (p - 1) * s \in Nat BY <1>1, <2>1
  <2>3. p * s = (p - 1) * s + s BY <1>1
  <2> QED BY <1>1, <2>2, <2>3
<1>5. (q - 1) * s \in Int /\ (q - 1) * s <= MaxInt BY <1>1
<1>6. (p - 1) * s <= MaxInt BY <1>3, <1>4, <1>5, ListingAssumption
<1>7. BindQuery(p, size) = ((p - 1) * s + 1)..(p * s) BY <1>1, <1>2, <1>6, PageRows
<1>8. BindQuery(q, size) = ((q - 1) * s + 1)..(q * s) BY <1>1, <1>2, <1>5, PageRows
<1>9. ASSUME NEW n \in BindQuery(p, size), n \in BindQuery(q, size) PROVE FALSE
  <2>1. n \in Int /\ n <= p * s BY <1>4, <1>7, <1>9
  <2>2. n > (q - 1) * s BY <1>5, <1>8, <1>9, <2>1
  <2> QED BY <1>3, <1>4, <1>5, <2>1, <2>2
<1> QED BY <1>9
-----------------------------------------------------------------------------
(* Orders.                                                                 *)

\* From left to right, each hit can be told to be a match or not.
LEMMA MatchesExist ==
    ASSUME NEW n \in Nat, NEW hits \in SUBSET (1..n), NEW R,
           \A i \in 1..n : \A j \in R[i] : j < i
    PROVE  \E M \in SUBSET hits : \A i \in hits : i \in M <=> \A j \in M : j \notin R[i]
<1> DEFINE Told(M, k) == \A i \in hits : i <= k => (i \in M <=> \A j \in M : j \notin R[i])
           Upto(k) == \E M \in SUBSET hits : (\A i \in M : i <= k) /\ Told(M, k)
           T == {k \in 0..n : ~Upto(k)}
<1>1. SUFFICES Upto(n)
  <2>1. PICK M \in SUBSET hits : Told(M, n) BY <1>1
  <2>2. \A i \in hits : i <= n OBVIOUS
  <2> QED BY <2>1, <2>2
<1>2. SUFFICES ASSUME T # {} PROVE FALSE
  <2> HIDE DEF Upto
  <2>1. ~Upto(n) => n \in T OBVIOUS
  <2> QED BY <2>1
<1>3. T \in SUBSET Nat OBVIOUS
<1>4. PICK x \in T : \A y \in T : x <= y
  <2> HIDE DEF T
  <2> QED BY <1>2, <1>3, LeastElement
<1>5. x \in 0..n /\ ~Upto(x) OBVIOUS
<1>6. x # 0
  <2>1. ASSUME x = 0 PROVE Upto(x)
    <3>1. PICK M \in SUBSET hits : M = {} OBVIOUS
    <3>2. \A i \in hits : ~(i <= x) BY <2>1
    <3>3. Told(M, x) /\ \A i \in M : i <= x BY <3>1, <3>2
    <3> QED BY <3>3
  <2> QED BY <1>5, <2>1
<1>7. Upto(x - 1)
  <2>1. x - 1 \in 0..n /\ ~(x <= x - 1) BY <1>5, <1>6
  <2> QED BY <1>4, <2>1
<1>8. PICK M \in SUBSET hits : (\A i \in M : i <= x - 1) /\ Told(M, x - 1) BY <1>7
<1>9. \A i \in hits : i \in 1..n /\ (i <= x <=> i <= x - 1 \/ i = x) BY <1>5
<1>10. CASE x \in hits /\ \A j \in M : j \notin R[x]
  <2> DEFINE N == M \cup {x}
  <2>1. N \in SUBSET hits /\ \A i \in N : i <= x BY <1>5, <1>8, <1>9, <1>10
  <2>2. x \notin R[x] BY <1>9, <1>10
  <2>3. ASSUME NEW i \in hits, i <= x - 1 PROVE x \notin R[i]
    <3> HIDE DEF N
    <3>1. i \in 1..n /\ x \in 1..n BY <1>10
    <3>2. \A j \in R[i] : j < i BY <3>1
    <3>3. ~(x < i)
      <4> HIDE DEF T
      <4> QED BY <2>3, <3>1
    <3> QED BY <3>2, <3>3
  <2>4. ASSUME NEW i \in hits, i <= x PROVE i \in N <=> \A j \in N : j \notin R[i]
    <3>1. CASE i = x BY <1>10, <2>2, <3>1
    <3>2. CASE i <= x - 1
      <4>1. i # x BY <1>5, <3>2
      <4> QED BY <1>8, <2>3, <3>2, <4>1
    <3> QED BY <1>9, <2>4, <3>1, <3>2
  <2> QED BY <1>5, <2>1, <2>4
<1>11. CASE ~(x \in hits /\ \A j \in M : j \notin R[x])
  <2>1. \A i \in M : i <= x BY <1>8, <1>9
  <2>2. ASSUME NEW i \in hits, i <= x PROVE i \in M <=> \A j \in M : j \notin R[i]
    <3>1. CASE i = x
      <4>1. x \notin M BY <1>5, <1>8
      <4> QED BY <1>11, <3>1, <4>1
    <3>2. CASE i <= x - 1 BY <1>8, <3>2
    <3> QED BY <1>9, <2>2, <3>1, <3>2
  <2> QED BY <1>5, <2>1, <2>2
<1> QED BY <1>10, <1>11

\* Where the first expression can match, and which later ones a match takes in.
Hit(s, i) == i + 2 <= Len(s) /\ IsUpper(s[i + 1]) /\ IsLower(s[i + 2])

Reaches(s, j, i) == j < i /\ \A k \in (j + 2)..i : IsLower(s[k])

\* The matches of the first expression.
LEMMA FirstCapMatches ==
    ASSUME NEW s \in Seq(Char)
    PROVE  \E M \in SUBSET (1..Len(s)) :
             /\ FirstCap(s) = {i + 1 : i \in M}
             /\ \A i \in M : Hit(s, i)
             /\ \A i \in 1..Len(s) : Hit(s, i) =>
                  i \in M \/ \E j \in M : Reaches(s, j, i)
<1> DEFINE hits == {i \in DOMAIN s : i + 2 <= Len(s) /\ IsUpper(s[i + 1]) /\ IsLower(s[i + 2])}
           Chosen(M) == \A i \in hits : i \in M <=> \A j \in M : ~Reaches(s, j, i)
           matches == CHOOSE M \in SUBSET hits : Chosen(M)
<1>1. Len(s) \in Nat /\ DOMAIN s = 1..Len(s) BY LenProperties
<1>2. hits \in SUBSET (1..Len(s)) /\ \A i \in 1..Len(s) : i \in hits <=> Hit(s, i)
  BY <1>1 DEF Hit
<1>3. FirstCap(s) = {i + 1 : i \in matches} BY DEF FirstCap, Reaches
<1>4. \E M \in SUBSET hits : Chosen(M)
  <2> DEFINE R == [i \in 1..Len(s) |-> {j \in 1..Len(s) : Reaches(s, j, i)}]
  <2>1. \A i, j \in 1..Len(s) : j \in R[i] <=> Reaches(s, j, i) OBVIOUS
  <2>2. \A i \in 1..Len(s) : \A j \in R[i] : j < i BY DEF Reaches
  <2> HIDE DEF R, hits
  <2>3. PICK M \in SUBSET hits : \A i \in hits : i \in M <=> \A j \in M : j \notin R[i]
    BY <1>1, <1>2, <2>2, MatchesExist
  <2>4. Chosen(M) BY <1>2, <2>1, <2>3
  <2> QED BY <2>4
<1> HIDE DEF hits, Chosen
<1>5. matches \in SUBSET hits /\ Chosen(matches) BY <1>4
<1> HIDE DEF matches
<1>6. \A i \in hits : i \in matches \/ \E j \in matches : Reaches(s, j, i)
  BY <1>5 DEF Chosen
<1> QED BY <1>2, <1>3, <1>5, <1>6

\* Both expressions together put an underscore exactly where a word begins: what
\* the first one misses, because a match took in the character before it, follows a
\* lower-case letter.
LEMMA UnderscoresAreWordStarts ==
    ASSUME NEW s \in Seq(Char)
    PROVE  FirstCap(s) \cup AllCap(s, FirstCap(s)) = WordStarts(s)
<1>1. PICK M \in SUBSET (1..Len(s)) :
        /\ FirstCap(s) = {i + 1 : i \in M}
        /\ \A i \in M : Hit(s, i)
        /\ \A i \in 1..Len(s) : Hit(s, i) => i \in M \/ \E j \in M : Reaches(s, j, i)
  BY FirstCapMatches
<1>2. Len(s) \in Nat BY LenProperties
<1>3. ASSUME NEW i \in FirstCap(s) PROVE i \in WordStarts(s)
  <2>1. PICK m \in M : i = m + 1 BY <1>1, <1>3
  <2>2. m \in 1..Len(s) /\ Hit(s, m) BY <1>1
  <2>3. i \in 2..Len(s) /\ i < Len(s) BY <1>2, <2>1, <2>2 DEF Hit
  <2>4. IsUpper(s[i]) /\ IsLower(s[i + 1])
    <3>1. i = m + 1 /\ i + 1 = m + 2 BY <2>1, <2>2
    <3> QED BY <2>2, <3>1 DEF Hit
  <2> QED BY <2>3, <2>4 DEF WordStarts
<1>4. ASSUME NEW i \in AllCap(s, FirstCap(s)) PROVE i \in WordStarts(s)
  BY DEF AllCap, WordStarts
<1>5. ASSUME NEW i \in WordStarts(s), i \notin FirstCap(s)
      PROVE  i \in AllCap(s, FirstCap(s))
  <2>1. i \in 2..Len(s) /\ IsUpper(s[i])
        /\ (IsLower(s[i - 1]) \/ IsDigit(s[i - 1]) \/ (i < Len(s) /\ IsLower(s[i + 1])))
    BY DEF WordStarts
  <2>2. SUFFICES ASSUME ~IsLower(s[i - 1]), i < Len(s), IsLower(s[i + 1]) PROVE FALSE
    BY <1>5, <2>1 DEF AllCap
  <2>3. i - 1 \in 1..Len(s) /\ Hit(s, i - 1)
    <3>1. i - 1 \in 1..Len(s) /\ (i - 1) + 1 = i /\ (i - 1) + 2 = i + 1 BY <1>2, <2>1
    <3>2. i + 1 <= Len(s) BY <1>2, <2>1, <2>2
    <3> QED BY <2>1, <2>2, <3>1, <3>2 DEF Hit
  <2>4. i - 1 \notin M
    <3>1. (i - 1) + 1 = i BY <2>1
    <3> QED BY <1>1, <1>5, <3>1
  <2>5. PICK j \in M : Reaches(s, j, i - 1) BY <1>1, <2>3, <2>4
  <2>6. j \in 1..Len(s) /\ j < i - 1 /\ \A k \in (j + 2)..(i - 1) : IsLower(s[k])
    BY <2>5 DEF Reaches
  <2>7. ~(j + 2 <= i - 1)
    <3>1. j + 2 <= i - 1 => i - 1 \in (j + 2)..(i - 1) BY <2>1, <2>6
    <3> QED BY <2>2, <2>6, <3>1
  <2>8. j + 2 = i BY <2>1, <2>6, <2>7
  <2>9. IsLower(s[i]) BY <1>1, <2>8 DEF Hit
  <2> QED BY <2>1, <2>9, CharAssumption DEF IsUpper, IsLower
<1> QED BY <1>3, <1>4, <1>5

\* The characters of a name and of its column.
Chars == Char \cup {LowerOf[c] : c \in DOMAIN LowerOf} \cup {" ", "asc", "desc"}

\* A function on 1..n is a sequence of length n.
LEMMA MapIsSeq ==
    ASSUME NEW S, NEW n \in Nat, NEW f \in [1..n -> S]
    PROVE  f \in Seq(S) /\ Len(f) = n
<1>1. f \in Seq(S) OBVIOUS
<1>2. DOMAIN f = 1..Len(f) /\ Len(f) \in Nat BY <1>1, LenProperties
<1>3. Len(f) = n
  <2>1. PICK m \in Nat : m = Len(f) BY <1>2
  <2>2. \A i \in Int : i \in 1..m <=> i \in 1..n BY <1>2, <2>1
  <2>3. (m >= 1 => m <= n) /\ (n >= 1 => n <= m) BY <2>2
  <2> QED BY <2>1, <2>3
<1> QED BY <1>1, <1>3

\* strings.ToLower, character by character.
LEMMA ToLowerProperties ==
    ASSUME NEW s \in Seq(Char)
    PROVE  /\ ToLower(s) \in Seq(Chars) /\ Len(ToLower(s)) = Len(s)
           /\ \A i \in 1..Len(s) :
                ToLower(s)[i] = IF IsUpper(s[i]) THEN LowerOf[s[i]] ELSE s[i]
<1>1. Len(s) \in Nat /\ DOMAIN s = 1..Len(s) BY LenProperties
<1>2. \A i \in 1..Len(s) : s[i] \in Char BY ElementOfSeq
<1>3. ToLower(s) \in [1..Len(s) -> Chars] BY <1>1, <1>2 DEF ToLower, Chars, IsUpper
<1>4. \A i \in 1..Len(s) :
        ToLower(s)[i] = IF IsUpper(s[i]) THEN LowerOf[s[i]] ELSE s[i]
  BY <1>1 DEF ToLower
<1> QED BY <1>1, <1>3, <1>4, MapIsSeq

\* Short sequences.
LEMMA OneAndTwo ==
    ASSUME NEW S, NEW a \in S, NEW b \in S
    PROVE  /\ <<a>> \in Seq(S) /\ Len(<<a>>) = 1 /\ <<a>>[1] = a
           /\ <<a, b>> \in Seq(S) /\ Len(<<a, b>>) = 2
           /\ <<a, b>>[1] = a /\ <<a, b>>[2] = b
<1>1. <<a>> \in Seq(S) /\ <<a, b>> \in Seq(S) OBVIOUS
<1>2. Len(<<a>>) = 1 /\ Len(<<a, b>>) = 2 OBVIOUS
<1>3. <<a>>[1] = a /\ <<a, b>>[1] = a /\ <<a, b>>[2] = b OBVIOUS
<1> QED BY <1>1, <1>2, <1>3

\* What follows the character i of a field is one element: the field is one element
\* longer, and what precedes i is the rest of it.
LEMMA FieldParts ==
    ASSUME NEW field \in Seq(Char), NEW i \in 1..Len(field), NEW dir,
           SubSeq(field, i + 1, Len(field)) = <<dir>>
    PROVE  /\ Len(field) = i + 1 /\ field[i + 1] = dir
           /\ SubSeq(field, 1, i - 1) \in Seq(Char)
           /\ Len(SubSeq(field, 1, i - 1)) = i - 1
           /\ \A k \in 1..(i - 1) : SubSeq(field, 1, i - 1)[k] = field[k]
<1>1. PICK n \in Nat : n = Len(field) BY LenProperties
<1>2. \A k \in 1..n : field[k] \in Char BY <1>1, ElementOfSeq
<1>3. PICK f : f = SubSeq(field, 1, i - 1) OBVIOUS
<1>4. PICK d : d = SubSeq(field, i + 1, n) OBVIOUS
<1>5. Len(d) = 1 /\ d[1] = dir
  <2>1. Len(<<dir>>) = 1 /\ <<dir>>[1] = dir
    <3>1. PICK S : S = {dir} OBVIOUS
    <3>2. dir \in S BY <3>1
    <3> QED BY <3>2, OneAndTwo
  <2>2. d = <<dir>> BY <1>1, <1>4
  <2> QED BY <2>1, <2>2
<1>6. i \in 1..n /\ i \in Int /\ i + 1 \in Int /\ i - 1 \in Int BY <1>1
<1>7. /\ f \in Seq(Char)
      /\ Len(f) = IF 1 <= i - 1 THEN (i - 1) - 1 + 1 ELSE 0
      /\ \A k \in 1..((i - 1) - 1 + 1) : f[k] = field[1 + k - 1]
  <2>1. \A k \in 1..(i - 1) : field[k] \in Char BY <1>2, <1>6
  <2> QED BY <1>3, <1>6, <2>1, SubSeqProperties
<1>8. /\ Len(d) = IF i + 1 <= n THEN n - (i + 1) + 1 ELSE 0
      /\ \A k \in 1..(n - (i + 1) + 1) : d[k] = field[i + 1 + k - 1]
  <2>1. \A k \in (i + 1)..n : field[k] \in Char BY <1>2, <1>6
  <2> QED BY <1>4, <1>6, <2>1, SubSeqProperties
<1>9. Len(f) = i - 1 BY <1>6, <1>7
<1>10. \A k \in 1..(i - 1) : f[k] = field[k]
  <2>1. (i - 1) - 1 + 1 = i - 1 /\ \A k \in 1..(i - 1) : 1 + k - 1 = k BY <1>6
  <2> QED BY <1>7, <2>1
<1>11. n = i + 1
  <2>1. i + 1 <= n => Len(d) = n - (i + 1) + 1 BY <1>8
  <2>2. ~(i + 1 <= n) => Len(d) = 0 BY <1>8
  <2>3. i + 1 <= n /\ n - (i + 1) + 1 = 1 BY <1>5, <2>1, <2>2
  <2> QED BY <1>1, <1>6, <2>3
<1>12. field[i + 1] = dir
  <2>1. 1 \in 1..(n - (i + 1) + 1) /\ i + 1 + 1 - 1 = i + 1 BY <1>6, <1>11
  <2> QED BY <1>5, <1>8, <2>1
<1> QED BY <1>1, <1>3, <1>7, <1>9, <1>10, <1>11, <1>12

\* Two more characters, of which no word is made, change neither the letters of a
\* name nor its words.
LEMMA DirectionKeepsColumn ==
    ASSUME NEW field \in Seq(Char), NEW f \in Seq(Char), NEW n \in Nat,
           NEW space \in Chars, NEW dir \in Chars,
           ~IsUpper(space), ~IsLower(space), ~IsUpper(dir),
           Len(f) = n, Len(field) = n + 2, \A k \in 1..n : f[k] = field[k],
           field[n + 1] = space, field[n + 2] = dir
    PROVE  /\ ToLower(field) = ToLower(f) \o <<space, dir>>
           /\ WordStarts(field) = WordStarts(f)
<1>1. ToLower(field) = ToLower(f) \o <<space, dir>>
  <2>1. PICK l \in Seq(Chars) :
          /\ l = ToLower(f) /\ Len(l) = n
          /\ \A k \in 1..n : l[k] = IF IsUpper(f[k]) THEN LowerOf[f[k]] ELSE f[k]
    BY ToLowerProperties
  <2>2. PICK d \in Seq(Chars) :
          d = <<space, dir>> /\ Len(d) = 2 /\ d[1] = space /\ d[2] = dir
    <3>1. /\ <<space, dir>> \in Seq(Chars) /\ Len(<<space, dir>>) = 2
          /\ <<space, dir>>[1] = space /\ <<space, dir>>[2] = dir
      BY OneAndTwo
    <3> QED BY <3>1
  <2>3. /\ l \o d \in Seq(Chars) /\ Len(l \o d) = n + 2
        /\ \A k \in 1..(n + 2) : (l \o d)[k] = IF k <= n THEN l[k] ELSE d[k - n]
    BY <2>1, <2>2, ConcatProperties
  <2>4. PICK u \in Seq(Chars) :
          /\ u = ToLower(field) /\ Len(u) = n + 2
          /\ \A k \in 1..(n + 2) :
               u[k] = IF IsUpper(field[k]) THEN LowerOf[field[k]] ELSE field[k]
    BY ToLowerProperties
  <2>5. PICK c \in Seq(Chars) : c = l \o d BY <2>3
  <2>6. ASSUME NEW k \in 1..(n + 2) PROVE u[k] = c[k]
    <3>1. CASE k <= n
      <4>1. k \in 1..n BY <3>1
      <4>2. c[k] = l[k] BY <2>3, <2>5, <3>1
      <4> QED BY <2>1, <2>4, <4>1, <4>2
    <3>2. CASE k = n + 1
      <4>1. ~(k <= n) /\ k - n = 1 BY <3>2
      <4>2. c[k] = d[1] BY <2>3, <2>5, <4>1
      <4> QED BY <2>2, <2>4, <3>2, <4>2
    <3>3. CASE k = n + 2
      <4>1. ~(k <= n) /\ k - n = 2 BY <3>3
      <4>2. c[k] = d[2] BY <2>3, <2>5, <4>1
      <4> QED BY <2>2, <2>4, <3>3, <4>2
    <3> QED BY <3>1, <3>2, <3>3
  <2>7. Len(c) = n + 2 BY <2>3, <2>5
  <2>8. u = c BY <2>4, <2>6, <2>7, SeqEqual
  <2> QED BY <2>1, <2>2, <2>4, <2>5, <2>8
<1>2. WordStarts(field) = WordStarts(f)
  <2>1. ASSUME NEW k \in WordStarts(field) PROVE k \in WordStarts(f)
    <3>1. /\ k \in 2..(n + 2) /\ IsUpper(field[k])
          /\ (IsLower(field[k - 1]) \/ IsDigit(field[k - 1])
              \/ (k < n + 2 /\ IsLower(field[k + 1])))
      BY DEF WordStarts
    <3>2. k # n + 1 /\ k # n + 2 BY <3>1
    <3>3. k \in 2..n /\ k - 1 \in 1..n /\ k \in 1..n BY <3>1, <3>2
    <3>4. f[k] = field[k] /\ f[k - 1] = field[k - 1] BY <3>3
    <3>5. CASE IsLower(field[k + 1])
      <4>1. k + 1 # n + 1 BY <3>5
      <4>2. k + 1 \in 1..n /\ k < n BY <3>3, <4>1
      <4>3. f[k + 1] = field[k + 1] BY <4>2
      <4> QED BY <3>1, <3>3, <3>4, <3>5, <4>2, <4>3 DEF WordStarts
    <3>6. CASE ~IsLower(field[k + 1]) BY <3>1, <3>3, <3>4, <3>6 DEF WordStarts
    <3> QED BY <3>5, <3>6
  <2>2. ASSUME NEW k \in WordStarts(f) PROVE k \in WordStarts(field)
    <3>1. /\ k \in 2..n /\ IsUpper(f[k])
          /\ (IsLower(f[k - 1]) \/ IsDigit(f[k - 1]) \/ (k < n /\ IsLower(f[k + 1])))
      BY DEF WordStarts
    <3>2. k - 1 \in 1..n /\ k \in 1..n /\ k \in 2..(n + 2) /\ k < n + 2 BY <3>1
    <3>3. f[k] = field[k] /\ f[k - 1] = field[k - 1] BY <3>2
    <3>4. k < n => f[k + 1] = field[k + 1]
      <4>1. k < n => k + 1 \in 1..n BY <3>1
      <4> QED BY <4>1
    <3> QED BY <3>1, <3>2, <3>3, <3>4 DEF WordStarts
  <2> QED BY <2>1, <2>2
<1> QED BY <1>1, <1>2

\* The column of a field that ValidateSortField passes is that of a valid name, and
\* its direction one of the two.
LEMMA ValidFieldIsColumn ==
    ASSUME NEW field \in Seq(Char), ValidField(field)
    PROVE  \E f \in Sortable, dir \in {<<>>, <<" ", "asc">>, <<" ", "desc">>} :
             ToSnakeCase(field) = [letters     |-> ToLower(f) \o dir,
                                   underscores |-> WordStarts(f)]
<1>1. ToSnakeCase(field) = [letters |-> ToLower(field), underscores |-> WordStarts(field)]
  BY UnderscoresAreWordStarts DEF ToSnakeCase
<1>2. CASE field \in Sortable
  <2>1. ToLower(field) \o <<>> = ToLower(field) BY ToLowerProperties, ConcatEmptySeq
  <2> QED BY <1>1, <1>2, <2>1
<1>3. CASE field \notin Sortable
  <2>1. DOMAIN field = 1..Len(field) BY LenProperties
  <2>2. PICK i \in 1..Len(field) :
          /\ {j \in DOMAIN field : field[j] = " "} = {i}
          /\ SubSeq(field, i + 1, Len(field)) \in {<<"asc">>, <<"desc">>}
          /\ SubSeq(field, 1, i - 1) \in Sortable
    BY <1>3, <2>1 DEF ValidField
  <2>3. PICK dir \in {"asc", "desc"} : SubSeq(field, i + 1, Len(field)) = <<dir>>
    BY <2>2
  <2>4. field[i] = " " BY <2>2
  <2>5. PICK space : space = " " OBVIOUS
  <2>6. PICK f \in Sortable : f = SubSeq(field, 1, i - 1) BY <2>2
  <2>7. /\ space \in Chars /\ dir \in Chars
        /\ ~IsUpper(space) /\ ~IsLower(space) /\ ~IsUpper(dir)
    <3>1. space \in Chars /\ dir \in Chars BY <2>3, <2>5 DEF Chars
    <3>2. ~IsUpper(space) /\ ~IsLower(space)
      BY <2>5, CharAssumption DEF IsUpper, IsLower
    <3>3. ~IsUpper(dir)
      <4>1. dir \in Lower BY <2>3, CharAssumption
      <4> QED BY <4>1, CharAssumption DEF IsUpper
    <3> QED BY <3>1, <3>2, <3>3
  <2>8. /\ Len(field) = i + 1 /\ field[i + 1] = dir
        /\ f \in Seq(Char) /\ Len(f) = i - 1
        /\ \A k \in 1..(i - 1) : f[k] = field[k]
    BY <2>3, <2>6, FieldParts
  <2>9. PICK n \in Nat : n = i - 1
    <3>1. i \in 1..(i + 1) /\ i \in Int BY <2>8, LenProperties
    <3> QED BY <3>1
  <2>10. n + 1 = i /\ n + 2 = i + 1 BY <2>8, <2>9
  <2>11. /\ Len(f) = n /\ Len(field) = n + 2 /\ \A k \in 1..n : f[k] = field[k]
         /\ field[n + 1] = space /\ field[n + 2] = dir
    BY <2>4, <2>5, <2>8, <2>9, <2>10
  <2>12. ToLower(field) = ToLower(f) \o <<space, dir>> /\ WordStarts(field) = WordStarts(f)
    BY <2>7, <2>8, <2>11, DirectionKeepsColumn
  <2>13. <<space, dir>> \in {<<>>, <<" ", "asc">>, <<" ", "desc">>} BY <2>3, <2>5
  <2> QED BY <1>1, <2>6, <2>12, <2>13
<1> QED BY <1>2, <1>3

\* A slice of a string is a string.
LEMMA SliceIsSeq ==
    ASSUME NEW s \in Seq(Char), NEW a \in Nat \ {0}, NEW b \in Int, b <= Len(s)
    PROVE  SubSeq(s, a, b) \in Seq(Char)
<1>1. Len(s) \in Nat /\ \A k \in 1..Len(s) : s[k] \in Char BY LenProperties, ElementOfSeq
<1>2. \A k \in a..b : s[k] \in Char BY <1>1
<1> QED BY <1>2, SubSeqProperties

\* What strings.TrimSpace returns is a string, and so are the pieces of one.
LEMMA TrimIsSeq ==
    ASSUME NEW s \in Seq(Char)
    PROVE  TrimSpace(s) \in Seq(Char)
<1> DEFINE ink == {i \in DOMAIN s : s[i] # " "}
<1>1. Len(s) \in Nat /\ DOMAIN s = 1..Len(s) BY LenProperties
<1>2. CASE ink = {}
  <2>1. TrimSpace(s) = <<>> BY <1>2 DEF TrimSpace
  <2> QED BY <2>1, EmptySeq
<1>3. CASE ink # {}
  <2>1. TrimSpace(s) = SubSeq(s, Min(ink), Max(ink)) BY <1>3 DEF TrimSpace
  <2>2. ink \in SUBSET (1..Len(s)) BY <1>1
  <2> HIDE DEF ink
  <2>3. Min(ink) \in ink
    <3>1. ink \in SUBSET Nat BY <2>2
    <3>2. \E x \in ink : \A y \in ink : x <= y BY <1>3, <3>1, LeastElement
    <3> QED BY <3>2 DEF Min
  <2>4. Max(ink) \in ink
    <3>1. \E x \in ink : \A y \in ink : y <= x BY <1>1, <1>3, <2>2, GreatestElement
    <3>2. \E x \in ink : \A y \in ink : x >= y BY <1>1, <2>2, <3>1
    <3> QED BY <3>2 DEF Max
  <2>5. /\ Min(ink) \in Nat \ {0} /\ Max(ink) \in Int /\ Max(ink) <= Len(s)
    <3>1. Min(ink) \in 1..Len(s) /\ Max(ink) \in 1..Len(s) BY <2>2, <2>3, <2>4
    <3>2. PICK a, b \in 1..Len(s) : a = Min(ink) /\ b = Max(ink) BY <3>1
    <3> QED BY <1>1, <3>2
  <2> QED BY <2>1, <2>5, SliceIsSeq
<1> QED BY <1>2, <1>3

LEMMA PiecesAreSeqs ==
    ASSUME NEW s \in Seq(Char), NEW sep, NEW piece \in Split(s, sep)
    PROVE  piece \in Seq(Char)
<1> DEFINE cuts == {0, Len(s) + 1} \cup {i \in DOMAIN s : s[i] = sep}
<1>1. Len(s) \in Nat /\ DOMAIN s = 1..Len(s) BY LenProperties
<1>2. PICK p \in cuts \X cuts : piece = SubSeq(s, p[1] + 1, p[2] - 1) BY DEF Split
<1>3. PICK a \in cuts, b \in cuts : a = p[1] /\ b = p[2] OBVIOUS
<1>4. \A c \in cuts : c \in 0..(Len(s) + 1) BY <1>1
<1>5. a + 1 \in Nat \ {0} /\ b - 1 \in Int /\ b - 1 <= Len(s) BY <1>1, <1>4
<1> QED BY <1>2, <1>3, <1>5, SliceIsSeq

\* The order asked for is always a string.
OrderInv == asked.order \in Seq(Char)

\* Listing: whatever order passes parseQueryAndValidate, ORDER BY holds nothing but
\* columns of valid names, as SortIsSafe says.
THEOREM OrdersAreSafe == ListingSpec => []SortIsSafe
<1>1. ListingInit => OrderInv
  <2>1. SUFFICES ASSUME ListingInit PROVE OrderInv OBVIOUS
  <2>2. asked.order = <<>> BY <2>1 DEF ListingInit
  <2> QED BY <2>2, EmptySeq DEF OrderInv
<1>2. OrderInv /\ [ListingNext]_asked => OrderInv'
  <2>1. SUFFICES ASSUME OrderInv, [ListingNext]_asked PROVE OrderInv' OBVIOUS
  <2>2. CASE UNCHANGED asked BY <2>1, <2>2 DEF OrderInv
  <2>3. CASE ListingNext
    <3>1. CASE \E order \in Orders : asked' = [asked EXCEPT !.order = order]
      <4>1. PICK order \in Orders : asked' = [asked EXCEPT !.order = order] BY <3>1
      <4>2. asked = [order |-> <<>>, page |-> 0, size |-> 0]
        BY <2>3 DEF ListingNext, ListingInit
      <4>3. asked'.order = order BY <4>1, <4>2
      <4> QED BY <4>3, ListingAssumption DEF OrderInv
    <3>2. CASE \E page, size \in Pages :
                 asked' = [asked EXCEPT !.page = page, !.size = size]
      <4>1. PICK page, size \in Pages :
              asked' = [asked EXCEPT !.page = page, !.size = size]
        BY <3>2
      <4>2. asked = [order |-> <<>>, page |-> 0, size |-> 0]
        BY <2>3 DEF ListingNext, ListingInit
      <4>3. asked'.order = asked.order BY <4>1, <4>2
      <4> QED BY <2>1, <4>3 DEF OrderInv
    <3> QED BY <2>3, <3>1, <3>2 DEF ListingNext
  <2> QED BY <2>1, <2>2, <2>3
<1>3. OrderInv => SortIsSafe
  <2>1. SUFFICES ASSUME OrderInv, parseQueryAndValidate(asked.order, TRUE),
                        NEW term \in OrderTerms(asked.order)
                 PROVE  \E f \in Sortable, dir \in {<<>>, <<" ", "asc">>, <<" ", "desc">>} :
                          term = [letters |-> ToLower(f) \o dir,
                                  underscores |-> WordStarts(f)]
    BY DEF SortIsSafe
  <2>2. PICK s \in Seq(Char) : s = TrimSpace(asked.order)
    BY <2>1, TrimIsSeq DEF OrderInv
  <2>3. s # <<>> BY <2>1, <2>2 DEF OrderTerms
  <2>4. PICK field \in Split(s, ",") : term = ToSnakeCase(field)
    BY <2>1, <2>2, <2>3 DEF OrderTerms
  <2>5. ValidField(field)
    BY <2>1, <2>2, <2>3 DEF parseQueryAndValidate, ValidateSortField
  <2>6. field \in Seq(Char) BY PiecesAreSeqs
  <2> QED BY <2>4, <2>5, <2>6, ValidFieldIsColumn
<1> QED BY <1>1, <1>2, <1>3, PTL DEF ListingSpec
=============================================================================
