# The Socialat backend in TLA+

Socialat is a small Go backend that signs users up for, and in to, accounts on
a Bluesky PDS (personal data server). Its difficulty is that a user lives in
three stores that no transaction spans, and that every handler is a goroutine
that walks from one remote call to the next. This directory holds TLA+ models
of the parts where that matters, the TLC configurations that check them on
small instances, and TLAPS proofs for every value of the constants.

- [1. The system](#1-the-system)
- [2. Modules and how they map to the code](#2-modules-and-how-they-map-to-the-code)
- [3. What the runs check](#3-what-the-runs-check)
- [4. Bounds](#4-bounds)
- [5. Fairness](#5-fairness)
- [6. What is proved](#6-what-is-proved)
- [7. What disagrees with the code's own words](#7-what-disagrees-with-the-codes-own-words)
- [8. What is left out, and assumed](#8-what-is-left-out-and-assumed)
- [9. Plan](#9-plan)

To check a model: `tlc -config MCAccounts.cfg MCAccounts`. To check the proofs:
`tlapm AccountsProofs.tla`, and likewise for the other modules named `...Proofs`.

## 1. The system

### Components

| Component | State it keeps | Operations |
|---|---|---|
| Account handlers, `webserver/api_auth.go` | per-request locals only: form, claims, the random PDS password | `register`, `login`, `StartPasskeyRegister`, `FinishPasskeyRegister`, `FinishPasskeyTransferRegister`, `CancelPasskeyRegister`, `AssertionOptions`, `AssertionResult`, `UpdatePasskeyStart`, `UpdatePasskeyFinish`, `GenRandomUsername`, `CheckAuthUsername`, `getAuthMethod`; `CreateBlueskyPdsAccount` is the shared tail of both registrations |
| Login middleware and PDS handlers, `webserver/webserver.go`, `api_pds.go` | the claims in the request's context | `loggedInMiddleware`, `getPdsSession`, `getPdsTimeline`, `parseJSON`, `parseJSONAndValidate` |
| Service layer, `webserver/service/auth.go`, `pdsuser.go` | `Service.AuthClient`, the shared pointer to the gRPC client | `NewService`, `InitAuthClient`, `CheckAndInitAuthClient`, one wrapper per RPC, `GetPdsUserByHandle` |
| Storage, `storage/` | table `pds_users`, unique on `handle` | `CreatePdsUser`, `UpdatePdsUser` (no caller), `Sort.BindQuery`, generic helpers |
| PDS client, `atlib/atmain.go` | the package variable `blob`; an agent's session | `CreateInviteCode`, `CreateAccount`, `Connect`, `HandlerValidSession`, `UploadImage(s)`, `PostToFeed`, `GetTimeline` |
| Post builder, `atlib/atpost.go` | the package variable `FeedPost_Embed` | `NewPostBuilder`, `WithFacet`, `WithExternalLink`, `WithImages`, `Build` |
| HTTP helper, `webserver/service/http_client.go` | the caller's `ReqConfig` | `newClient`, `getRequestBody`, `query`, `HttpRequest`, `HttpPost`, `HttpFullPost`, `GetHttpPost`; no caller |
| Socket server, `webserver/socket.go` | rooms, inside socket.io | join, leave, close |
| Utilities, `utils/` | none | responses, `GetHandleFromUsername`, conversions, validation, `RandSeq` |
| Start-up, `cmd/`, `log/` | loggers, configuration | straight-line initialisation |
| E-mail, `email/` | none | templates and SMTP; no handler sends mail |
| `authpb/` | generated | gRPC messages and stubs |

Outside the repository: the **auth microservice** (users, credentials, passkey
ceremonies) and the **PDS** (hosted accounts, invite codes).

### How they interact

A client calls a route; the handler calls the auth service through the shared
gRPC client (context of the request), then the PDS by HTTP
(`context.Background()`, no timeout), then PostgreSQL. Registration creates, in
this order and in separate calls: the auth user, a PDS invite code, the PDS
account under a random password, the row that remembers that password. Login
asks the auth service, reads the row, and opens a PDS session with its
password. Handlers share the three stores, the pointer `AuthClient`, and (if a
caller posts) the variables `blob` and `FeedPost_Embed`; nothing is locked.

### What is hard

- *Partial failure and crashes.* A lost reply, a failed insert or a restart
  between two calls leaves an auth user without an account, a spent invite code,
  or a PDS account whose password nobody knows.
- *Interleaving.* Password and passkey registrations of one user, and two
  spellings of one name, compete for one handle and one row.
- *Two spellings of one key.* The row is stored under the handle the PDS
  answers with and looked up under one computed from the user name.
- *Two identities in one request.* Login token and PDS session come in two headers,
  end independently, and are never compared.
- *Lookup without an error.* gorm's `Find` does not report a missing row.
- *No timeouts.* A hung PDS call keeps its goroutine for ever.
- *An unsynchronised lazy dial* that every handler runs.
- *Package variables shared by all posts.*

### What makes each component correct

| Component | Properties |
|---|---|
| Account saga | a row always opens a live account; no hosted account without a user; a reported success is complete and durable; who registered can log in, exactly if the PDS keeps the spelling of the name; a login opens the account of its own user; without faults nobody is stranded; no request waits for another |
| Auth client | no nil call and no unexplained failure; bounded leak; a connection is never taken away; the pointer settles |
| Posts | images go out as one post's whole list under its own alt texts; a post without an embed stays without |
| Session handlers | a session handed out is the one the client brought, or of the account of the user its token names; an ended one is never handed out again or read with, a working one not replaced; who has a row gets one, exactly if the PDS keeps the spelling of the name |
| Replies and responses | one response per request, whatever the auth service replies; nobody goes on without a token, or without a name that the service sent; envelope and status line agree |
| HTTP helper | a reported success is one; what is sent is what the configuration says; a timed call ends and gives its connection back |
| Facets and lists | a facet encloses exactly its text and whole characters; ORDER BY holds valid columns only; pages tile the rows |

`PROJECT.json` lists the hazards line by line with the properties that cover
them, and the components with their status.

## 2. Modules and how they map to the code

| Module | Models |
|---|---|
| `Accounts` | the account saga: handlers of `api_auth.go`, the RPC wrappers, PDS calls and table operations they make, failures and crashes |
| `AccountLifecycle` | abstract: what the saga promises about one handle |
| `MCAccounts` | instances of `Accounts` for TLC |
| `AccountsProofs` | theorems about `Accounts`: its stores |
| `LifecycleProofs` | theorems about `Accounts`: its requests, and that it implements `AccountLifecycle` |
| `AuthClient` | `NewService`, `CheckAndInitAuthClient`, `InitAuthClient` and the reads and writes every wrapper makes of the shared pointer |
| `AuthClientProofs` | theorems about `AuthClient` |
| `Posting` | `PostBuilder`, `UploadImage(s)`, `PostToFeed` |
| `MCPosting` | `Posting` with its symmetry, and the images that cannot be fetched |
| `PostingProofs` | theorems about `Posting` |
| `Sessions` | `loggedInMiddleware`, `getPdsSession`, `getPdsTimeline` and the calls they make, composed with `AccountLifecycle` |
| `MCSessions` | an instance of `Sessions` |
| `SessionsProofs` | theorems about `Sessions` |
| `HttpClient` | `http_client.go`: configurations, calls, bodies, the deadline |
| `HttpClientProofs` | theorems about `HttpClient` |
| `Replies` | what each handler of `api_auth.go` makes of a reply, `Response` and the codes of `utils/errors.go` |
| `Facets` | `NewPostBuilder`, `WithFacet`, `findSubstring` and the facets of `Build`, on bytes |
| `FacetsProofs` | theorems about `Facets` |
| `Listing` | `ValidateSortField`, `ToSnakeCase`, `Sort.BindQuery` |
| `HelpersProofs` | theorems about `Replies` and `Listing` |
| `MCHelpers` | `HttpClient`, `Replies`, `Facets` and `Listing` on small instances |

Operators that the comments call mutants (`CallFailsUnheard`, `DialUnchecked`, ...)
are no part of a specification. Each is a wrong version of the definition that
follows it; with it in place, a property named in `PROJECT.json` fails.

### `Accounts`

State: `users` (credential kinds per user name) and `ceremony` (passkey
registrations) stand for the auth service; `invites` and `accounts` for the PDS;
`rows` for `pds_users`; `req[r]` is the goroutine of request `r`. `req[r].pc`
names the remote call it makes next:

    register, passkeyFinish:  auth -> invite -> account -> row -> done
    login, assertion:         auth -> lookup -> connect -> done

One action is one remote call with the local code around it, since the handlers
share nothing but the stores. The handlers `register`, `FinishPasskeyRegister`,
`login` and `AssertionResult` are operators of the same names, each the
disjunction of the calls it makes. `Reply` covers a call that took effect and
whose reply was lost or could not be used (undecodable JSON, missing `token` or
`user`); `CallFails` a call that changed nothing; `Crash` the end of the process,
which loses what its goroutines held and keeps the stores. A call that never
returns is a step that is never taken.

`PdsHandle` is the PDS's canonical form of a handle; `Canon` gives it per user
name, so that two spellings of a name are two users of the auth service
competing for one PDS handle. `ServerName` follows `GetHandleFromUsername`,
which strips the scheme from `PdsServer` only when the URL starts with `http`
and splits at `//`.

The auth service refuses by an error of the call or by a flag in its reply. Only
`FinishPasskeyRegister` (and the transfer) reads the flag; the other handlers look
for the fields `token` and `user`. Whether a flagged reply has them is the
service's business, hence the constant `RefusalsName`: if it is true, such a refusal
is taken for a success (`AuthRefuses`), and `NoAccountWithoutUser` is not claimed.

`GetPdsUserByHandle` returns a blank password when no row matches, as the code
does: `Find` into a struct reports no error.

`fault` is a history variable: it marks requests that met a failed call, a lost
reply or a crash, so that properties can speak of fault-free behaviour. `authed`
and `did` likewise only record what a handler heard.

### `AccountLifecycle`

A handle is `free`; hosting its account makes it `hosted` (some registration
still knows the password) or at once `abandoned` (the reply was lost); from
`hosted` it becomes `recorded` when the row is saved, or `abandoned` when the
holder fails or dies. Both ends are final. Success is told about recorded
handles only. `Accounts!ImplementsLifecycle` maps the stores to these stages; a
crash abandons several handles in one step.

### `AuthClient`

The pointer is accessed three times per request: the test in
`CheckAndInitAuthClient`, the second test after the store, the dereference in
the wrapper. Each access, and the dial, is an action. The accesses race; Go
gives such races no meaning in general, but a pointer is one machine word and is
read and written whole on the platforms the program is built for, so a read
returns some value that was stored. `grpc.Dial` is called without blocking:
whether it fails depends on `authHost` alone, hence `conf.dialable`. `conf`
ranges over all configurations in one run. A handler slot serves any number of
requests, so the number of slots bounds concurrency and not the number of
requests.

### `Posting`

`blob` and `embed` are the package variables; `post[p].points` says whether the
built post points to the shared embed, whose content counts when the post is
sent, not when it is built. Blobs are named by the image they hold, alt texts by
the image they belong to. The union is marshalled as indigo does it: images
before links, and an empty union is an error. An image whose URL does not answer
(`Unreachable`) is logged and uploaded as an empty blob, so it takes a place in
the slice like any other. No caller exists in the repository; the package is not synchronised, so the model assumes a caller
that makes one call at a time and alternates between posts.

### `Sessions`

A client keeps two credentials that end independently: a login token of the auth
service (`logins`) and a session of the PDS (`pds`), which it sends in the header
`PdsJwt`. Nothing compares them, so `Receive` takes any issued token with any
session, whoever's. `req[r].pc` names the next call again:

    get-pds-session:  check -> validate -> (lookup -> connect ->) done
    get-timeline:     check -> timeline -> done

`claims` are the values the middleware puts into the request's context. A header
that does not decode is logged and taken for an absent one (`Decoded`). Any error
of the validation, a fault included, leads to a new session. `stage` is the
abstract state of `AccountLifecycle`, of each account: `AccountStep` and `Register`
take the steps that `Accounts!ImplementsLifecycle` shows the account saga takes. As
in `Accounts`, `Canon` is the PDS's spelling of a user name; accounts and rows are
named by it (`Rows`: the accounts in the stage `recorded`, which by `RowOpensAccount`
the row opens). `GetPdsUserByHandle` looks for the name as the token spells it, and the
PDS finds the account under either (`Opens`). A token that has outlived
`aliveSessionHours` is `aged`; the auth service may still accept it.

`arrived`, `fresh` and `recorded` are history variables: the state of the token,
of the session and of the row when the request arrived. `fault` marks a request
that met a failed call. Requests that end unserved drop their history (`Failed`,
`Refused`, `Lost`), which no property asks for.

### `HttpClient`, `Replies`, `Facets`, `Listing`

`HttpClient` has one action per step of a call: start, response or error of the
transport, what the entry point makes of it, and the deadline, which also covers
the reading of the body and takes back a connection whose body was left open.
`queries` counts the query strings that a configuration's `HttpUrl` has grown,
since `query` changes the caller's struct.

`Replies` has an operator per handler: a function from a reply (error of the
call, error flag, what its `Data` decodes to) to an outcome (bodies written, a
panic that the router recovers, token and claims). A user may be an object with a
username or without, a null, something else or missing; `CatchObject` makes blank
claims of the second and third. The handlers differ in what they check, and that is what the module shows side by side.

Each of the three has a small state machine around its operators, which chooses
the input: a reply or a response, a builder with facets, a query.

`Facets` works on bytes, of which only `Width` matters: how many bytes the
character has that the byte begins. `Listing` works on characters, of which it knows
the lower case of each capital, the other lower-case letters and the digits; `asc` and
`desc` are one character each. A string in which `ToSnakeCase` has put underscores is
its letters and the positions before which they stand. The matches of the first
expression are chosen from left to right, those of the second never overlap. Integers
wrap after `MaxInt`.

## 3. What the runs check

| Run | Configuration | Properties |
|---|---|---|
| `accounts` | `MCAccounts.cfg` | `TypeOK`, `NoAccountWithoutUser`, `SuccessIsDurable`, `LoginOpensOwnAccount` |
| `accounts_folded` | `MCAccountsFolded.cfg` | `RowOpensAccount`, `FaultFreeNotStranded`, `FoundRowLogsIn`, `RegisteredCanLogIn`, `OrphanIsPermanent`, `ImplementsLifecycle` |
| `accounts_live` | `MCAccountsLive.cfg` | `NoRequestStuck` |
| `auth_client` | `MCAuthClient.cfg` | `NoSpuriousFailure`, `LeakIsBounded`, `StaysConnected`, `ClientSettles` |
| `posting` | `MCPosting.cfg` | `TypeOK`, `ImagesStayTogether`, `TextPostsAreBare` |
| `sessions` | `MCSessions.cfg` | `TypeOK`, `SessionIsOwn`, `ServedWasLoggedIn`, `EndedSessionNotReturned`, `RecordedGetsSession`, `RenewedOnlyIfNeeded` |
| `helpers` | `MCHelpers.cfg` | `HttpTypeOK`, `SuccessIsReal`, `SentAsAsked`, `TimedCallsEnd`; `AnsweredOnce`, `NamelessOnlyIfSent`, `EnvelopeAgrees`; `FacetOnCharacters`; `SortIsSafe`, `PagesTile` |
| `missing_row`, `local_auth`, `empty_embed`, `two_embeds`, `old_login` | | the violations of section 7 |

What they show of the account saga:

- `RowOpensAccount`: row and PDS account are written by two calls, and another
  registration may create, or be refused, the same handle in between. A saved
  row nevertheless always holds the live account's credentials.
- `NoAccountWithoutUser`, `SuccessIsDurable`: the order auth, PDS, table and the
  early returns leave no account without a login, and no success without a row. Both
  rest on refusals that do not look like successes (`RefusalsName` is false); what
  remains otherwise is that a success has its account and its row.
- `OrphanIsPermanent`: the price. Once the password of an account is lost,
  nothing gives that handle a row, whoever registers again. This is a statement
  about the code as it is, and what a compensating action would have to change.
- `RegisteredCanLogIn` relates two requests: a login that looks its row up after a
  registration of the same name was answered with success finds the password that
  opens the account if the PDS leaves the name as it is, and only then. Where two
  names fold into one handle (`FoldedCanon`), the name that the PDS spells
  differently registers with success and never logs in.
- `LoginOpensOwnAccount`: the session a login returns is that of the account a
  registration of the same canonical name created.
- `FoundRowLogsIn`, `FaultFreeNotStranded`: without faults, a login fails only
  for want of a row, and a handle somebody finished registering has one.
- `NoRequestStuck`: a request whose own calls are served ends, though the others
  hang while holding half-made accounts.

Of the auth client: under every interleaving of the unlocked reads and stores a
wrapper never calls through nil and never reports a failure `authHost` does not
explain; racing handlers leak connections, but each slot at most one in the life
of the process; the pointer stops changing, though RPCs may hang.

Of posts: `ImagesStayTogether` holds although the slice of blobs keeps
those of failed uploads and of other posts, because the lengths then never match
again. That is also what `empty_embed` shows from the other side. An image
that cannot be fetched shifts no other image under its alt text.

Of logged-in requests, while tokens and sessions end at any moment:

- `SessionIsOwn`: a request is answered with the session it brought, whoever's that
  is, or with one of the account of the user its token names; it reads the timeline with
  the one it brought. So the account may change from one answer to the next, when
  another user's session under one's token ends; a third account never appears.
- `ServedWasLoggedIn`: nothing is served on a token that had ended on arrival.
- `EndedSessionNotReturned`, `RenewedOnlyIfNeeded`: an ended session is neither handed
  out nor read with, although `get-timeline` never asks, and sessions do not multiply
  while the old one works.
- `RecordedGetsSession`: whose account has a row on arrival gets a session, whatever the
  header says and whatever else goes on, exactly if the PDS spells the name as the
  token does. Otherwise the lookup misses the row: the session in the header can be
  used until it ends, and never replaced.

Of the helpers: a nil error of `HttpRequest` means a decoded 200, one of the other
two less (`SuccessIsReal` says how much); the payload is never dropped and a URL
carries a second query only if the configuration served another GET
(`SentAsAsked`). Every reply gets at most one body, and none only with a panic,
although `UpdatePasskeyFinish` goes on after it has answered (`AnsweredOnce`). Login
and registrations ask for the two fields and not for the name in one of them: they
go on nameless exactly if the service sent such a user (`NamelessOnlyIfSent`).
What `ValidateSortField` lets through is, after `BindQuery` has trimmed, split
and renamed it, still a list of valid columns (`SortIsSafe`).

`MCHelpers` lets one component run at a time: they have nothing to do with each
other, and their product would show nothing more.

## 4. Bounds

- `MCAccounts.cfg`, `MCAccountsFolded.cfg`: three requests, two user names, one
  passkey ceremony, two passwords, two DIDs, three invite codes. Three requests
  are a registration, its competitor, and a login or a retry; a fourth adds no
  new relation between a handle's row, account and holders. Two passwords and
  DIDs tell the credentials of two accounts apart, and may also coincide. There
  are as many codes as requests, so none waits for a code, and as many DIDs as
  handles: a shortage never hides a step.
- `MCAccountsLive.cfg`: two requests, of which one is served and the other may
  hang at any point. No symmetry, since it is a liveness check. Here refusals may
  name users; in the other configurations they do not.
- `MCAuthClient.cfg`: three slots, so that a third handler may store between the
  accesses of two others; requests without bound.
- `MCPosting.cfg`: three posts of up to two images, a slice of up to four blobs
  (`MaxBlobs`: uploads stop there). Two images tell an order from a set; four
  blobs leave room for a complete upload after a failed one and a retry.
- `MCSessions.cfg`: two accounts under three names, two tokens, three sessions, one
  request. The third name is one that the PDS spells as the first; two tokens and
  sessions let a request mix up two users, and the third session is the replacement.
  One request is enough: requests share nothing but the stores, and what the others
  do to those, opening a session or none, logins and expiries do too. The proofs
  (section 6) are for any number.
- `MCHelpers.cfg`: two calls and two configurations of any method and payload, so
  that the calls overlap, or one comes after the other and finds its traces; all
  replies and error codes; posts of up to five bytes with up to two facets
  (`MaxFacets`), in characters of one to three bytes; orders of up to five
  characters over `a`, `B`, space, comma and `asc`, and all pairs of longer
  names over `a`, `b`, `A`, `B` and a digit; an 8-bit `int` with pages and sizes from -2 to 30, so that products
  come up to the largest offset and pass it several times over.
- Symmetry is over sets whose members are interchangeable: requests, codes,
  passwords, DIDs, posts. User names are not permuted, `Canon` tells them apart.
- Deadlock is not checked for `Accounts`, `Posting`, `Sessions` and
  `HttpClient`, where finitely many requests, posts or calls come to an end, and
  not for `AuthClient`, whose slots can always take a request, so that a check
  would show nothing.

## 5. Fairness

- `Accounts!FairSpec`: weak fairness of `Step(r)` for `r \in Responsive`. A
  goroutine is scheduled, and the remote side answers its calls. For the other
  requests nothing is assumed: the PDS client has no timeout and runs under
  `context.Background()`, so a call may hang for ever. `CallFails` and `Crash`
  have no fairness: failures help nobody to progress.
- `AuthClient!FairSpec`: weak fairness of a started dial (`Dial`), which does not
  block and which Go schedules. Nothing is assumed of the RPC: neither the request's
  context nor the server has a deadline, so it may hang as long as its client waits.
  New requests need not arrive.
- `HttpClient!HttpFairness`: weak fairness of `Timeout(k)`: the runtime's timer
  goes off (`http.Client{Timeout: 30s}`). Nothing is assumed of servers. The two
  entry points without a client of their own have no deadline, and
  `TimedCallsEnd` does not speak of them.

## 6. What is proved

Every safety property that a passing run checks is a theorem; so are the action
properties and the refinement. Some theorems say more than a run checks: they follow
from the same invariants. All hold for all values of the constants that the modules'
assumptions admit.

### The account saga

`AccountsProofs` and `LifecycleProofs` prove for all sets of requests, users,
ceremonies, passwords, DIDs and codes, from `CanonAssumption` (canonicalising is
idempotent and stays within the user names), `NoneAssumption` (the model's
placeholders differ from the data), `RefusalsNameAssumption` (it is true or false) and
nothing else:

| Theorem | Statement |
|---|---|
| `TypeCorrect` | `Spec => []TypeOK` |
| `RowsOpenAccounts` | `Spec => []RowOpensAccount` |
| `AccountsHaveUsers` | if refusals name no user, `Spec => []NoAccountWithoutUser` |
| `SuccessesAreDurable` | `Spec => []SuccessIsDurable` |
| `OrphansArePermanent` | `Spec => OrphanIsPermanent` |
| `FoundRowsLogIn` | `Spec => []FoundRowLogsIn` |
| `LoginsOpenOwnAccounts` | `Spec => []LoginOpensOwnAccount` |
| `FaultFreeNeverStrands` | `Spec => []FaultFreeNotStranded` |
| `SagaImplementsLifecycle` | `Spec => ImplementsLifecycle` |
| `RegisteredUsersCanLogIn` | `Spec => RegisteredCanLogIn` |
| `FatesAreFinal` | `Spec`: the stages `recorded` and `abandoned` of a handle never change |
| `ToldIsRecorded` | `Spec`: who was told of a success has an account and a row, for ever |
| `CanonicalNamesLogIn` | `Spec`: who registered opens the account with its row if and only if `Canon` keeps the name |

The invariant of the first five is

    IInv == /\ Phases              \* TypeOK, and what each pc says of the record
            /\ AuthedAreUsers      \* a request the service accepted has its user,
                                   \* if its refusals name none
            /\ HeldKeysOpen        \* before the insert: the live account's credentials
            /\ RowOpensAccount /\ SuccessIsDurable
            /\ ~RefusalsName => NoAccountWithoutUser

`RowOpensAccount` is not inductive alone: `CreatePdsUser` writes what the handler
holds, so one must know that this opens the account (`HeldKeysOpen`). That in
turn survives other registrations because `CreateAccount` takes free handles
only, and a held handle is not free. `NoAccountWithoutUser` needs
`AuthedAreUsers` at `CreateAccount`, and `SuccessIsDurable` needs that neither
store overwrites a handle.

Only two actions write a store that is keyed by handle. Every other step is
`Quiet`: it leaves both stores alone, takes no login away, and puts no request
in front of the row or past it. `QuietStep` proves once that a quiet step
keeps the invariant, one lemma per group of actions proves that it is quiet, and
`CreateAccountKeeps` and `CreatePdsUserKeeps` treat the two others conjunct by
conjunct. The record lemmas at the top say what each way of rewriting a request
leaves of it.

The next four are about what becomes of requests, and the stores do not remember
who wrote them. `Fates` of `LifecycleProofs` adds it:

    Fates == /\ FaultEnds          \* a fault is the last thing a request meets
             /\ RowsAreSigned      \* each row has its registration, which has ended
             /\ KeysAreRows        \* a login holds the password of the user's row, or none
             /\ OneHolder          \* one request holds an account's password, and
                                   \* only while there is no row
             /\ LossesAreFaults    \* a password neither held nor saved: a fault
             /\ EndsWithAccount    \* who ends without a fault leaves an account
             /\ LoginsAreSigned    \* a login's session is of a registered account
             /\ FoundRowLogsIn

- A login reads the row one call before it connects. `KeysAreRows` says that the
  password it holds is still the row's then, and a row opens its account: a login with
  a row in its hands is not refused, which is `FoundRowLogsIn`.
- `LoginOpensOwnAccount` follows from `LoginsAreSigned`: the DID goes from the request
  that created the account to the row and from there to the session, and the
  creator's record keeps it.
- `FaultFreeNotStranded`: by `LossesAreFaults`, an account without a row has a holder,
  which is then still running, or its creator met a fault. `OneHolder` is what makes the
  loss final when that holder ends.

`StepCases` sorts the steps into four kinds: a request creates an account, saves a row,
logs in, or the step `Settles`, which leaves both stores alone.
Each has one lemma for `Fates` and one for the refinement: `CreateAccount` is `Host`,
`CreatePdsUser` is `Record`, a successful login is `Tell`, and a step that settles is a
stutter, unless the holder of an unsaved password ends: that is `Abandon`. Since the
abstract life cycle is one of each handle, all steps of other handles are stutters.

The last four are about what follows a success. `LifecycleStep` says once of the
abstract life cycle that its ends are final and that success is told of recorded
handles only; `StepMaps` carries that to every step of the saga. `CanonicalNamesLogIn`
and `RegisteredUsersCanLogIn` say the same of the state and of the step of the login:
the row is saved under the handle the PDS answers with (`CanonicalRow`), and if that is
not the one computed from the name, the lookup finds no row, or one that opens no
account of that name. Neither assumes anything of the PDS's spelling but
`CanonAssumption`.

### The other components

`AuthClientProofs` proves, for any set of handlers, `NoFailureIsSpurious`,
`LeaksAreBounded` and `ClientsStay`. Its invariant `Progress(h)` says where a
handler's connection is: while the pointer is nil, whatever has been dialled is
still on its way into it; and a handler that is to store holds nil only if
`authHost` cannot be dialled at all. Hence no store can take a client away.
`SettledClientsStay` is the half of `ClientSettles` that needs no fairness: when no
handler is left to dial or to store, none will be, and the pointer stays.

`SessionsProofs` proves, for any sets of users, tokens, sessions and requests and
from `NoneAssumption` and `CanonAssumption`, everything the `sessions` run checks:

| Theorem | Statement |
|---|---|
| `TypeCorrect` | `Spec => []TypeOK` |
| `SessionsAreOwn` | `Spec => []SessionIsOwn` |
| `ServedWereLoggedIn` | `Spec => []ServedWasLoggedIn` |
| `EndedSessionsAreNotReturned` | `Spec => []EndedSessionNotReturned` |
| `RecordedGetSessions` | `Spec => []RecordedGetsSession` |
| `RenewalsAreNeeded` | `Spec => RenewedOnlyIfNeeded` |

The invariant has `StoresHold` (an issued token has its user, a session that does
not exist has none) and, request by request, `Sound(q)`: `TokenHeld`,
`SessionsOwned` and `HistoryHolds` say what the request's fields and its history
imply of the stores now, among that what the lookup may find (`RowHolds`). None of the properties is inductive alone: a session is
returned two or three steps after it was read from the header, and in between the
stores move. The argument is that they only move forward (`Later`): no token or
session changes hands, and nothing that ended is alive again. `SoundLater` proves
once that a sound request stays sound while the stores move forward;
`StepKeeps` turns it into an invariant for steps that rewrite one request, and
`WorldKeeps` for those that rewrite none. What is left to each action is its own
request.

`FacetsProofs` proves `FacetsAreWhole`, `FacetsSpec => []FacetOnCharacters`, for texts
of any length over any alphabet and any number of facets. `strings.Index` returns an
occurrence, and none before it, as a non-empty set of offsets has a least one
(`IndexFinds`); that gives `FacetsTakeFirstOccurrence`: a build fails exactly if a
facet's text does not occur, and two facets of one text always share the first
occurrence, which no caller can avoid. Where a valid text occurs in a
valid one, it begins with a lead byte; its own last lead byte says where its last
character ends, and the enclosing text has the same byte there, hence the next
lead byte right after (`OccurrenceOnCharacters`).

`PostingProofs` proves `TypeCorrect`, `PublishedImagesBelongTogether` and
`TextPostsStayBare`, for any number of posts and any bounds on images and blobs. The
images of a record were copied from the shared embed, so the invariant is about the
embed: its list is empty or the whole list of one composed post (`Together`). `Build`
fills it from the slice that all uploads share, and only if that is as long as the
post's own images. What makes this safe is `CountedBlobsAreOwn`: a slice of that
length holds this post's blobs and nothing else, as each successful upload appends all
of its images to whatever was there. `OnlyAskedPoint` keeps posts without links and
images off the embed. Two more theorems say where the faults of `empty_embed` and
`two_embeds` come from. `LonePostIsAsAsked`: while a process has composed one post only,
that post is published as its caller asked, or not at all, however often its uploads
failed; so it takes a second post. `EmbedStaysFilled`: it need not overlap the
first, since nothing resets the embed, and once that holds images, they go out in place of
every link.

`HttpClientProofs` proves `TypeCorrect`, `SuccessesAreReal` and
`RequestsAreSentAsAsked`, for any calls and configurations. A deadline may end a call
at each point, so the invariant says of every call that only an ended one has a
result, and that one that has not begun has sent nothing (`Progress`). The second
query string of a URL is accounted for by `QueriesHaveCalls`: a URL that has grown
has a call that made it grow, and this one, which was idle, is another. Every
operation rewrites one call; `Replace` proves once what the new record must satisfy.
`OpenBodiesAreKnown` lists the ways to end with an open body: every `GetHttpPost`
that got an answer, and an `HttpRequest` that fails on a status or a body. A success of
`HttpRequest` never leaks.

`HelpersProofs` proves, for every reply and every error, `RepliesAreAnsweredOnce`,
`NamelessAreSent` and `EnvelopesAgree`: case analyses over the twelve handlers and the
codes. For every size of page and width of `int` it proves `PagesFollow` (`PagesTile`) and
its consequence `PagesAreDisjoint`: two pages of a list share no row as long as the
offset fits. `PageRows` says which rows a page has; `WrapFits` that an offset which fits
does not wrap, `WrapTurns` that one up to a whole turn too large becomes negative or
zero, so that the first page comes again.

`OrdersAreSafe` (`SortIsSafe`) holds for orders of any length over any alphabet. It needs
no induction over strings, since the conversions are stated by positions:

- The matches of `(.)([A-Z][a-z]+)`, taken from left to right, exist: a hit is one
  unless it begins within an earlier match, so there is no least position up to which
  they could not be chosen (`MatchesExist`).
- The two expressions together put an underscore exactly where a word begins:
  before a capital that follows a small letter or a digit, or comes before a small
  letter. A hit that is no match begins with a small letter of the match before it,
  so the second expression finds its capital (`UnderscoresAreWordStarts`).
- A direction after the name has no capitals and comes after a space, so it changes
  neither the letters of the column nor its words (`DirectionKeepsColumn`).
- `TrimSpace` and `Split` return parts of the order (`TrimIsSeq`, `PiecesAreSeqs`), and a
  part that `ValidField` accepts is a column with its direction (`ValidFieldIsColumn`).

### Only model-checked

- Liveness: `NoRequestStuck`, `ClientSettles`, `TimedCallsEnd`. Fairness and
  `ENABLED` are out of the prover's reach. Of `ClientSettles`, the part without fairness
  is proved.
- The properties of section 7 are refuted, by a counterexample of TLC each.

## 7. What disagrees with the code's own words

- `missing_row`: `service/pdsuser.go:14` answers "pds user not found" for
  `gorm.ErrRecordNotFound`, which `Find` never returns. A user whose
  registration stopped half way gets the PDS's refusal of a blank password, as a
  500.
- `local_auth`: `sample_config.yaml:14` says that `authType: 0` uses local user
  names and passwords. All logins and registrations call the microservice
  whatever `authType` is; 0 only delays the dial to the first request.
- `empty_embed`: `atpost.go:202` tests the images "to avoid error when trying to
  marshal empty field", but the embed is filled only when the numbers of images
  and blobs agree, and `UploadImages` returns all blobs the process ever
  uploaded. The second post with images may point to an empty embed.
- `two_embeds`: `atpost.go:168` allows one embed type per post, but the shared
  variable keeps its other field: after a link post and an image post, every
  post with an embed has both.
- `old_login`: `sample_config.yaml:8` calls `aliveSessionHours` the "time to keep the
  login session alive". Nothing reads it after start-up, and the claims' expiry
  is copied into the context (`webserver.go:148`) and compared with nothing:
  `authClaims.Valid` is reached only through `parseBearer`, which guards no
  route. A login lasts as long as the auth service accepts its token.

Seen while modelling, and stated by no property:

- `getRequestBody` refuses any payload of a PUT or a DELETE, though the comment at
  `http_client.go:70` speaks of POST and PUT.
- `HttpRequest` closes the body only on success, `GetHttpPost` never; the
  deadline takes the former's connections back. The cancel function that
  `newClient` returns is never called.
- `register`, `login` and `AssertionResult` do not look at the reply's error flag;
  what keeps them from going on without a user is the test for the two fields,
  which `AssertionResult` lacks. What follows if a flagged reply has them is
  `RefusalsName`.
- `get-timeline` with a body that decodes makes the validator panic on its tags;
  the recoverer answers.

## 8. What is left out, and assumed

Assumed of the outside, from how the code uses it:

- The auth service registers a user name once; a finished ceremony adds a
  passkey to its user, new or not (the transfer route exists for users with a
  password); a closed ceremony accepts nothing. It may refuse any call, by a reply
  that has a token and a user or not (`RefusalsName`).
- In `Accounts` an accepted reply names the user. The other replies are those of
  `Replies`: without a name a registration mints a code and asks the PDS for an account
  without one, which it refuses. In `Accounts` that is a call that fails after the
  invite code.
- The PDS stores canonical handles, has one account per handle, and accepts an
  invite code once (`UseCount: 1`).
- A transfer registration, the start and the cancellation of a ceremony are
  single steps: each makes one remote call and keeps nothing.
- Tokens, e-mail addresses, display data and timestamps carry no weight in any
  property and are left out, as are the wording and status of responses except
  where `MissingRowIsNotFound` speaks of them.
- A session whose reply is lost is known to nobody.
- A row opens the account of its user (`RowOpensAccount`), so `Sessions` keeps no
  passwords.
- Calls that overlap have configurations of their own: `http_client.go` does not
  lock a `ReqConfig`.
- A list is asked for with a request that implements `Filter`, as `GetList`
  requires; others are not validated.
- A reply to `AssertionResult` without a user leads to the lookup of an empty
  name; the PDS refuses it, so it ends in an error and is covered by `Reply`.

Not modelled:

- `cmd/`, `config`, `log/`: start-up in a straight line, file input and output.
- `webserver/socket.go`: rooms are kept inside socket.io, each handler is one call
  of the library.
- `email/`: templates and SMTP; no handler sends mail.
- `authpb/`: generated stubs and accessors; `Replies` takes the shape of
  `ResponseData` from it, the RPCs are the actions of `Accounts` and `Replies`.
- `adminMiddleware` and `parseBearer`, which guard no route; the generic `Create`,
  `Save`, `Delete`, `First`, `Count` and `UpdatePdsUser` of `storage/`, one gorm call
  each without a caller.
- Dates, display names, image resizing and random strings in `utils/`: formatting,
  or values of which no property tells two apart.

## 9. Plan

Done: `Accounts` with `AccountLifecycle`, `AuthClient`, `Posting`, `Sessions`,
`HttpClient`, `Replies`, `Facets`, `Listing`, and the proofs above: every safety property
is proved. One planned theorem turned out false: two posts that do not overlap in time
share the embed all the same, since nothing resets it. `LonePostIsAsAsked` and
`EmbedStaysFilled` are what holds instead.

Left: the liveness properties, which stay with TLC, and the parts that section 8 leaves
out, each of which becomes worth a model only when it gets a caller: the generic
operations of `storage/`, `UpdatePdsUser`, `adminMiddleware` and `parseBearer`.
