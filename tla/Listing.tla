------------------------------ MODULE Listing ------------------------------
(***************************************************************************)
(* Sorted and paged lists: ValidateSortField, on which the SQL that         *)
(* Sort.BindQuery composes relies, ToSnakeCase between the two, and the     *)
(* page arithmetic, in a machine's integers.  No handler lists anything     *)
(* yet.                                                                     *)
(*                                                                         *)
(* A string is a sequence of characters; "asc" and "desc" count as one      *)
(* lower-case character each.                                               *)
(***************************************************************************)
EXTENDS Integers, Sequences, FiniteSetsExt

CONSTANTS
    Char,      \* the characters of names and orders
    Lower,     \* [a-z]
    Digits,    \* [0-9]
    LowerOf,   \* the lower case of each of [A-Z]
    Sortable,  \* the valid field names of a filter
    Orders,    \* the orders clients ask for
    Pages,     \* the pages, and sizes, they ask for
    MaxInt     \* the largest int

ASSUME ListingAssumption ==
    /\ MaxInt \in Nat /\ Pages \subseteq Int
    /\ Sortable \subseteq Seq(Char) /\ Orders \subseteq Seq(Char)

ASSUME CharAssumption ==
    /\ DOMAIN LowerOf \cap Lower = {} /\ DOMAIN LowerOf \cap Digits = {}
    /\ {"asc", "desc"} \subseteq Lower
    /\ " " \in Char /\ " " \notin DOMAIN LowerOf \cup Lower \cup Digits

VARIABLE asked  \* the query parameters of a request for a list
-----------------------------------------------------------------------------
(* strings.TrimSpace, strings.Split and strings.ToLower                    *)

TrimSpace(s) ==
    LET ink == {i \in DOMAIN s : s[i] # " "}
    IN  IF ink = {} THEN <<>> ELSE SubSeq(s, Min(ink), Max(ink))

\* The pieces of s: what stands between two cuts next to each other.
Split(s, sep) ==
    LET cuts == {0, Len(s) + 1} \cup {i \in DOMAIN s : s[i] = sep}
        next == {p \in cuts \X cuts : /\ p[1] < p[2]
                                      /\ \A c \in cuts : c <= p[1] \/ p[2] <= c}
    IN  {SubSeq(s, p[1] + 1, p[2] - 1) : p \in next}

IsUpper(c) == c \in DOMAIN LowerOf
IsLower(c) == c \in Lower
IsDigit(c) == c \in Digits

ToLower(s) == [i \in DOMAIN s |-> IF IsUpper(s[i]) THEN LowerOf[s[i]] ELSE s[i]]
-----------------------------------------------------------------------------
(* Underscores are put before characters: a string with underscores put is  *)
(* the string and their positions.                                          *)

\* (.)([A-Z][a-z]+) -> ${1}_${2}.  From left to right, a hit is a match unless it
\* begins within an earlier one, which takes all lower-case letters it can.
FirstCap(s) ==
    LET hits == {i \in DOMAIN s : i + 2 <= Len(s) /\ IsUpper(s[i + 1]) /\ IsLower(s[i + 2])}
        Reaches(j, i) == j < i /\ \A k \in (j + 2)..i : IsLower(s[k])
        matches == CHOOSE M \in SUBSET hits :
                     \A i \in hits : i \in M <=> \A j \in M : ~Reaches(j, i)
    IN  {i + 1 : i \in matches}

\* ([a-z0-9])([A-Z]) -> ${1}_${2}, in a string with underscores already put: no two
\* matches overlap.
AllCap(s, put) ==
    {i \in 2..Len(s) : /\ IsUpper(s[i])
                       /\ IsLower(s[i - 1]) \/ IsDigit(s[i - 1])
                       /\ i \notin put}

\* Mutant: abbreviations are not set off from the word that follows.
ToSnakeCaseOnePass(s) == [letters |-> ToLower(s), underscores |-> AllCap(s, {})]

ToSnakeCase(s) ==
    [letters     |-> ToLower(s),
     underscores |-> FirstCap(s) \cup AllCap(s, FirstCap(s))]

\* Mutant: what follows the direction is not looked at.
ValidFieldTrailing(field) ==
    LET spaces == {i \in DOMAIN field : field[i] = " "}
    IN  \/ spaces = {} /\ field \in Sortable
        \/ \E i \in spaces : /\ \A j \in spaces : i <= j
                             /\ SubSeq(field, i + 1, i + 1) \in {<<"asc">>, <<"desc">>}
                             /\ SubSeq(field, 1, i - 1) \in Sortable

\* Between its spaces, a field has a name, or a name and a direction.
ValidField(field) ==
    LET spaces == {i \in DOMAIN field : field[i] = " "}
    IN  \/ spaces = {} /\ field \in Sortable
        \/ \E i \in DOMAIN field :
             /\ spaces = {i}
             /\ SubSeq(field, i + 1, Len(field)) \in {<<"asc">>, <<"desc">>}
             /\ SubSeq(field, 1, i - 1) \in Sortable

\* The nil and the empty map of valid names refuse the same orders.
ValidateSortField(order) ==
    \/ TrimSpace(order) = <<>>
    \/ \A field \in Split(TrimSpace(order), ",") : ValidField(field)

\* A request type that lacks one of Filter's methods is not validated.
parseQueryAndValidate(order, isFilter) == isFilter => ValidateSortField(order)

\* The terms of ORDER BY.
OrderTerms(order) ==
    IF TrimSpace(order) = <<>> THEN {}
    ELSE {ToSnakeCase(field) : field \in Split(TrimSpace(order), ",")}
-----------------------------------------------------------------------------
defaultOffset == 20

\* The int that n leaves after an overflow.
Wrap(n) == ((n + MaxInt + 1) % (2 * (MaxInt + 1))) - (MaxInt + 1)

PageOf(page) == IF page <= 0 THEN 1 ELSE page

SizeOf(size) == IF size <= 0 THEN defaultOffset ELSE size

\* Mutant: pages are counted from zero, and page 0 is still the default.
BindQueryFromZero(page, size) ==
    LET offset == Wrap(page * SizeOf(size))
        first  == IF page > 0 /\ offset > 0 THEN offset ELSE 0
    IN  (first + 1)..(first + SizeOf(size))

\* The rows that BindQuery selects: gorm leaves a negative offset out.
BindQuery(page, size) ==
    LET offset == Wrap((PageOf(page) - 1) * SizeOf(size))
        first  == IF offset > 0 THEN offset ELSE 0
    IN  (first + 1)..(first + SizeOf(size))
-----------------------------------------------------------------------------
ListingInit == asked = [order |-> <<>>, page |-> 0, size |-> 0]

\* Requests share nothing: one is enough, and its order and its page are
\* looked at apart.
ListingNext ==
    /\ ListingInit
    /\ \/ \E order \in Orders : asked' = [asked EXCEPT !.order = order]
       \/ \E page, size \in Pages :
            asked' = [asked EXCEPT !.page = page, !.size = size]

ListingSpec == ListingInit /\ [][ListingNext]_asked
-----------------------------------------------------------------------------
\* The characters of a field with which a word begins.
WordStarts(f) ==
    {i \in 2..Len(f) : /\ IsUpper(f[i])
                       /\ \/ IsLower(f[i - 1]) \/ IsDigit(f[i - 1])
                          \/ i < Len(f) /\ IsLower(f[i + 1])}

\* Whatever order a request passes parseQueryAndValidate with, ORDER BY holds
\* nothing but columns of valid fields, in lower case and with an underscore
\* wherever a word begins, each with a direction or without: if its type is a
\* Filter, as GetList requires.
SortIsSafe ==
    parseQueryAndValidate(asked.order, TRUE) =>
        \A term \in OrderTerms(asked.order) :
            \E f \in Sortable, dir \in {<<>>, <<" ", "asc">>, <<" ", "desc">>} :
                term = [letters |-> ToLower(f) \o dir, underscores |-> WordStarts(f)]

\* Pages neither overlap nor leave rows out, defaults included, as long as the
\* offset fits the machine's integer; a page whose offset just overflows shows the
\* rows of the first one again.
PagesTile ==
    LET page == asked.page
        size == asked.size
    IN  /\ PageOf(page) * SizeOf(size) <= MaxInt =>
             /\ page <= 1 => 1 \in BindQuery(page, size)
             /\ BindQuery(PageOf(page) + 1, size)
                  = {n + SizeOf(size) : n \in BindQuery(page, size)}
        /\ (PageOf(page) - 1) * SizeOf(size) \in (MaxInt + 1)..(2 * (MaxInt + 1)) =>
             BindQuery(page, size) = BindQuery(1, size)
=============================================================================
