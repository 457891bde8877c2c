------------------------------- MODULE Texts -------------------------------
(***************************************************************************)
(* The functions on texts (nstring.c) that the matching of PPDs and the    *)
(* order of preference use.                                                *)
(*                                                                         *)
(* A text is a sequence of tokens: the longest runs of letters, of digits  *)
(* and each other character; a prefix or suffix ends between two tokens.   *)
(* The search is the code's, with Knuth, Morris and Pratt's table, and     *)
(* SearchIsExactFor compares it with what it should find.                  *)
(***************************************************************************)
EXTENDS Integers, SequencesExt

CONSTANTS
    LowerCase,      \* the tokens with capitals, in lower case
    Length(_),      \* the number of characters of a token
    Common(_, _)    \* the number of characters two tokens start with

\* What is in lower case has no capitals.
ASSUME LowerCaseAssumption == \A c \in DOMAIN LowerCase : LowerCase[c] \notin DOMAIN LowerCase

White == {" ", "\n"}

strlwr(t) == [i \in DOMAIN t |-> IF t[i] \in DOMAIN LowerCase THEN LowerCase[t[i]] ELSE t[i]]

\* Some spelling in capitals; each token has one of its own.
strupr(t) ==
    LET upper(token) == {c \in DOMAIN LowerCase : LowerCase[c] = token}
    IN  [i \in DOMAIN t |-> IF upper(t[i]) # {} THEN CHOOSE c \in upper(t[i]) : TRUE ELSE t[i]]

startswith(prefix, t) == IsPrefix(prefix, t)
endswith(suffix, t) == startswith(Reverse(suffix), Reverse(t))
slice(t, n) == SubSeq(t, n + 1, Len(t))
strlen(t) == FoldLeft(LAMBDA n, token : n + Length(token), 0, t)

\* The first and the last token that is no white space.
strstrip(t) ==
    LET black == {i \in DOMAIN t : t[i] \notin White}
    IN  IF black = {} THEN <<>> ELSE SubSeq(t, Min(black), Max(black))

count_tokens(t, token) == Cardinality({i \in DOMAIN t : t[i] = token})

\* What is between separators, of which strtok skips those in a row: a part starts
\* behind a separator and ends before the next.
split(t, separator) ==
    LET starts == {i \in DOMAIN t : t[i] # separator /\ (i = 1 \/ t[i - 1] = separator)}
        start(n) == CHOOSE i \in starts : Cardinality({j \in starts : j <= i}) = n
        end(i) == Max({j \in i .. Len(t) : \A k \in i .. j : t[k] # separator})
    IN  [n \in 1 .. Cardinality(starts) |-> SubSeq(t, start(n), end(start(n)))]

\* The number of tokens that both texts start with.
Shared(t, u) ==
    Max({n \in 0 .. Min({Len(t), Len(u)}) : SubSeq(t, 1, n) = SubSeq(u, 1, n)})

\* strlen(commonprefix(t, u)).
commonprefix(t, u) ==
    LET n == Shared(t, u)
    IN  strlen(SubSeq(t, 1, n))
        + IF n < Len(t) /\ n < Len(u) THEN Common(t[n + 1], u[n + 1]) ELSE 0

-----------------------------------------------------------------------------
(* Searching. *)

Occurrences(pattern, t) ==
    {i \in 0 .. Len(t) - Len(pattern) : SubSeq(t, i + 1, i + Len(pattern)) = pattern}

\* lps[i]: the length of the longest prefix of the pattern's first i tokens that
\* ends them too.  A mistake: after a mismatch no token is taken as read.
computeLPSArray_none(pattern) == [i \in DOMAIN pattern |-> 0]
computeLPSArray(pattern) ==
    LET lps[i \in DOMAIN pattern] ==
            LET extend[len \in 0 .. i - 1] ==
                    IF pattern[len + 1] = pattern[i] THEN len + 1
                    ELSE IF len = 0 THEN 0 ELSE extend[lps[len]]
            IN  IF i = 1 THEN 0 ELSE extend[lps[i - 1]]
    IN  lps

\* search[<<i, j>>]: the result when i tokens of the text are read, the last j of
\* which match.  Without a match the function ends without a value.
NoValue == -2
KMPSearch(pattern, t) ==
    LET lps == computeLPSArray(pattern)
        search[at \in (0 .. Len(t)) \X (0 .. Len(pattern))] ==
            LET i == at[1]
                j == at[2]
            IN  IF j = Len(pattern) THEN i - j
                ELSE IF i = Len(t) THEN NoValue
                ELSE IF pattern[j + 1] = t[i + 1] THEN search[<<i + 1, j + 1>>]
                ELSE IF j = 0 THEN search[<<i + 1, 0>>]
                ELSE search[<<i, lps[j]>>]
    IN  search[<<0, 0>>]

\* strstr decides whether there is a match.
find(t, pattern) == IF Occurrences(pattern, t) = {} THEN -1 ELSE KMPSearch(pattern, t)
rfind(t, pattern) ==
    IF Occurrences(pattern, t) = {} THEN -1
    ELSE Len(t) - (KMPSearch(Reverse(pattern), Reverse(t)) + Len(pattern))

\* Whether the searches find "the lowest index in the string", "the highest index
\* in the string" (nstring.c:252, 265), and -1 where there is none.
SearchIsExactFor(t, pattern) ==
    LET places == Occurrences(pattern, t)
    IN  /\ find(t, pattern) = IF places = {} THEN -1 ELSE Min(places)
        /\ rfind(t, pattern) = IF places = {} THEN -1 ELSE Max(places)

=============================================================================
