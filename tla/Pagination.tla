----------------------------- MODULE Pagination -----------------------------
(***************************************************************************)
(* paginate of pagination.py: keyset pages over a list.  A page token is    *)
(* the id of the last item of the page before; base64 and JSON around it    *)
(* are undone on the way back in.                                           *)
(***************************************************************************)
EXTENDS Integers, Sequences

NoToken == -1

\* The number of items up to the token; all of them when it is gone, which makes
\* an empty final page.
StartAfter(items, token) ==
    IF token = NoToken THEN 0
    ELSE IF \E i \in DOMAIN items : items[i] = token
    THEN CHOOSE i \in DOMAIN items : items[i] = token
    ELSE Len(items)

\* Mutant: the page ahead of a last page of one item is taken for the last.
NextTokenEarly(items, start, size) ==
    IF start + size + 1 < Len(items) THEN items[start + size] ELSE NoToken

\* The token for the following page, if there is one.
NextToken(items, start, size) ==
    IF start + size < Len(items) THEN items[start + size] ELSE NoToken

PageAfter(items, start, size) ==
    SubSeq(items, start + 1,
           IF start + size < Len(items) THEN start + size ELSE Len(items))
=============================================================================
