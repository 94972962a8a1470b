------------------------------- MODULE Format -------------------------------
(***************************************************************************)
(* The grammar of the binary format.  The bytes carry no marks that close  *)
(* what they open: a header says how many entries follow, and what a token *)
(* may be depends on what is still due.  That is a stack, the innermost    *)
(* first: a value, what follows the name of a class, or the entries left   *)
(* of a table.                                                             *)
(***************************************************************************)
EXTENDS Values

ValueDue == -1
BodyDue  == -2

\* each of them takes at least so many tokens: a value one, an entry one (a
\* null without a key)
AtLeast(n) == IF n < 0 THEN 1 ELSE n
Weight(s)  == IF s = << >> THEN 0 ELSE Head(s).sum

\* n is due before s; an empty table is never due
Ask(n, s)  == << [due |-> n, sum |-> AtLeast(n) + Weight(s)] >> \o s
Await(n, s) == IF n = 0 THEN s ELSE Ask(n, s)

Stack == {s \in Seq([due : Int, sum : Nat]) :
            \A k \in DOMAIN s : s[k].sum = AtLeast(s[k].due) + (IF k = Len(s) THEN 0 ELSE s[k + 1].sum)}

\* what may come next
Allows(s, tok) ==
    /\ s # << >>
    /\ \/ Head(s).due = ValueDue /\ tok.tag \notin {"objser", "enum"}
       \/ Head(s).due = BodyDue  /\ tok.tag \in {"arr", "objser", "enum"}
       \/ Head(s).due > 0        /\ tok.tag \in ScalarTags

\* what is due after it
Leaves(s, tok) ==
    LET n    == Head(s).due
        rest == Tail(s)
    IN  IF n > 0 THEN IF tok.tag = "null" THEN Await(n - 1, rest)
                                          ELSE Ask(ValueDue, Await(n - 1, rest))
        ELSE IF tok.tag = "arr" THEN Await(tok.v, rest)
        ELSE IF tok.tag \in {"obj", "objid"} THEN Ask(BodyDue, rest)
        ELSE IF tok.tag \in {"ref", "enum"} THEN Ask(ValueDue, rest)
        ELSE rest

\* f[i] is due after i tokens of b
Parses(b, f) ==
    /\ f \in [0..Len(b) -> Stack]
    /\ f[0] = Ask(ValueDue, << >>)
    /\ \A i \in 1..Len(b) : Allows(f[i - 1], b[i]) /\ f[i] = Leaves(f[i - 1], b[i])
=============================================================================
