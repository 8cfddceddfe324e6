---------------------------- MODULE MCStatements ----------------------------
EXTENDS Statements

I(n) == [type |-> "int", units |-> <<n>>]
S(s) == [type |-> "string", units |-> s]
Float == [type |-> "double", units |-> <<1>>]

Col(n) == [kind |-> "column", name |-> n]
Lit(l) == [kind |-> "literal", lit |-> l]
Op(op, l, r) == [kind |-> "op", op |-> op, left |-> l, right |-> r]

MCTypes == <<"INTEGER", "VARCHAR", "INTEGER">>
MCNames == <<"a", "b", "c">>

(* Partial column lists, one column twice, a name that is no column, an    *)
(* integer past the width, a string of two characters, wrong types.        *)
MCInserts ==
    {[names |-> <<"a", "b", "c">>, literals |-> <<I(1), S(<<>>), I(5)>>],
     [names |-> <<"c", "b">>, literals |-> <<I(1), S(<<1, 2>>)>>],
     [names |-> <<"a", "a">>, literals |-> <<I(1), I(0)>>],
     [names |-> <<"x", "b">>, literals |-> <<I(1), S(<<2>>)>>],
     [names |-> <<"y", "b">>, literals |-> <<I(1), I(1)>>],
     [names |-> <<"c">>, literals |-> <<Float>>]}

MCSets ==
    {[names |-> <<"b">>, literals |-> <<S(<<1>>)>>],
     [names |-> <<"c", "a">>, literals |-> <<I(0), I(5)>>],
     [names |-> <<"b", "x">>, literals |-> <<S(<<2, 1>>), I(1)>>],
     [names |-> <<"a">>, literals |-> <<Float>>]}

AIsC == Op("EQ", Col("a"), Col("c"))
BLike == Op("LIKE", Col("b"), Lit(S(<<1>>)))

MCWheres ==
    {[kind |-> "none"],
     Op("EQ", Col("a"), Lit(I(1))),
     Op("AND", Op("LTE", Col("c"), Lit(I(0))), BLike),
     Op("OR", AIsC, Op("NLIKE", Col("b"), Lit(S(<<1>>)))),
     Op("AND", AIsC, Col("b")),
     Op("OR", Op("GT", Col("b"), Lit(S(<<1>>))), Op("NEQ", Col("x"), Lit(I(1)))),
     Op("GTE", Lit(S(<<1, 2>>)), Col("b")),
     Op("OR", Op("LT", Col("a"), Col("c")), Op("EQ", Col("a"), Col("b"))),
     Op("EQ", Op("ADD", Col("a"), Lit(I(1))), Lit(I(1))),
     Op("NOT", AIsC, [kind |-> "none"]),
     Col("c")}

Star == [kind |-> "star"]
Other == [kind |-> "other"]

(* A star alone and beside a column; columns exchanged, repeated, of other *)
(* types, unknown; an item that is dropped from the list.                  *)
MCSelectLists ==
    {<<Star>>, <<Star, Col("a")>>, <<Col("c")>>, <<Other>>, <<Star, Other>>,
     <<Col("c"), Col("b"), Col("a")>>, <<Col("c"), Col("b")>>,
     <<Col("a"), Other, Col("b")>>, <<Col("b"), Col("a")>>,
     <<Col("c"), Col("b"), Col("c")>>, <<Col("x"), Col("b")>>,
     <<Col("a"), Col("b"), Col("c"), Col("a")>>}
=============================================================================
