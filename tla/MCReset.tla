------------------------------ MODULE MCReset ------------------------------
(* Reset for model checking: two fetchers, two inserters, a channel that   *)
(* holds one page, and places at the bounds of the price bands.            *)
EXTENDS Reset

P(id, row, seat, isFree) == [id |-> id, row |-> row, seat |-> seat, isFree |-> isFree]

SmallCatalogue ==
    <<{P("a", 1, 1, TRUE), P("b", 10, 1000, TRUE), P("c", 11, 1, FALSE)},
      {P("d", 25, 1000, TRUE), P("e", 26, 1, TRUE), P("f", 45, 1000, TRUE)},
      {P("g", 46, 1, FALSE), P("h", 70, 1000, TRUE), P("i", 71, 1, TRUE)},
      {}>>
=============================================================================
