------------------------------ MODULE MCCatalogue ------------------------------
(* A small instance of Catalogue for TLC. *)
EXTENDS Catalogue

CONSTANTS north, south, s1, tea

\* One item, kept in two warehouses (their documents in either order), and one
\* kept in no warehouse.
KeptIn(id, w, q) == [id |-> id, warehouse |-> w, qty |-> q, point |-> 1]
Kept == [id |-> <<0, 1>>, sku |-> s1, places |-> <<<<0, 1>>, <<0, 2>>>>]
Placeless == [id |-> <<0, 2>>, sku |-> NoSku, places |-> <<>>]
TwoPlaces(q, r) == {<<KeptIn(<<0, 1>>, north, q), KeptIn(<<0, 2>>, south, r)>>,
                    <<KeptIn(<<0, 2>>, south, r), KeptIn(<<0, 1>>, north, q)>>}
MCStocks ==
  [items: {<<Kept>>, <<Kept, Placeless>>}, places: UNION {TwoPlaces(q, 2) : q \in 0 .. 1}]

CreateTea == [kind |-> "CREATE", sku |-> NoSku, names |-> <<tea, tea>>,
              warehouse |-> north, point |-> 1]
CreateCoded == [CreateTea EXCEPT !.sku = s1]
Right == [form |-> "right", sku |-> s1, point |-> NoPoint]
Import(last) == [kind |-> "IMPORT", warehouse |-> north,
                 rows |-> <<Right, [Right EXCEPT !.form = last]>>]
OnKept(kind) == [kind |-> kind, item |-> Kept.id]
In(c, w) == [kind |-> c.kind, item |-> c.item, warehouse |-> w]
Assign(w) == [kind |-> "ASSIGN", item |-> Kept.id, warehouse |-> w, point |-> 2]
EditPlace == [Assign(south) EXCEPT !.kind = "EDIT_PLACE"]
Category(kind) == [kind |-> kind, name |-> tea]

Imported == [kind |-> "ASSIGN", item |-> <<1, 1>>, warehouse |-> south, point |-> 2]
Coded == [kind |-> "EDIT", item |-> Kept.id, sku |-> s1]

\* Three overlapping requests for one item; two at a time with edits and imports
\* of files that are broken or lack a column; and creations among categories.
MCLoads == {
  [calls |-> {Assign(south), In(OnKept("TAKE_OUT"), north), In(OnKept("TAKE_OUT"), south),
              OnKept("REMOVE")},
   atOnce |-> 3, inAll |-> 3],
  [calls |-> {In(OnKept("TAKE_OUT"), north), EditPlace, Import("broken"), Imported},
   atOnce |-> 2, inAll |-> 3],
  [calls |-> {CreateTea, CreateCoded, Category("CATEGORY"), Category("NO_CATEGORY"),
              Import("unknown"), Coded, OnKept("REMOVE")},
   atOnce |-> 2, inAll |-> 3]}
=============================================================================
