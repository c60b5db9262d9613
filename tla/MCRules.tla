------------------------------ MODULE MCRules ------------------------------
(***************************************************************************)
(* Small deliveries: two goods on two lines, and one good on two lines     *)
(* with different prices.  Rice and flour are written in Chinese: the      *)
(* workspace keeps them apart and the legacy strips both to nothing.  Milk *)
(* written full-width is milk in the workspace and nothing in the legacy.  *)
(* The supplier wei is written in Chinese too.                             *)
(***************************************************************************)
EXTENDS DeliveryDocuments

Milk     == [key |-> "milk", match |-> "milk"]
WideMilk == [key |-> "milk", match |-> "nothing"]
Bread    == [key |-> "bread", match |-> "bread"]
Rice     == [key |-> "rice", match |-> "nothing"]
Flour    == [key |-> "flour", match |-> "nothing"]

Bought(good, qty, price, tax) ==
    [key |-> good.key, match |-> good.match, unit |-> "each", qty |-> qty, price |-> {price},
     total |-> {qty * price}, tax |-> {tax}, free |-> tax = 0]
InvoiceOf(items, subtotal, tax) ==
    [number |-> "bill", supplier |-> [abn |-> "", name |-> "acme"], location |-> "shop",
     currency |-> "AUD", po |-> {"PO-1"}, day |-> 100, subtotal |-> {subtotal}, tax |-> {tax},
     total |-> {subtotal + tax}, items |-> items]

MCTexts == {"", "bill", "note", "acme", "wei", "shop", "depot", "AUD", "NZD", "each", "milk", "bread",
            "rice", "flour", "nothing", "PO-1", "PO1", "po1", "PO-2", "po2"}
MCOriginals == {InvoiceOf(<<Bought(Milk, 3, 10, 3), Bought(Rice, 1, 7, 0)>>, 37, 3),
                InvoiceOf(<<Bought(Milk, 3, 10, 3), Bought(Milk, 1, 13, 1)>>, 43, 4)}
MCGoods == {Bread, WideMilk, Flour}
MCNormal == [text \in MCTexts |->
                CASE text \in {"PO-1", "PO1"} -> "po1" [] text = "PO-2" -> "po2" [] OTHER -> text]
MCStripped == [MCNormal EXCEPT !["wei"] = ""]
MCHeaders == {<<"po", {"PO1"}>>, <<"po", {"PO-2"}>>, <<"po", {""}>>, <<"currency", "NZD">>,
              <<"number", "note">>, <<"day", 40>>, <<"day", 60>>, <<"location", "depot">>,
              <<"supplier", [abn |-> "", name |-> "wei"]>>}
=============================================================================
