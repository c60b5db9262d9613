-------------------------------- MODULE MCLab --------------------------------
(***************************************************************************)
(* A small laboratory: two documents, a baseline that reads one of them    *)
(* imperfectly, and a candidate.                                           *)
(***************************************************************************)
EXTENDS QualityLab, TLC

CONSTANTS p1, p2, a1, a2, c1, c2

Line(key, qty) == [key |-> key, qty |-> qty]
Doc(number, total, lines) ==
    [header |-> ("number" :> number @@ "total" :> total), lines |-> lines]

GoldDoc == Doc("n", "t", <<Line("x", 1), Line("y", 2)>>)
Misread == Doc("n", "u", <<Line("x", 1)>>)
Twice   == Doc("n", "t", <<Line("x", 3), Line("x", 1), Line("y", 2)>>)

Everything == {<<"number">>, <<"total">>} \cup ({"x", "y"} \X {"key", "qty"})
Output(doc, evidence, cost) == [document |-> doc, evidence |-> evidence, cost |-> cost]

MCDataset     == <<"invoice", "note">>
MCKind        == [d \in Docs |-> d]
MCGold        == [d \in Docs |-> GoldDoc]
MCPredictions ==
    [v \in Variants |-> [d \in Docs |->
        IF d = "note" THEN {Output(GoldDoc, Everything, {1})}
        ELSE IF v = "baseline" THEN {Output(Misread, Everything, {1})}
        ELSE {Output(Twice, Everything, {2}), Output(Misread, {}, {})}]]
MCThresholds ==
    [validFloor |-> <<1, 1>>, floor |-> <<1, 2>>, critical |-> {"number", "items"},
     costRequired |-> FALSE, costLimit |-> {<<2, 1>>}, targets |-> {"amount", "missing_line"}]

ActorSymmetry == Permutations(Runners) \cup Permutations(Admins)
=============================================================================
