----------------------------- MODULE MCTuanDan -----------------------------
(* A province, two cities of which one is written with and without its     *)
(* tail, a county; landmarks at three depths, one name inside another, two *)
(* lines with one id, two with one name, a cycle and an unknown father.    *)
EXTENDS TuanDan, TLC

Line(name, id, father, type) == [name |-> name, id |-> id, father_id |-> father, type |-> type]

MCStem == ("beijing_shi" :> "beijing") @@ ("x_qu" :> "x") @@ ("mi_xian" :> "mi")
MCInside == {<<n, n>> : n \in Names} \cup {<<"gulou", "gulou_street">>}
MCCityLines == {Line("hebei", 1, 0, 1), Line("beijing_shi", 2, 1, 2), Line("langfang", 3, 1, 2),
                Line("langfang", 2, 1, 3), Line("mi_xian", 4, 2, 3), Line("x_qu", 5, 2, 3)}
MCLandmarkLines == {Line("gulou", 4, 2, 4), Line("gulou", 6, 3, 4), Line("gulou_street", 5, 4, 4),
                    Line("gulou_street", 7, 5, 5), Line("beijing", 2, 3, 4),
                    Line("gulou", 8, 7, 5), Line("gulou_street", 7, 8, 5)}
MCTexts == {{"beijing"}, {"langfang", "gulou"}, {"hebei", "gulou", "gulou_street"},
            {"beijing", "gulou", "gulou_street"}, {"gulou", "inn"}}
MCShopLines == {[name |-> "inn", id |-> 1, tag |-> "t"], [name |-> "bar", id |-> 2, tag |-> "t"]}
=============================================================================
