-------------------------- MODULE MCWordNetServer --------------------------
(* Small instances of WordNetServer for TLC.                               *)
EXTENDS WordNetServer, TLC

Term(now, his, cooc) ==
    [df_now |-> now, df_history |-> his, cooc_term |-> [h \in Hash |->
        IF h \in DOMAIN cooc THEN cooc[h] ELSE End]]

Rel(now) == [num_history |-> 0, num_now |-> now]

\* Three terms of hashes 1, 2 and 3; term 1 is related to both others.
Dumped(weibos) ==
    [TermIndex  |-> [h \in Hash |-> IF h \in 1 .. 3 THEN h - 1 ELSE End],
     TermInfo   |-> <<Term(9, 0, (2 :> 0) @@ (3 :> 1)), Term(5, 20, 1 :> 2), Term(2, 0, 1 :> 3)>>,
     RelateInfo |-> <<Rel(4), Rel(2), Rel(4), Rel(2)>>,
     total      |-> [term_num |-> 3, sorted_relate_term_num |-> 4, weibo_num |-> weibos]]

\* Files that do not belong together, or not complete.
Torn == [Dumped(300) EXCEPT !.RelateInfo = <<Rel(4)>>]
Mixed == [Dumped(300) EXCEPT !.TermIndex[3] = End]
Rare == [Dumped(300) EXCEPT !.total.weibo_num = 1]
Unseen == [Dumped(300) EXCEPT !.TermInfo[2].df_now = 0, !.TermInfo[2].df_history = 0]
Empty == [Dumped(300) EXCEPT !.RelateInfo = << >>]

ImagesAll == {Dumped(300), Torn, Mixed, Rare, Unseen, Empty}
ImagesDumped == {Dumped(300)}

Qt(v) == [key |-> "qt", str |-> TRUE, value |-> v]
Content(h) == [key |-> "content", str |-> TRUE, value |-> h]
BadContent == [key |-> "content", str |-> FALSE, value |-> 0]
OtherKey == [key |-> "time", str |-> FALSE, value |-> 0]

Json(ps) == [json |-> TRUE, pairs |-> ps]

RequestsSmall ==
    {Json(<<Qt(0), Content(1)>>), Json(<<Qt(1), Content(1)>>), Json(<<Content(4), Qt(1)>>),
     Json(<<Qt(2), OtherKey, Content(2), Content(3)>>), Json(<<Qt(1)>>), Json(<<Content(2)>>),
     Json(<<Qt(1), BadContent>>), NoRequest}

Threads == Permutations(Worker)
=============================================================================
