---------------------------- MODULE MCAdminPages ----------------------------
(* A table of two pages for one of the texts that can be searched, two rows *)
(* of users, and two telephone boxes whose suggestions differ in number.    *)
EXTENDS AdminPages, TLC

MCHits     == (Blank :> <<"u1", "u2">>) @@ ("a" :> <<"u1">>) @@ ("b" :> <<>>)
MCNameOf   == [r \in Rows |-> IF r = "u1" THEN "ann" ELSE "bob"]
MCLike     == (Blank :> <<"138", "139">>) @@ ("138" :> <<"138">>) @@ ("139" :> <<"139">>)
                @@ ("1 38" :> <<>>)
MCStripped == [t \in TelTexts |-> IF t = "1 38" THEN "138" ELSE t]
=============================================================================
