---------------------------- MODULE MCReplyDocument ----------------------------
EXTENDS ReplyDocument

(* Documents with a member of every type, one that is no object, one with  *)
(* all members, and what is left of a reply that is no JSON.               *)
SomeTexts ==
    LET Doc1(v) == Doc!Root("object", [Doc!Empty EXCEPT !["a"] = v])
    IN  {Doc!Root("array", Doc!Empty), Doc!Root("null", Doc!Empty)}
        \cup {Doc1(Doc!Plain(t)) : t \in Doc!Simple}
        \cup {Doc1(Doc!Value("array", <<t>>, Doc!NoMembers)) : t \in Doc!Simple}
        \cup {Doc1(Doc!Value("object", << >>, [Doc!NoMembers EXCEPT !["x"] = t])) :
                t \in Doc!Simple}
        \cup {Doc!Root("object", [k \in Keys |-> Doc!Value("object", << >>,
                                        [x \in Subkeys |-> "string"])])}
==============================================================================
