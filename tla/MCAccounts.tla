----------------------------- MODULE MCAccounts -----------------------------
(* Instances of Accounts for TLC. *)
EXTENDS Accounts, TLC

CONSTANTS r1, r2, r3, t1, t2, t3, v1, v2

Ask(kind, claim, value, items) ==
  [kind |-> kind, claim |-> claim, valid |-> TRUE, value |-> value, items |-> items]

\* Three requests together: imports in opposite orders, one that names an unknown
\* stock, and the requests that can meet them; then writers of one value.
MCLoads ==
  {r1 :> a @@ r2 :> b @@ r3 :> c :
     a \in {Ask("import", v1, v2, <<t1, t2, t1>>), Ask("import", v1, v2, <<t2, t3>>)},
     b \in {Ask("import", v1, v1, <<t2, t1>>), Ask("add", v1, v1, <<t2>>)},
     c \in {Ask("remove", v1, v1, <<t2>>), Ask("remove", v1, v1, <<t1>>),
            Ask("memo", v1, v2, <<t2>>)}}
    \cup
  {r1 :> a @@ r2 :> b @@ r3 :> c :
     a \in {Ask("prefs", v2, v1, <<>>), Ask("memo", v1, v2, <<t1>>), Ask("memo", v1, v1, <<t1>>)},
     b \in {Ask("prefs", v1, v2, <<>>), Ask("rename", v1, v2, <<>>), Ask("add", v1, v2, <<t1>>)},
     c \in {Ask("remove", v2, v1, <<t1>>), Ask("read", v2, v1, <<>>),
            [Ask("prefs", v1, v1, <<>>) EXCEPT !.valid = FALSE], Ask("rename", NoValue, v1, <<>>),
            Ask("add", NoValue, v1, <<t3>>)}}
=============================================================================
