------------------------------- MODULE MCMemo -------------------------------
(* Small instances of Memo for TLC: base tables "A" and "B", idempotent    *)
(* filters "S" and "T", and a join "J".  An expression means the set of    *)
(* its tables and filters, so that filters commute, filtering twice is     *)
(* filtering once, and a join with itself adds nothing.                    *)
EXTENDS Memo

FilterOps == {"A", "S", "T"}
JoinOps == {"A", "B", "J"}
MCArity(op) == CASE op \in {"A", "B"} -> 0 [] op = "J" -> 2 [] OTHER -> 1
MCSem(op, m) == IF op = "J" THEN m[1] \cup m[2] ELSE {op} \cup UNION {m[i] : i \in DOMAIN m}
MCColumns(m) == m \cap {"A", "B"}

(* Two buckets, which depend on the input groups alone.                    *)
MCBucketOf(op, ids) == IF ids = <<>> THEN 0 ELSE ids[Len(ids)] % 2

(* T(S(A)), and J(A, B).                                                   *)
Node(op, kids) == [op |-> op, kids |-> kids]
FilterQuery == <<Node("A", <<>>), Node("S", <<1>>), Node("T", <<2>>)>>
JoinQuery == <<Node("A", <<>>), Node("B", <<>>), Node("J", <<1, 2>>)>>
=============================================================================
