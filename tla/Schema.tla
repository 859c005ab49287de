------------------------------- MODULE Schema -------------------------------
(***************************************************************************)
(* A PostgreSQL schema as far as migrations can get it wrong: a function   *)
(* from object names to definitions.  <<t>> is a table, <<t, c>> a column  *)
(* or a named index, constraint or trigger of t, <<t, c, "fkey">> the      *)
(* automatically named foreign key of column c.  Functions, types and      *)
(* sequences belong to the pseudo-table "db".  Column types, primary keys  *)
(* and the contents of tables are left out, except whether there are rows. *)
(***************************************************************************)
EXTENDS Naturals, Sequences, SequencesExt, TLC

(* an object, the columns it is on and the object it refers to *)
Object(kind, on, to) == [kind |-> kind, on |-> on, to |-> to]

(* columns: nullable, NOT NULL, or NOT NULL with a default in the database *)
Named(t, C, kind) == [k \in {<<t, c>> : c \in C} |-> Object(kind, {}, "")]
Nullable(t, C) == Named(t, C, "null")
Required(t, C) == Named(t, C, "not null")
Defaulted(t, C) == Named(t, C, "default")
ColumnKinds == {"null", "not null", "default"}

Index(t, name, on)        == <<t, name>> :> Object("index", on, "")
Check(t, name, on)        == <<t, name>> :> Object("check", on, "")
ForeignKey(t, c, to, del) == <<t, c, "fkey">> :> Object(del, {c}, to)
NamedKey(t, name, c, to, del) == <<t, name>> :> Object(del, {c}, to)
Function(name, body)      == <<"db", name>> :> Object(body, {}, "")
Trigger(t, name, when, f) == <<t, name>> :> Object(when, {}, f)
Type(name)     == <<"db", name>> :> Object("type", {}, "")
Sequence(name) == <<"db", name>> :> Object("sequence", {}, "")

(* statements *)
Create(f)      == [op |-> "create", new |-> f, old |-> {}]
CreateTable(t, f) == [op |-> "table", new |-> f @@ (<<t>> :> Object("table", {}, "")), old |-> {}]
Add(f)         == [op |-> "add", new |-> f, old |-> {}]     \* NOT NULL, no default
Alter(f)       == [op |-> "alter", new |-> f, old |-> {}]
Replace(f)     == [op |-> "replace", new |-> f, old |-> {}]
Drop(t, names) == [op |-> "drop", new |-> <<>>, old |-> {<<t, n>> : n \in names}]
DropKey(t, c)  == [op |-> "drop", new |-> <<>>, old |-> {<<t, c, "fkey">>}]
DropIfExists(t, names) == [op |-> "drop if", new |-> <<>>, old |-> {<<t, n>> : n \in names}]
DropTable(t)   == [op |-> "drop table", new |-> <<>>, old |-> {<<t>>}]
Raise          == [op |-> "raise", new |-> <<>>, old |-> {}]
RenameTable(t, u)     == [op |-> "rename table", new |-> <<>>, old |-> {<<t>>}, to |-> u]
RenameColumn(t, c, d) == [op |-> "rename", new |-> <<>>, old |-> {<<t, c>>}, to |-> d]

Failed == <<>> :> Object("failed", {}, "")

Without(s, K) == [k \in DOMAIN s \ K |-> s[k]]

(* indexes and constraints go with their column, a column's with its table *)
Dependents(s, K) == {k \in DOMAIN s : \E d \in K :
    \/ k = d
    \/ Len(d) = 1 /\ k[1] = d[1]
    \/ Len(d) = 2 /\ k[1] = d[1] /\ d[2] \in s[k].on}

(* a foreign key or a trigger elsewhere keeps a table or function in place *)
Referenced(s, K) == \E k \in DOMAIN s \ Dependents(s, K), d \in K : s[k].to = d[Len(d)]

Renamed(s, t, u) ==
    LET name(k) == IF k[1] = t THEN <<u>> \o Tail(k) ELSE k
        old(k)  == IF k[1] = u THEN <<t>> \o Tail(k) ELSE k
    IN  [k \in {name(j) : j \in DOMAIN s} |->
            [s[old(k)] EXCEPT !.to = IF @ = t THEN u ELSE @]]

ColumnRenamed(s, t, c, d) ==
    LET name(k) == IF k[1] = t /\ Len(k) > 1 /\ k[2] = c THEN <<t, d>> \o SubSeq(k, 3, Len(k)) ELSE k
        old(k)  == IF k[1] = t /\ Len(k) > 1 /\ k[2] = d THEN <<t, c>> \o SubSeq(k, 3, Len(k)) ELSE k
    IN  [k \in {name(j) : j \in DOMAIN s} |->
            [s[old(k)] EXCEPT !.on = IF k[1] = t /\ c \in @ THEN (@ \ {c}) \cup {d} ELSE @]]

Applicable(s, o, populated) ==
    /\ o.op \in {"create", "table", "add"} => DOMAIN o.new \cap DOMAIN s = {}
    /\ o.op \in {"create", "add", "replace"} => \A k \in DOMAIN o.new : <<k[1]>> \in DOMAIN s
    /\ o.op = "add" => ~ populated
    /\ o.op = "alter" => DOMAIN o.new \subseteq DOMAIN s
    /\ o.op \in {"create", "table"} => \A k \in DOMAIN o.new :
          o.new[k].to # "" => \E j \in DOMAIN s \cup DOMAIN o.new : j[Len(j)] = o.new[k].to
    /\ o.op \in {"drop", "drop table", "rename table", "rename"} => o.old \subseteq DOMAIN s
    /\ o.op \in {"drop", "drop table"} => ~ Referenced(s, o.old)
    /\ o.op # "raise"

(* one statement; a statement that fails rolls back the transaction *)
Execute(s, o, populated) ==
    IF s = Failed \/ ~ Applicable(s, o, populated) THEN Failed
    ELSE CASE o.op \in {"drop", "drop table", "drop if"} -> Without(s, Dependents(s, o.old \cap DOMAIN s))
           [] o.op = "rename table" -> Renamed(s, (CHOOSE k \in o.old : TRUE)[1], o.to)
           [] o.op = "rename" -> LET k == CHOOSE k \in o.old : TRUE IN ColumnRenamed(s, k[1], k[2], o.to)
           [] OTHER -> o.new @@ s

Run(s, ops, populated) == FoldLeft(LAMBDA t, o : Execute(t, o, populated), s, ops)

(* a revision file *)
Revision(up, down)   == [up |-> up, down |-> down, obsolete |-> FALSE]
(* one whose upgrade raises by now: the databases that went through it did so
   when it still ran *)
Obsolete(up, down)   == [up |-> up, down |-> down, obsolete |-> TRUE]
NotImplementedError  == <<Raise>>
=============================================================================
