----------------------------- MODULE MCRuntime -----------------------------
(***************************************************************************)
(* The inputs of the runtime for TLC.  Applications, logs and queries vary *)
(* one at a time, the other two being a fixed sample: the phases share no  *)
(* state, and the sum of the three families stays small.                   *)
(***************************************************************************)
EXTENDS Queries

MCClasses == {"root", "a", "b", "c"}
Tables == MCClasses \ {"root"}

App(uses, refs, keyed, keyref, bare) ==
  [roots |-> {"root"}, uses |-> uses, refs |-> refs, keyed |-> keyed,
   keyref |-> keyref, indexed |-> Tables, bare |-> bare, wrong |-> {}]

None == [c \in MCClasses |-> {}]

(* Every way in which three classes can name at most two of each other. *)
UsesApps ==
  {[App(uses, None, {}, None, {}) EXCEPT !.indexed = {}, !.roots = {"root", "b"}] :
     uses \in {u \in [MCClasses -> SUBSET Tables] :
                 u["root"] \in {{}, {"a"}} /\ \A c \in Tables : Cardinality(u[c]) <= 2}}

(* References between a and b, by class or by name, and c to both, with    *)
(* the keys, key references and missing props that make DDL fail.          *)
RefsApps ==
  {App([None EXCEPT !["root"] = used], [None EXCEPT !["a"] = ra, !["b"] = rb, !["c"] = {"a", "b"}],
       keyed, [None EXCEPT !["a"] = ka], bare) :
     used \in {Tables, {"a", "c"}}, ra \in SUBSET {"a", "b"}, rb \in SUBSET {"a", "b"},
     keyed \in {Tables, {"a"}}, ka \in {{}, {"b"}}, bare \in {{}, {"c"}}}

SampleApp == App(None, None, {}, None, {})
WrongApps == {[SampleApp EXCEPT !.wrong = w, !.roots = r] :
                w \in {{"handlers"}, {"bootstrap"}}, r \in {{}, Tables}}
MCApps == UsesApps \cup RefsApps \cup WrongApps \cup {SampleApp}

MCVersions == 0..3
MCJobs ==
  {[version |-> v, defined |-> d, transform |-> t @@ (0 :> Throws), log |-> log,
    rejects |-> r] :
     v \in {1, 3}, d \in BOOLEAN,
     t \in [1..3 -> 1..3 \cup {NoVersion, Throws}],
     log \in {<<1, 3>>, <<2, 1>>, <<1, 0>>}, r \in {{}, {3, NoVersion}}}
SampleJob == [version |-> 2, defined |-> TRUE, transform |-> [v \in 0..3 |-> 2], log |-> <<>>,
              rejects |-> {}]

Leaf(alias, sig) == [alias |-> alias, sig |-> sig, props |-> <<>>]
Leaves == {Leaf(alias, sig) : alias \in {"x", "y"}, sig \in {1, 2}}
Branches == {[alias |-> "x", sig |-> 1, props |-> <<k>>] : k \in Leaves}
Trees == Leaves \cup Branches
         \cup {[alias |-> "x", sig |-> 1, props |-> ks] : ks \in TupleOf(Branches \cup Leaves, 2)}
PropsQueries ==
  {[kind |-> "props", ast |-> ast, rows |-> <<>>] :
     ast \in TupleOf(Trees, 2) \cup TupleOf(Leaves \cup Branches, 3)}

Filter(name, op, n, k) == [name |-> name, op |-> op, n |-> n, k |-> k]
Filters == {Filter("where", op, 2, k) : op \in {"=", "<"}, k \in {0, 1}}
           \cup {Filter("slice", "", n, k) : n \in {0, 1}, k \in {1, 2}}
           \cup {Filter("take", "", n, 0) : n \in {0, 2}}
           \cup {Filter(name, "", 0, 0) : name \in {"sort", "first", "count", "unique"}}
FiltersQueries ==
  {[kind |-> "filters", ast |-> ast, rows |-> rows] :
     ast \in BoundedSeq(Filters, 3), rows \in {<<2, 1>>, <<1, 3, 2, 1>>}}

Prop(name, plucks, props) == [name |-> name, plucks |-> plucks, props |-> props]
Ends == {Prop("z", <<>>, props) : props \in {<<>>, <<"id">>}}
Nested == Ends \cup {Prop("y", p, props) : p \in TupleOf(Ends, 1) \cup TupleOf(Ends, 2), props \in {<<>>, <<"name">>}}
PlucksQueries ==
  {[kind |-> "plucks", ast |-> Prop("q", p, props), rows |-> <<>>] :
     p \in BoundedSeq(Nested, 3), props \in {<<>>, <<"addr">>}}

SampleQuery == [kind |-> "props", ast |-> <<>>, rows |-> <<>>]

MCInputs ==
  [app : MCApps, job : {SampleJob}, query : {SampleQuery}]
  \cup [app : {SampleApp}, job : MCJobs, query : {SampleQuery}]
  \cup [app : {SampleApp}, job : {SampleJob},
        query : PropsQueries \cup FiltersQueries \cup PlucksQueries]
AllJobs == MCJobs \cup {SampleJob}
=============================================================================
