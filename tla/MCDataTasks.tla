------------------------------ MODULE MCDataTasks ------------------------------
(***************************************************************************)
(* Small tasks: exports by two parties, each component of compdef.py with  *)
(* its parameters right or wrong in one place, and components added to     *)
(* them whose declarations use the rest of component.py.                   *)
(***************************************************************************)
EXTENDS DataTasks

(* docs/architecture/apps/split.md shows a definition in JSON.             *)
DocumentedFields == {"lower_bound_enabled", "upper_bound_enabled"}

Attribute(kind, is_list, value) ==
  [kind |-> kind, is_list |-> is_list, value |-> value, is_na |-> FALSE]
NA == [kind |-> "str", is_list |-> FALSE, value |-> <<"">>, is_na |-> TRUE]
Dist(type) == [type |-> type]

(* Values given to an attribute of a component of compdef.py.              *)
Text(d) ==
  Attribute("str", d.is_list,
            IF d.name \in {<<"receiver/domain_id">>, <<"uploader/domain_id">>}
            THEN <<"alice">> ELSE d.name)

(* Every attribute given, an input of the declared type, a uri per output. *)
FullInst(c, values) ==
  [ident |-> c.ident,
   attr_paths |-> [i \in 1..Len(c.attrs) |-> c.attrs[i].name],
   attrs |-> values,
   inputs |-> [i \in 1..Len(c.inputs) |-> Dist("sf.table.individual")],
   output_uris |-> [i \in 1..Len(c.outputs) |-> "dm://output"]]

TextInst(c) == FullInst(c, [i \in 1..Len(c.attrs) |-> Text(c.attrs[i])])

(* The parameters with one thing wrong.                                    *)
Wrong(inst) ==
  {[inst EXCEPT !.ident.version = "0.0.2"],
   [inst EXCEPT !.attr_paths = Front(@)],
   [inst EXCEPT !.attrs[1] = NA],
   [inst EXCEPT !.attr_paths = Append(@, @[1]), !.attrs = Append(@, NA)],
   [inst EXCEPT !.inputs = Append(@, Dist("sf.report"))],
   [inst EXCEPT !.inputs = [i \in 1..Len(@) |-> Dist("sf.report")]],
   [inst EXCEPT !.output_uris = Append(@, "dm://more")]}

(* Unusual parameters that are read all the same.                          *)
Unusual(inst) ==
  {[inst EXCEPT !.attr_paths = <<@[1]>> \o @, !.attrs = <<NA>> \o @],
   [inst EXCEPT !.attr_paths = Append(@, <<"other">>), !.attrs = Append(@, NA)],
   [inst EXCEPT !.attr_paths = Append(@, <<"other">>)]}

Domains(name) == IF PartyCount(name) = 2 THEN <<"alice", "tee">> ELSE <<"alice">>

Task(added, inst, parties) ==
  [added |-> added, inst |-> inst, parties |-> parties, scope |-> "", before |-> {}]

(* Policies another task has left, and configurations with a scope.        *)
Granted(data, scope) ==
  [data |-> data, scope |-> scope, grantees |-> <<"bob">>, columns |-> <<"c">>]
Project == "authorization_info/project_id"
Before == {Granted("input", Project), Granted("other", Project), Granted("input", "p2")}

CapsuleTasks ==
  {[Task({}, TextInst(c), <<"alice">>) EXCEPT !.scope = s, !.before = b] :
     c \in {data_auth_comp, data_unauth_comp, data_delete_comp},
     s \in {"", Project, "p2"}, b \in SUBSET Before}

CompdefTasks ==
  UNION {{Task({}, inst, Domains(c.ident.name)) :
            inst \in {TextInst(c)} \cup Wrong(TextInst(c))} : c \in compdef}
  \cup {Task({}, inst, <<"alice">>) : inst \in Unusual(TextInst(data_auth_comp))}
  \cup {Task({}, TextInst(c), <<"tee">>) : c \in compdef}
  \cup {Task({}, [TextInst(data_delete_comp) EXCEPT !.ident.name = "train"],
             <<"alice">>)}

-----------------------------------------------------------------------------
(* Components an author could add.                                         *)

Decl(kind, is_list, is_optional, default_value, allowed_values) ==
  [kind |-> kind, name |-> <<"x">>, is_list |-> is_list, is_optional |-> is_optional,
   default_value |-> default_value, allowed_values |-> allowed_values,
   lower_bound |-> None, upper_bound |-> None,
   lower_bound_inclusive |-> TRUE, upper_bound_inclusive |-> FALSE,
   list_min_length_inclusive |-> None, list_max_length_inclusive |-> None]

Rate == Decl("float", FALSE, TRUE, <<6>>, <<6, 12>>)
Count == Decl("int", FALSE, TRUE, <<1>>, <<1, 2>>)
Mode == Decl("str", FALSE, TRUE, <<"a">>, <<"a", "b">>)
Flag == Decl("bool", FALSE, FALSE, None, None)
Modes == Decl("str", TRUE, TRUE, <<"a", "b">>, <<"a", "b">>)

Decls ==
  {Rate, Count, Mode, Flag, Modes,
   [Rate EXCEPT !.default_value = <<8>>],
   [Rate EXCEPT !.lower_bound = 4],
   [Rate EXCEPT !.allowed_values = None, !.lower_bound = 7],
   [Rate EXCEPT !.allowed_values = None, !.lower_bound = 8],
   [Rate EXCEPT !.allowed_values = None, !.lower_bound = 8, !.upper_bound = 4],
   [Count EXCEPT !.allowed_values = None],
   [Count EXCEPT !.allowed_values = None, !.upper_bound = 2],
   [Count EXCEPT !.allowed_values = None, !.upper_bound = 1],
   [Mode EXCEPT !.default_value = <<"c">>],
   [Mode EXCEPT !.default_value = None],
   [Mode EXCEPT !.is_optional = FALSE],
   [Mode EXCEPT !.name = <<"input">>],
   [Mode EXCEPT !.name = <<"t">>],
   [Mode EXCEPT !.name = <<"t", "_", "c">>],
   [Modes EXCEPT !.name = <<"input", "/", "t", "/", "c">>],
   [Modes EXCEPT !.list_min_length_inclusive = 2, !.list_max_length_inclusive = 1]}

Col(min, max) == [name |-> <<"c">>, min |-> min, max |-> max]
T(cols) == [name |-> <<"t">>, types |-> <<"sf.table.individual">>, cols |-> cols]

Added(attrs, cols, outputs) ==
  [ident |-> Ident("added"), attrs |-> attrs, inputs |-> <<T(cols)>>,
   outputs |-> outputs]

AddedComps ==
  {Added(<<d>>, <<>>, <<>>) : d \in Decls}
  \cup {Added(<<Mode>>, <<Col(1, 2)>>, <<>>),
        Added(<<Mode>>, <<Col(0, 1)>>, <<>>),
        Added(<<[Mode EXCEPT !.name = <<"t", "_", "c">>]>>, <<Col(1, 0)>>, <<>>),
        Added(<<[Modes EXCEPT !.name = <<"input", "/", "t", "/", "c">>]>>,
              <<Col(0, 0)>>, <<>>),
        Added(<<Mode, Mode>>, <<>>, <<>>),
        Added(<<Mode>>, <<Col(0, 0), Col(0, 0)>>, <<>>),
        Added(<<Mode>>, <<Col(0, 0)>>, <<Table(<<"t", "_", "c">>)>>),
        Added(<<Mode>>, <<>>, <<[Table(<<"o">>) EXCEPT !.types = <<"csv">>]>>)}

(* Values of its kind, allowed or not, and a value of another kind.        *)
Values(d) ==
  {Attribute("int", d.is_list, <<2>>), NA}
  \cup {Attribute(d.kind, d.is_list, v) :
          v \in CASE d.kind = "float" -> {<<6>>, <<12>>, <<20>>}
                 [] d.kind = "int" -> {<<1>>, <<2>>, <<3>>}
                 [] d.kind = "str" -> {<<"a">>, <<"b">>, <<"c">>}
                 [] d.kind = "bool" -> {<<TRUE>>}}

ColumnPath == <<"input", "/", "t", "/", "c">>

ColumnCounts(c) == IF c.inputs[1].cols = <<>> THEN {0} ELSE 0..3

AddedInsts(c) ==
  {[FullInst(c, [i \in 1..Len(c.attrs) |-> v]) EXCEPT
      !.attr_paths = Append(@, ColumnPath),
      !.attrs = Append(@, Attribute("str", TRUE, [i \in 1..n |-> "col"]))] :
     v \in Values(c.attrs[1]), n \in ColumnCounts(c)}
  \cup {[FullInst(c, <<>>) EXCEPT !.attr_paths = <<>>]}

MCTasks ==
  CompdefTasks \cup CapsuleTasks
  \cup UNION {{Task({c}, inst, <<"alice">>) : inst \in AddedInsts(c)} :
                c \in AddedComps}

(* These tasks and fields meet the conditions of the theorems.             *)
ASSUME ConditionsMet == FieldsDocumented /\ AuthorizationsTyped
===============================================================================
