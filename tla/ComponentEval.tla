---------------------------- MODULE ComponentEval ----------------------------
(***************************************************************************)
(* Declarations of components and the reader of a task's parameters.       *)
(*                                                                         *)
(* A component's author declares attributes, inputs and outputs; the       *)
(* declaration is checked, turned into a protobuf definition, and the      *)
(* definition decides which parameters of a task the reader accepts and    *)
(* which values it hands to the task.                                      *)
(*                                                                         *)
(* A name is a sequence of parts, and joining names is concatenation; a    *)
(* name of the source is one part, or is split where a joined name could   *)
(* equal it: "input/t/c" is <<"input", "/", "t", "/", "c">>.  A value is a *)
(* sequence, of length 1 for an attribute that is not a list.  A float is  *)
(* an integer that counts steps of double precision.                       *)
(***************************************************************************)
EXTENDS Integers, Sequences, SequencesExt

CONSTANTS None,        \* Python's None
          AtomicFields \* fields of the message AtomicAttrDesc of the spec

-----------------------------------------------------------------------------
(* Numbers (external).                                                     *)

(* Protobuf's float has single precision: every fourth step.               *)
Single(v) == 4 * ((v + 2) \div 4)

(* math.isclose: its tolerance is less than a step of single precision.    *)
IsClose(a, b) == a - b \in -1..1

(* Protobuf's accessors of an attribute never set give these.              *)
Zero(kind) ==
  CASE kind = "float" -> 0 [] kind = "int" -> 0
    [] kind = "str" -> "" [] kind = "bool" -> FALSE

(* What a protobuf message keeps of a value.                               *)
Stored(kind, s) ==
  IF kind = "float" THEN [i \in 1..Len(s) |-> Single(s[i])] ELSE s

StoredBound(kind, b) == IF b = None THEN Zero(kind) ELSE Stored(kind, <<b>>)[1]

-----------------------------------------------------------------------------
(* Sanity checks of a declaration (component.py).                          *)

NotReserved(name) == name \notin {<<"input">>, <<"output">>}

DefaultIfOptional(d) == d.is_optional => d.default_value # None

AllowedOrBounds(d) ==
  d.allowed_values = None \/ (d.lower_bound = None /\ d.upper_bound = None)

DefaultAllowed(d) ==
  d.allowed_values # None /\ d.default_value # None
    => ToSet(d.default_value) \subseteq ToSet(d.allowed_values)

BoundsOrdered(d) ==
  d.lower_bound # None /\ d.upper_bound # None => d.lower_bound <= d.upper_bound

(* Floats need only be close to be the same.                               *)
Same(d, v, w) == IF d.kind = "float" THEN IsClose(v, w) ELSE v = w

DefaultWithin(d) ==
  d.default_value # None => \A v \in ToSet(d.default_value) :
    /\ d.lower_bound # None =>
         v > d.lower_bound \/ (d.lower_bound_inclusive /\ Same(d, v, d.lower_bound))
    /\ d.upper_bound # None =>
         v < d.upper_bound \/ (d.upper_bound_inclusive /\ Same(d, v, d.upper_bound))

LengthsOrdered(d) ==
  d.list_min_length_inclusive # None /\ d.list_max_length_inclusive # None
    => d.list_min_length_inclusive <= d.list_max_length_inclusive

(* Setting a field the message does not have raises AttributeError.        *)
BoundsSettable(d) ==
  /\ d.lower_bound # None => "has_lower_bound" \in AtomicFields
  /\ d.upper_bound # None => "has_upper_bound" \in AtomicFields

float_attr(d) ==
  /\ NotReserved(d.name) /\ DefaultIfOptional(d) /\ AllowedOrBounds(d)
  /\ DefaultAllowed(d) /\ BoundsOrdered(d) /\ DefaultWithin(d)
  /\ LengthsOrdered(d) /\ BoundsSettable(d)

int_attr(d) ==
  /\ NotReserved(d.name) /\ DefaultIfOptional(d) /\ AllowedOrBounds(d)
  /\ DefaultAllowed(d) /\ BoundsOrdered(d) /\ DefaultWithin(d)
  /\ LengthsOrdered(d) /\ BoundsSettable(d)

str_attr(d) ==
  /\ NotReserved(d.name) /\ DefaultIfOptional(d) /\ DefaultAllowed(d)
  /\ LengthsOrdered(d)

bool_attr(d) ==
  NotReserved(d.name) /\ DefaultIfOptional(d) /\ LengthsOrdered(d)

attr_declared(d) ==
  CASE d.kind = "float" -> float_attr(d) [] d.kind = "int" -> int_attr(d)
    [] d.kind = "str" -> str_attr(d) [] d.kind = "bool" -> bool_attr(d)

DistDataType ==
  {"sf.table.vertical_table", "sf.table.individual", "sf.model.ss_sgd",
   "sf.model.sgb", "sf.rule.woe_binning", "sf.model.ss_xgb", "sf.report"}

check_io_def(io) == ToSet(io.types) \subseteq DistDataType

io_declared(io) == NotReserved(io.name) /\ check_io_def(io)

(* Every statement of the component's declaration returns.                 *)
Declared(c) ==
  /\ \A d \in ToSet(c.attrs) : attr_declared(d)
  /\ \A io \in ToSet(c.inputs) \cup ToSet(c.outputs) : io_declared(io)

-----------------------------------------------------------------------------
(* The definition.  The flags the reader looks at are not the ones the     *)
(* declaration sets, so they keep protobuf's FALSE.  The lengths of lists, *)
(* which the reader never looks at, are left out.                          *)

(* Fault: the allowed values do not go through the message.                *)
AttrDefUnstored(d) ==
  [name |-> d.name, kind |-> d.kind, is_list |-> d.is_list,
   is_optional |-> d.is_optional,
   default_value |-> IF d.default_value = None THEN <<>>
                     ELSE Stored(d.kind, d.default_value),
   allowed_values |-> IF d.allowed_values = None THEN <<>> ELSE d.allowed_values,
   lower_bound |-> StoredBound(d.kind, d.lower_bound),
   lower_bound_inclusive |-> d.lower_bound_inclusive,
   upper_bound |-> StoredBound(d.kind, d.upper_bound),
   upper_bound_inclusive |-> d.upper_bound_inclusive,
   lower_bound_enabled |-> FALSE, upper_bound_enabled |-> FALSE]

AttrDef(d) ==
  [name |-> d.name, kind |-> d.kind, is_list |-> d.is_list,
   is_optional |-> d.is_optional,
   default_value |-> IF d.default_value = None THEN <<>>
                     ELSE Stored(d.kind, d.default_value),
   allowed_values |-> IF d.allowed_values = None THEN <<>>
                      ELSE Stored(d.kind, d.allowed_values),
   lower_bound |-> StoredBound(d.kind, d.lower_bound),
   lower_bound_inclusive |-> d.lower_bound_inclusive,
   upper_bound |-> StoredBound(d.kind, d.upper_bound),
   upper_bound_inclusive |-> d.upper_bound_inclusive,
   lower_bound_enabled |-> FALSE, upper_bound_enabled |-> FALSE]

Names(s) == {s[i].name : i \in 1..Len(s)}

(* An input adds its name and the names of its columns to __argnames.      *)
InputNames(s) ==
  Names(s) \cup UNION {{s[i].name \o <<"_">> \o c : c \in Names(s[i].cols)} :
                         i \in 1..Len(s)}

(* No "is duplicate" is raised.                                            *)
Defined(c) ==
  /\ \A i, j \in 1..Len(c.attrs) : i # j => c.attrs[i].name # c.attrs[j].name
  /\ \A i \in 1..Len(c.inputs) :
       c.inputs[i].name \notin Names(c.attrs) \cup InputNames(SubSeq(c.inputs, 1, i - 1))
  /\ \A i \in 1..Len(c.outputs) :
       c.outputs[i].name \notin Names(c.attrs) \cup InputNames(c.inputs)
                                  \cup Names(SubSeq(c.outputs, 1, i - 1))

definition(c) ==
  [ident |-> c.ident, attrs |-> [i \in 1..Len(c.attrs) |-> AttrDef(c.attrs[i])],
   inputs |-> c.inputs, outputs |-> c.outputs]

-----------------------------------------------------------------------------
(* The reader (eval_param_reader.py).  A parameter is an Attribute of      *)
(* which one field is set: the one of its kind, a list or not.  Reading    *)
(* another field gives what protobuf has for a field that is not set.      *)

get_value(a, kind, is_list) ==
  IF a.kind = kind /\ a.is_list = is_list THEN a.value
  ELSE IF is_list THEN <<>> ELSE <<Zero(kind)>>

DefaultAttribute(a) ==
  [kind |-> a.kind, is_list |-> a.is_list, value |-> a.default_value, is_na |-> FALSE]

EmptyAttribute == [kind |-> "str", is_list |-> TRUE, value |-> <<>>, is_na |-> FALSE]

(* v is the value of an attribute that is not a list.                      *)
check_allowed_values(v, a) ==
  \/ a.is_list \/ a.kind = "bool" \/ a.allowed_values = <<>>
  \/ \E w \in ToSet(a.allowed_values) : Same(a, v[1], w)

HasBounds(a) == a.kind \in {"float", "int"} /\ ~a.is_list

check_lower_bound(v, a) ==
  \/ ~a.lower_bound_enabled \/ ~HasBounds(a) \/ v[1] > a.lower_bound
  \/ a.lower_bound_inclusive /\ Same(a, v[1], a.lower_bound)

check_upper_bound(v, a) ==
  \/ ~a.upper_bound_enabled \/ ~HasBounds(a) \/ v[1] < a.upper_bound
  \/ a.upper_bound_inclusive /\ Same(a, v[1], a.upper_bound)

(* Fault: one column too many.                                             *)
check_table_attr_col_cnt_off_by_one(ss, col) ==
  /\ col.min # 0 => Len(ss) >= col.min
  /\ col.max # 0 => Len(ss) <= col.max + 1

(* A limit of 0 is no limit.                                               *)
check_table_attr_col_cnt(ss, col) ==
  /\ col.min # 0 => Len(ss) >= col.min
  /\ col.max # 0 => Len(ss) <= col.max

(* attr_paths and attrs are zipped, so the longer one is cut.              *)
Zipped(inst) == 1..(IF Len(inst.attr_paths) < Len(inst.attrs)
                    THEN Len(inst.attr_paths) ELSE Len(inst.attrs))

(* A path is not repeated after an attribute that is not NA.               *)
PathsOnce(inst) ==
  \A i, j \in Zipped(inst) :
    i < j /\ inst.attr_paths[i] = inst.attr_paths[j] => inst.attrs[i].is_na

GivenAt(inst, path) ==
  {i \in Zipped(inst) : inst.attr_paths[i] = path /\ ~inst.attrs[i].is_na}

(* What _instance_attrs has for the attribute before it is checked.        *)
Chosen(inst, a) ==
  IF GivenAt(inst, a.name) = {} THEN DefaultAttribute(a)
  ELSE inst.attrs[CHOOSE i \in GivenAt(inst, a.name) : TRUE]

AttrValue(inst, a) == get_value(Chosen(inst, a), a.kind, a.is_list)

AttrRead(inst, a) ==
  LET v == AttrValue(inst, a)
  IN /\ GivenAt(inst, a.name) = {} => a.is_optional
     /\ {"lower_bound_enabled", "upper_bound_enabled"} \subseteq AtomicFields
     /\ check_allowed_values(v, a) /\ check_lower_bound(v, a) /\ check_upper_bound(v, a)

ColumnName(io, col) == <<"input", "/">> \o io.name \o <<"/">> \o col.name

Columns(def) ==
  UNION {{<<i, j>> : j \in 1..Len(def.inputs[i].cols)} : i \in 1..Len(def.inputs)}

ColumnAt(def, ij) == def.inputs[ij[1]].cols[ij[2]]
NameAt(def, ij) == ColumnName(def.inputs[ij[1]], ColumnAt(def, ij))

ColumnValue(inst, name) ==
  IF GivenAt(inst, name) = {} THEN EmptyAttribute.value
  ELSE get_value(inst.attrs[CHOOSE i \in GivenAt(inst, name) : TRUE], "str", TRUE)

(* A name met twice is a Python list by then, and has no field ss.         *)
ColumnsRead(inst, def) ==
  \A c \in Columns(def) :
    /\ NameAt(def, c) \notin Names(def.attrs)
    /\ \A e \in Columns(def) : NameAt(def, e) = NameAt(def, c) => e = c
    /\ check_table_attr_col_cnt(ColumnValue(inst, NameAt(def, c)), ColumnAt(def, c))

InputsRead(inst, def) ==
  /\ Len(inst.inputs) = Len(def.inputs)
  /\ \A i \in 1..Len(def.inputs) :
       def.inputs[i].types # <<>> => inst.inputs[i].type \in ToSet(def.inputs[i].types)

(* The reader's constructor returns.                                       *)
Accepts(inst, def) ==
  /\ inst.ident = def.ident
  /\ PathsOnce(inst)
  /\ \A i \in 1..Len(def.attrs) : AttrRead(inst, def.attrs[i])
  /\ InputsRead(inst, def)
  /\ ColumnsRead(inst, def)
  /\ Len(inst.output_uris) = Len(def.outputs)

AttrNamed(def, name) == CHOOSE a \in ToSet(def.attrs) : a.name = name
InputNamed(def, name) == CHOOSE i \in 1..Len(def.inputs) : def.inputs[i].name = name
OutputNamed(def, name) == CHOOSE i \in 1..Len(def.outputs) : def.outputs[i].name = name

(* What get_attr, get_input and get_output_uri then answer.                *)
Read(inst, def) ==
  [attrs |-> [n \in Names(def.attrs) \cup {NameAt(def, c) : c \in Columns(def)} |->
                IF n \in Names(def.attrs) THEN AttrValue(inst, AttrNamed(def, n))
                ELSE ColumnValue(inst, n)],
   inputs |-> [n \in Names(def.inputs) |-> inst.inputs[InputNamed(def, n)]],
   outputs |-> [n \in Names(def.outputs) |-> inst.output_uris[OutputNamed(def, n)]]]
===============================================================================
